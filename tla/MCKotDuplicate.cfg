CONSTANTS
    Handlers = {h1, h2}
    Kots = {k1, k2}
    Items = {i1}
    Orders = {o1}
    MaxUpdates = 0
    MaxFaults = 0
    OrderEvents = {}
    None = none
SPECIFICATION Spec
INVARIANT
    OneKOTPerOrder
