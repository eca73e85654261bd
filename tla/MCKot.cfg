CONSTANTS
    Handlers = {h1, h2}
    Kots = {k1}
    Items = {i1, i2}
    Orders = {o1}
    MaxUpdates = 2
    MaxFaults = 1
    OrderEvents = {"cancel"}
    None = none
SPECIFICATION FairSpec
INVARIANTS
    TypeOK
PROPERTIES
    NoStartSkipped
    LastItemCompletes
