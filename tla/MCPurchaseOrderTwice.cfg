CONSTANTS
    Handlers = {h1}
    Items = {i1}
    MenuItems = {}
    Points <- MCPoints
    Openings = {0}
    Deltas = {}
    MaxQty = 2
    MaxMoves = 3
    MaxFaults = 0
    Overlaps = {FALSE}
    None = none
    PurchaseOrders = {p1}
    Ordered = 1
    MaxEntries = 2
    NoOrder = noOrder
SPECIFICATION Spec
INVARIANT
    NeverExceedsOrdered
