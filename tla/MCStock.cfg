CONSTANTS
    h1 = h1 h2 = h2 i1 = i1 i2 = i2 m1 = m1
    Handlers = {h1, h2}
    Items = {i1, i2}
    MenuItems = {}
    Points <- NoReorder
    Openings = {0}
    Deltas = {}
    MaxQty = 2
    MaxMoves = 4
    MaxFaults = 1
    Overlaps = {TRUE, FALSE}
    None = none
    PurchaseOrders = {p1}
    Ordered = 2
    MaxEntries = 1
    NoOrder = noOrder
SPECIFICATION MCSpec
INVARIANTS
    StockNeverNegative
    LowStockNoticed
    LedgerSound
    ReceivedWithinOrder
    ReceiptsSound
SYMMETRY Symmetry
