CONSTANTS
    None = None h1 = h1 h2 = h2 r1 = r1 r2 = r2 r3 = r3 a1 = a1 a2 = a2 p1 = p1 p2 = p2
    Handlers = {h1, h2}
    PodOf <- TwoPods
    Roles = {r1, r2, r3}
    SystemRoles = {}
    MaxRoles = 1
    TtlL1 = 1
    TtlL2 = 2
    MaxWrites = 2
    MaxTime = 4
    MaxFaults = 0
    Overlaps = {TRUE, FALSE}
    Requests = {a1, a2}
    Passwords = {p1, p2}
    Wrong = wrongPassword
    Role = waiter
    Devices = {"web", "mobile"}
    ByRole <- NoRoleTtl
    ByDevice <- MobileLonger
    DefaultTtl <- DefaultLifetimes
    Links = {1}
    MaxSessions = 1
    HistoryDepth = 1
    StartAttempts = {4, 9}
    MaxRequests <- RequestsTried
    AuthTime = 2
    AuthFaults = 1
SPECIFICATION AccessSpec
SYMMETRY Symmetry
INVARIANTS
    AccountSound
    RolesSound
PROPERTIES
    RevokedStaysRevoked
    RegisterSpec
CHECK_DEADLOCK FALSE
