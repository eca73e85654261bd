CONSTANTS
    Handlers = {h1}
    Passwords = {p1}
    Wrong = wrong
    Role = waiter
    Devices = {"web"}
    ByRole <- NoRoles
    ByDevice <- NoRoles
    DefaultTtl <- OneTick
    Links = {}
    MaxSessions = 2
    HistoryDepth = 1
    StartAttempts = {0}
    MaxRequests <- OneRequest
    MaxTime = 1
    MaxFaults = 0
    Overlaps = {FALSE}
SPECIFICATION Spec
PROPERTY
    NewSessionsResolve
CHECK_DEADLOCK FALSE
