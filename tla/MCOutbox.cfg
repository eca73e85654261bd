CONSTANTS
    Pods = {p1, p2}
    Orders = {o1, o2}
    NoOrder = none
    BatchLimit = 1
    MaxRetries = 2
    Flaky = TRUE
    MaxFaults = 1
SPECIFICATION FairSpec
INVARIANTS
    OutboxSound
PROPERTIES
    EventSettles
