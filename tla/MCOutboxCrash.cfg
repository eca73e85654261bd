CONSTANTS
    Pods = {p1, p2}
    Orders = {o1}
    NoOrder = none
    BatchLimit = 1
    MaxRetries = 2
    Flaky = FALSE
    MaxFaults = 1
SPECIFICATION FairSpec
PROPERTY
    PlacedOrderGetsKOT
