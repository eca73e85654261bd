CONSTANTS
    Handlers = {h1, h2}
    Records = {r1, r2}
    Orders = {o1}
    Overlaps = {TRUE, FALSE}
    MaxFaults = 1
    None = none
SPECIFICATION FairSpec
INVARIANTS
    PaymentSound
    ConfirmedOnlyIfVerified
PROPERTIES
    ServedOnlyIfPaid
    SerialStatusFollowsFSM
    QRSettles
