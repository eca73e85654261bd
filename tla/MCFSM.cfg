CONSTANTS
    States <- MCStates
    Events <- MCEvents
    Transitions <- MCTransitions
    Terminal <- MCTerminal
    InitialState = "open"
    HistoryCapacity = 2
    Threads = {t1, t2, t3}
    NoThread = none
    MaxSeq = 4
SPECIFICATION FairSpec
INVARIANTS
    TypeOK
    OneSendAtATime
    ReadersExcludeSend
    HistoryFaithful
    HistoryComplete
PROPERTIES
    MovesAlongTransitions
    SendReturns
