CONSTANTS
    Calls = {c1}
    Keys = {k1}
    Tables = {t1}
    NoKey = noKey
    NoTable = noTable
    NoCall = noCall
    Overlaps = {FALSE}
    MaxFaults = 0
SPECIFICATION Spec
PROPERTY
    SeatsAvailableTable
