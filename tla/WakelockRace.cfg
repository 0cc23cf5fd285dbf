CONSTANTS
    t1 = t1
    t2 = t2
    Threads <- TwoThreads
    NoInstance = none
    MaxUInt = 3
    MaxCalls = 5

SPECIFICATION Spec

INVARIANT
    SharedCount
