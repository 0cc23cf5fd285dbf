CONSTANTS
    c1 = c1
    c2 = c2
    WorkerThread = w
    NoThread = none
    Clients <- TwoClients
    Stoppers <- EveryThread
    MaxCalls = 3

SPECIFICATION FairSpec

INVARIANTS
    TypeOK
    ServedInOrder
    NoLostWakeup
    FirstShutdownWaits
    StopsWhenDestroyed

PROPERTIES
    EventuallyStarted
    ShutdownReturns
    ImplementsExecutor
