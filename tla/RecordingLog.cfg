SPECIFICATION Spec
CONSTANTS
    t1 = t1  t2 = t2  t3 = t3
    create = create  terminate = terminate  load = load
    ret1 = ret1  ret2 = ret2  ret3 = ret3  ret4 = ret4
    Address <- Addresses
    Thread = {t1, t2, t3}
    TrueAddress <- Identity
    CreateThread = create
    TerminateThread = terminate
    LoadDll = load
    FirstThreads = {t1, t2}
    ReturnSites <- SharedSites
    Victims <- Anybody
    Recursion = TRUE
    MaxEvents = 4
    MaxDepth = 2
INVARIANTS LogSorted EveryEventOnce HoldsMatchPending
CHECK_DEADLOCK FALSE
