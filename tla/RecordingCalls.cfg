SPECIFICATION FairSpec
CONSTANTS
    t1 = t1  t2 = t2  t3 = t3
    create = create  terminate = terminate  load = load
    ret1 = ret1  ret2 = ret2  ret3 = ret3  ret4 = ret4
    Address <- Addresses
    Thread = {t1, t2, t3}
    TrueAddress <- Identity
    CreateThread = create
    TerminateThread = terminate
    LoadDll = load
    FirstThreads = {t1, t2}
    ReturnSites <- OwnSites
    Victims <- Anybody
    Recursion = FALSE
    MaxEvents = 3
    MaxDepth = 2
INVARIANTS PendingMatchesFrames NeverAborted LiveThreadsAreTracked
PROPERTY EveryCallIsLogged
CHECK_DEADLOCK FALSE
