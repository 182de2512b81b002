SPECIFICATION FairSpec
CONSTANTS
    main = main  worker = worker
    t1 = t1  t2 = t2  t3 = t3
    create = create  load = load
    ret1 = ret1  ret2 = ret2  ret3 = ret3
    NoRole = NoRole  NoId = NoId
    Address <- Addresses
    Thread = {t1, t2, t3}
    TrueAddress <- Identity
    Role = {main, worker}
    FirstRoles = {main}
    OriginalId <- Ids
    Program <- Scripts
    MicroSnapshots = 2
INVARIANTS ReplaysInOrder ReplayStackMatches
PROPERTIES EveryLoggedCallIsReplayed
CHECK_DEADLOCK FALSE
