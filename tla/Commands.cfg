SPECIFICATION Spec
CONSTANTS
    a1 = a1
    a2 = a2
    a3 = a3
    entry = entry
    t1 = t1
    t2 = t2
    Address = {a1, a2, a3, entry}
    Thread = {t1, t2}
    TrueAddress <- Identity
    Flow <- LoopFlow
    EntryPoints = {entry}
    UserSites = {a1, a2}
    StepStops <- Stops
    Branching = {a3}
    ReturnSite = a3
    Main = t1
    Known = {t1, t2}
    MaxCommands = 5
    MaxOthers = 1
INVARIANTS PromptLeavesBreakpoints SuspendCountsBalance FrozenWhileLifted
PROPERTY LiftedIsLowered
CHECK_DEADLOCK FALSE
