SPECIFICATION Spec
CONSTANTS
    t1 = t1  t2 = t2
    entry = entry  ret1 = ret1  ret2 = ret2
    line = line  moved = moved  home = home  shell = shell
    Address <- Addresses
    Thread = {t1, t2}
    TrueAddress <- TrueAddresses
    EntryPoints = {entry}
    ReturnSites <- SharedSites
    UserSites = {line, moved}
    StepSets <- Steps
    Predecessors <- Targets
    ShellCode = shell
    MaxDepth = 1
    MaxHolds = 3
    MaxSnapshots = 1
    MaxRestores = 0
    Recursion = FALSE
    AskTwice = FALSE
INVARIANT HeldIsArmed
CHECK_DEADLOCK FALSE
