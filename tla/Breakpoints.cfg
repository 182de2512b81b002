SPECIFICATION Spec
CONSTANTS
    t1 = t1  t2 = t2
    entry = entry  ret1 = ret1  ret2 = ret2
    line = line  moved = moved  home = home  shell = shell
    Address <- Addresses
    Thread = {t1, t2}
    TrueAddress <- TrueAddresses
    EntryPoints = {entry}
    ReturnSites <- MixedSites
    UserSites = {line, moved}
    StepSets <- Steps
    Predecessors <- Targets
    ShellCode = shell
    MaxDepth = 2
    MaxHolds = 2
    MaxSnapshots = 2
    MaxRestores = 2
    Recursion = FALSE
    AskTwice = FALSE
INVARIANTS TypeOK CountMatchesHolders OpenCallsAreCaught NoStrayInt3
    EntryPointsStayArmed ReverseLeavesNothingHeld
PROPERTY StepLeavesNoTrace
CHECK_DEADLOCK FALSE
