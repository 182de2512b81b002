SPECIFICATION Spec
CONSTANTS
    main = main
    t1 = t1
    d1 = d1
    Thread = {main, t1}
    Main = main
    Dll = {d1}
    MaxContext = 2
    MaxRun = 2
    MaxSequence = 2
    MaxChanges = 3
    MaxStops = 1
INVARIANTS RestoreRewinds ThreadsAreKnown
PROPERTY RestoreEnds
CHECK_DEADLOCK FALSE
