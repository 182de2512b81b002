SPECIFICATION Spec
CONSTANTS
    Programs <- SomePrograms
    MaxDepth = 4
    MaxCount = 4
    MaxSteps = 1
    MaxMisses = 1
    Region = 1000
    Targets = {2, 5}
    Breakpoints <- SomeBreakpoints
    Misdecoded <- OutOfStep
INVARIANTS NeverInsideAPatch StackWalkFindsCallers MomentsAreUnique PredecessorsComplete
    LinePredecessorsComplete
    IntoPredecessorsComplete StepStaysOnLine
PROPERTY ImplementsProgram
CHECK_DEADLOCK FALSE
