SPECIFICATION Spec
CONSTANTS
    Content = {zero, one}
    Zero = zero
    Absent = Absent
    MaxRun = 2
    MaxSeq = 2
INVARIANT CursorIsNearest
PROPERTY ImplementsRegister
CHECK_DEADLOCK FALSE
