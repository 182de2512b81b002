SPECIFICATION Spec
CONSTANTS
    zero = zero
    one = one
    MaxPage = 3
    Content = {zero, one}
    Zero = zero
    Image = {1, 2}
    Trampoline = 3
    MaxRun = 2
    MaxSequence = 2
    MaxChanges = 3
PROPERTY RestoreIsExact
CHECK_DEADLOCK FALSE
