SPECIFICATION BlockingSpec
CONSTANTS
    Zero = 0
    CheapPrepend = 1
    InitialSize = 3
    ExtraSize = 2
    SizeMod = 128
    SendBuffer = 2
    MaxIn = 5
    MaxLen = 3
INVARIANT AnswersIntact
CHECK_DEADLOCK FALSE
