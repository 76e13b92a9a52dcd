SPECIFICATION FairSpec
CONSTANTS
    Sources <- MCSources
    Btdmp <- MCBtdmp
    MemoryWords = 8
    BUFFER_BASE_1 = 2
    BUFFER_END_1 = 4
    BUFFER_BASE_2 = 6
    BUFFER_END_2 = 0
    FifoWords = 1
    MaxPresses = 2
INVARIANTS StaysInside
PROPERTIES DspAnswers
CHECK_DEADLOCK FALSE
