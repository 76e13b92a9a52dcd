SPECIFICATION FairSpec
CONSTANTS
    MaxPresses = 1
    Touches <- MCTouches
    SemaphoreBits = 3
    Delay = 2
    FifoWords = 3
    DmaChannels = {0, 1}
    PageBytes = 16
    Wrap = 32
    MaxSize = 1
    MaxOffset = 1
    BufferSize = 2
    CachedAtStart = {0, 1}
    SeqCount = 2
    Tests = 2
    MaxRuns = 1
    MaxRepeated = 1
    MaxStale = 1
    Running <- MCRunning
INVARIANTS TokenKept SumUndisturbed ResultsRight
PROPERTIES Settles
CHECK_DEADLOCK FALSE
