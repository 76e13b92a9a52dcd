SPECIFICATION FairSpec
CONSTANTS
    MaxPresses = 0
    Touches <- MCTouches
    SemaphoreBits = 3
    Delay = 2
    FifoWords = 3
    DmaChannels = {0, 1}
    PageBytes = 16
    Wrap = 32
    MaxSize = 2
    MaxOffset = 1
    BufferSize = 4
    CachedAtStart = {}
    SeqCount = 2
    Tests = 2
    MaxRuns = 1
    MaxRepeated = 1
    MaxStale = 1
    Running = {"dma_dsp_to_arm"}
INVARIANTS SumRight
CHECK_DEADLOCK FALSE
