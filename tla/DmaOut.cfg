SPECIFICATION FairSpec
CONSTANTS
    DmaChannels = {0, 1, 2, 3}
    PageBytes = 8
    Wrap = 32
    Addresses <- MCAddresses
    Sizes = {0, 1, 2, 5, 9}
    OutChannel = 1
    AsyncCalls <- MCAsyncCalls
    MaxCalls = 3
INVARIANTS BurstInPage OutArrives OnlyOddFails AsyncArrives
PROPERTIES DmaOutReturns
CHECK_DEADLOCK FALSE
