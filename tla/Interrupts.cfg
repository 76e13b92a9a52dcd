SPECIFICATION FairSpec
CONSTANTS
    Sources <- MCSources
    Btdmp <- MCBtdmp
    Handles <- MCHandles
    Calls <- AllCalls
    MaxCalls = 4
    MaxRequests = 2
INVARIANTS DisabledStays SettledPolarity HandlerServes
PROPERTIES Served
CHECK_DEADLOCK FALSE
