SPECIFICATION Spec
CONSTANTS
    Sources <- MCSources
    Btdmp <- MCBtdmp
    Handles <- MCHandles
    Calls <- TwoSetups
    MaxCalls = 3
    MaxRequests = 1
INVARIANTS SetUpStaysEnabled
CHECK_DEADLOCK FALSE
