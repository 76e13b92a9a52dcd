SPECIFICATION FairSpec
CONSTANTS
    Sources = {"APBP", "BTDMP"}
    Btdmp <- MCBtdmp
    Apbp = "APBP"
    MaxMessages = 2
    EarlyMessages = TRUE
INVARIANTS HeartbeatsInOrder CountedOnce HandlerTakesAll
PROPERTIES CountsShown
