SPECIFICATION FairSpec
CONSTANTS
    Sources = {"APBP", "BTDMP"}
    Btdmp <- MCBtdmp
    Apbp = "APBP"
    MaxMessages = 2
    EarlyMessages = FALSE
PROPERTIES EveryMessageReceived
