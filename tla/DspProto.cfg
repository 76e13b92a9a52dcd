SPECIFICATION FairSpec
CONSTANTS
    SeqCount = 2
    Operands = {0, 1}
    Tables = {0}
    Jobs = {0}
    BufWords = 4
    Calls <- MCCalls
    NoTable = NoTable
    MaxCmds = 4
    MaxRepeated = 2
    MaxStale = 2
INVARIANTS TypeOK ExactlyOnce ArgumentMatches ReplyMatches UploadIntact
PROPERTIES UploadConfined CallReturns RemoteCall
CHECK_DEADLOCK FALSE
