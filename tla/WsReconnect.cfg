SPECIFICATION Spec
CONSTANTS
    Reporter = {r1}
    ReportOrder <- OneReport
    MaxOutages = 0
    MaxDrops = 0
    MaxConn = 2
    MaxUpdates = 1
    MaxRetries = 1
    MaxFreedReads = 1
    MaxRefusals = 0
    RxCap = 1
    TxCap = 1
INVARIANTS
    LoggedInHere
    ServerInStep
