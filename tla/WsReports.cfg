SPECIFICATION Spec
CONSTANTS
    Reporter = {r1, r2}
    ReportOrder <- TwoReports
    MaxOutages = 0
    MaxDrops = 0
    MaxConn = 1
    MaxUpdates = 2
    MaxRetries = 0
    MaxFreedReads = 0
    MaxRefusals = 0
    RxCap = 1
    TxCap = 2
SYMMETRY Interchangeable
INVARIANTS
    TypeOK
    ServerInStep
