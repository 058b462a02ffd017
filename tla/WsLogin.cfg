SPECIFICATION FairSpec
CONSTANTS
    Reporter = {r1}
    ReportOrder <- OneReport
    MaxOutages = 1
    MaxDrops = 1
    MaxConn = 2
    MaxUpdates = 0
    MaxRetries = 1
    MaxFreedReads = 0
    MaxRefusals = 1
    RxCap = 1
    TxCap = 1
PROPERTIES
    SessionComesUp
