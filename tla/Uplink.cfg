SPECIFICATION FairSpec
CONSTANTS
    MaxFaults = 2
    MaxLosses = 2
    MaxRenegs = 1
CHECK_DEADLOCK FALSE
INVARIANTS
    TypeOK
    DialsOnlyWhenDown
    FlagFollowsLink
    NeverWaitsInVain
PROPERTIES
    LinkComesUp
    UpdateAttempted
