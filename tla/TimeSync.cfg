SPECIFICATION FairSpec
CONSTANTS
    MaxOffline = 1
    MaxPolls = 1
    MaxUserOps = 1
    MaxFixes = 1
    MaxFaults = 1
INVARIANT
    TypeOK
PROPERTIES
    RtcNeverForgets
    ScheduleKeepsRunning
    ForcedSyncSettles
