SPECIFICATION Spec
CONSTANTS
    MaxSets = 2
    MaxRestarts = 1
    MaxFaults = 1
INVARIANTS
    TypeOK
    CopiesAgree
    SettledSurvives
    
CHECK_DEADLOCK FALSE
