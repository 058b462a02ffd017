SPECIFICATION Spec
CONSTANTS
    MaxFaults = 0
    MaxLosses = 0
    MaxRenegs = 0
CHECK_DEADLOCK FALSE
INVARIANT
    SimSelected
