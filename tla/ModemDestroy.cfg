SPECIFICATION Spec
CONSTANTS
    PlainCmds = 1
    QueryCmds = 1
    MaxCmds = 2
    MaxUnasked = 0
CHECK_DEADLOCK FALSE
INVARIANTS
    NoEventAfterDestroy
