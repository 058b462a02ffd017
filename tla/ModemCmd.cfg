SPECIFICATION Spec
CONSTANTS
    PlainCmds = 1
    QueryCmds = 1
    MaxCmds = 4
    MaxUnasked = 1
CHECK_DEADLOCK FALSE
INVARIANTS
    TypeOK
    CleanStartExact
PROPERTIES
    Implements
