SPECIFICATION Spec
CONSTANTS
    MaxMoves = 1
    MaxButtons = 0
    MaxCommands = 1
    MaxRestarts = 0
INVARIANTS
    TypeOK
    LampMatchesRelayState
    ModeCopiesAgree
    AtMostOneLateOn
