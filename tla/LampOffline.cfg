SPECIFICATION FairSpec
CONSTANTS
    MaxMoves = 1
    MaxButtons = 1
    MaxCommands = 0
    MaxRestarts = 1
PROPERTIES
    AutoFollowsWindow
    PinsHeal
    SwitchWins
