SPECIFICATION Spec
CONSTANTS
    Packets <- MCPackets
    Texts <- MCTexts
    MaxLen = 3
    BufSize = 11
    Args = 1
    Passes = 1
    CountMod = 4
    MaxLines = 4
    MaxLost = 2
CHECK_DEADLOCK FALSE
INVARIANTS TypeOK OthersArrive ResetEarned
PROPERTIES HearsAgain
