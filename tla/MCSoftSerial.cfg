CONSTANTS
    Bits = 1
    BufSize = 5
    READCMD <- MCReadCmd
    Header <- MCHeader
    Values <- MCValues
    CRC <- MCCRC
    Stray <- MCStray
    MaxAsks = 2
    MaxNoise = 1
SPECIFICATION SoftSpec
INVARIANTS SoftTypeOK CommandWhole CountRight ValueTrue
PROPERTY LineFree
