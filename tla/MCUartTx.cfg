\* UART0, the console
CONSTANTS
    Size = 3
    Byte = {b1, b2}
    NoByte = NoByte
    FrameBits = 10
    FlushBits = 11
SPECIFICATION TxSpec
INVARIANTS TxTypeOK FlushDrains
PROPERTIES TxFifoSpec CallsReturn
