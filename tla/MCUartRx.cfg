CONSTANTS
    Size = 4
    Byte = {b1, b2}
    NoByte = NoByte
SPECIFICATION RxSpec
PROPERTIES RxFifoSpec
