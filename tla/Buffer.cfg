SPECIFICATION BufferSpec
CONSTANTS
    BUFFER_SIZE = 5
    Bytes <- TwoBytes
    NoByte <- MCNoByte
PROPERTIES
    ImplementsFifo
