CONSTANTS
    TxPeriod = 20
    RxPeriod = 21
    Bytes <- MCBytes
SPECIFICATION LinkSpec
PROPERTIES
    IsByteChannel
    EveryByteArrives
