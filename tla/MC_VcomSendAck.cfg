CONSTANTS
    TxSize = 4
    TxPacket = 2
    TxMod = 7
    QuietAck = FALSE
SPECIFICATION Spec
INVARIANT HostReadsStream
