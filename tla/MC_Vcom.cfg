CONSTANTS
    TxSize = 4
    TxPacket = 2
    TxMod = 7
    QuietAck = TRUE
    RxSize = 4
    RxPacket = 2
    RxMod = 7
SPECIFICATION PortSpec
INVARIANTS TypeOK HostReadsStream RxTypeOK ReceivedInOrder
PROPERTIES EveryByteSent TransfersEnd PacketsTaken NewPacketsAccepted
