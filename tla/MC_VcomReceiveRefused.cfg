CONSTANTS
    RxSize = 4
    RxPacket = 2
    RxMod = 7
SPECIFICATION RxSpec
PROPERTY HostGoesOn
