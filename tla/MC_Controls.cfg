CONSTANTS
    SYSTICK = SYSTICK
    CYCLIC_1 = CYCLIC_1
    CYCLIC_2 = CYCLIC_2
    USB = USB
    VCOM_RX = VCOM_RX
    KEY_PLAY = KEY_PLAY
    PAD_1 = PAD_1
    KEY_ANY = KEY_ANY
    PAD_ANY = PAD_ANY
    PLAY = PLAY
    PAD = PAD
    NoEvent = NoEvent
    Events <- MCEvents
    Sources <- MCSources
    EventOf <- MCEventOf
    Publishes <- MCPublishes
    QueueSize = 3
    IdleMod = 1
    KeyOrder <- MCKeyOrder
    PadOrder <- MCPadOrder
    PressEvent <- MCPressEvent
    KeyAny <- KEY_ANY
    PadAny <- PAD_ANY
    Cyclic1 <- CYCLIC_1
    Cyclic2 <- CYCLIC_2
    VcomRx <- VCOM_RX
SPECIFICATION ControlsSpec
INVARIANTS ControlsTypeOK SleptOnOnce LedsFollowPresses
PROPERTY PressesRun
