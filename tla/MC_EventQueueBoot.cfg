CONSTANTS
    NO_EVENT = NO_EVENT
    SYSTICK = SYSTICK
    USB = USB
    KEY = KEY
    Events <- MCEvents
    HandlerEvents <- MCHandlerEvents
    NoEvent <- NO_EVENT
    TickEvent <- SYSTICK
    UsbEvent <- USB
    QueueSize = 2
    QuietBoot = FALSE
    MaxDropped = 2
SPECIFICATION Spec
INVARIANT DrainedMeansDelivered
