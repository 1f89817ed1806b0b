CONSTANTS
    NO_EVENT = NO_EVENT
    SYSTICK = SYSTICK
    USB = USB
    KEY = KEY
    H1 = H1
    H2 = H2
    Events <- MCEvents
    HandlerEvents <- MCHandlerEvents
    NoEvent <- NO_EVENT
    TickEvent <- SYSTICK
    UsbEvent <- USB
    QueueSize = 2
    QuietBoot = TRUE
    MaxDropped = 2
    Handlers <- MCHandlers
    NullHandler = NullHandler
    HandlersSize = 5
SPECIFICATION SchedulerSpec
INVARIANTS DrainedMeansDelivered IndicesAgree IInv Separate TableIInv
PROPERTIES FifoSpec SubscriptionsSpec
