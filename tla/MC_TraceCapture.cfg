CONSTANTS
    ANALOG_INPUTS = 2
    TRACE_SIZE = 3
    TRACE_DELAY = 2
    QueueSize = 2
    Packets = 2
    QuietGet = TRUE
    NoTrace = NoTrace
SPECIFICATION Spec
INVARIANTS TypeOK TriggerInPlace NothingStranded
PROPERTIES FrozenWhileSent FinishedIsSent
