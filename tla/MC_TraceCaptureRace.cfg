CONSTANTS
    ANALOG_INPUTS = 2
    TRACE_SIZE = 3
    TRACE_DELAY = 2
    QueueSize = 2
    Packets = 2
    QuietGet = FALSE
    NoTrace = NoTrace
SPECIFICATION Spec
INVARIANT NothingStranded
