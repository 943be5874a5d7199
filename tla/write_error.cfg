SPECIFICATION Spec
CONSTANTS
    ConnectionTypes = {"INBOUND", "OUTBOUND", "FEELER"}
    Sizes = {1, 2}
    DEFAULT_SEND_QUEUE_SIZE = 3
    SIZE_MAX = 5
    PING_TIMEOUT = 0
    INACTIVITY_TIMEOUT = 0
    MaxChunk = 2
    MaxChunks = 2
CHECK_DEADLOCK FALSE
INVARIANT
    NoRelock
