SPECIFICATION FairSpec
CONSTANTS
    MAX_SEND_BUFFER_SIZE = 4
    MaxPayloads = 5
    MaxLength = 2
    MaxReceived = 2
INVARIANTS
    DataIsKeptInOrder
    LossEndsTheConnection
    CallbacksFindForward
PROPERTY
    StopCompletes
CHECK_DEADLOCK FALSE
