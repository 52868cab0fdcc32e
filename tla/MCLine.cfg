SPECIFICATION LineSpec
CONSTANTS
    Entries = 4
    MaxBytes = 2
    MaxKeys = 2
    RXQueueSize = 16
    ReadMax = 3
    Skid = 1
    Numbers = 3
    TXQueueSize = 3
    BufferMax = 4
    MaxForms = 2
    TextMax = 2
    Buffers = 2
    SEQUENCE_BUFFER_SIZE = 5
    MaxQueued = 2
    MaxPending = 5
    Modes = {"normal", "rawctrl", "raw"}
INVARIANTS
    LineTypeOK
    SemaphoreCounts
    NoByteLost
    PairsStayTogether
    TransmitterArmed
    DrainedIsSent
    FlowControlWorks
    TelnetIsTransparent
    PortChangesHands
    BytesAccounted
PROPERTIES
    ImplementsFifo
    RingsKeepOrder
    OldestLeaves
    TranslatesLongest
    OnlyUnknownOverruns
VIEW View
\* A part may stop for good: a closed socket, a user who has sent all bytes.
CHECK_DEADLOCK FALSE
