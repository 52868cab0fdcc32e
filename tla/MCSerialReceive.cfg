SPECIFICATION Spec
CONSTANTS
    RXQueueSize = 8
    ReadMax = 1
    Skid = 0
    Numbers = 2
PROPERTIES
    ClearedCallerMaySend
VIEW View
