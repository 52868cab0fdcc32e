\* A graphical session with od_noexit and one operator request.
CONSTANTS
    Switch = {"keyboard"}
    TimeMax = 1
    MaxRequests = 1
    Subsystems = {"GUI"}
    NoExits = {TRUE}
    Hooks = TRUE
    MaxDepth = 6
SPECIFICATION Spec
\* The program ends: after od_exit nothing is left to do.
CHECK_DEADLOCK FALSE
INVARIANT NoExitLeftBehind
