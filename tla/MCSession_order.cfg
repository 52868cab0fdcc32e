\* A graphical session with three operator requests.
CONSTANTS
    Switch = {"keyboard"}
    TimeMax = 1
    MaxRequests = 3
    Subsystems = {"GUI"}
    NoExits = {FALSE}
    Hooks = TRUE
    MaxDepth = 6
SPECIFICATION Spec
\* The program ends: after od_exit nothing is left to do.
CHECK_DEADLOCK FALSE
INVARIANT RequestsInOrder
