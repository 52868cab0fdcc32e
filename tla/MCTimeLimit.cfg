\* Minutes of two ticks; a child may run for two of them.
SPECIFICATION TimeSpec
CONSTANTS
    Minute = 2
    Inactivity = 3
    Warning = 1
    MaxLimit = 4
    MaxLag = 5
    SpawnModes = {"charged"}
CHECK_DEADLOCK FALSE
INVARIANT MinutesChargedOnce
