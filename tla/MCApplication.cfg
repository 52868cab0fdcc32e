SPECIFICATION ApplicationSpec
CONSTANTS
    Switch = {"keyboard"}
    TimeMax = 1
    MaxRequests = 2
    Subsystems = {"GUI", "console"}
    NoExits = {TRUE, FALSE}
    Hooks = TRUE
    MaxDepth = 6
    Minute = 2
    Inactivity = 2
    Warning = 1
    MaxLimit = 2
    MaxLag = 3
    SpawnModes = {"frozen"}
    Formats <- MCFormats
    Beyond <- MCBeyond
    FlagSets <- MCFlagSets
    Ticks = {1, 3}
    Period = 24
    MaxDuration = 14
    Lag = 4
    Files <- MCFiles
    Changeable = {"user_name", "user_password", "user_timelimit", "baud", "od_com_irq"}
    OD_SCREEN_WIDTH = 1
    OD_SCREEN_HEIGHT = 1
    Sizes <- MCSizes
    TabStop = 2
    Areas <- MCAreas
    Moves <- MCMoves
\* The program ends: after od_exit nothing is left to do.
CHECK_DEADLOCK FALSE
VIEW View
INVARIANTS
    ApplicationTypeOK
    LevelCountsCalls
    FirstRequestWins
    EachRequestOnce
    CacheForetells
    QueueOutlivesFrame
    MinutesChargedOnce
    ExpiryAnnounced
    
    AcceptedFitsFormat
    ShowsField
    TimersKeepTime
    LinesStayInPlace
    WindowShowsSession
