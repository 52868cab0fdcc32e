---------------------------- MODULE Application ----------------------------
(***************************************************************************)
(* What the application meets when it calls the library: the session with  *)
(* its nested calls and the operator's requests, the caller's time limit,  *)
(* a field that the caller edits, a timer it waits for, the operator's     *)
(* screen, and the drop file that it comes from and goes back with.  Each  *)
(* of them is a module of its own, whose environment may do whatever the   *)
(* others do (the time limit may put the caller out, a field may see the   *)
(* session end, any call may draw); so a behaviour of them all is a        *)
(* behaviour of each, and one of them, chosen at the start, moves here     *)
(* while the others wait.                                                  *)
(***************************************************************************)
EXTENDS Session

CONSTANTS
    Minute, Inactivity, Warning, MaxLimit, MaxLag, SpawnModes,  \* the time limit
    Formats, Beyond, FlagSets,                                  \* the field
    Ticks, Period, MaxDuration, Lag,                            \* the timer
    Files, Changeable,                                          \* the drop file
    OD_SCREEN_WIDTH, OD_SCREEN_HEIGHT, Sizes, TabStop,          \* the screen
    Areas, Moves

VARIABLES
    part,  \* the part that moves
    user_timelimit, due, idle, od_inactivity, od_disable_inactivity, nLastInactivitySetting,
    bWarnedAboutInactivity, od_chat_active, disTimeout, pass, behind, port, forced,
    unpaid, announced, changed, silent,
    format, nFlags, pszCurrentInput, szCurrentOriginalString, nCursorPos, bInsertMode,
    chTemp, chAddAtEnd, nKeysPressed, bCheckAutoEnter, label, wToReturn, shown, column,
    tick, now, Start, Duration, state, wanted, age,
    dropFile, od_info_type, kept, stage, line, out, nErrorCode,
    size, session, emulating, call, resume, local, bScreenDirty, display,
    hwndScreenWindow, invalid, painting, window

Time == INSTANCE TimeLimit WITH at <- pass
Edit == INSTANCE LineEditor WITH at <- label
Wait == INSTANCE Timer
Drop == INSTANCE DropFile
Shown == INSTANCE Screen

ASSUME ApplicationAssumption ==
    Time!TimeAssumption /\ Edit!FieldAssumption /\ Wait!TimerAssumption
    /\ Drop!FilesAssumption /\ Shown!ScreenAssumption

timeVars ==
    <<user_timelimit, due, idle, od_inactivity, od_disable_inactivity, nLastInactivitySetting,
      bWarnedAboutInactivity, od_chat_active, disTimeout, pass, behind, port, forced,
      unpaid, announced, changed, silent>>
editVars ==
    <<format, nFlags, pszCurrentInput, szCurrentOriginalString, nCursorPos, bInsertMode,
      chTemp, chAddAtEnd, nKeysPressed, bCheckAutoEnter, label, wToReturn, shown, column>>
timerVars == <<tick, now, Start, Duration, state, wanted, age>>
dropFileVars == <<dropFile, od_info_type, kept, stage, line, out, nErrorCode>>
screenVars ==
    <<size, session, emulating, call, resume, local, bScreenDirty, display,
      hwndScreenWindow, invalid, painting, window>>
applicationVars ==
    <<part, vars, timeVars, editVars, timerVars, dropFileVars, screenVars>>

ApplicationInit ==
    /\ part \in {"session", "time", "field", "timer", "file", "screen"}
    /\ Init /\ Time!Init /\ Edit!Init /\ Wait!TimerInit
    /\ Drop!DropFileInit /\ Shown!ScreenInit

SessionStep ==
    /\ part = "session" /\ Next
    /\ UNCHANGED <<part, timeVars, editVars, timerVars, dropFileVars, screenVars>>
TimeStep ==
    /\ part = "time" /\ Time!TimeNext
    /\ UNCHANGED <<part, vars, editVars, timerVars, dropFileVars, screenVars>>
FieldStep ==
    /\ part = "field" /\ Edit!EditNext
    /\ UNCHANGED <<part, vars, timeVars, timerVars, dropFileVars, screenVars>>
TimerStep ==
    /\ part = "timer" /\ Wait!TimerNext
    /\ UNCHANGED <<part, vars, timeVars, editVars, dropFileVars, screenVars>>
FileStep ==
    /\ part = "file" /\ Drop!DropFileNext
    /\ UNCHANGED <<part, vars, timeVars, editVars, timerVars, screenVars>>
ScreenStep ==
    /\ part = "screen" /\ Shown!ScreenNext
    /\ UNCHANGED <<part, vars, timeVars, editVars, timerVars, dropFileVars>>

ApplicationNext ==
    SessionStep \/ TimeStep \/ FieldStep \/ TimerStep \/ FileStep \/ ScreenStep

ApplicationSpec == ApplicationInit /\ [][ApplicationNext]_applicationVars

ApplicationTypeOK ==
    /\ part = "session" => TypeOK
    /\ part = "time" => Time!TypeOK
    /\ part = "field" => Edit!EditTypeOK
    /\ part = "timer" => Wait!TimerTypeOK
    /\ part = "file" => Drop!DropFileTypeOK
    /\ part = "screen" => Shown!ScreenTypeOK

\* The properties of the parts, stated where the parts are: every minute is
\* charged once, the end of the time is announced, and a caller who presses
\* keys stays; what a field is accepted with fits its format, and the screen
\* shows what is in it; a wait is as long as it was meant to be; the
\* lines of a drop file come out where they went in; and the operator's window
\* shows the caller's screen.
MinutesChargedOnce == Time!MinutesChargedOnce
ExpiryAnnounced == Time!ExpiryAnnounced
BusyCallerStays == Time!BusyCallerStays
AcceptedFitsFormat == Edit!AcceptedFitsFormat
ShowsField == Edit!ShowsField
TimersKeepTime == Wait!TimersKeepTime
LinesStayInPlace == Drop!LinesStayInPlace
WindowShowsSession == Shown!WindowShowsSession
=============================================================================
