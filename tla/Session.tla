------------------------------ MODULE Session ------------------------------
(***************************************************************************)
(* The application flow of a Windows door: nested public calls, the        *)
(* cooperative kernel, chat mode, callbacks into the application, the      *)
(* dispatch of operator requests and the end of the session (src/src/      *)
(* ODSync.c, ODKrnl.c, ODInEx1.c, ODInEx2.c, ODCore.c).                    *)
(*                                                                         *)
(* The flow is one thread.  Variable flow is its call stack, one frame per *)
(* activation that the rest of the library can tell apart; the top frame   *)
(* decides what happens next.  Beside it only the frame thread of a GUI    *)
(* session takes steps: those of OperatorRequests.                         *)
(***************************************************************************)
EXTENDS OperatorRequests, FiniteSets

CONSTANTS
    Subsystems,  \* which of "GUI" and "console" the session may run under
    NoExits,     \* the values od_noexit may have when it is looked at
    Hooks,       \* TRUE when chat and exit callbacks are installed
    MaxDepth     \* bound: frames of the call stack

ASSUME SubsystemAssumption == Subsystems \subseteq {"GUI", "console"}
ASSUME SessionAssumption ==
    NoExits \subseteq BOOLEAN /\ Hooks \in BOOLEAN /\ MaxDepth \in Nat

VARIABLES
    subsystem,  \* ODPlatGetWindowsSubsystem()
    lifecycle,  \* eODLifecycleState
    level,      \* nAPILevel
    flow,       \* the call stack, innermost activation last
    kernel,     \* bKernelActive
    hooked,     \* bShellChatActive
    chatKey,    \* nKrnlFuncPending & KERNEL_FUNC_CHATTOGGLE
    exiting,    \* bExiting
    early,      \* bODExitRequestedDuringInitialization
    pending,    \* nODPendingExitErrorLevel
    noexit,     \* bODPendingExitNoExit
    first,      \* history: the first exit ever requested
    result,     \* history: the exit the session ended with
    applied     \* history: the numbers of the requests taken up, in order

ending == <<exiting, early, pending, noexit, first, result>>
keys == <<hooked, chatKey>>
vars == <<requests, subsystem, lifecycle, level, flow, kernel, keys, ending,
          applied>>

---------------------------------------------------------------------------
(* Frames.                                                                 *)

Code == {"app", "operator", "kernel"}   \* who asks for an exit
NoCode == "none"

Frame(op, at) == [op |-> op, at |-> at]
GetKey(at, saved) == [op |-> "od_get_key", at |-> at, saved |-> saved]
Exit(at, nested, c) ==
    [op |-> "od_exit", at |-> at, nested |-> nested, code |-> c]
Dispatch(batch) == [op |-> "dispatch", at |-> "loop", batch |-> batch]

Top == Last(flow)
Below == Front(flow)
On(op, at) == flow # << >> /\ Top.op = op /\ Top.at = at
At(at) == Append(Below, [Top EXCEPT !.at = at])

\* Application code has control: between calls, or inside a callback.
ApplicationRuns == flow # << >> => Top.op = "callback"

Room(n) == Len(flow) + n <= MaxDepth

\* A public call is let in (OD_RETURN_IF_SESSION_ENDED).
Open == lifecycle = "Active"

\* OD_API_ENTRY by f on the stack s: the outermost entry dispatches.
Enter(s, f) ==
    /\ level' = level + 1
    /\ flow' = IF level = 0 /\ Open /\ subsystem = "GUI"
               THEN Append(Append(s, f), Dispatch(<< >>))
               ELSE Append(s, f)

Init ==
    /\ RequestsInit
    /\ subsystem \in Subsystems
    /\ lifecycle = "NeverStarted"
    /\ level = 0
    /\ flow = << >>
    /\ kernel = FALSE
    /\ hooked = FALSE
    /\ chatKey = FALSE
    /\ exiting = FALSE
    /\ early = FALSE
    /\ pending = NoCode
    /\ noexit = FALSE
    /\ first = NoCode
    /\ result = NoCode
    /\ applied = << >>

Remember(c) == first' = IF first = NoCode THEN c ELSE first

\* od_exit returns at once: the session has ended, or it is being ended.
Refuses == exiting \/ lifecycle \in {"ExitPending", "Terminal"}

\* od_exit is called with code c while the stack is s.
CallExit(s, c) ==
    /\ Remember(c)
    /\ IF Refuses
       THEN flow' = s /\ UNCHANGED <<level, exiting>>
       ELSE exiting' = TRUE /\ Enter(s, Exit("hook", level # 0, c))
    /\ UNCHANGED <<early, pending, noexit, result>>

---------------------------------------------------------------------------
(* Initialization.                                                         *)

\* The first public call, whichever it is, runs od_init.
StartUp ==
    /\ lifecycle = "NeverStarted"
    /\ lifecycle' = "Initializing"
    /\ flow' = <<Frame("od_init", "starting")>>
    /\ UNCHANGED <<requests, subsystem, level, kernel, keys, ending, applied>>

\* od_exit as the first call of all initializes in order to shut down.
ExitFirst ==
    /\ lifecycle = "NeverStarted"
    /\ lifecycle' = "Initializing"
    /\ exiting' = TRUE
    /\ early' = TRUE
    /\ pending' = "app"
    /\ Remember("app")
    /\ flow' = <<Exit("initializing", FALSE, "app"),
                 Frame("od_init", "starting")>>
    /\ UNCHANGED <<requests, subsystem, level, kernel, keys, noexit, result,
                   applied>>

\* Mutant of ExitWhileStarting: the last request of several counts.
ExitWhileStartingLast(c) ==
    /\ On("od_init", "starting")
    /\ early' = TRUE
    /\ pending' = c
    /\ Remember(c)
    /\ UNCHANGED <<requests, subsystem, lifecycle, level, flow, kernel, keys,
                   exiting, noexit, result, applied>>

\* An exit requested meanwhile, by a callback or by the kernel, is noted.
ExitWhileStarting(c) ==
    /\ On("od_init", "starting")
    /\ early' = TRUE
    /\ pending' = IF early THEN pending ELSE c
    /\ Remember(c)
    /\ UNCHANGED <<requests, subsystem, lifecycle, level, flow, kernel, keys,
                   exiting, noexit, result, applied>>

InitCompletes ==
    /\ On("od_init", "starting")
    /\ lifecycle' = "Active"
    /\ flow' = At("done")
    /\ UNCHANGED <<requests, subsystem, level, kernel, keys, ending, applied>>

InitReturns ==
    /\ On("od_init", "done")
    /\ early' = FALSE
    /\ IF early /\ ~exiting
       THEN exiting' = TRUE /\ Enter(Below, Exit("hook", FALSE, pending))
       ELSE flow' = Below /\ UNCHANGED <<level, exiting>>
    /\ UNCHANGED <<requests, subsystem, lifecycle, kernel, keys, pending,
                   noexit, first, result, applied>>

---------------------------------------------------------------------------
(* Calls by the application, and callbacks into it.                        *)

PublicCall(f) ==
    /\ ApplicationRuns
    /\ Open
    /\ Room(2)
    /\ Enter(flow, f)
    /\ UNCHANGED <<requests, subsystem, lifecycle, kernel, keys, ending,
                   applied>>

CallGetKey == PublicCall(GetKey("kernel", 0))
CallChat == PublicCall(Frame("od_chat", "chat"))
CallKernel == ~kernel /\ PublicCall(Frame("od_kernel", "entered"))

AppExits ==
    /\ ApplicationRuns
    /\ Open
    /\ Room(2)
    /\ CallExit(flow, "app")
    /\ UNCHANGED <<requests, subsystem, lifecycle, kernel, keys, applied>>

\* A chat hook that did the talking itself turns chat mode off.
CallbackReturns ==
    /\ flow # << >> /\ Top.op = "callback"
    /\ \/ UNCHANGED control
       \/ Top.at = "chat" /\ control' = [control EXCEPT !.chat = FALSE]
    /\ hooked' = (hooked /\ Top.at # "chat")
    /\ flow' = Below
    /\ UNCHANGED <<cache, fifo, frame, asked, subsystem, lifecycle, level,
                   kernel, chatKey, ending, applied>>

\* The stack s, with or without a callback of owner running on top of it.
WithCallback(s, owner) ==
    {s} \union IF Hooks /\ Room(1) THEN {Append(s, Frame("callback", owner))}
               ELSE {}

\* CALL_KERNEL_IF_NEEDED by the activation on top of s.
RunKernel(s) ==
    IF Open /\ ~kernel /\ Len(s) < MaxDepth
    THEN Enter(s, Frame("od_kernel", "entered"))
    ELSE flow' = s /\ UNCHANGED level

---------------------------------------------------------------------------
(* od_get_key(TRUE) and the waits of its kind.                             *)

GetKeyRunsKernel ==
    /\ On("od_get_key", "kernel")
    /\ RunKernel(At("waits"))
    /\ UNCHANGED <<requests, subsystem, lifecycle, kernel, keys, ending,
                   applied>>

\* ODSyncAPIRelease before the wait ...
GetKeyWaits ==
    /\ On("od_get_key", "waits")
    /\ flow' = Append(Below, GetKey("waiting", level))
    /\ level' = 0
    /\ UNCHANGED <<requests, subsystem, lifecycle, kernel, keys, ending,
                   applied>>

\* ... which, in a console session, is the loop that polls for keys itself.
GetKeyPolls ==
    /\ On("od_get_key", "waiting")
    /\ subsystem = "console"
    /\ Open /\ ~kernel
    /\ RunKernel(flow)
    /\ UNCHANGED <<requests, subsystem, lifecycle, kernel, keys, ending,
                   applied>>

\* ODSyncAPIReacquire after it, with a key (a line feed is dropped) or without:
\* then the call leaves if the session is ending, and goes on to
\* ODSyncAPICheckpoint if not.
GetKeyWaited ==
    /\ On("od_get_key", "waiting")
    /\ level' = Top.saved
    /\ \/ flow' = At("leaving")
       \/ flow' = At("waits")
       \/ /\ lifecycle = "Active"
          /\ flow' = IF subsystem = "GUI"
                     THEN Append(At("checkpoint"), Dispatch(<< >>))
                     ELSE At("checkpoint")
    /\ UNCHANGED <<requests, subsystem, lifecycle, kernel, keys, ending,
                   applied>>

\* The checkpoint has dispatched; it runs the kernel.
CheckpointRunsKernel ==
    /\ On("od_get_key", "checkpoint")
    /\ RunKernel(At("checked"))
    /\ UNCHANGED <<requests, subsystem, lifecycle, kernel, keys, ending,
                   applied>>

CheckpointReturns ==
    /\ On("od_get_key", "checked")
    /\ flow' = At(IF lifecycle = "Active" THEN "waits" ELSE "leaving")
    /\ UNCHANGED <<requests, subsystem, lifecycle, level, kernel, keys, ending,
                   applied>>

GetKeyStep ==
    \/ GetKeyRunsKernel \/ GetKeyWaits \/ GetKeyPolls \/ GetKeyWaited
    \/ CheckpointRunsKernel \/ CheckpointReturns

---------------------------------------------------------------------------
(* OD_API_EXIT.                                                            *)

\* Mutant of Leave: the level is not given back.
LeaveKeepsLevel ==
    /\ flow' = Below
    /\ kernel' = (kernel /\ Top.op # "od_kernel")
    /\ UNCHANGED level

Leave ==
    /\ level' = level - 1
    /\ flow' = Below
    /\ kernel' = (kernel /\ Top.op # "od_kernel")

InnerExit ==
    /\ flow # << >> /\ Top.at = "leaving"
    /\ level # 1 \/ lifecycle \notin {"Active", "ExitPending"}
    /\ Leave
    /\ UNCHANGED <<requests, subsystem, lifecycle, keys, ending, applied>>

\* The outermost exit dispatches once more ...
OuterExitDispatches ==
    /\ flow # << >> /\ Top.at = "leaving"
    /\ level = 1 /\ lifecycle = "Active"
    /\ flow' = IF subsystem = "GUI"
               THEN Append(At("left"), Dispatch(<< >>))
               ELSE At("left")
    /\ UNCHANGED <<requests, subsystem, lifecycle, level, kernel, keys, ending,
                   applied>>

\* ... or carries out the exit that was put off.
OuterExitFinalizes ==
    /\ flow # << >> /\ Top.at = "leaving"
    /\ level = 1 /\ lifecycle = "ExitPending"
    /\ lifecycle' = "Finalizing"
    /\ exiting' = TRUE
    /\ level' = 2
    /\ flow' = Append(At("left"), Exit("closing", TRUE, pending))
    /\ UNCHANGED <<requests, subsystem, kernel, keys, early, pending, noexit,
                   first, result, applied>>

OuterExitReturns ==
    /\ flow # << >> /\ Top.at = "left"
    /\ Leave
    /\ UNCHANGED <<requests, subsystem, lifecycle, keys, ending, applied>>

APIExit ==
    \/ InnerExit \/ OuterExitDispatches \/ OuterExitFinalizes
    \/ OuterExitReturns

---------------------------------------------------------------------------
(* od_kernel.                                                              *)

KernelStarts ==
    /\ On("od_kernel", "entered")
    /\ kernel' = TRUE
    /\ \/ flow' = At("poll")
       \/ /\ lifecycle = "Active" /\ Hooks /\ Room(1)
          /\ flow' = Append(At("hooked"), Frame("callback", "ker_exec"))
    /\ UNCHANGED <<requests, subsystem, lifecycle, level, keys, ending,
                   applied>>

\* od_ker_exec has returned, and may have ended the session.
KernelHooked ==
    /\ On("od_kernel", "hooked")
    /\ flow' = At(IF lifecycle = "Active" THEN "poll" ELSE "leaving")
    /\ UNCHANGED <<requests, subsystem, lifecycle, level, kernel, keys, ending,
                   applied>>

\* The carrier is tested; the kernel goes on even when it was lost.
KernelPolls ==
    /\ On("od_kernel", "poll")
    /\ \/ flow' = At("keys") /\ UNCHANGED <<level, ending>>
       \/ Room(1) /\ CallExit(At("keys"), "kernel")
    /\ UNCHANGED <<requests, subsystem, lifecycle, kernel, keys, applied>>

\* Local keys reach the kernel of a console session only.
KernelReadsKeys == On("od_kernel", "keys") /\ subsystem = "console"

\* A chat request ends chat mode or starts it, unless a hook is running.
ToggleChat ==
    \/ /\ control.chat
       /\ control' = [control EXCEPT !.chat = FALSE]
       /\ UNCHANGED <<cache, fifo, frame, asked, flow, kernel>>
    \/ /\ ~control.chat /\ ~hooked
       /\ Room(1)
       /\ kernel' = FALSE
       /\ flow' = Append(At("resumes"), Frame("chat", "kernel"))
       /\ UNCHANGED requests
    \/ /\ ~control.chat /\ hooked
       /\ UNCHANGED <<requests, flow, kernel>>

\* The request that was put off while a hook ran.
ChatKey ==
    /\ KernelReadsKeys
    /\ chatKey /\ ~hooked
    /\ chatKey' = FALSE
    /\ ToggleChat
    /\ UNCHANGED <<subsystem, lifecycle, level, hooked, ending, applied>>

PressChatKey ==
    /\ KernelReadsKeys
    /\ chatKey => hooked
    /\ chatKey' = IF hooked /\ ~control.chat THEN ~chatKey ELSE chatKey
    /\ ToggleChat
    /\ UNCHANGED <<subsystem, lifecycle, level, hooked, ending, applied>>

KernelResumes ==
    /\ On("od_kernel", "resumes")
    /\ kernel' = TRUE
    /\ flow' = At("keys")
    /\ UNCHANGED <<requests, subsystem, lifecycle, level, keys, ending,
                   applied>>

PressEscape ==
    /\ KernelReadsKeys
    /\ control.chat
    /\ control' = [control EXCEPT !.chat = FALSE]
    /\ UNCHANGED <<cache, fifo, frame, asked, subsystem, lifecycle, level,
                   flow, kernel, keys, ending, applied>>

\* After a key that changes a setting the kernel reads no further keys.
PressSettingKey ==
    /\ KernelReadsKeys
    /\ \/ \E s \in Switch : control' = [control EXCEPT !.on[s] = ~@]
       \/ \E d \in {-1, 1} :
              control' = [control EXCEPT !.time = ClampTime(@ + d)]
    /\ flow' = At("time")
    /\ UNCHANGED <<cache, fifo, frame, asked, subsystem, lifecycle, level,
                   kernel, keys, ending, applied>>

PressExitKey ==
    /\ KernelReadsKeys
    /\ Room(1)
    /\ CallExit(flow, "operator")
    /\ UNCHANGED <<requests, subsystem, lifecycle, kernel, keys, applied>>

\* ODKrnlTimeUpdate: the user was inactive for too long ...
KernelFindsInactive ==
    /\ On("od_kernel", "keys") \/ On("od_kernel", "time")
    /\ Room(1)
    /\ CallExit(At("leaving"), "kernel")
    /\ UNCHANGED <<requests, subsystem, lifecycle, kernel, keys, applied>>

\* ... or a minute has passed, which counts outside chat, and time may be up.
KernelTime ==
    /\ On("od_kernel", "keys") \/ On("od_kernel", "time")
    /\ \E d \in {0, 1} :
          LET t == ClampTime(control.time - (IF control.chat THEN 0 ELSE d))
          IN /\ control' = [control EXCEPT !.time = t]
             /\ IF t = 0 /\ Room(1)
                THEN CallExit(At("leaving"), "kernel")
                ELSE flow' = At("leaving") /\ UNCHANGED <<level, ending>>
    /\ UNCHANGED <<cache, fifo, frame, asked, subsystem, lifecycle, kernel,
                   keys, applied>>

KernelStep ==
    \/ KernelStarts \/ KernelHooked \/ KernelPolls \/ ChatKey
    \/ PressChatKey \/ KernelResumes \/ PressEscape \/ PressSettingKey
    \/ PressExitKey \/ KernelFindsInactive \/ KernelTime

---------------------------------------------------------------------------
(* Chat mode: ODKrnlChatMode.                                              *)

\* od_chat sets the flag before chat mode does.
BeginChat ==
    /\ On("od_chat", "chat")
    /\ control' = [control EXCEPT !.chat = TRUE]
    /\ flow' = Append(At("leaving"), Frame("chat", "kernel"))
    /\ UNCHANGED <<cache, fifo, frame, asked, subsystem, lifecycle, level,
                   kernel, keys, ending, applied>>

ChatRunsKernel ==
    /\ On("chat", "kernel")
    /\ RunKernel(At("opening"))
    /\ UNCHANGED <<requests, subsystem, lifecycle, kernel, keys, ending,
                   applied>>

ChatOpens ==
    /\ On("chat", "opening")
    /\ control' = [control EXCEPT !.chat = TRUE]
    /\ flow' \in WithCallback(At("talking"), "chat")
    /\ hooked' = (hooked \/ Len(flow') > Len(flow))
    /\ UNCHANGED <<cache, fifo, frame, asked, subsystem, lifecycle, level,
                   kernel, chatKey, ending, applied>>

\* The loop goes round while od_chat_active is set; od_get_key(FALSE) runs the
\* kernel, and the operator's Escape reaches the loop in a GUI session.
ChatTalks ==
    /\ On("chat", "talking")
    /\ \/ control.chat /\ Open /\ ~kernel /\ RunKernel(flow)
       \/ control.chat /\ Open /\ subsystem = "GUI" /\ flow' = At("ended")
          /\ UNCHANGED level
       \/ ~control.chat /\ flow' = At("ended") /\ UNCHANGED level
    /\ UNCHANGED <<requests, subsystem, lifecycle, kernel, keys, ending,
                   applied>>

ChatCleansUp ==
    /\ On("chat", "ended")
    /\ flow' \in WithCallback(At("closing"), "chat")
    /\ hooked' = (hooked \/ Len(flow') > Len(flow))
    /\ UNCHANGED <<requests, subsystem, lifecycle, level, kernel, chatKey,
                   ending, applied>>

ChatEnds ==
    /\ On("chat", "closing")
    /\ control' = [control EXCEPT !.chat = FALSE]
    /\ flow' = Below
    /\ UNCHANGED <<cache, fifo, frame, asked, subsystem, lifecycle, level,
                   kernel, keys, ending, applied>>

ChatStep ==
    \/ BeginChat \/ ChatRunsKernel \/ ChatOpens \/ ChatTalks
    \/ ChatCleansUp \/ ChatEnds

---------------------------------------------------------------------------
(* ODKrnlDispatchPending.                                                  *)

DispatchTakes ==
    /\ On("dispatch", "loop") /\ Top.batch = << >>
    /\ lifecycle = "Active"
    /\ fifo # << >>
    /\ flow' = Append(Below, Dispatch(fifo))
    /\ DetachFifo
    /\ UNCHANGED <<control, cache, frame, asked, subsystem, lifecycle, level,
                   kernel, keys, ending, applied>>

DispatchFindsNone ==
    /\ On("dispatch", "loop") /\ Top.batch = << >>
    /\ lifecycle = "Active"
    /\ fifo = << >>
    /\ flow' = At("refresh")
    /\ UNCHANGED <<requests, subsystem, lifecycle, level, kernel, keys, ending,
                   applied>>

\* A command queued since then makes it start over.
DispatchRefreshes ==
    /\ On("dispatch", "refresh")
    /\ RefreshUIState
    /\ flow' = IF fifo = << >> THEN Below ELSE At("loop")
    /\ UNCHANGED <<control, fifo, frame, asked, subsystem, lifecycle, level,
                   kernel, keys, ending, applied>>

DispatchApplies ==
    /\ On("dispatch", "loop") /\ Top.batch # << >>
    /\ lifecycle = "Active"
    /\ LET r == Head(Top.batch)
           rest == Append(Below, Dispatch(Tail(Top.batch)))
           starts == r.kind = "chat" /\ r.on /\ ~control.chat
       IN /\ applied' = Append(applied, r.n)
          /\ starts \/ r.kind = "exit" => Room(1)
          /\ control' = IF r.kind = "chat" /\ r.on THEN control
                        ELSE Effect(control, r)
          /\ IF r.kind = "exit"
             THEN CallExit(rest, "operator")
             ELSE /\ flow' = IF starts THEN Append(rest, Frame("chat", "kernel"))
                             ELSE rest
                  /\ UNCHANGED <<level, ending>>
    /\ UNCHANGED <<cache, fifo, frame, asked, subsystem, lifecycle, kernel,
                   keys>>

\* Once the session is ending the rest of the batch is thrown away.
DispatchStops ==
    /\ On("dispatch", "loop")
    /\ lifecycle # "Active"
    /\ flow' = Below
    /\ UNCHANGED <<requests, subsystem, lifecycle, level, kernel, keys, ending,
                   applied>>

DispatchStep ==
    \/ DispatchTakes \/ DispatchFindsNone \/ DispatchRefreshes
    \/ DispatchApplies \/ DispatchStops

---------------------------------------------------------------------------
(* od_exit.                                                                *)

\* An od_exit that had to initialize first.
ExitInitialized ==
    /\ On("od_exit", "initializing")
    /\ Enter(Below, Exit("hook", level # 0, Top.code))
    /\ UNCHANGED <<requests, subsystem, lifecycle, kernel, keys, ending,
                   applied>>

ExitRunsHook ==
    /\ On("od_exit", "hook")
    /\ flow' \in WithCallback(At("deciding"), "before_exit")
    /\ UNCHANGED <<requests, subsystem, lifecycle, level, kernel, keys, ending,
                   applied>>

\* od_noexit is looked at after the hook, which may have changed it.
ExitDecides ==
    /\ On("od_exit", "deciding")
    /\ pending' = Top.code
    /\ noexit' \in NoExits
    /\ IF noexit' /\ Top.nested
       THEN /\ lifecycle' = "ExitPending"
            /\ exiting' = FALSE
            /\ level' = level - 1
            /\ flow' = Below
       ELSE /\ lifecycle' = "Finalizing"
            /\ flow' = At("closing")
            /\ UNCHANGED <<level, exiting>>
    /\ UNCHANGED <<requests, subsystem, kernel, keys, early, first, result,
                   applied>>

\* Mutant of JoinFrame: the frame thread is asked to stop, not joined.
StopFrame == UNCHANGED frame

\* ODFrameShutdown waits for the frame thread ...
JoinFrame == frame # "queueing" /\ frame' = "stopped"

\* ... before the FIFO, the input queue and the port are destroyed.  The
\* process ends, unless od_noexit was set.
ExitFinishes ==
    /\ On("od_exit", "closing")
    /\ JoinFrame
    /\ DetachFifo
    /\ lifecycle' = "Terminal"
    /\ exiting' = FALSE
    /\ result' = Top.code
    /\ IF noexit
       THEN level' = level - 1 /\ flow' = Below
       ELSE level' = 0 /\ flow' = << >>
    /\ UNCHANGED <<control, cache, asked, subsystem, kernel, keys, early,
                   pending, noexit, first, applied>>

ExitStep == ExitInitialized \/ ExitRunsHook \/ ExitDecides \/ ExitFinishes

---------------------------------------------------------------------------
FrameThread ==
    /\ subsystem = "GUI"
    /\ FrameStep(lifecycle = "Active")
    /\ UNCHANGED <<subsystem, lifecycle, level, flow, kernel, keys, ending,
                   applied>>

InitStep ==
    \/ StartUp \/ ExitFirst
    \/ ExitWhileStarting("app") \/ ExitWhileStarting("kernel")
    \/ InitCompletes \/ InitReturns

AppStep ==
    CallGetKey \/ CallChat \/ CallKernel \/ AppExits

LibraryStep ==
    \/ GetKeyStep \/ APIExit \/ KernelStep \/ ChatStep \/ DispatchStep
    \/ ExitStep

Next == InitStep \/ AppStep \/ CallbackReturns \/ LibraryStep \/ FrameThread

Spec == Init /\ [][Next]_vars

---------------------------------------------------------------------------
(* Properties.                                                             *)

FrameType(levels) ==
    [op : {"od_init"}, at : {"starting", "done"}]
    \union [op : {"od_get_key"}, saved : levels,
            at : {"kernel", "waits", "waiting", "checkpoint", "checked",
                  "leaving", "left"}]
    \union [op : {"od_chat"}, at : {"chat", "leaving", "left"}]
    \union [op : {"od_kernel"},
            at : {"entered", "hooked", "poll", "keys", "resumes", "time",
                  "leaving", "left"}]
    \union [op : {"od_exit"}, nested : BOOLEAN, code : Code,
            at : {"initializing", "hook", "deciding", "closing"}]
    \union [op : {"chat"},
            at : {"kernel", "opening", "talking", "ended", "closing"}]
    \union [op : {"dispatch"}, at : {"loop", "refresh"}, batch : Seq(Request)]
    \union [op : {"callback"}, at : {"ker_exec", "chat", "before_exit"}]

TypeOK ==
    /\ control \in Settings /\ cache \in Settings
    /\ fifo \in Seq(Request)
    /\ frame \in {"idle", "queueing", "stopped"}
    /\ asked \in 0..MaxRequests
    /\ lifecycle \in {"NeverStarted", "Initializing", "Active", "ExitPending",
                      "Finalizing", "Terminal"}
    /\ level \in 0..Len(flow)
    /\ \A i \in 1..Len(flow) : flow[i] \in FrameType(0..i)
    /\ {kernel, hooked, chatKey, exiting, early, noexit} \subseteq BOOLEAN
    /\ {pending, first, result} \subseteq Code \union {NoCode}
    /\ applied \in Seq(1..MaxRequests)

\* The largest member of a set of positions, 0 if there is none.
Max0(S) == CHOOSE m \in S \union {0} : \A n \in S : n <= m

IsPublicCall(f) ==
    \/ f.op \in {"od_get_key", "od_chat", "od_kernel"}
    \/ f.op = "od_exit" /\ f.at # "initializing"

IsWaiting(f) == f.op = "od_get_key" /\ f.at = "waiting"

\* nAPILevel counts the public calls in progress since the last wait that
\* released it, and a wait has kept the count of those before it.  Nested
\* calls, callbacks, chat, exits that are refused or put off, all balance:
\* otherwise the library would dispatch inside a call, or never again.
LevelCountsCalls ==
    LET Waits == {i \in 1..Len(flow) : IsWaiting(flow[i])}
        Since(w, i) == Cardinality({j \in (w + 1)..i : IsPublicCall(flow[j])})
        Last0(i) == Max0({w \in Waits : w < i})
    IN /\ level = Since(Max0(Waits), Len(flow))
       /\ \A i \in Waits : flow[i].saved = Since(Last0(i), i)

\* The session ends with the exit that was asked for first, whether during
\* initialization, in a callback, by the operator or by the kernel ("The
\* first exit request wins").
FirstRequestWins == result # NoCode => result = first

\* While the session is active no request is lost or carried out twice: each
\* is in the FIFO, in exactly one batch being dispatched, or has been applied.
EachRequestOnce ==
    LET Batches == {i \in 1..Len(flow) : flow[i].op = "dispatch"}
        Numbers(q) == {q[i].n : i \in 1..Len(q)}
        Places(n) ==
            Cardinality({i \in 1..Len(applied) : applied[i] = n})
            + Cardinality({i \in 1..Len(fifo) : fifo[i].n = n})
            + Cardinality({i \in Batches : n \in Numbers(flow[i].batch)})
    IN lifecycle = "Active" => \A n \in 1..asked : Places(n) = 1

\* Between calls the frame shows the settings as they will be once the
\* waiting requests have been carried out, also when requests came in during
\* a dispatch, during chat or between the last dispatch and the refresh.
CacheForetells ==
    flow = << >> /\ lifecycle = "Active" /\ subsystem = "GUI"
        => cache = After(control, fifo)

\* The FIFO and its mutex are destroyed after the last command was queued.
QueueOutlivesFrame ==
    lifecycle = "Terminal" => fifo = << >> /\ frame # "queueing"

\* An exit that was put off is carried out when the call it was raised in
\* returns ("finalized by that call's outermost API-exit boundary").
NoExitLeftBehind == flow = << >> => lifecycle # "ExitPending"

\* With od_noexit, what the session owns is destroyed only when no other call
\* is in progress but the one that is leaving ("defers resource destruction
\* until the outermost public API call unwinds").
DestroyedAtOutermost ==
    lifecycle = "Terminal" =>
        \A i \in 1..Len(flow) : ~IsWaiting(flow[i])

\* "Requests are neither coalesced nor reordered."
RequestsInOrder ==
    \A i, j \in 1..Len(applied) : i < j => applied[i] < applied[j]
=============================================================================
