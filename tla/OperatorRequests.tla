-------------------------- MODULE OperatorRequests --------------------------
(***************************************************************************)
(* The operator's commands in a Windows session (src/src/ODKrnl.c).        *)
(*                                                                         *)
(* The frame thread may not touch od_control.  It reads a cache of the few *)
(* settings it shows, and puts each command in a FIFO that the application *)
(* flow empties at API boundaries.  A command that flips a setting takes   *)
(* its value from the cache and moves the cache at once, so that the next  *)
(* command and the menu's check marks already count on it.                 *)
(***************************************************************************)
EXTENDS Integers, Sequences, SequencesExt

CONSTANTS
    Switch,      \* the on/off settings besides chat: keyboard, sysop next, ...
    TimeMax,     \* OD_MAX_USER_TIME_MINUTES
    MaxRequests  \* bound: commands the operator gives

ASSUME SwitchAssumption == Switch \cap {"chat", "time", "exit"} = {}
ASSUME RequestAssumption == TimeMax \in Nat /\ MaxRequests \in Nat

VARIABLES
    control,  \* the fields of od_control that commands change
    cache,    \* UIState, the frame's copy of them
    fifo,     \* pPendingUIHead to pPendingUITail
    frame,    \* the frame thread: "idle", "queueing" or "stopped"
    asked     \* history: the number of commands queued so far

requests == <<control, cache, fifo, frame, asked>>

Settings == [chat : BOOLEAN, on : [Switch -> BOOLEAN], time : 0..TimeMax]

Kind == {"chat", "time", "exit"} \union Switch

\* n tells requests apart; the code has the address of the node.
Request == [n : 1..MaxRequests, kind : Kind, on : BOOLEAN, by : {-1, 0, 1}]

\* Mutant of ClampTime: the time limit is not kept in its range.
AnyTime(t) == t

ClampTime(t) == IF t < 0 THEN 0 ELSE IF t > TimeMax THEN TimeMax ELSE t

\* What a request makes of the settings once it has been carried out.
Effect(s, r) ==
    CASE r.kind = "chat" -> [s EXCEPT !.chat = r.on]
      [] r.kind = "time" -> [s EXCEPT !.time = ClampTime(@ + r.by)]
      [] r.kind \in Switch -> [s EXCEPT !.on[r.kind] = r.on]
      [] OTHER -> s

\* The value a command asks for: the opposite of what the operator is shown.
Flipped(kind) ==
    CASE kind = "chat" -> ~cache.chat
      [] kind \in Switch -> ~cache.on[kind]
      [] OTHER -> FALSE

RequestsInit ==
    /\ control \in [chat : {FALSE}, on : [Switch -> {TRUE}], time : {TimeMax}]
    /\ cache = control
    /\ fifo = << >>
    /\ frame = "idle"
    /\ asked = 0

---------------------------------------------------------------------------
(* The frame thread: ODKrnlQueueUIChange.                                  *)

\* It tests the lifecycle first, without a lock ...
TestActive(active) ==
    /\ frame = "idle"
    /\ active
    /\ asked < MaxRequests
    /\ frame' = "queueing"
    /\ UNCHANGED <<control, cache, fifo, asked>>

\* Mutant of Enqueue: the cache waits for the dispatch.
EnqueueOnly(kind, by) ==
    LET r == [n |-> asked + 1, kind |-> kind, on |-> Flipped(kind), by |-> by]
    IN /\ frame = "queueing"
       /\ frame' = "idle"
       /\ asked' = asked + 1
       /\ fifo' = Append(fifo, r)
       /\ UNCHANGED <<control, cache>>

\* ... and, under KernelStateLock, flips the cached setting and appends.
Enqueue(kind, by) ==
    LET r == [n |-> asked + 1, kind |-> kind, on |-> Flipped(kind), by |-> by]
    IN /\ frame = "queueing"
       /\ frame' = "idle"
       /\ asked' = asked + 1
       /\ fifo' = Append(fifo, r)
       /\ cache' = Effect(cache, r)
       /\ UNCHANGED control

FrameStep(active) ==
    \/ TestActive(active)
    \/ Enqueue("time", 1) \/ Enqueue("time", -1)
    \/ \E kind \in Kind \ {"time"} : Enqueue(kind, 0)

---------------------------------------------------------------------------
(* The application flow's side.                                            *)

\* Mutant of DetachFifo: the taken commands stay in the FIFO.
CopyFifo == UNCHANGED fifo

\* ODKrnlDispatchPending takes the whole FIFO at once.
DetachFifo == fifo' = << >>

\* ODKrnlRefreshUIState leaves the cache alone while a command waits.
RefreshUIState == cache' = IF fifo = << >> THEN control ELSE cache

\* The settings as they will be when q has been carried out.
After(s, q) ==
    LET after[n \in 0..Len(q)] ==
            IF n = 0 THEN s ELSE Effect(after[n - 1], q[n])
    IN after[Len(q)]
=============================================================================
