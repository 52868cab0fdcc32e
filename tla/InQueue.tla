------------------------------- MODULE InQueue -------------------------------
(***************************************************************************)
(* The common input queue of a graphical Windows session (src/src/         *)
(* ODInQue.c) between its two threads: the frame thread adds the sysop's   *)
(* keys, one or two events at a time; the application flow moves bytes     *)
(* from the port into it (od_kernel), takes events out of it (od_get_key   *)
(* and the like) and empties it (od_clear_keybuffer).                      *)
(*                                                                         *)
(* A critical section of QueueMutex is one step.  Taking an event is two:  *)
(* the semaphore first, the ring afterwards.  In a console session the     *)
(* application flow adds the sysop's keys as well, between its own steps.  *)
(***************************************************************************)
EXTENDS Integers, Sequences, SequencesExt

CONSTANTS
    Entries,   \* nQueueEntries
    MaxBytes,  \* bound: bytes the remote user sends
    MaxKeys    \* bound: keys the sysop presses

ASSUME EntriesAssumption == Entries \in Nat /\ Entries >= 2
ASSUME InputAssumption == MaxBytes \in Nat /\ MaxKeys \in Nat

VARIABLES
    ring,      \* paEvents
    in,        \* nInIndex
    out,       \* nOutIndex
    reserved,  \* nReservedEntries
    items,     \* the count of hItemCountSemaphore
    flow,      \* what the application flow is doing
    byte,      \* the byte od_kernel has in its hands, or 0
    port,      \* bytes received but not yet fetched
    open,      \* od_user_keyboard_on
    sent,      \* history: bytes the remote user sent
    pressed,   \* history: keys the sysop pressed
    got,       \* history: the events taken by the application, in order
    dropped    \* history: bytes that were thrown away on purpose

indices == <<in, out>>
remote == <<byte, port, open, sent>>
history == <<pressed, got, dropped>>
vars == <<ring, indices, reserved, items, flow, remote, history>>

\* An event: byte n of the remote user, or (part 1 and 2 of) the sysop's key n.
RemoteEvent(n) == [remote |-> TRUE, n |-> n, part |-> 0]
LocalEvent(n, part) == [remote |-> FALSE, n |-> n, part |-> part]

Event ==
    [remote : {TRUE}, n : 1..MaxBytes, part : {0}]
    \union [remote : {FALSE}, n : 1..MaxKeys, part : 0..2]

\* Slots never written hold zeros (calloc).
Empty == [remote |-> FALSE, n |-> 0, part |-> 0]

\* OD_IN_QUEUE_USED and, below, OD_IN_QUEUE_AVAILABLE.
Used == (in - out + Entries) % Entries

Available == Entries - 1 - Used - reserved

\* The events in the ring, oldest first.
Queue == [i \in 1..Used |-> ring[(out + i - 1) % Entries]]

\* The ring with group stored from position in onwards.
Stored(group) ==
    [s \in 0..(Entries - 1) |->
        LET i == ((s - in + Entries) % Entries) + 1
        IN IF i <= Len(group) THEN group[i] ELSE ring[s]]

Init ==
    /\ ring = [s \in 0..(Entries - 1) |-> Empty]
    /\ in = 0 /\ out = 0
    /\ reserved = 0
    /\ items = 0
    /\ flow = "application"
    /\ byte = 0
    /\ port = << >>
    /\ open = TRUE
    /\ sent = 0
    /\ pressed = 0
    /\ got = << >>
    /\ dropped = {}

---------------------------------------------------------------------------
(* The remote user.                                                        *)

Send ==
    /\ sent < MaxBytes
    /\ sent' = sent + 1
    /\ port' = Append(port, sent + 1)
    /\ UNCHANGED <<ring, indices, reserved, items, flow, byte, open, history>>

---------------------------------------------------------------------------
(* The frame thread: ODInQueueAddEvent and ODInQueueAddEvents.             *)

\* Mutant of Fits: one free slot is enough for a group.
FitsFirst(group) == Available >= 1

Fits(group) == Available >= Len(group)

\* Mutant of Add: the semaphore goes up by one for a group.
AddCountsOne(group) ==
    /\ ring' = Stored(group)
    /\ in' = (in + Len(group)) % Entries
    /\ items' = items + 1
    /\ UNCHANGED out

Add(group) ==
    /\ ring' = Stored(group)
    /\ in' = (in + Len(group)) % Entries
    /\ items' = items + Len(group)
    /\ UNCHANGED out

\* A key without a character code is two events, a zero and a scan code.
PressKey ==
    /\ pressed < MaxKeys
    /\ pressed' = pressed + 1
    /\ LET n == pressed + 1 IN
       \E group \in {<<LocalEvent(n, 0)>>,
                     <<LocalEvent(n, 1), LocalEvent(n, 2)>>} :
           IF Fits(group) THEN Add(group)
           ELSE UNCHANGED <<ring, indices, items>>    \* the bell rings
    /\ UNCHANGED <<reserved, flow, remote, got, dropped>>

---------------------------------------------------------------------------
(* The application flow in od_kernel: remote bytes.                        *)

\* Mutant of Reserve: the byte is fetched whether or not there is room.
ReserveAnyway ==
    /\ flow = "application" /\ open
    /\ reserved' = reserved + 1
    /\ flow' = "reserved"
    /\ UNCHANGED <<ring, indices, items, remote, history>>

\* Without room for it the byte stays in the port.
Reserve ==
    /\ flow = "application" /\ open
    /\ Available > 0
    /\ reserved' = reserved + 1
    /\ flow' = "reserved"
    /\ UNCHANGED <<ring, indices, items, remote, history>>

Fetch ==
    /\ flow = "reserved"
    /\ port # << >>
    /\ byte' = Head(port)
    /\ port' = Tail(port)
    /\ flow' = "fetched"
    /\ UNCHANGED <<ring, indices, reserved, items, open, sent, history>>

\* Mutant of Commit: the reservation is kept.
CommitKeepsPlace ==
    /\ flow = "fetched"
    /\ Add(<<RemoteEvent(byte)>>)
    /\ byte' = 0
    /\ flow' = "application"
    /\ UNCHANGED <<reserved, port, open, sent, history>>

Commit ==
    /\ flow = "fetched"
    /\ Add(<<RemoteEvent(byte)>>)
    /\ reserved' = reserved - 1
    /\ byte' = 0
    /\ flow' = "application"
    /\ UNCHANGED <<port, open, sent, history>>

Cancel ==
    /\ flow = "reserved"
    /\ port = << >>
    /\ reserved' = reserved - 1
    /\ flow' = "application"
    /\ UNCHANGED <<ring, indices, items, remote, history>>

\* While the user's keyboard is off bytes are fetched and forgotten.
Ignore ==
    /\ flow = "application" /\ ~open
    /\ port # << >>
    /\ port' = Tail(port)
    /\ dropped' = dropped \union {Head(port)}
    /\ UNCHANGED <<ring, indices, reserved, items, flow, byte, open, sent,
                   pressed, got>>

\* The operator's request is applied between two kernel runs.
ToggleKeyboard ==
    /\ flow = "application"
    /\ open' = ~open
    /\ UNCHANGED <<ring, indices, reserved, items, flow, byte, port, sent,
                   history>>

---------------------------------------------------------------------------
(* The application flow as a reader: ODInQueueGetNextEvent.                *)

Down(from, to) ==
    /\ flow = from
    /\ items > 0
    /\ items' = items - 1
    /\ flow' = to
    /\ UNCHANGED <<ring, indices, reserved, remote, history>>

Await == Down("application", "taking")

Advance == out' = (out + 1) % Entries

Take ==
    /\ flow = "taking"
    /\ got' = Append(got, ring[out])
    /\ Advance
    /\ flow' = "application"
    /\ UNCHANGED <<ring, in, reserved, items, remote, pressed, dropped>>

---------------------------------------------------------------------------
(* od_clear_keybuffer: ODInQueueEmpty, then ODComClearInbound.             *)

BeginClear ==
    /\ flow = "application"
    /\ flow' = "clearing"
    /\ UNCHANGED <<ring, indices, reserved, items, remote, history>>

ClearAwait == Used > 0 /\ Down("clearing", "discarding")

Discard ==
    /\ flow = "discarding"
    /\ dropped' = dropped \union (IF ring[out].remote THEN {ring[out].n} ELSE {})
    /\ Advance
    /\ flow' = "clearing"
    /\ UNCHANGED <<ring, in, reserved, items, remote, pressed, got>>

Emptied ==
    /\ flow = "clearing"
    /\ Used = 0
    /\ flow' = "purging"
    /\ UNCHANGED <<ring, indices, reserved, items, remote, history>>

Purge ==
    /\ flow = "purging"
    /\ dropped' = dropped \union ToSet(port)
    /\ port' = << >>
    /\ flow' = "application"
    /\ UNCHANGED <<ring, indices, reserved, items, byte, open, sent, pressed,
                   got>>

---------------------------------------------------------------------------
KernelStep == Reserve \/ Fetch \/ Commit \/ Cancel \/ Ignore
ReadStep == Await \/ Take
ClearStep == BeginClear \/ ClearAwait \/ Discard \/ Emptied \/ Purge

Next ==
    Send \/ PressKey \/ ToggleKeyboard \/ KernelStep \/ ReadStep \/ ClearStep

Spec == Init /\ [][Next]_vars

---------------------------------------------------------------------------
(* Properties.                                                             *)

\* Indices stay in the ring, reservations in the room that is left, and what
\* is read out of the ring was written into it.
TypeOK ==
    /\ ring \in [0..(Entries - 1) -> Event \union {Empty}]
    /\ in \in 0..(Entries - 1) /\ out \in 0..(Entries - 1)
    /\ reserved \in 0..(Entries - 1)
    /\ items \in 0..(Entries - 1)
    /\ flow \in {"application", "reserved", "fetched", "taking", "clearing",
                 "discarding", "purging"}
    /\ byte \in 0..MaxBytes
    /\ port \in Seq(1..MaxBytes)
    /\ open \in BOOLEAN
    /\ sent \in 0..MaxBytes
    /\ pressed \in 0..MaxKeys
    /\ got \in Seq(Event)
    /\ dropped \subseteq 1..MaxBytes

\* Between the reader's two critical sections, and at no other time, the
\* semaphore is one behind the ring: a reader who got through it always finds
\* an event, and one who finds events waiting always gets through it.
SemaphoreCounts ==
    Used = items + IF flow \in {"taking", "discarding"} THEN 1 ELSE 0

\* The strengthening of SemaphoreCounts that every step preserves: a place is
\* kept for the one byte between reservation and commitment, and for nothing
\* else, and what a reader will find in the ring was written by somebody.
RingInv ==
    /\ TypeOK
    /\ SemaphoreCounts
    /\ reserved = IF flow \in {"reserved", "fetched"} THEN 1 ELSE 0
    /\ Used + reserved < Entries
    /\ flow = "fetched" => byte # 0
    /\ \A i \in 1..Used : Queue[i] \in Event

\* What holds the bytes that are not dropped on purpose, in the order in which
\* it will have reached the application.
Carried(bytes) == [i \in 1..Len(bytes) |-> RemoteEvent(bytes[i])]
OnTheWay ==
    got \o Queue \o (IF byte = 0 THEN << >> ELSE <<RemoteEvent(byte)>>) \o Carried(port)

\* The remote bytes among events, and that each comes before the later ones.
BytesOf(events) == {events[i].n : i \in {j \in 1..Len(events) : events[j].remote}}
InOrder(events) ==
    \A i, j \in 1..Len(events) :
        i < j /\ events[i].remote /\ events[j].remote => events[i].n < events[j].n

\* No byte fetched from the port is lost, doubled or overtaken by a later one,
\* however the sysop's keys fill the queue meanwhile: a byte leaves the port
\* only into a place that was kept for it.
NoByteLost == InOrder(OnTheWay) /\ BytesOf(OnTheWay) = 1..sent \ dropped

\* The zero and the scan code of a key are read one after the other, also
\* when bytes arrive and the queue is emptied at the same time.
PairsStayTogether ==
    \A i \in 1..Len(got) :
        got[i].part = 2 => i > 1 /\ got[i - 1] = LocalEvent(got[i].n, 1)

\* The ring is a bounded FIFO with booked places.
Fifo == INSTANCE BoundedFifo
    WITH Events <- Event, Capacity <- Entries - 1, GroupMax <- 2,
         queue <- Queue, booked <- reserved

ImplementsFifo == Fifo!Spec
=============================================================================
