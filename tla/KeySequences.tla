---------------------------- MODULE KeySequences ----------------------------
(***************************************************************************)
(* od_get_input and od_get_input_until (src/src/ODGetIn.c): remote bytes   *)
(* that form a terminal's key sequence are returned as one extended key,   *)
(* and so is a zero byte with the byte after it ("Doorway" keys; local     *)
(* extended keys are queued in this form).  Bytes that could still become  *)
(* a longer sequence are held, for 250 milliseconds each and from one call *)
(* to the next; local keys overtake them.                                  *)
(*                                                                         *)
(* A look at the input queue is one action; bytes arrive between any two.  *)
(* The queue is a FIFO (see InQueue).  Of the table of sequences, Table    *)
(* has one member of every kind.                                           *)
(*                                                                         *)
(* A byte is added to those held without a look at the room that is left.  *)
(* What the build puts behind the array is not said; the two flags that    *)
(* are declared after it may be among it, so a byte that is written there  *)
(* leaves them with any value.                                             *)
(***************************************************************************)
EXTENDS Integers, Sequences, SequencesExt, FiniteSetsExt

CONSTANTS
    SEQUENCE_BUFFER_SIZE,
    MaxQueued,   \* bound: bytes that wait in the queue
    MaxPending,  \* bound: bytes that wait there or are held
    Modes        \* the values of wFlags: "normal", "rawctrl" and "raw"

\* Escape sequences, of which one is the start of another, and a control key.
Table == {<<"ESC", "A">>, <<"ESC", "H">>, <<"ESC", "H", "ESC", "J">>, <<"^V">>}
ControlKeys == {<<"^V">>}

\* Every sequence of the table fits the buffer, with its terminator.
KeysAssumption ==
    /\ {MaxQueued, MaxPending, SEQUENCE_BUFFER_SIZE} \subseteq Nat
    /\ \A key \in Table : Len(key) < SEQUENCE_BUFFER_SIZE
    /\ Modes \subseteq {"normal", "rawctrl", "raw"}

VARIABLES
    queue,              \* hODInputQueue: events of a byte and where it is from
    szCurrentSequence,  \* the bytes held
    bDoorwaySequence,   \* a zero byte was read: the next byte completes it
    bDoorwaySequencePending,  \* ... once the bytes held have been returned
    call,     \* the call that runs: where it is, its flags and its deadline
    owed,     \* history: the bytes read from the queue and not returned
    event,    \* the bytes that the event returned last stands for
    overrun   \* history: something was written past the end of szCurrentSequence

keysVars == <<queue, szCurrentSequence, bDoorwaySequence, bDoorwaySequencePending, call,
              owed, event, overrun>>
held == <<szCurrentSequence, bDoorwaySequence, bDoorwaySequencePending, overrun>>

Remote == {"NUL", "ESC", "A", "H", "J", "^V"}

\* The keys of the local keyboard: a character, and an extended key.
LocalKeys == {<<"A">>, <<"NUL", "H">>}
Events == [remote : {TRUE}, byte : Remote] \cup [remote : {FALSE}, byte : {"A", "NUL", "H"}]

Idle == [at |-> "idle", flags |-> "normal", limited |-> FALSE]

Init ==
    /\ queue = << >> /\ szCurrentSequence = << >>
    /\ bDoorwaySequence = FALSE /\ bDoorwaySequencePending = FALSE
    /\ call = Idle /\ owed = << >> /\ event = << >>
    /\ overrun = FALSE
-----------------------------------------------------------------------------
(* The table *)

Known ==
    CASE call.flags = "normal" -> Table
      [] call.flags = "rawctrl" -> Table \ ControlKeys
      [] call.flags = "raw" -> {}

HaveStartOfSequence(bytes) ==
    \E key \in Known : IsPrefix(key, bytes) \/ IsPrefix(bytes, key)

\* The longest sequence at the start of the bytes, or none.
LongestFullCode(bytes) ==
    LET full == {key \in Known : IsPrefix(key, bytes)} IN
    IF full = {} THEN << >> ELSE CHOOSE key \in full : \A k \in full : Len(k) <= Len(key)

\* Mutant: a longer sequence is not waited for.
GetCodeAtOnce(bytes) == LongestFullCode(bytes)

\* Mutant: a sequence that is complete is taken for one that goes on.
GetCodeIfLonger(bytes) ==
    IF \E key \in Known : Len(key) >= Len(bytes) /\ IsPrefix(bytes, key)
    THEN << >> ELSE LongestFullCode(bytes)

\* The same, unless more bytes could still make it longer.
GetCodeIfLongest(bytes) ==
    IF \E key \in Known : Len(key) > Len(bytes) /\ IsPrefix(bytes, key)
    THEN << >> ELSE LongestFullCode(bytes)

\* Mutant: the buffer is emptied whatever is left in it.
ShiftAll(count) == szCurrentSequence' = << >>

ShiftSeq(count) ==
    szCurrentSequence' = SubSeq(szCurrentSequence, count + 1, Len(szCurrentSequence))

\* The call returns an event that stands for bytes that were owed.
Return(bytes) ==
    /\ event' = bytes
    /\ owed' = SubSeq(owed, Len(bytes) + 1, Len(owed))
    /\ call' = Idle
-----------------------------------------------------------------------------
(* The callers' keys *)

\* A local extended key is queued as one group.
Type(bytes, remote) ==
    /\ Len(queue) + Len(bytes) <= MaxQueued
    /\ Len(queue) + Len(szCurrentSequence) + Len(bytes) <= MaxPending
    /\ queue' = queue \o [i \in 1..Len(bytes) |-> [remote |-> remote, byte |-> bytes[i]]]
    /\ UNCHANGED <<held, call, owed, event>>

\* od_clear_keybuffer: the bytes held are kept.
Clear ==
    /\ call.at = "idle"
    /\ queue' = << >>
    /\ UNCHANGED <<held, call, owed, event>>
-----------------------------------------------------------------------------
(* od_get_input *)

Call(flags, limited) ==
    /\ call.at = "idle"
    /\ IF ~bDoorwaySequence /\ bDoorwaySequencePending /\ szCurrentSequence = << >>
       THEN bDoorwaySequencePending' = FALSE /\ bDoorwaySequence' = TRUE
       ELSE UNCHANGED <<bDoorwaySequence, bDoorwaySequencePending>>
    /\ call' = [at |-> IF szCurrentSequence = << >> /\ ~bDoorwaySequence' THEN "first" ELSE "look",
                flags |-> flags, limited |-> limited]
    /\ UNCHANGED <<queue, szCurrentSequence, owed, event, overrun>>

\* The first keystroke: a local one is returned as it is.
First ==
    /\ call.at = "first" /\ queue # << >>
    /\ queue' = Tail(queue)
    /\ LET key == Head(queue) IN
       IF ~key.remote /\ key.byte # "NUL"
       THEN event' = <<key.byte>> /\ call' = Idle /\ UNCHANGED <<held, owed>>
       ELSE /\ IF key.byte = "NUL"
               THEN bDoorwaySequence' = TRUE /\ UNCHANGED szCurrentSequence
               ELSE szCurrentSequence' = <<key.byte>> /\ UNCHANGED bDoorwaySequence
            /\ owed' = Append(owed, key.byte)
            /\ call' = [call EXCEPT !.at = "look"]
            /\ UNCHANGED <<bDoorwaySequencePending, event, overrun>>

\* None has come in time, or the deadline is over; the call returns FALSE.
NoInput ==
    /\ call.at = "first" /\ (queue = << >> \/ call.limited)
    /\ call' = Idle
    /\ UNCHANGED <<queue, held, owed, event>>

\* The bytes held make a character or a whole sequence; or more is waited for.
Look ==
    /\ call.at = "look"
    /\ LET key == GetCodeIfLongest(szCurrentSequence) IN
       IF ~bDoorwaySequence /\ ~HaveStartOfSequence(szCurrentSequence)
       THEN ShiftSeq(1) /\ Return(<<szCurrentSequence[1]>>)
       ELSE IF ~bDoorwaySequence /\ key # << >>
       THEN ShiftSeq(Len(key)) /\ Return(key)
       ELSE /\ call' = [call EXCEPT !.at = "more"]
            /\ UNCHANGED <<szCurrentSequence, owed, event>>
    /\ UNCHANGED <<queue, bDoorwaySequence, bDoorwaySequencePending, overrun>>

\* Another byte within 250 milliseconds.
NextKey == Head(queue)

MoreToCome ==
    /\ call.at = "more" /\ ~bDoorwaySequencePending /\ queue # << >>
    /\ queue' = Tail(queue)

\* Any byte completes a Doorway key.
CompleteDoorway ==
    /\ MoreToCome /\ bDoorwaySequence
    /\ bDoorwaySequence' = FALSE
    /\ event' = Append(owed, NextKey.byte) /\ owed' = << >>
    /\ call' = Idle
    /\ UNCHANGED <<szCurrentSequence, bDoorwaySequencePending, overrun>>

\* A zero byte waits until the bytes held have been returned.
PostponeDoorway ==
    /\ MoreToCome /\ ~bDoorwaySequence /\ NextKey.byte = "NUL"
    /\ bDoorwaySequencePending' = TRUE
    /\ owed' = Append(owed, "NUL")
    /\ UNCHANGED <<szCurrentSequence, bDoorwaySequence, call, event, overrun>>

\* A local key overtakes the bytes held.
ReturnLocal ==
    /\ MoreToCome /\ ~bDoorwaySequence /\ NextKey.byte # "NUL" /\ ~NextKey.remote
    /\ event' = <<NextKey.byte>> /\ call' = Idle
    /\ UNCHANGED <<held, owed>>

\* A remote byte is added to those held, and a zero behind it.
Extend ==
    /\ MoreToCome /\ ~bDoorwaySequence /\ NextKey.byte # "NUL" /\ NextKey.remote
    /\ LET bytes == Append(szCurrentSequence, NextKey.byte)
           key == GetCodeIfLongest(bytes)
           past == Len(bytes) >= SEQUENCE_BUFFER_SIZE
           all == IF past THEN bytes ELSE Append(owed, NextKey.byte)
       IN /\ szCurrentSequence' = SubSeq(bytes, Len(key) + 1, Len(bytes))
          /\ owed' = SubSeq(all, Len(key) + 1, Len(all))
          /\ IF key = << >>
             THEN UNCHANGED <<call, event>>
             ELSE event' = key /\ call' = Idle
          /\ IF past
             THEN /\ overrun' = TRUE
                  /\ bDoorwaySequence' \in BOOLEAN /\ bDoorwaySequencePending' \in BOOLEAN
             ELSE UNCHANGED <<overrun, bDoorwaySequence, bDoorwaySequencePending>>

\* No byte has come in time: what is held is returned as far as it is known.
Settle ==
    /\ call.at = "more" /\ (bDoorwaySequencePending \/ queue = << >> \/ call.limited)
    /\ LET key == LongestFullCode(szCurrentSequence) IN
       IF bDoorwaySequence
       THEN bDoorwaySequence' = FALSE /\ Return(<<"NUL">>) /\ UNCHANGED szCurrentSequence
       ELSE /\ UNCHANGED bDoorwaySequence
            /\ IF key # << >>
               THEN ShiftSeq(Len(key)) /\ Return(key)
               ELSE ShiftSeq(1) /\ Return(<<szCurrentSequence[1]>>)
    /\ UNCHANGED <<queue, bDoorwaySequencePending, overrun>>

KeysNext ==
    \/ \E byte \in Remote : Type(<<byte>>, TRUE)
    \/ \E key \in LocalKeys : Type(key, FALSE)
    \/ \E flags \in Modes, limited \in BOOLEAN : Call(flags, limited)
    \/ Clear \/ First \/ NoInput \/ Look \/ CompleteDoorway \/ PostponeDoorway
    \/ ReturnLocal \/ Extend \/ Settle

KeysSpec == Init /\ [][KeysNext]_keysVars
-----------------------------------------------------------------------------
TypeOK ==
    /\ queue \in Seq(Events) /\ szCurrentSequence \in Seq(Remote \ {"NUL"})
    /\ {bDoorwaySequence, bDoorwaySequencePending, overrun} \subseteq BOOLEAN
    /\ ~overrun => Len(szCurrentSequence) < SEQUENCE_BUFFER_SIZE
    /\ call \in [at : {"idle", "first", "look", "more"}, flags : Modes \cup {"normal"},
                 limited : BOOLEAN]

\* What is owed is what is held, and a zero byte is held only once.
Account ==
    /\ ~(bDoorwaySequence /\ bDoorwaySequencePending)
    /\ bDoorwaySequence => szCurrentSequence = << >>
    /\ owed = szCurrentSequence
              \o (IF bDoorwaySequence \/ bDoorwaySequencePending THEN <<"NUL">> ELSE << >>)

\* As long as the bytes held fitted the buffer, every byte read from the queue
\* is returned or still held, in the order in which it came, whatever keys, zero
\* bytes, timeouts and clearings are between; and a zero byte is held only once
\* (ODGetIn.c:333-364, 405-477, 655-671).
BytesAccounted == ~overrun => Account

\* Only bytes that begin with no key reach past the end of the buffer: keys of
\* the table, in any pieces, one behind the other, left over from another call or
\* cut short by other bytes, are returned before (ODGetIn.c:367-395, 435-447).
OnlyUnknownOverruns ==
    [][~overrun /\ overrun' =>
       call'.at = "more" /\ LongestFullCode(szCurrentSequence)' = << >>]_keysVars

\* The bytes held, and those a call could still add to them.
Readable ==
    LET other == {i \in 1..Len(queue) : ~queue[i].remote \/ queue[i].byte = "NUL"}
        count == IF bDoorwaySequencePending THEN 0
                 ELSE IF other = {} THEN Len(queue) ELSE Min(other) - 1
    IN szCurrentSequence \o [i \in 1..count |-> queue[i].byte]

\* A call without a deadline returns what the bytes that have arrived stand
\* for, the longest sequence at their start or else the first of them, no
\* matter in what pieces and over how many calls they came, as long as the bytes
\* held fitted the buffer (ODGetIn.c:374-477).
TranslatesLongest ==
    [][call.at \in {"look", "more"} /\ call'.at = "idle" /\ owed' # owed
           /\ ~bDoorwaySequence /\ ~call.limited /\ ~overrun' =>
       LET key == LongestFullCode(Readable) IN
       event' = IF key = << >> THEN <<Readable[1]>> ELSE key]_keysVars
=============================================================================
