------------------------------ MODULE ByteStream ------------------------------
(***************************************************************************)
(* What a queue of the serial port promises (the headers of ODComSendByte, *)
(* ODComSendBuffer, ODComGetByte and ODComGetBuffer in src/src/ODCom.c):   *)
(* bytes come out in the order in which they went in, each of them once,   *)
(* and none is refused before the queue is full.  A byte is known by its   *)
(* number in the stream, counted modulo Numbers.                           *)
(***************************************************************************)
EXTENDS Integers, Sequences

CONSTANTS
    Numbers,  \* the numbers of bytes wrap at this value
    Capacity  \* bytes the queue has room for

VARIABLES
    queue,  \* the numbers of the bytes in the queue, oldest first
    next,   \* the number of the next byte to go in
    last,   \* the number of the byte that came out last
    lost    \* a byte has been refused

After(n, count) == (n + count) % Numbers

Init == queue = << >> /\ next = 0 /\ last = Numbers - 1 /\ lost = FALSE

Put(count) ==
    /\ Len(queue) + count <= Capacity
    /\ queue' = queue \o [i \in 1..count |-> After(next, i - 1)]
    /\ next' = After(next, count)
    /\ UNCHANGED <<last, lost>>

\* A byte that finds the queue full is lost.
Lose ==
    /\ Len(queue) = Capacity
    /\ lost' = TRUE
    /\ UNCHANGED <<queue, next, last>>

Take(count) ==
    /\ count <= Len(queue)
    /\ last' = queue[count]
    /\ queue' = SubSeq(queue, count + 1, Len(queue))
    /\ UNCHANGED <<next, lost>>

Clear ==
    /\ queue' = << >>
    /\ UNCHANGED <<next, last, lost>>

Next == Lose \/ Clear \/ \E count \in 1..Capacity : Put(count) \/ Take(count)

Spec == Init /\ [][Next]_<<queue, next, last, lost>>
=============================================================================
