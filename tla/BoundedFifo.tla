----------------------------- MODULE BoundedFifo -----------------------------
(***************************************************************************)
(* What the input queue of OpenDoors promises its users (the headers of    *)
(* the functions of src/src/ODInQue.c): a FIFO of bounded length, into     *)
(* which groups of events go together or not at all, and in which a place  *)
(* can be booked before it is known whether there is an event for it.      *)
(***************************************************************************)
EXTENDS Integers, Sequences

CONSTANTS
    Events,    \* what may be queued
    Capacity,  \* the number of events there is room for
    GroupMax   \* the largest group added at once

VARIABLES
    queue,   \* the events waiting, oldest first
    booked   \* places kept free

Groups == UNION {[1..n -> Events] : n \in 1..GroupMax}

Init == queue = << >> /\ booked = 0

Put(group) ==
    /\ Len(queue) + Len(group) + booked <= Capacity
    /\ queue' = queue \o group
    /\ UNCHANGED booked

Book ==
    /\ Len(queue) + booked < Capacity
    /\ booked' = booked + 1
    /\ UNCHANGED queue

Release ==
    /\ booked > 0
    /\ booked' = booked - 1
    /\ UNCHANGED queue

\* A booked place is always there for the event it was booked for.
PutBooked(e) ==
    /\ booked > 0
    /\ booked' = booked - 1
    /\ queue' = Append(queue, e)

Take ==
    /\ queue # << >>
    /\ queue' = Tail(queue)
    /\ UNCHANGED booked

\* Something longer than before can only have been put: TLC need not try every
\* group where nothing was added.
Next ==
    \/ Len(queue') > Len(queue) /\ \E group \in Groups : Put(group)
    \/ \E e \in Events : PutBooked(e)
    \/ Book \/ Release \/ Take

Spec == Init /\ [][Next]_<<queue, booked>>
=============================================================================
