---------------------------- MODULE ReserveOrder ---------------------------
(***************************************************************************)
(* The registry protocol of Reserve implements Reservation.  The protocol  *)
(* keeps no list of who came before whom; the history variable ahead does, *)
(* so that first come, first served can be stated as a refinement.         *)
(***************************************************************************)
EXTENDS ReserveInvariant

VARIABLE ahead  \* history: the queued peers each request found on its arrival

InLine(p) == Choosing(p) \/ Queued(p)

StateOf(p) ==
    IF Holds(p) THEN "holding"
    ELSE IF Queued(p) THEN "queued"
    ELSE IF Choosing(p) THEN "asking"
    ELSE "away"

WantedBy(p) == IF InLine(p) THEN name[p] ELSE NoName

RecordArrivals ==
    ahead' = [p \in Door |->
        IF ~InLine(p)' THEN {}
        ELSE IF InLine(p) THEN {q \in ahead[p] : Queued(q)'}
        ELSE {q \in Door : Queued(q) /\ name[q] = name'[p]}]

OrderInit == Init /\ ahead = [p \in Door |-> {}]

OrderSpec ==
    OrderInit /\ [][Next /\ RecordArrivals]_<<vars, ahead>>

\* Every peer that was queued when a request came, and still is, goes first:
\* its ticket is smaller, or the request is bound to meet it before it takes its
\* own (ODRsv.c:838-877; "requests with the same name are ordered").
OrderInv ==
    /\ ahead \in [Door -> SUBSET Door]
    /\ \A p \in Door : \A q \in ahead[p] :
          /\ p # q /\ InLine(p) /\ Queued(q) /\ name[q] = name[p]
          /\ Behind(p, q)

Abstract == INSTANCE Reservation WITH
    Client <- Door,
    state <- [p \in Door |-> StateOf(p)],
    wanted <- [p \in Door |-> WantedBy(p)]

\* Every step of the protocol is a step of Reservation or leaves its state
\* alone: one holder per name, and nobody overtakes a request that was queued
\* before it asked ("requests with the same name are ordered").
FirstComeFirstServed == Abstract!Spec
=============================================================================
