---------------------------- MODULE OrderProofs ----------------------------
(***************************************************************************)
(* The registry protocol of Reserve implements Reservation, for any number *)
(* of processes, names, records and ticket values: first come, first       *)
(* served.                                                                 *)
(*                                                                         *)
(* OrderInv says of the requests what PassedAreBehind says of the scans:   *)
(* whoever was queued when a request came stays ahead of it.  BehindStep   *)
(* carries it over the steps of the request itself; the steps of the peer  *)
(* end its request or leave its ticket alone.  A request that acquires has *)
(* passed every record, so that nobody can be ahead of it any more.        *)
(***************************************************************************)
EXTENDS ReserveOrder, ReserveProofs

---------------------------------------------------------------------------
(* Requests in line.                                                       *)

LEMMA InLineParticipates ==
    ASSUME Footing, NEW p \in Door, InLine(p)
    PROVE  /\ Participant(p) /\ name[p] \in Name
           /\ own[p] \in Slots /\ lock[own[p]] = p
BY DEF Footing, FlagsFit, OwnerLocked, OwnsRecord, InLine, Choosing, Queued,
   Participant, Scanning

\* A process that is in line before and after a step asks under one name.
LEMMA NameStays ==
    ASSUME Footing, NEW p \in Door, Step(p), InLine(p), InLine(p)'
    PROVE  name'[p] = name[p] /\ own'[p] = own[p]
<1> USE DEF InLine, Choosing, Queued, Scanning, Footing, FlagsFit, TypeOK
<1>1. CASE Join(p)
  BY <1>1 DEF Join, LockRegistry, Reclaim, RefuseIdentity, Extend, CommitRecord,
     ResetRecord, JoinFails, Goto, Forget, session
<1>2. CASE Request(p)
  BY <1>2 DEF Request, BeginRequest, SnapshotForRequest, SnapshotTimesOut,
     CollectTicket, IssueTicket, TicketsExhausted, FinishFailure, Detach, Forget,
     BeginScan, Goto, ScanDone, session
<1>3. CASE ReadLiveRecord(p)
  BY <1>3 DEF ReadLiveRecord, ProbeFree, SkipStale, ProbeBusy, ReadUncommitted,
     RecheckFree, RecordUnreadable, Detach, Forget, Goto, session
<1>4. CASE Wait(p)
  BY <1>4 DEF Wait, SnapshotForWait, PassPeer, Pending, Acquire, BeginScan, Goto,
     session
<1>5. CASE Depart(p)
  BY <1>5 DEF Depart, EndReservation, WriteFails, ClearRecord, Leave, Crash,
     Detach, Forget, Goto, session
<1> QED
  BY <1>1, <1>2, <1>3, <1>4, <1>5 DEF Step

\* A queued request keeps its ticket, and is not asked anew.
LEMMA TicketStays ==
    ASSUME Footing, NEW p \in Door, Step(p), Queued(p), Queued(p)'
    PROVE  ticket'[p] = ticket[p]
<1> USE DEF Queued, Choosing, Scanning, Footing, FlagsFit, TypeOK
<1>1. CASE Join(p)
  BY <1>1 DEF Join, LockRegistry, Reclaim, RefuseIdentity, Extend, CommitRecord,
     ResetRecord, JoinFails, Goto, Forget, session
<1>2. CASE Request(p)
  BY <1>2 DEF Request, BeginRequest, SnapshotForRequest, SnapshotTimesOut,
     CollectTicket, IssueTicket, TicketsExhausted, FinishFailure, Detach, Forget,
     BeginScan, Goto, ScanDone, session
<1>3. CASE ReadLiveRecord(p)
  BY <1>3 DEF ReadLiveRecord, ProbeFree, SkipStale, ProbeBusy, ReadUncommitted,
     RecheckFree, RecordUnreadable, Detach, Forget, Goto, session
<1>4. CASE Wait(p)
  BY <1>4 DEF Wait, SnapshotForWait, PassPeer, Pending, Acquire, BeginScan, Goto,
     session
<1>5. CASE Depart(p)
  BY <1>5 DEF Depart, EndReservation, WriteFails, ClearRecord, Leave, Crash,
     Detach, Forget, Goto, session
<1> QED
  BY <1>1, <1>2, <1>3, <1>4, <1>5 DEF Step

\* What a step of p leaves alone of the requests of others.
LEMMA OthersInLine ==
    ASSUME NEW q \in Door, SameState(q)
    PROVE  /\ InLine(q)' = InLine(q) /\ Queued(q)' = Queued(q)
           /\ Choosing(q)' = Choosing(q) /\ Holds(q)' = Holds(q)
           /\ StateOf(q)' = StateOf(q) /\ WantedBy(q)' = WantedBy(q)
<1>1. /\ InLine(q)' = InLine(q) /\ Queued(q)' = Queued(q)
      /\ Choosing(q)' = Choosing(q) /\ Holds(q)' = Holds(q)
  BY DEF SameState, InLine, Queued, Choosing, Scanning, Holds
<1> QED
  BY <1>1 DEF SameState, StateOf, WantedBy

---------------------------------------------------------------------------
(* The order.                                                              *)

LEMMA OrderStep ==
    ASSUME ExclusionInv, ExclusionInv', OrderInv, NEW z \in Door, Step(z),
           RecordArrivals
    PROVE  OrderInv'
<1>1. Footing /\ RecordsShowState
  BY DEF ExclusionInv
<1>2. \A q \in Door \ {z} : SameState(q)
  BY <1>1, FrameStep
<1>3. ahead' \in [Door -> SUBSET Door]
  <2>1. ASSUME NEW p \in Door
        PROVE  ahead'[p] \subseteq Door
    BY DEF RecordArrivals, OrderInv
  <2> QED
    BY <2>1 DEF RecordArrivals
<1>4. ASSUME NEW p \in Door, NEW q \in ahead'[p]
      PROVE  /\ p # q /\ InLine(p)' /\ Queued(q)' /\ name'[q] = name'[p]
             /\ Behind(p, q)'
  <2>1. q \in Door /\ InLine(p)'
    BY <1>3 DEF RecordArrivals
  <2>2. CASE ~InLine(p)
    <3>1. p = z
      BY <1>2, <2>1, <2>2, OthersInLine
    <3>2. Queued(q) /\ name[q] = name'[p] /\ q # p
      BY <2>1, <2>2 DEF RecordArrivals, InLine
    <3>3. SameState(q) /\ Queued(q)' /\ name'[q] = name[q]
      BY <1>2, <2>1, <3>1, <3>2, OthersInLine DEF SameState
    <3>4. Behind(p, q)
      BY <2>2 DEF Behind, InLine
    <3>5. Participant(p)'
      BY <2>1, InLineParticipates DEF ExclusionInv, Footing, FlagsFit, InLine, Choosing,
         Queued, Participant, Scanning
    <3> QED
      BY <1>1, <2>1, <3>1, <3>2, <3>3, <3>4, <3>5, BehindStep
  <2>3. CASE InLine(p)
    <3>1. q \in ahead[p] /\ Queued(q)'
      BY <2>1, <2>3 DEF RecordArrivals
    <3>2. p # q /\ Queued(q) /\ name[q] = name[p] /\ Behind(p, q)
      BY <3>1 DEF OrderInv
    <3>3. CASE p = z
      <4>1. name'[p] = name[p]
        BY <1>1, <2>1, <2>3, <3>3, NameStays
      <4>2. SameState(q) /\ name'[q] = name[q]
        BY <1>2, <2>1, <3>2, <3>3 DEF SameState
      <4>3. Participant(p)'
        BY <2>1 DEF ExclusionInv, Footing, FlagsFit, InLine, Choosing,
           Queued, Participant, Scanning
      <4> QED
        BY <1>1, <2>1, <3>1, <3>2, <3>3, <4>1, <4>2, <4>3, BehindStep
    <3>4. CASE p # z
      <4>1. SameState(p)
        BY <1>2, <3>4
      <4>2. name'[q] = name[q] /\ own'[q] = own[q] /\ ticket'[q] = ticket[q]
        <5>1. CASE q = z
          BY <1>1, <3>1, <3>2, <5>1, NameStays, TicketStays DEF InLine
        <5>2. CASE q # z
          BY <1>2, <2>1, <5>2 DEF SameState
        <5> QED
          BY <5>1, <5>2
      <4>3. Behind(p, q)'
        BY <3>2, <4>1, <4>2 DEF Behind, SameState, Queued, Choosing, Scanning
      <4> QED
        BY <2>1, <3>1, <3>2, <4>1, <4>2, <4>3 DEF SameState
    <3> QED
      BY <3>3, <3>4
  <2> QED
    BY <2>2, <2>3
<1> QED
  BY <1>3, <1>4 DEF OrderInv

---------------------------------------------------------------------------
(* What a step is to Reservation.                                          *)

LEMMA StateFacts ==
    ASSUME Footing, NEW q \in Door
    PROVE  /\ Holds(q) <=> StateOf(q) = "holding"
           /\ Queued(q) <=> StateOf(q) \in {"queued", "holding"}
           /\ Choosing(q) <=> StateOf(q) = "asking"
           /\ InLine(q) <=> StateOf(q) # "away"
           /\ Holds(q) => Queued(q)
<1>1. Holds(q) => Queued(q)
  BY DEF Holds, Queued, Footing, FlagsFit
<1>2. ~(Choosing(q) /\ Queued(q))
  BY DEF Choosing, Queued, Footing, FlagsFit, Scanning
<1> QED
  BY <1>1, <1>2 DEF StateOf, InLine

\* The moves of a client in Reservation.
Moves(p) ==
    \/ StateOf(p)' = StateOf(p) /\ WantedBy(p)' = WantedBy(p)
    \/ StateOf(p) = "away" /\ StateOf(p)' = "asking"
    \/ StateOf(p) = "asking" /\ StateOf(p)' = "queued"
    \/ StateOf(p) = "queued" /\ StateOf(p)' = "holding" /\ Acquire(p)
    \/ StateOf(p) # "away" /\ StateOf(p)' = "away"

\* A process does not fall back, and gets a turn only from a whole scan.
LEMMA OneMove ==
    ASSUME Footing, Footing', NEW p \in Door, Step(p)
    PROVE  Moves(p)
<1>1. /\ ~InLine(p) => ~Queued(p)'
      /\ Holds(p)' => Holds(p) \/ (Acquire(p) /\ Queued(p))
      /\ Queued(p) => ~Choosing(p)' /\ (Holds(p) /\ Queued(p)' => Holds(p)')
  <2> USE DEF InLine, Holds, Choosing, Queued, Scanning, Footing, FlagsFit, TypeOK
  <2>1. CASE Join(p)
    BY <2>1 DEF Join, LockRegistry, Reclaim, RefuseIdentity, Extend, CommitRecord,
       ResetRecord, JoinFails, Goto, Forget, session
  <2>2. CASE Request(p)
    BY <2>2 DEF Request, BeginRequest, SnapshotForRequest, SnapshotTimesOut,
       CollectTicket, IssueTicket, TicketsExhausted, FinishFailure, Detach, Forget,
       BeginScan, Goto, ScanDone, session
  <2>3. CASE ReadLiveRecord(p)
    BY <2>3 DEF ReadLiveRecord, ProbeFree, SkipStale, ProbeBusy, ReadUncommitted,
       RecheckFree, RecordUnreadable, Detach, Forget, Goto, session
  <2>4. CASE Wait(p)
    BY <2>4 DEF Wait, SnapshotForWait, PassPeer, Pending, Acquire, BeginScan, Goto,
       ScanDone, session
  <2>5. CASE Depart(p)
    BY <2>5 DEF Depart, EndReservation, WriteFails, ClearRecord, Leave, Crash,
       Detach, Forget, Goto, session
  <2> QED
    BY <2>1, <2>2, <2>3, <2>4, <2>5 DEF Step
<1>2. InLine(p) /\ InLine(p)' => WantedBy(p)' = WantedBy(p)
  BY NameStays DEF WantedBy
<1>3. ~InLine(p) /\ ~InLine(p)' => WantedBy(p)' = WantedBy(p)
  BY DEF WantedBy
<1>4. /\ StateOf(p) \in {"away", "asking", "queued", "holding"}
      /\ StateOf(p)' \in {"away", "asking", "queued", "holding"}
  BY DEF StateOf
<1>5. /\ Holds(p)' <=> StateOf(p)' = "holding"
      /\ Queued(p)' <=> StateOf(p)' \in {"queued", "holding"}
      /\ Choosing(p)' <=> StateOf(p)' = "asking"
      /\ InLine(p)' <=> StateOf(p)' # "away"
  BY DEF StateOf, InLine, Holds, Queued, Choosing, Footing, FlagsFit, Scanning
<1> QED
  BY <1>1, <1>2, <1>3, <1>4, <1>5, StateFacts DEF Moves

LEMMA RefinementInit == OrderInit => Abstract!Init
BY DEF OrderInit, Init, Abstract!Init, StateOf, WantedBy, Holds, Queued, Choosing, InLine,
   Scanning

\* Nobody is ahead of a request that has passed every record.
LEMMA NobodyAhead ==
    ASSUME ExclusionInv, OrderInv, NEW p \in Door, Acquire(p)
    PROVE  ahead[p] = {}
<1> SUFFICES ASSUME NEW q \in ahead[p]
             PROVE  FALSE
  OBVIOUS
<1> USE DEF ExclusionInv, Footing, TypeOK
<1>1. /\ q \in Door /\ p # q /\ Queued(q) /\ name[q] = name[p]
      /\ Behind(p, q)
  BY DEF OrderInv
<1>2. Queued(p) /\ Scanning(p) /\ scan[p] > snap[p]
  BY DEF Acquire, ScanDone, Queued, Scanning
<1>3. Participant(q) /\ own[q] \in Slots
  BY <1>1, InLineParticipates DEF InLine
<1>4. own[q] \in Passed(p)
  BY <1>2, <1>3 DEF Passed, Slots
<1>5. Behind(q, p)
  BY <1>1, <1>2, <1>3, <1>4 DEF PassedAreBehind
<1>6. /\ TicketPrecedes(ticket[p], own[p], ticket[q], own[q])
      /\ TicketPrecedes(ticket[q], own[q], ticket[p], own[p])
  BY <1>1, <1>2, <1>5 DEF Behind
<1> QED
  BY <1>1, <1>6, TicketPrecedesAsymmetric, BoundAssumption

\* Nor has anybody the resource.
LEMMA NobodyHolds ==
    ASSUME ExclusionInv, NEW p \in Door, Acquire(p), NEW q \in Door, Holds(q),
           name[q] = name[p]
    PROVE  FALSE
<1> USE DEF ExclusionInv, Footing, TypeOK
<1>1. Queued(p) /\ Scanning(p) /\ scan[p] > snap[p] /\ Participant(p)
  BY DEF Acquire, ScanDone, Queued, Scanning, Participant
<1>2. Queued(q) /\ Participant(q) /\ acquired[q] /\ p # q
  BY DEF Acquire, ScanDone, Holds, Queued, Participant, FlagsFit
<1>3. own[p] \in Slots /\ own[q] \in Slots
  BY <1>1, <1>2 DEF OwnerLocked, OwnsRecord
<1>4. own[q] \in Passed(p) /\ own[p] \in Passed(q)
  BY <1>1, <1>2, <1>3 DEF Passed, Slots
<1>5. Behind(q, p) /\ Behind(p, q)
  BY <1>1, <1>2, <1>4 DEF PassedAreBehind
<1>6. /\ TicketPrecedes(ticket[p], own[p], ticket[q], own[q])
      /\ TicketPrecedes(ticket[q], own[q], ticket[p], own[p])
  BY <1>1, <1>2, <1>5 DEF Behind
<1> QED
  BY <1>6, TicketPrecedesAsymmetric, BoundAssumption

LEMMA RefinementStep ==
    ASSUME ExclusionInv, ExclusionInv', OrderInv, NEW z \in Door, Step(z),
           RecordArrivals
    PROVE  Abstract!Next \/ UNCHANGED Abstract!vars
<1> DEFINE state == [p \in Door |-> StateOf(p)]
           wanted == [p \in Door |-> WantedBy(p)]
<1>1. Footing /\ Footing'
  BY DEF ExclusionInv
<1>2. \A q \in Door \ {z} :
          /\ SameState(q)
          /\ StateOf(q)' = StateOf(q) /\ WantedBy(q)' = WantedBy(q)
          /\ Queued(q)' = Queued(q) /\ InLine(q)' = InLine(q)
  BY <1>1, FrameStep, OthersInLine
<1>3. /\ state' = [state EXCEPT ![z] = StateOf(z)']
      /\ wanted' = [wanted EXCEPT ![z] = WantedBy(z)']
  BY <1>2
<1>4. /\ ahead \in [Door -> SUBSET Door]
      /\ \A p \in Door : \A q \in ahead[p] : InLine(p) /\ Queued(q)
  BY DEF OrderInv
<1>5. \A q \in Door :
          /\ Queued(q) <=> StateOf(q) \in {"queued", "holding"}
          /\ InLine(q) <=> StateOf(q) # "away"
          /\ Queued(q)' <=> StateOf(q)' \in {"queued", "holding"}
          /\ InLine(q)' <=> StateOf(q)' # "away"
          /\ Holds(q)' <=> StateOf(q)' = "holding"
          /\ Holds(q) <=> StateOf(q) = "holding"
  <2>1. ASSUME NEW q \in Door
        PROVE  /\ Queued(q)' <=> StateOf(q)' \in {"queued", "holding"}
               /\ InLine(q)' <=> StateOf(q)' # "away"
               /\ Holds(q)' <=> StateOf(q)' = "holding"
    BY <1>1 DEF StateOf, InLine, Holds, Queued, Choosing, Footing, FlagsFit, Scanning
  <2> QED
    BY <1>1, <2>1, StateFacts
<1>6. Moves(z)
  BY <1>1, OneMove
<1>7. \A p \in Door \ {z} :
          ahead'[p] = IF Queued(z) /\ ~Queued(z)' THEN ahead[p] \ {z} ELSE ahead[p]
  <2> SUFFICES ASSUME NEW p \in Door \ {z}
               PROVE  ahead'[p] = IF Queued(z) /\ ~Queued(z)' THEN ahead[p] \ {z}
                                  ELSE ahead[p]
    OBVIOUS
  <2>1. CASE ~InLine(p)
    BY <1>2, <1>4, <2>1 DEF RecordArrivals
  <2>2. CASE InLine(p)
    <3>1. ahead'[p] = {q \in ahead[p] : Queued(q)'}
      BY <1>2, <2>2 DEF RecordArrivals
    <3>2. \A q \in ahead[p] : q # z => Queued(q)'
      BY <1>2, <1>4
    <3>3. z \in ahead[p] => Queued(z)
      BY <1>4
    <3> QED
      BY <3>1, <3>2, <3>3
  <2> QED
    BY <2>1, <2>2
<1>8. CASE StateOf(z)' = StateOf(z) /\ WantedBy(z)' = WantedBy(z)
  <2>1. state' = state /\ wanted' = wanted
    BY <1>3, <1>8
  <2>2. (Queued(z)' <=> Queued(z)) /\ (InLine(z)' <=> InLine(z))
    BY <1>5, <1>8
  <2>3. ahead'[z] = ahead[z]
    <3>1. CASE InLine(z)
      <4>1. ahead'[z] = {q \in ahead[z] : Queued(q)'}
        BY <2>2, <3>1 DEF RecordArrivals
      <4>2. \A q \in ahead[z] : Queued(q)'
        BY <1>2, <1>4, <2>2
      <4> QED
        BY <4>1, <4>2
    <3>2. CASE ~InLine(z)
      BY <1>4, <2>2, <3>2 DEF RecordArrivals
    <3> QED
      BY <3>1, <3>2
  <2>4. ahead' = ahead
    <3>1. ahead' = [p \in Door |-> ahead'[p]]
      BY DEF RecordArrivals
    <3> QED
      BY <1>4, <1>7, <2>2, <2>3, <3>1
  <2> QED
    BY <2>1, <2>4 DEF Abstract!vars
<1>9. \A q \in ahead[z] : q # z
  BY DEF OrderInv
<1>10. InLine(z) /\ InLine(z)' => WantedBy(z)' = WantedBy(z)
  BY <1>1, NameStays DEF WantedBy
<1>11. InLine(z) /\ InLine(z)' => ahead'[z] = ahead[z]
  <2> SUFFICES ASSUME InLine(z), InLine(z)'
               PROVE  ahead'[z] = ahead[z]
    OBVIOUS
  <2>1. ahead'[z] = {q \in ahead[z] : Queued(q)'}
    BY DEF RecordArrivals
  <2>2. \A q \in ahead[z] : Queued(q)'
    BY <1>2, <1>4, <1>9
  <2> QED
    BY <2>1, <2>2
<1>12. ahead' = [p \in Door |-> ahead'[p]] /\ ahead = [p \in Door |-> ahead[p]]
  BY <1>4 DEF RecordArrivals
<1>13. CASE StateOf(z) = "away" /\ StateOf(z)' = "asking"
  <2>1. ~InLine(z) /\ ~Queued(z) /\ InLine(z)'
    BY <1>5, <1>13
  <2>2. Choosing(z)' /\ name'[z] \in Name
    BY <1>1, <1>13 DEF StateOf, Footing, FlagsFit
  <2>3. WantedBy(z)' = name'[z]
    BY <2>1 DEF WantedBy
  <2>4. ahead'[z] = {d \in Door : /\ state[d] \in {"queued", "holding"}
                                 /\ wanted[d] = name'[z]}
    <3>1. ahead'[z] = {q \in Door : Queued(q) /\ name[q] = name'[z]}
      BY <2>1 DEF RecordArrivals
    <3>2. \A d \in Door : Queued(d) => wanted[d] = name[d]
      BY DEF WantedBy, InLine
    <3> QED
      BY <1>5, <3>1, <3>2
  <2>5. ahead' = [ahead EXCEPT ![z] =
                     {d \in Door : /\ state[d] \in {"queued", "holding"}
                                   /\ wanted[d] = name'[z]}]
    BY <1>7, <1>12, <2>1, <2>4
  <2>6. Abstract!Ask(z, name'[z])
    BY <1>3, <1>13, <2>3, <2>5 DEF Abstract!Ask
  <2> QED
    BY <2>2, <2>6 DEF Abstract!Next
<1>14. CASE StateOf(z) = "asking" /\ StateOf(z)' = "queued"
  <2>1. InLine(z) /\ InLine(z)' /\ ~Queued(z)
    BY <1>5, <1>14
  <2>2. ahead' = ahead /\ wanted' = wanted
    BY <1>3, <1>7, <1>10, <1>11, <1>12, <2>1
  <2>3. Abstract!Enqueue(z)
    BY <1>3, <1>14, <2>2 DEF Abstract!Enqueue
  <2> QED
    BY <2>3 DEF Abstract!Next
<1>15. CASE StateOf(z) = "queued" /\ StateOf(z)' = "holding" /\ Acquire(z)
  <2>1. InLine(z) /\ InLine(z)' /\ Queued(z)'
    BY <1>5, <1>15
  <2>2. ahead' = ahead /\ wanted' = wanted
    BY <1>3, <1>7, <1>10, <1>11, <1>12, <2>1
  <2>3. ahead[z] = {}
    BY <1>15, NobodyAhead
  <2>4. \A d \in Door : ~(state[d] = "holding" /\ wanted[d] = wanted[z])
    <3> SUFFICES ASSUME NEW d \in Door, Holds(d), wanted[d] = wanted[z]
                 PROVE  FALSE
      BY <1>5
    <3>1. InLine(d) /\ name[d] = name[z]
      BY <1>5, <2>1 DEF WantedBy
    <3> QED
      BY <1>15, <3>1, NobodyHolds
  <2>5. Abstract!Hold(z)
    BY <1>3, <1>15, <2>2, <2>3, <2>4 DEF Abstract!Hold
  <2> QED
    BY <2>5 DEF Abstract!Next
<1>16. CASE StateOf(z) # "away" /\ StateOf(z)' = "away"
  <2>1. ~InLine(z)' /\ ~Queued(z)'
    BY <1>5, <1>16
  <2>2. ahead'[z] = {} /\ WantedBy(z)' = NoName
    BY <2>1 DEF RecordArrivals, WantedBy
  <2>3. \A p \in Door \ {z} : ahead'[p] = ahead[p] \ {z}
    BY <1>4, <1>7, <2>1
  <2>4. ahead' = [d \in Door |-> IF d = z THEN {} ELSE ahead[d] \ {z}]
    BY <1>12, <2>2, <2>3
  <2>5. Abstract!GiveUp(z)
    BY <1>3, <1>16, <2>2, <2>4 DEF Abstract!GiveUp
  <2> QED
    BY <2>5 DEF Abstract!Next
<1> QED
  BY <1>6, <1>8, <1>13, <1>14, <1>15, <1>16 DEF Moves

---------------------------------------------------------------------------
LEMMA OrderStutter ==
    ASSUME OrderInv, UNCHANGED <<vars, ahead>>
    PROVE  OrderInv' /\ UNCHANGED Abstract!vars
<1> USE DEF vars, file, session, scanning
<1>1. \A p \in Door :
         /\ InLine(p)' = InLine(p) /\ Queued(p)' = Queued(p)
         /\ StateOf(p)' = StateOf(p) /\ WantedBy(p)' = WantedBy(p)
  BY DEF InLine, Queued, Choosing, Scanning, StateOf, WantedBy, Holds
<1>2. \A p, q \in Door : Behind(p, q) => Behind(p, q)'
  BY DEF Behind, Queued, Choosing, Scanning
<1>3. OrderInv'
  BY <1>1, <1>2 DEF OrderInv
<1> QED
  BY <1>1, <1>3 DEF Abstract!vars

LEMMA OrderSpecFollows == OrderSpec => Spec
<1>1. OrderInit => Init
  BY DEF OrderInit
<1>2. [Next /\ RecordArrivals]_<<vars, ahead>> => [Next]_vars
  OBVIOUS
<1> QED
  BY <1>1, <1>2, PTL DEF OrderSpec, Spec

\* A request stays behind every peer that was queued when it came, as long as
\* that peer is queued: through its scan, its ticket, crashes and withdrawals.
THEOREM OrderInvariant == OrderSpec => []OrderInv
<1>1. OrderInit => OrderInv
  BY DEF OrderInit, OrderInv
<1>2. /\ ExclusionInv /\ ExclusionInv' /\ OrderInv
      /\ [Next /\ RecordArrivals]_<<vars, ahead>>
      => OrderInv'
  BY OrderStep, OrderStutter DEF Next
<1> QED
  BY <1>1, <1>2, OrderSpecFollows, ExclusionInvariant, PTL DEF OrderSpec

\* The registry protocol implements Reservation: one holder for each name, and
\* requests for a name are served in the order in which they came, unless they
\* are given up (docs/reference/api/od_reserve_request.md, "publishes a bakery ticket").
THEOREM ServesInOrder == OrderSpec => FirstComeFirstServed
<1>1. OrderInit => Abstract!Init
  BY RefinementInit
<1>2. /\ ExclusionInv /\ ExclusionInv' /\ OrderInv
      /\ [Next /\ RecordArrivals]_<<vars, ahead>>
      => [Abstract!Next]_(Abstract!vars)
  BY RefinementStep, OrderStutter DEF Next
<1> QED
  BY <1>1, <1>2, OrderSpecFollows, ExclusionInvariant, OrderInvariant, PTL
  DEF OrderSpec, FirstComeFirstServed, Abstract!Spec
=============================================================================
