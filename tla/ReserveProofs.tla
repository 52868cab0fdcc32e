--------------------------- MODULE ReserveProofs ---------------------------
(***************************************************************************)
(* Reserve is typed, excludes and keeps one live session per identity, for *)
(* any number of processes, names, identities, records and ticket values.  *)
(*                                                                         *)
(* ExclusionInv is inductive.  Its parts are proved one at a time, each    *)
(* under all of ExclusionInv: for the process that takes the step          *)
(* (TypeStep, OwnerStep, ScanStep, FlagStep, OwnShownStep) and for the     *)
(* others, whose state and record the step leaves alone (FrameStep,        *)
(* RecordFrameStep).  PassedAreBehind relates two processes, so it has a   *)
(* lemma for each of the two taking the step: PasserStep, where the        *)
(* process that scans moves on, and FollowerStep, where the process that   *)
(* it passed does; what the latter rests on, BehindStep, is used again for *)
(* the order of the requests.                                              *)
(***************************************************************************)
EXTENDS ReserveInvariant, TLAPS

\* What a step of p leaves alone of another process.
SameState(q) ==
    /\ pc'[q] = pc[q] /\ own'[q] = own[q] /\ name'[q] = name[q]
    /\ ticket'[q] = ticket[q] /\ requested'[q] = requested[q]
    /\ acquired'[q] = acquired[q] /\ snap'[q] = snap[q]
    /\ scan'[q] = scan[q] /\ seen'[q] = seen[q]

---------------------------------------------------------------------------
(* Types of the values a step writes.                                      *)

LEMMA ZeroTicketType == ZeroTicket \in Ticket
BY BoundAssumption DEF ZeroTicket, Ticket

LEMMA OwnPayloadType ==
    ASSUME NEW p \in Door, NEW b \in BOOLEAN, NEW n \in Name \union {NoName},
           NEW t \in Ticket
    PROVE  OwnPayload(p, b, n, t) \in Payload
<1>1. IdentityOf[p] \in Identity
  BY IdentityAssumption
<1> QED
  BY <1>1 DEF OwnPayload, Payload

LEMMA ShownTicket ==
    ASSUME NEW q \in Door, Queued(q), ~Choosing(q)
    PROVE  Shown(q).ticket = ticket[q] /\ Shown(q).name = name[q]
BY DEF Shown, OwnPayload

LEMMA IdleType ==
    ASSUME NEW p \in Door
    PROVE  /\ Idle(p) \in Payload
           /\ [Idle(p) EXCEPT !.committed = FALSE] \in Payload
<1>1. Idle(p) \in Payload
  BY OwnPayloadType, ZeroTicketType DEF Idle
<1> QED
  BY <1>1 DEF Payload

LEMMA NextTicketType ==
    ASSUME NEW t \in Ticket, ~TicketOverflows(t)
    PROVE  NextTicket(t) \in Ticket
BY BoundAssumption DEF NextTicket, TicketOverflows, Ticket

LEMMA EndScanType ==
    ASSUME TypeOK, NEW p \in Door, EndScan(p)
    PROVE  /\ snap' \in [Door -> 0..MaxRecords]
           /\ scan' \in [Door -> 0..MaxRecords + 2]
           /\ seen' \in [Door -> Ticket]
BY ZeroTicketType, BoundAssumption DEF EndScan, TypeOK

---------------------------------------------------------------------------
(* The order of tickets.                                                   *)

LEMMA NextTicketGreater ==
    ASSUME NEW t \in Ticket, ~TicketOverflows(t)
    PROVE  TicketGreater(NextTicket(t), t)
BY BoundAssumption DEF NextTicket, TicketOverflows, Ticket, TicketGreater

LEMMA TicketGreaterChain ==
    ASSUME NEW t \in Ticket, NEW u \in Ticket, NEW v \in Ticket,
           ~TicketGreater(t, u), TicketGreater(v, u)
    PROVE  TicketGreater(v, t)
BY DEF Ticket, TicketGreater

LEMMA TicketGreaterIrreflexive ==
    ASSUME NEW t \in Ticket
    PROVE  ~TicketGreater(t, t)
BY DEF Ticket, TicketGreater

LEMMA TicketGreaterAsymmetric ==
    ASSUME NEW t \in Ticket, NEW u \in Ticket, TicketGreater(t, u)
    PROVE  ~TicketGreater(u, t)
BY DEF Ticket, TicketGreater

LEMMA TicketPrecedesTotal ==
    ASSUME NEW t \in Ticket, NEW u \in Ticket, NEW r \in Nat, NEW s \in Nat,
           r # s
    PROVE  TicketPrecedes(t, r, u, s) \/ TicketPrecedes(u, s, t, r)
<1>1. t = u \/ TicketGreater(t, u) \/ TicketGreater(u, t)
  BY DEF Ticket, TicketGreater
<1> QED
  BY <1>1 DEF TicketPrecedes

LEMMA TicketPrecedesAsymmetric ==
    ASSUME NEW t \in Ticket, NEW u \in Ticket, NEW r \in Nat, NEW s \in Nat,
           TicketPrecedes(t, r, u, s)
    PROVE  ~TicketPrecedes(u, s, t, r)
BY DEF TicketPrecedes, Ticket, TicketGreater

---------------------------------------------------------------------------
(* The process that takes the step.                                        *)

LEMMA TypeStep ==
    ASSUME Footing, NEW p \in Door, Step(p)
    PROVE  TypeOK'
<1> USE ZeroTicketType, OwnPayloadType, IdleType, BoundAssumption
<1> USE DEF Footing, TypeOK, Slots, PC
<1>1. CASE LockRegistry(p)
  BY <1>1 DEF LockRegistry, session, scanning, file, Goto
<1>2. CASE Reclaim(p)
  BY SMTT(30), <1>2 DEF Reclaim, file, scanning, Matches, Goto
<1>3. CASE RefuseIdentity(p)
  BY <1>3 DEF RefuseIdentity, file, session, scanning, Close, Goto
<1>4. CASE Extend(p)
  <2> USE <1>4 DEF Extend, Goto
  <2>1. /\ count' \in 0..MaxRecords
        /\ pc' \in [Door -> PC]
        /\ own' \in [Door -> 0..MaxRecords]
    OBVIOUS
  <2>2. record' \in [1..count' -> Payload]
    OBVIOUS
  <2>3. lock' \in [1..count' -> Door \union {NoDoor}]
    OBVIOUS
  <2> QED
    BY <2>1, <2>2, <2>3 DEF scanning
<1>5. CASE CommitRecord(p)
  <2>1. own[p] \in Slots
    BY <1>5 DEF CommitRecord, Goto, OwnerLocked, OwnsRecord
  <2>2. [record[own[p]] EXCEPT !.committed = TRUE] \in Payload
    BY <2>1 DEF Payload
  <2>3. record' \in [Slots -> Payload]
    BY <1>5, <2>1, <2>2 DEF CommitRecord
  <2> QED
    BY <1>5, <2>3 DEF CommitRecord, session, scanning, Goto
<1>6. CASE ResetRecord(p)
  BY <1>6 DEF ResetRecord, session, scanning, Goto
<1>7. CASE JoinFails(p)
  BY <1>7 DEF JoinFails, file, scanning, Close, Forget
<1>8. CASE BeginRequest(p)
  <2>1. PICK n \in Name :
          /\ name' = [name EXCEPT ![p] = n]
          /\ record' = [record EXCEPT
                           ![own[p]] = OwnPayload(p, TRUE, n, ZeroTicket)]
    BY <1>8 DEF BeginRequest
  <2>2. OwnPayload(p, TRUE, n, ZeroTicket) \in Payload
    OBVIOUS
  <2> QED
    BY <1>8, <2>1, <2>2 DEF BeginRequest, scanning, Goto
<1>9. CASE SnapshotForRequest(p)
  BY <1>9 DEF SnapshotForRequest, BeginScan, FirstSlot, file, session, Goto
<1>10. CASE SnapshotTimesOut(p)
  BY <1>10 DEF SnapshotTimesOut, session, scanning, Goto
<1>11. CASE CollectTicket(p)
  <2>1. record[scan[p]].ticket \in Ticket
    BY <1>11 DEF CollectTicket, ScansInFile, Scanning, Goto, Payload
  <2>2. seen' \in [Door -> Ticket]
    BY <1>11, <2>1 DEF CollectTicket
  <2>3. scan' \in [Door -> 0..MaxRecords + 2]
    BY <1>11 DEF CollectTicket, ScansInFile, Goto, SlotAfter
  <2> QED
    BY <1>11, <2>2, <2>3 DEF CollectTicket, file, session, Goto
<1>12. CASE IssueTicket(p)
  <2>1. NextTicket(seen[p]) \in Ticket
    BY <1>12, NextTicketType DEF IssueTicket
  <2>2. OwnPayload(p, FALSE, name[p], NextTicket(seen[p])) \in Payload
    BY <2>1
  <2> QED
    BY <1>12, <2>1, <2>2, EndScanType DEF IssueTicket
<1>13. CASE TicketsExhausted(p)
  BY <1>13, EndScanType DEF TicketsExhausted, session
<1>14. CASE FinishFailure(p)
  BY <1>14 DEF FinishFailure, Detach, Close, Forget, EndScan, file
<1>15. CASE ProbeFree(p)
  BY <1>15 DEF ProbeFree, file, session, scanning, Goto
<1>16. CASE SkipStale(p)
  <2>1. scan' \in [Door -> 0..MaxRecords + 2]
    BY SMTT(30), <1>16 DEF SkipStale, ScansInFile, Goto, SlotAfter
  <2> QED
    BY <1>16, <2>1 DEF SkipStale, file, session, Goto
<1>17. CASE ProbeBusy(p)
  BY <1>17 DEF ProbeBusy, file, session, scanning, Goto
<1>18. CASE ReadUncommitted(p)
  BY <1>18 DEF ReadUncommitted, file, session, scanning, Goto
<1>19. CASE RecheckFree(p)
  BY <1>19 DEF RecheckFree, file, session, scanning, Goto
<1>20. CASE RecordUnreadable(p)
  <2>1. CASE requested[p]
    <3>1. Detach(p) /\ UNCHANGED file
      BY <1>20, <2>1 DEF RecordUnreadable
    <3> QED
      BY <3>1 DEF Detach, Close, Forget, EndScan, file
  <2>2. CASE ~requested[p]
    <3>1. /\ pc' = [pc EXCEPT ![p] = "failing"]
          /\ record' = [record EXCEPT ![own[p]] = Idle(p)]
          /\ EndScan(p)
          /\ UNCHANGED <<count, lock, registry, session>>
      BY <1>20, <2>2 DEF RecordUnreadable
    <3> QED
      BY <3>1, EndScanType DEF session
  <2> QED
    BY <2>1, <2>2
<1>21. CASE SnapshotForWait(p)
  BY <1>21 DEF SnapshotForWait, BeginScan, FirstSlot, file, session, Goto
<1>22. CASE PassPeer(p)
  <2>1. scan' \in [Door -> 0..MaxRecords + 2]
    BY <1>22 DEF PassPeer, ScansInFile, Goto, SlotAfter
  <2> QED
    BY <1>22, <2>1 DEF PassPeer, file, session, Goto
<1>23. CASE Pending(p)
  BY <1>23 DEF Pending, EndScan, file, session, Goto
<1>24. CASE Acquire(p)
  BY <1>24 DEF Acquire, EndScan, ScanDone, file
<1>25. CASE EndReservation(p)
  BY <1>25 DEF EndReservation, scanning
<1>26. CASE WriteFails(p)
  BY <1>26 DEF WriteFails, Detach, Close, Forget, EndScan, file, ScanDone
<1>27. CASE ClearRecord(p)
  BY <1>27 DEF ClearRecord, session, scanning, Goto
<1>28. CASE Leave(p)
  BY <1>28 DEF Leave, file, scanning, Close, Forget
<1>29. CASE Crash(p)
  BY <1>29 DEF Crash, Close, Forget, EndScan, file
<1> QED
  BY <1>1, <1>2, <1>3, <1>4, <1>5, <1>6, <1>7, <1>8, <1>9, <1>10, <1>11,
     <1>12, <1>13, <1>14, <1>15, <1>16, <1>17, <1>18, <1>19, <1>20, <1>21,
     <1>22, <1>23, <1>24, <1>25, <1>26, <1>27, <1>28, <1>29
  DEF Step, Join, Request, ReadLiveRecord, Wait, Depart

LEMMA OwnerStep ==
    ASSUME Footing, NEW p \in Door, Step(p)
    PROVE  OwnerLocked'
<1> USE BoundAssumption, DoorAssumption, IdentityAssumption
<1> USE DEF Footing, TypeOK, Slots, OwnerLocked, OwnsRecord, Participant
<1>1. CASE LockRegistry(p)
  BY <1>1 DEF LockRegistry, session, scanning, file, Goto
<1>2. CASE Reclaim(p)
  BY <1>2 DEF Reclaim, file, scanning, Matches, Goto
<1>3. CASE RefuseIdentity(p)
  BY <1>3 DEF RefuseIdentity, file, session, scanning, Close, Goto
<1>4. CASE Extend(p)
  BY SMTT(30), <1>4 DEF Extend, scanning, Matches, OwnPayload, Idle, ZeroTicket, Goto
<1>5. CASE CommitRecord(p)
  BY <1>5 DEF CommitRecord, session, scanning, Goto
<1>6. CASE ResetRecord(p)
  BY <1>6 DEF ResetRecord, session, scanning, OwnPayload, Idle, ZeroTicket,
              Goto
<1>7. CASE JoinFails(p)
  BY <1>7 DEF JoinFails, file, scanning, Close, Forget, ZeroTicket
<1>8. CASE BeginRequest(p)
  BY <1>8 DEF BeginRequest, scanning, OwnPayload, ZeroTicket, Goto
<1>9. CASE SnapshotForRequest(p)
  BY <1>9 DEF SnapshotForRequest, BeginScan, FirstSlot, file, session, Goto
<1>10. CASE SnapshotTimesOut(p)
  BY <1>10 DEF SnapshotTimesOut, session, scanning, OwnPayload, Idle,
              ZeroTicket, Goto
<1>11. CASE CollectTicket(p)
  BY <1>11 DEF CollectTicket, file, session, SlotAfter, Goto
<1>12. CASE IssueTicket(p)
  BY <1>12 DEF IssueTicket, EndScan, ScanDone, OwnPayload, ZeroTicket,
              NextTicket, TicketOverflows
<1>13. CASE TicketsExhausted(p)
  BY <1>13 DEF TicketsExhausted, EndScan, ScanDone, session, OwnPayload, Idle,
              ZeroTicket
<1>14. CASE FinishFailure(p)
  BY <1>14 DEF FinishFailure, Detach, Close, Forget, EndScan, file, ZeroTicket
<1>15. CASE ProbeFree(p)
  BY <1>15 DEF ProbeFree, file, session, scanning, Goto
<1>16. CASE SkipStale(p)
  BY <1>16 DEF SkipStale, file, session, SlotAfter, Goto, ScansInFile,
              Scanning
<1>17. CASE ProbeBusy(p)
  BY <1>17 DEF ProbeBusy, file, session, scanning, Goto
<1>18. CASE ReadUncommitted(p)
  BY <1>18 DEF ReadUncommitted, file, session, scanning, Goto
<1>19. CASE RecheckFree(p)
  BY <1>19 DEF RecheckFree, file, session, scanning, Goto
<1>20. CASE RecordUnreadable(p)
  BY <1>20 DEF RecordUnreadable, Detach, Close, Forget, EndScan, file,
              session, OwnPayload, Idle, ZeroTicket
<1>21. CASE SnapshotForWait(p)
  BY <1>21 DEF SnapshotForWait, BeginScan, FirstSlot, file, session, Goto
<1>22. CASE PassPeer(p)
  BY <1>22 DEF PassPeer, file, session, SlotAfter, Goto
<1>23. CASE Pending(p)
  BY <1>23 DEF Pending, EndScan, file, session, ZeroTicket, Goto
<1>24. CASE Acquire(p)
  BY <1>24 DEF Acquire, EndScan, ScanDone, file, ZeroTicket
<1>25. CASE EndReservation(p)
  BY <1>25 DEF EndReservation, scanning, OwnPayload, Idle, ZeroTicket
<1>26. CASE WriteFails(p)
  BY <1>26 DEF WriteFails, Detach, Close, Forget, EndScan, file, ScanDone,
              ZeroTicket
<1>27. CASE ClearRecord(p)
  BY <1>27 DEF ClearRecord, session, scanning, OwnPayload, Idle, ZeroTicket,
              Goto
<1>28. CASE Leave(p)
  BY <1>28 DEF Leave, file, scanning, Close, Forget, ZeroTicket
<1>29. CASE Crash(p)
  BY <1>29 DEF Crash, Close, Forget, EndScan, file, ZeroTicket
<1> QED
  BY <1>1, <1>2, <1>3, <1>4, <1>5, <1>6, <1>7, <1>8, <1>9, <1>10, <1>11,
     <1>12, <1>13, <1>14, <1>15, <1>16, <1>17, <1>18, <1>19, <1>20, <1>21,
     <1>22, <1>23, <1>24, <1>25, <1>26, <1>27, <1>28, <1>29
  DEF Step, Join, Request, ReadLiveRecord, Wait, Depart

LEMMA ScanStep ==
    ASSUME Footing, NEW p \in Door, Step(p)
    PROVE  ScansInFile'
<1> USE BoundAssumption, DoorAssumption, IdentityAssumption
<1> USE DEF Footing, TypeOK, Slots, ScansInFile, Scanning
<1>1. CASE LockRegistry(p)
  BY <1>1 DEF LockRegistry, session, scanning, file, Goto
<1>2. CASE Reclaim(p)
  BY <1>2 DEF Reclaim, file, scanning, Matches, Goto
<1>3. CASE RefuseIdentity(p)
  BY <1>3 DEF RefuseIdentity, file, session, scanning, Close, Goto
<1>4. CASE Extend(p)
  BY <1>4 DEF Extend, scanning, Matches, OwnPayload, Idle, ZeroTicket, Goto
<1>5. CASE CommitRecord(p)
  BY <1>5 DEF CommitRecord, session, scanning, Goto
<1>6. CASE ResetRecord(p)
  BY <1>6 DEF ResetRecord, session, scanning, OwnPayload, Idle, ZeroTicket,
              Goto
<1>7. CASE JoinFails(p)
  BY <1>7 DEF JoinFails, file, scanning, Close, Forget, ZeroTicket
<1>8. CASE BeginRequest(p)
  BY <1>8 DEF BeginRequest, scanning, OwnPayload, ZeroTicket, Goto
<1>9. CASE SnapshotForRequest(p)
  BY <1>9 DEF SnapshotForRequest, BeginScan, FirstSlot, file, session, Goto,
              OwnerLocked, OwnsRecord, Participant
<1>10. CASE SnapshotTimesOut(p)
  BY <1>10 DEF SnapshotTimesOut, session, scanning, OwnPayload, Idle,
              ZeroTicket, Goto
<1>11. CASE CollectTicket(p)
  BY <1>11 DEF CollectTicket, file, session, SlotAfter, Goto, OwnerLocked,
              OwnsRecord, Participant
<1>12. CASE IssueTicket(p)
  BY <1>12 DEF IssueTicket, EndScan, ScanDone, OwnPayload, ZeroTicket,
              NextTicket, TicketOverflows
<1>13. CASE TicketsExhausted(p)
  BY <1>13 DEF TicketsExhausted, EndScan, ScanDone, session, OwnPayload, Idle,
              ZeroTicket
<1>14. CASE FinishFailure(p)
  BY <1>14 DEF FinishFailure, Detach, Close, Forget, EndScan, file, ZeroTicket
<1>15. CASE ProbeFree(p)
  BY <1>15 DEF ProbeFree, file, session, scanning, Goto
<1>16. CASE SkipStale(p)
  BY <1>16 DEF SkipStale, file, session, SlotAfter, Goto, OwnerLocked,
              OwnsRecord, Participant
<1>17. CASE ProbeBusy(p)
  BY <1>17 DEF ProbeBusy, file, session, scanning, Goto
<1>18. CASE ReadUncommitted(p)
  BY <1>18 DEF ReadUncommitted, file, session, scanning, Goto
<1>19. CASE RecheckFree(p)
  BY <1>19 DEF RecheckFree, file, session, scanning, Goto
<1>20. CASE RecordUnreadable(p)
  <2>1. CASE requested[p]
    <3>1. Detach(p) /\ UNCHANGED file
      BY <1>20, <2>1 DEF RecordUnreadable
    <3> QED
      BY <3>1 DEF Detach, Close, Forget, EndScan, file
  <2>2. CASE ~requested[p]
    <3>1. /\ pc' = [pc EXCEPT ![p] = "failing"]
          /\ EndScan(p)
          /\ UNCHANGED <<count, lock, registry, session>>
      BY <1>20, <2>2 DEF RecordUnreadable
    <3> QED
      BY <3>1 DEF EndScan, session
  <2> QED
    BY <2>1, <2>2
<1>21. CASE SnapshotForWait(p)
  BY <1>21 DEF SnapshotForWait, BeginScan, FirstSlot, file, session, Goto,
              OwnerLocked, OwnsRecord, Participant
<1>22. CASE PassPeer(p)
  BY <1>22 DEF PassPeer, file, session, SlotAfter, Goto, OwnerLocked,
              OwnsRecord, Participant
<1>23. CASE Pending(p)
  BY <1>23 DEF Pending, EndScan, file, session, ZeroTicket, Goto
<1>24. CASE Acquire(p)
  BY <1>24 DEF Acquire, EndScan, ScanDone, file, ZeroTicket
<1>25. CASE EndReservation(p)
  BY <1>25 DEF EndReservation, scanning, OwnPayload, Idle, ZeroTicket
<1>26. CASE WriteFails(p)
  BY <1>26 DEF WriteFails, Detach, Close, Forget, EndScan, file, ScanDone,
              ZeroTicket
<1>27. CASE ClearRecord(p)
  BY <1>27 DEF ClearRecord, session, scanning, OwnPayload, Idle, ZeroTicket,
              Goto
<1>28. CASE Leave(p)
  BY <1>28 DEF Leave, file, scanning, Close, Forget, ZeroTicket
<1>29. CASE Crash(p)
  BY <1>29 DEF Crash, Close, Forget, EndScan, file, ZeroTicket
<1> QED
  BY <1>1, <1>2, <1>3, <1>4, <1>5, <1>6, <1>7, <1>8, <1>9, <1>10, <1>11,
     <1>12, <1>13, <1>14, <1>15, <1>16, <1>17, <1>18, <1>19, <1>20, <1>21,
     <1>22, <1>23, <1>24, <1>25, <1>26, <1>27, <1>28, <1>29
  DEF Step, Join, Request, ReadLiveRecord, Wait, Depart

LEMMA FlagStep ==
    ASSUME Footing, NEW p \in Door, Step(p)
    PROVE  FlagsFit'
<1> USE BoundAssumption, DoorAssumption, IdentityAssumption
<1> USE DEF Footing, TypeOK, Slots, FlagsFit, Choosing, Scanning
<1>1. CASE LockRegistry(p)
  BY <1>1 DEF LockRegistry, session, scanning, file, Goto
<1>2. CASE Reclaim(p)
  BY <1>2 DEF Reclaim, file, scanning, Matches, Goto
<1>3. CASE RefuseIdentity(p)
  BY <1>3 DEF RefuseIdentity, file, session, scanning, Close, Goto
<1>4. CASE Extend(p)
  BY <1>4 DEF Extend, scanning, Matches, OwnPayload, Idle, ZeroTicket, Goto
<1>5. CASE CommitRecord(p)
  BY <1>5 DEF CommitRecord, session, scanning, Goto
<1>6. CASE ResetRecord(p)
  BY <1>6 DEF ResetRecord, session, scanning, OwnPayload, Idle, ZeroTicket,
              Goto
<1>7. CASE JoinFails(p)
  BY <1>7 DEF JoinFails, file, scanning, Close, Forget, ZeroTicket
<1>8. CASE BeginRequest(p)
  BY <1>8 DEF BeginRequest, scanning, OwnPayload, ZeroTicket, Goto
<1>9. CASE SnapshotForRequest(p)
  BY <1>9 DEF SnapshotForRequest, BeginScan, FirstSlot, file, session, Goto
<1>10. CASE SnapshotTimesOut(p)
  BY <1>10 DEF SnapshotTimesOut, session, scanning, OwnPayload, Idle,
              ZeroTicket, Goto
<1>11. CASE CollectTicket(p)
  BY <1>11 DEF CollectTicket, file, session, SlotAfter, Goto
<1>12. CASE IssueTicket(p)
  BY <1>12 DEF IssueTicket, EndScan, ScanDone, OwnPayload, ZeroTicket,
              NextTicket, TicketOverflows
<1>13. CASE TicketsExhausted(p)
  BY <1>13 DEF TicketsExhausted, EndScan, ScanDone, session, OwnPayload, Idle,
              ZeroTicket
<1>14. CASE FinishFailure(p)
  BY <1>14 DEF FinishFailure, Detach, Close, Forget, EndScan, file, ZeroTicket
<1>15. CASE ProbeFree(p)
  BY <1>15 DEF ProbeFree, file, session, scanning, Goto
<1>16. CASE SkipStale(p)
  BY <1>16 DEF SkipStale, file, session, SlotAfter, Goto
<1>17. CASE ProbeBusy(p)
  BY <1>17 DEF ProbeBusy, file, session, scanning, Goto
<1>18. CASE ReadUncommitted(p)
  BY <1>18 DEF ReadUncommitted, file, session, scanning, Goto
<1>19. CASE RecheckFree(p)
  BY <1>19 DEF RecheckFree, file, session, scanning, Goto
<1>20. CASE RecordUnreadable(p)
  BY <1>20 DEF RecordUnreadable, Detach, Close, Forget, EndScan, file,
              session, OwnPayload, Idle, ZeroTicket
<1>21. CASE SnapshotForWait(p)
  BY <1>21 DEF SnapshotForWait, BeginScan, FirstSlot, file, session, Goto
<1>22. CASE PassPeer(p)
  BY <1>22 DEF PassPeer, file, session, SlotAfter, Goto
<1>23. CASE Pending(p)
  BY <1>23 DEF Pending, EndScan, file, session, ZeroTicket, Goto
<1>24. CASE Acquire(p)
  BY <1>24 DEF Acquire, EndScan, ScanDone, file, ZeroTicket
<1>25. CASE EndReservation(p)
  BY <1>25 DEF EndReservation, scanning, OwnPayload, Idle, ZeroTicket
<1>26. CASE WriteFails(p)
  BY <1>26 DEF WriteFails, Detach, Close, Forget, EndScan, file, ScanDone,
              ZeroTicket
<1>27. CASE ClearRecord(p)
  BY <1>27 DEF ClearRecord, session, scanning, OwnPayload, Idle, ZeroTicket,
              Goto
<1>28. CASE Leave(p)
  BY <1>28 DEF Leave, file, scanning, Close, Forget, ZeroTicket
<1>29. CASE Crash(p)
  BY <1>29 DEF Crash, Close, Forget, EndScan, file, ZeroTicket
<1> QED
  BY <1>1, <1>2, <1>3, <1>4, <1>5, <1>6, <1>7, <1>8, <1>9, <1>10, <1>11,
     <1>12, <1>13, <1>14, <1>15, <1>16, <1>17, <1>18, <1>19, <1>20, <1>21,
     <1>22, <1>23, <1>24, <1>25, <1>26, <1>27, <1>28, <1>29
  DEF Step, Join, Request, ReadLiveRecord, Wait, Depart

LEMMA OwnShownStep ==
    ASSUME Footing, RecordsShowState, NEW p \in Door, Step(p)
    PROVE  Participant(p)' => record'[own'[p]] = Shown(p)'
<1> USE DEF Footing, TypeOK, Slots, RecordsShowState, Shown, Participant,
            Choosing, Scanning, Queued
<1>1. CASE LockRegistry(p)
  BY <1>1 DEF LockRegistry, session, scanning, file, Goto
<1>2. CASE Reclaim(p)
  BY <1>2 DEF Reclaim, file, scanning, Matches, Goto
<1>3. CASE RefuseIdentity(p)
  BY <1>3 DEF RefuseIdentity, file, session, scanning, Goto
<1>4. CASE Extend(p)
  BY <1>4 DEF Extend, scanning, Matches, OwnPayload, Idle, ZeroTicket, Goto
<1>5. CASE CommitRecord(p)
  BY <1>5 DEF CommitRecord, session, scanning, Goto
<1>6. CASE ResetRecord(p)
  BY <1>6 DEF ResetRecord, session, scanning, OwnPayload, Idle, ZeroTicket,
              Goto, OwnerLocked, OwnsRecord, FlagsFit
<1>7. CASE JoinFails(p)
  BY <1>7 DEF JoinFails, file, scanning, ZeroTicket
<1>8. CASE BeginRequest(p)
  BY <1>8 DEF BeginRequest, scanning, OwnPayload, ZeroTicket, Goto,
              OwnerLocked, OwnsRecord, FlagsFit
<1>9. CASE SnapshotForRequest(p)
  BY <1>9 DEF SnapshotForRequest, BeginScan, FlagsFit, file, session, Goto
<1>10. CASE SnapshotTimesOut(p)
  BY <1>10 DEF SnapshotTimesOut, session, scanning, OwnPayload, Idle,
              ZeroTicket, Goto, OwnerLocked, OwnsRecord, FlagsFit
<1>11. CASE CollectTicket(p)
  BY <1>11 DEF CollectTicket, file, session, Goto
<1>12. CASE IssueTicket(p)
  BY <1>12 DEF IssueTicket, ScanDone, OwnPayload, ZeroTicket, NextTicket,
              TicketOverflows, OwnerLocked, OwnsRecord, FlagsFit
<1>13. CASE TicketsExhausted(p)
  BY <1>13 DEF TicketsExhausted, ScanDone, session, OwnPayload, Idle,
              ZeroTicket, OwnerLocked, OwnsRecord, FlagsFit
<1>14. CASE FinishFailure(p)
  BY <1>14 DEF FinishFailure, Detach, file, ZeroTicket
<1>15. CASE ProbeFree(p)
  BY <1>15 DEF ProbeFree, file, session, scanning, Goto
<1>16. CASE SkipStale(p)
  BY <1>16 DEF SkipStale, file, session, Goto
<1>17. CASE ProbeBusy(p)
  BY <1>17 DEF ProbeBusy, file, session, scanning, Goto
<1>18. CASE ReadUncommitted(p)
  BY <1>18 DEF ReadUncommitted, file, session, scanning, Goto
<1>19. CASE RecheckFree(p)
  BY <1>19 DEF RecheckFree, file, session, scanning, Goto
<1>20. CASE RecordUnreadable(p)
  <2>1. CASE requested[p]
    BY <1>20, <2>1 DEF RecordUnreadable, Detach
  <2>2. CASE ~requested[p]
    <3>1. /\ pc' = [pc EXCEPT ![p] = "failing"]
          /\ record' = [record EXCEPT ![own[p]] = Idle(p)]
          /\ UNCHANGED session
      BY <1>20, <2>2 DEF RecordUnreadable
    <3>2. own[p] \in Slots
      BY <1>20 DEF RecordUnreadable, OwnerLocked, OwnsRecord
    <3> QED
      BY <2>2, <3>1, <3>2 DEF session, Idle, OwnPayload
  <2> QED
    BY <2>1, <2>2
<1>21. CASE SnapshotForWait(p)
  BY <1>21 DEF SnapshotForWait, BeginScan, file, session, Goto
<1>22. CASE PassPeer(p)
  BY <1>22 DEF PassPeer, file, session, Goto
<1>23. CASE Pending(p)
  BY <1>23 DEF Pending, file, session, ZeroTicket, Goto
<1>24. CASE Acquire(p)
  BY <1>24 DEF Acquire, ScanDone, file, ZeroTicket
<1>25. CASE EndReservation(p)
  BY <1>25 DEF EndReservation, scanning, OwnPayload, Idle, ZeroTicket,
              OwnerLocked, OwnsRecord, FlagsFit
<1>26. CASE WriteFails(p)
  BY <1>26 DEF WriteFails, Detach, file, ScanDone, ZeroTicket
<1>27. CASE ClearRecord(p)
  BY <1>27 DEF ClearRecord, session, scanning, OwnPayload, Idle, ZeroTicket,
              Goto, OwnerLocked, OwnsRecord, FlagsFit
<1>28. CASE Leave(p)
  BY <1>28 DEF Leave, file, scanning, ZeroTicket
<1>29. CASE Crash(p)
  BY <1>29 DEF Crash, file, ZeroTicket
<1> QED
  BY <1>1, <1>2, <1>3, <1>4, <1>5, <1>6, <1>7, <1>8, <1>9, <1>10, <1>11,
     <1>12, <1>13, <1>14, <1>15, <1>16, <1>17, <1>18, <1>19, <1>20, <1>21,
     <1>22, <1>23, <1>24, <1>25, <1>26, <1>27, <1>28, <1>29
  DEF Step, Join, Request, ReadLiveRecord, Wait, Depart

---------------------------------------------------------------------------
(* The processes that do not.                                              *)

LEMMA FrameStep ==
    ASSUME Footing, NEW p \in Door, Step(p)
    PROVE  \A q \in Door \ {p} : SameState(q)
<1> USE DEF Footing, TypeOK, Slots, SameState
<1>1. CASE LockRegistry(p)
  BY <1>1 DEF LockRegistry, session, scanning, file, Goto
<1>2. CASE Reclaim(p)
  BY <1>2 DEF Reclaim, file, scanning, Goto
<1>3. CASE RefuseIdentity(p)
  BY <1>3 DEF RefuseIdentity, file, session, scanning, Goto
<1>4. CASE Extend(p)
  BY <1>4 DEF Extend, scanning, Goto
<1>5. CASE CommitRecord(p)
  BY <1>5 DEF CommitRecord, session, scanning, Goto
<1>6. CASE ResetRecord(p)
  BY <1>6 DEF ResetRecord, session, scanning, Goto
<1>7. CASE JoinFails(p)
  BY <1>7 DEF JoinFails, file, scanning, Forget
<1>8. CASE BeginRequest(p)
  BY <1>8 DEF BeginRequest, scanning, Goto
<1>9. CASE SnapshotForRequest(p)
  BY <1>9 DEF SnapshotForRequest, BeginScan, FirstSlot, file, session, Goto
<1>10. CASE SnapshotTimesOut(p)
  BY <1>10 DEF SnapshotTimesOut, session, scanning, Goto
<1>11. CASE CollectTicket(p)
  BY <1>11 DEF CollectTicket, file, session, SlotAfter, Goto
<1>12. CASE IssueTicket(p)
  BY <1>12 DEF IssueTicket, EndScan, ScanDone
<1>13. CASE TicketsExhausted(p)
  BY <1>13 DEF TicketsExhausted, EndScan, ScanDone, session
<1>14. CASE FinishFailure(p)
  BY <1>14 DEF FinishFailure, Detach, Forget, EndScan, file
<1>15. CASE ProbeFree(p)
  BY <1>15 DEF ProbeFree, file, session, scanning, Goto
<1>16. CASE SkipStale(p)
  BY <1>16 DEF SkipStale, file, session, SlotAfter, Goto
<1>17. CASE ProbeBusy(p)
  BY <1>17 DEF ProbeBusy, file, session, scanning, Goto
<1>18. CASE ReadUncommitted(p)
  BY <1>18 DEF ReadUncommitted, file, session, scanning, Goto
<1>19. CASE RecheckFree(p)
  BY <1>19 DEF RecheckFree, file, session, scanning, Goto
<1>20. CASE RecordUnreadable(p)
  <2>1. CASE requested[p]
    <3>1. Detach(p) /\ UNCHANGED file
      BY <1>20, <2>1 DEF RecordUnreadable
    <3> QED
      BY <3>1 DEF Detach, Forget, EndScan, file
  <2>2. CASE ~requested[p]
    <3>1. /\ pc' = [pc EXCEPT ![p] = "failing"]
          /\ EndScan(p)
          /\ UNCHANGED <<count, lock, registry, session>>
      BY <1>20, <2>2 DEF RecordUnreadable
    <3> QED
      BY <3>1 DEF EndScan, session
  <2> QED
    BY <2>1, <2>2
<1>21. CASE SnapshotForWait(p)
  BY <1>21 DEF SnapshotForWait, BeginScan, FirstSlot, file, session, Goto
<1>22. CASE PassPeer(p)
  BY <1>22 DEF PassPeer, file, session, SlotAfter, Goto
<1>23. CASE Pending(p)
  BY <1>23 DEF Pending, EndScan, file, session, Goto
<1>24. CASE Acquire(p)
  BY <1>24 DEF Acquire, EndScan, ScanDone, file
<1>25. CASE EndReservation(p)
  BY <1>25 DEF EndReservation, scanning
<1>26. CASE WriteFails(p)
  BY <1>26 DEF WriteFails, Detach, Forget, EndScan, file, ScanDone
<1>27. CASE ClearRecord(p)
  BY <1>27 DEF ClearRecord, session, scanning, Goto
<1>28. CASE Leave(p)
  BY <1>28 DEF Leave, file, scanning, Forget
<1>29. CASE Crash(p)
  BY <1>29 DEF Crash, Forget, EndScan, file
<1> QED
  BY <1>1, <1>2, <1>3, <1>4, <1>5, <1>6, <1>7, <1>8, <1>9, <1>10, <1>11,
     <1>12, <1>13, <1>14, <1>15, <1>16, <1>17, <1>18, <1>19, <1>20, <1>21,
     <1>22, <1>23, <1>24, <1>25, <1>26, <1>27, <1>28, <1>29
  DEF Step, Join, Request, ReadLiveRecord, Wait, Depart

LEMMA RecordFrameStep ==
    ASSUME Footing, NEW p \in Door, Step(p)
    PROVE  \A q \in Door \ {p} :
               OwnsRecord(q) => record'[own[q]] = record[own[q]]
<1> USE DEF Footing, TypeOK, Slots, OwnerLocked, OwnsRecord, Participant
<1>1. CASE LockRegistry(p)
  BY <1>1 DEF LockRegistry, file, Goto
<1>2. CASE Reclaim(p)
  BY <1>2 DEF Reclaim, file, Matches, Goto
<1>3. CASE RefuseIdentity(p)
  BY <1>3 DEF RefuseIdentity, file, Goto
<1>4. CASE Extend(p)
  <2>1. \A r \in Slots : record'[r] = record[r]
    BY <1>4 DEF Extend
  <2> QED
    BY <2>1
<1>5. CASE CommitRecord(p)
  BY <1>5 DEF CommitRecord, Goto
<1>6. CASE ResetRecord(p)
  BY <1>6 DEF ResetRecord, Goto
<1>7. CASE JoinFails(p)
  BY <1>7 DEF JoinFails, file
<1>8. CASE BeginRequest(p)
  BY <1>8 DEF BeginRequest, Goto
<1>9. CASE SnapshotForRequest(p)
  BY <1>9 DEF SnapshotForRequest, BeginScan, file, Goto
<1>10. CASE SnapshotTimesOut(p)
  BY <1>10 DEF SnapshotTimesOut, Goto
<1>11. CASE CollectTicket(p)
  BY <1>11 DEF CollectTicket, file, Goto
<1>12. CASE IssueTicket(p)
  BY ZenonT(60), <1>12 DEF IssueTicket, EndScan, ScanDone, Scanning, FlagsFit
<1>13. CASE TicketsExhausted(p)
  BY <1>13 DEF TicketsExhausted, EndScan, ScanDone
<1>14. CASE FinishFailure(p)
  BY <1>14 DEF FinishFailure, Detach, EndScan, file
<1>15. CASE ProbeFree(p)
  BY <1>15 DEF ProbeFree, file, Goto
<1>16. CASE SkipStale(p)
  BY <1>16 DEF SkipStale, file, Goto
<1>17. CASE ProbeBusy(p)
  BY <1>17 DEF ProbeBusy, file, Goto
<1>18. CASE ReadUncommitted(p)
  BY <1>18 DEF ReadUncommitted, file, Goto
<1>19. CASE RecheckFree(p)
  BY <1>19 DEF RecheckFree, file, Goto
<1>20. CASE RecordUnreadable(p)
  <2>1. \/ UNCHANGED file
        \/ record' = [record EXCEPT ![own[p]] = Idle(p)]
    BY <1>20 DEF RecordUnreadable
  <2>2. OwnsRecord(p)
    BY <1>20 DEF RecordUnreadable
  <2> QED
    BY <2>1, <2>2 DEF file
<1>21. CASE SnapshotForWait(p)
  BY <1>21 DEF SnapshotForWait, BeginScan, file, Goto
<1>22. CASE PassPeer(p)
  BY <1>22 DEF PassPeer, file, Goto
<1>23. CASE Pending(p)
  BY <1>23 DEF Pending, EndScan, file, Goto
<1>24. CASE Acquire(p)
  BY <1>24 DEF Acquire, EndScan, ScanDone, file
<1>25. CASE EndReservation(p)
  BY <1>25 DEF EndReservation
<1>26. CASE WriteFails(p)
  BY <1>26 DEF WriteFails, Detach, EndScan, file, ScanDone
<1>27. CASE ClearRecord(p)
  BY <1>27 DEF ClearRecord, Goto
<1>28. CASE Leave(p)
  BY <1>28 DEF Leave, file
<1>29. CASE Crash(p)
  BY <1>29 DEF Crash, EndScan, file
<1> QED
  BY <1>1, <1>2, <1>3, <1>4, <1>5, <1>6, <1>7, <1>8, <1>9, <1>10, <1>11,
     <1>12, <1>13, <1>14, <1>15, <1>16, <1>17, <1>18, <1>19, <1>20, <1>21,
     <1>22, <1>23, <1>24, <1>25, <1>26, <1>27, <1>28, <1>29
  DEF Step, Join, Request, ReadLiveRecord, Wait, Depart

---------------------------------------------------------------------------
(* Two processes: one scans, the other is passed.                          *)

LEMMA PasserStep ==
    ASSUME ExclusionInv, NEW p \in Door, Step(p), NEW q \in Door \ {p},
           SameState(q), Queued(p)', Participant(q)', own'[q] \in Passed(p)',
           name'[q] = name'[p]
    PROVE  Behind(q, p)'
<1> USE DEF ExclusionInv, Footing, TypeOK, Slots, SameState
<1>1. ASSUME Queued(p), ticket'[p] = ticket[p], own'[p] = own[p],
             name'[p] = name[p], own[q] \in Passed(p)
      PROVE  Behind(q, p)'
  <2>1. Participant(q)
    BY DEF Participant
  <2>2. Behind(q, p)
    BY <1>1, <2>1 DEF PassedAreBehind
  <2> QED
    BY <1>1, <2>2 DEF Behind, Queued, Choosing, Scanning
<1>2. own[q] \in Slots /\ lock[own[q]] = q
  BY DEF OwnerLocked, OwnsRecord, Participant
<1>3. CASE /\ UNCHANGED <<count, own, name, ticket, requested, acquired,
                          snap, scan>>
           /\ pc[p] \in {"probing", "releasing", "reading", "rechecking"}
           /\ pc'[p] \in {"probing", "releasing", "reading", "rechecking"}
  BY <1>1, <1>3 DEF Passed, Scanning, Queued
<1>4. CASE SnapshotForWait(p)
  <2>1. own[p] \in Slots /\ lock[own[p]] = p
    BY <1>4 DEF SnapshotForWait, Goto, OwnerLocked, OwnsRecord, Participant
  <2>2. ~acquired'[p] /\ snap'[p] = count /\ scan'[p] = FirstSlot(p)
        /\ count' = count
    BY <1>4 DEF SnapshotForWait, Goto, BeginScan, session, file
  <2> QED
    BY <1>2, <2>1, <2>2, BoundAssumption DEF Passed, FirstSlot
<1>5. CASE SkipStale(p)
  <2>1. own[q] # scan[p]
    BY <1>2, <1>5 DEF SkipStale, Goto, ScansInFile
  <2>2. own[q] # own[p]
    BY <1>2, <1>5 DEF SkipStale, Goto, OwnerLocked, OwnsRecord, Participant
  <2>3. own[q] \in Passed(p)
    BY <1>2, <1>5, <2>1, <2>2
    DEF SkipStale, Goto, Passed, Scanning, SlotAfter, ScansInFile, session, file
  <2> QED
    BY <1>1, <1>5, <2>3 DEF SkipStale, Goto, Queued, session
<1>6. CASE PassPeer(p)
  <2>1. /\ scan[p] \in 1..snap[p]
        /\ Scanning(p) /\ Queued(p)
        /\ scan'[p] = SlotAfter(p, scan[p])
        /\ UNCHANGED <<count, own, name, ticket, requested, acquired, snap>>
    BY <1>6 DEF PassPeer, Goto, ScansInFile, Scanning, Queued, session, file
  <2>2. own[q] # own[p]
    BY <1>2, <1>6 DEF PassPeer, Goto, OwnerLocked, OwnsRecord, Participant
  <2>3. CASE own[q] # scan[p]
    <3>1. own[q] \in Passed(p)
      BY <1>2, <2>1, <2>2, <2>3 DEF Passed, Scanning, SlotAfter
    <3> QED
      BY <1>1, <2>1, <3>1
  <2>4. CASE own[q] = scan[p]
    <3>1. record[own[q]] = Shown(q)
      BY DEF RecordsShowState, Participant
    <3>2. ~MustWaitFor(p, own[q])
      BY <1>6, <2>4 DEF PassPeer
    <3>3. ~Choosing(q)
      BY <2>1, <3>1, <3>2 DEF MustWaitFor, SameName, Shown, OwnPayload
    <3>4. ASSUME Queued(q)
          PROVE  TicketPrecedes(ticket[p], own[p], ticket[q], own[q])
      <4>1. record[own[q]].ticket = ticket[q] /\ record[own[q]].name = name[q]
        BY <3>1, <3>3, <3>4, ShownTicket
      <4>2. ~TicketPrecedes(ticket[q], own[q], ticket[p], own[p])
        BY <2>1, <3>2, <4>1 DEF MustWaitFor, SameName
      <4> QED
        BY <2>2, <4>2, TicketPrecedesTotal, BoundAssumption
    <3> QED
      BY <2>1, <3>3, <3>4 DEF Behind, Queued, Choosing, Scanning
  <2> QED
    BY <2>3, <2>4
<1>7. CASE Acquire(p)
  <2>1. own[q] \in Passed(p)
    BY <1>2, <1>7 DEF Acquire, ScanDone, Passed, Scanning
  <2> QED
    BY <1>1, <1>7, <2>1 DEF Acquire, ScanDone, Queued
<1>8. CASE ~acquired'[p] /\ ~Scanning(p)'
  BY <1>8 DEF Passed
<1>9. CASE ProbeFree(p) \/ ProbeBusy(p) \/ ReadUncommitted(p) \/ RecheckFree(p)
  BY <1>3, <1>9 DEF ProbeFree, ProbeBusy, ReadUncommitted, RecheckFree, Goto,
     file, session, scanning
<1>10. CASE Join(p)
  <2>1. pc'[p] \notin {"probing", "releasing", "reading", "rechecking"}
    BY <1>10 DEF Join, LockRegistry, Reclaim, RefuseIdentity, Extend,
       CommitRecord, ResetRecord, JoinFails, Goto
  <2>2. acquired' = acquired \/ acquired' = [acquired EXCEPT ![p] = FALSE]
    BY <1>10 DEF Join, LockRegistry, Reclaim, RefuseIdentity, Extend,
       CommitRecord, ResetRecord, JoinFails, Forget, session
  <2>3. ~acquired[p]
    BY <1>10 DEF Join, LockRegistry, Reclaim, RefuseIdentity, Extend,
       CommitRecord, ResetRecord, JoinFails, Goto, FlagsFit
  <2> QED
    BY <1>8, <2>1, <2>2, <2>3 DEF Scanning
<1>11. CASE Request(p)
  <2>1. ~requested[p]
    BY <1>11 DEF Request, BeginRequest, SnapshotForRequest, SnapshotTimesOut,
       CollectTicket, IssueTicket, TicketsExhausted, FinishFailure, Goto,
       FlagsFit, Scanning
  <2>2. CASE IssueTicket(p)
    BY <1>8, <2>1, <2>2 DEF IssueTicket, Scanning, FlagsFit
  <2>3. CASE ~IssueTicket(p)
    <3>1. ~requested'[p]
      BY <1>11, <2>1, <2>3 DEF Request, BeginRequest, SnapshotForRequest,
         BeginScan, SnapshotTimesOut, CollectTicket, TicketsExhausted,
         FinishFailure, Detach, Forget, session
    <3> QED
      BY <3>1 DEF Queued
  <2> QED
    BY <2>2, <2>3
<1>12. CASE RecordUnreadable(p)
  BY <1>12 DEF RecordUnreadable, Detach, Forget, Queued, session
<1>13. CASE Pending(p)
  BY <1>8, <1>13 DEF Pending, Goto, Scanning, FlagsFit, session
<1>14. CASE Depart(p)
  BY <1>14 DEF Depart, EndReservation, WriteFails, ClearRecord, Leave, Crash,
     Detach, Forget, Goto, Queued
<1> QED
  BY <1>4, <1>5, <1>6, <1>7, <1>9, <1>10, <1>11, <1>12, <1>13, <1>14
  DEF Step, ReadLiveRecord, Wait

\* A step of p keeps it behind a queued peer of the same name.
LEMMA BehindStep ==
    ASSUME Footing, RecordsShowState, NEW p \in Door, Step(p),
           NEW a \in Door \ {p}, SameState(a), Queued(a)', Participant(p)',
           name'[p] = name'[a],
           Participant(p) /\ own'[p] = own[p] /\ name'[p] = name[p]
               => Behind(p, a)
    PROVE  Behind(p, a)'
<1> USE DEF Footing, TypeOK, Slots, SameState
<1>1. Queued(a) /\ own[a] \in Slots /\ lock[own[a]] = a /\ name[a] \in Name
  BY DEF Queued, OwnerLocked, OwnsRecord, Participant, FlagsFit, Scanning
<1>2. ASSUME Participant(p), own'[p] = own[p], name'[p] = name[p]
      PROVE  own[p] # own[a] /\ Behind(p, a)
  <2>1. own[p] \in Slots /\ lock[own[p]] = p
    BY <1>2 DEF OwnerLocked, OwnsRecord
  <2> QED
    BY <1>1, <1>2, <2>1
<1>3. CASE ~Queued(p)' /\ ~(Choosing(p) /\ Scanning(p))'
  BY <1>3 DEF Behind
<1>4. CASE /\ UNCHANGED <<own, name, ticket, requested, snap, scan, seen>>
           /\ Scanning(p) /\ Scanning(p)'
  BY <1>2, <1>4 DEF Behind, Queued, Choosing, Scanning, Participant
<1>5. CASE /\ UNCHANGED <<own, name, ticket, requested>>
           /\ requested[p] /\ Queued(p) /\ Participant(p)
  BY <1>2, <1>5 DEF Behind, Queued, Choosing, Scanning
<1>6. CASE SnapshotForRequest(p)
  <2>1. /\ own[p] \in Slots /\ lock[own[p]] = p /\ ~requested[p]
        /\ UNCHANGED <<own, requested>>
        /\ snap'[p] = count /\ scan'[p] = FirstSlot(p)
    BY <1>6 DEF SnapshotForRequest, Goto, OwnerLocked, OwnsRecord, Participant,
       FlagsFit, Scanning, BeginScan, session
  <2> QED
    BY <1>1, <2>1 DEF Behind, Queued, FirstSlot
<1>7. CASE SkipStale(p) /\ ~requested[p]
  <2>1. /\ Scanning(p) /\ Participant(p) /\ Choosing(p) /\ ~requested'[p]
        /\ UNCHANGED <<own, name, ticket, requested, snap, seen>>
        /\ scan'[p] = SlotAfter(p, scan[p])
        /\ lock[scan[p]] = p
    BY <1>7 DEF SkipStale, Goto, Scanning, Choosing, Participant, session,
       ScansInFile
  <2>2. own[p] # own[a] /\ Behind(p, a)
    BY <1>2, <2>1
  <2>3. scan[p] <= own[a] => scan'[p] <= own[a]
    BY <1>1, <2>1, <2>2 DEF SlotAfter
  <2> QED
    BY <2>1, <2>2, <2>3 DEF Behind, Queued
<1>8. CASE CollectTicket(p)
  <2>1. /\ Scanning(p) /\ Participant(p) /\ Choosing(p) /\ ~requested'[p]
        /\ UNCHANGED <<own, name, ticket, requested, snap>>
        /\ scan'[p] = SlotAfter(p, scan[p])
        /\ scan[p] \in Slots
    BY <1>8 DEF CollectTicket, Goto, Scanning, Choosing, Participant, session,
       ScansInFile
  <2>2. own[p] # own[a] /\ Behind(p, a)
    BY <1>2, <2>1
  <2>3. record[scan[p]].ticket \in Ticket
    BY <2>1 DEF Payload
  <2>4. ~TicketGreater(seen[p], seen'[p])
    <3>1. \/ seen'[p] = seen[p]
          \/ /\ seen'[p] = record[scan[p]].ticket
             /\ TicketGreater(record[scan[p]].ticket, seen[p])
      BY <1>8 DEF CollectTicket
    <3>2. seen[p] \in Ticket
      OBVIOUS
    <3> QED
      BY <2>3, <3>1, <3>2, TicketGreaterIrreflexive, TicketGreaterAsymmetric
  <2>5. CASE scan[p] # own[a]
    <3>1. seen'[p] \in Ticket
      BY <1>8, <2>3 DEF CollectTicket
    <3>2. ~TicketGreater(ticket[a], seen[p])
             => ~TicketGreater(ticket[a], seen'[p])
      BY <2>4, <3>1, TicketGreaterChain DEF TicketGreater, Ticket
    <3>3. scan[p] <= own[a] => scan'[p] <= own[a]
      BY <1>1, <2>1, <2>2, <2>5 DEF SlotAfter
    <3> QED
      BY <2>1, <2>2, <3>2, <3>3 DEF Behind, Queued
  <2>6. CASE scan[p] = own[a]
    <3>1. record[own[a]] = Shown(a)
      BY <1>1 DEF RecordsShowState, Participant, Queued, FlagsFit, Scanning
    <3>2. record[own[a]] = OwnPayload(a, FALSE, name[a], ticket[a])
      BY <1>1, <3>1 DEF Shown, Queued, Choosing, FlagsFit, Scanning
    <3>3. SameName(p, scan[p]) /\ record[scan[p]].ticket = ticket[a]
      BY <2>1, <2>6, <3>2 DEF SameName, OwnPayload
    <3>4. ~TicketGreater(ticket[a], seen'[p])
      BY <1>8, <3>3, TicketGreaterIrreflexive DEF CollectTicket
    <3> QED
      BY <2>1, <2>2, <3>4 DEF Behind, Queued
  <2> QED
    BY <2>5, <2>6
<1>9. CASE IssueTicket(p)
  <2>1. /\ Scanning(p) /\ Participant(p) /\ Choosing(p)
        /\ UNCHANGED <<own, name>>
        /\ scan[p] > snap[p]
        /\ ~TicketOverflows(seen[p])
        /\ ticket'[p] = NextTicket(seen[p]) /\ ticket'[p] \in Ticket
        /\ pc'[p] = "ready"
    BY <1>9, NextTicketType
    DEF IssueTicket, ScanDone, Scanning, Choosing, Participant
  <2>2. own[p] # own[a] /\ Behind(p, a)
    BY <1>2, <2>1
  <2>3. ~TicketGreater(ticket[a], seen[p])
    BY <1>1, <2>1, <2>2 DEF Behind
  <2>4. TicketGreater(ticket'[p], ticket[a])
    BY <2>1, <2>3, NextTicketGreater, TicketGreaterChain
  <2> QED
    BY <2>1, <2>4 DEF Behind, TicketPrecedes, Choosing, Scanning
<1>10. CASE Join(p)
  BY <1>3, <1>10 DEF Join, LockRegistry, Reclaim, RefuseIdentity, Extend,
     CommitRecord, ResetRecord, JoinFails, Goto, FlagsFit, Queued, Scanning,
     Forget, session
<1>11. CASE BeginRequest(p) \/ SnapshotTimesOut(p) \/ TicketsExhausted(p)
            \/ FinishFailure(p) \/ RecordUnreadable(p)
  BY <1>3, <1>11 DEF BeginRequest, SnapshotTimesOut, TicketsExhausted, Goto,
     FinishFailure, RecordUnreadable, Detach, Forget, Queued, Scanning,
     FlagsFit, session
<1>12. CASE ProbeFree(p) \/ ProbeBusy(p) \/ ReadUncommitted(p) \/ RecheckFree(p)
  BY <1>4, <1>12 DEF ProbeFree, ProbeBusy, ReadUncommitted, RecheckFree, Goto,
     session, scanning, Scanning
<1>13. CASE Wait(p) \/ (SkipStale(p) /\ requested[p])
  BY <1>5, <1>13 DEF Wait, SnapshotForWait, PassPeer, Pending, Acquire,
     SkipStale, ScanDone, BeginScan, Goto, Queued, Participant, session
<1>14. CASE Depart(p)
  BY <1>3, <1>14 DEF Depart, EndReservation, WriteFails, ClearRecord, Leave,
     Crash, Detach, Forget, Goto, Queued, Scanning
<1> QED
  BY <1>6, <1>7, <1>8, <1>9, <1>10, <1>11, <1>12, <1>13, <1>14
  DEF Step, Request, ReadLiveRecord

LEMMA FollowerStep ==
    ASSUME ExclusionInv, NEW p \in Door, Step(p), NEW a \in Door \ {p},
           SameState(a), Queued(a)', Participant(p)', own'[p] \in Passed(a)',
           name'[p] = name'[a]
    PROVE  Behind(p, a)'
<1> USE DEF ExclusionInv, Footing, TypeOK, Slots, SameState
<1>1. ASSUME Participant(p), own'[p] = own[p], name'[p] = name[p]
      PROVE  Behind(p, a)
  <2>1. own[p] \in Slots /\ Queued(a)
    BY <1>1 DEF OwnerLocked, OwnsRecord, Queued
  <2>2. own[p] \in Passed(a)
    BY <1>1, <2>1 DEF Passed, Scanning
  <2> QED
    BY <1>1, <2>1, <2>2 DEF PassedAreBehind
<1> QED
  BY <1>1, BehindStep

---------------------------------------------------------------------------
(* The whole invariant.                                                    *)

LEMMA ExclusionInit == Init => ExclusionInv
<1> SUFFICES ASSUME Init
             PROVE  ExclusionInv
  OBVIOUS
<1>1. TypeOK
  BY ZeroTicketType, BoundAssumption DEF Init, TypeOK, PC, Slots
<1>2. \A p \in Door :
        pc[p] = "outside" /\ ~requested[p] /\ ~acquired[p]
  BY DEF Init
<1>3. OwnerLocked /\ ScansInFile /\ FlagsFit
  BY <1>2 DEF OwnerLocked, OwnsRecord, ScansInFile, FlagsFit, Participant,
     Choosing, Scanning
<1>4. RecordsShowState /\ PassedAreBehind
  BY <1>2 DEF RecordsShowState, PassedAreBehind, Participant, Queued
<1> QED
  BY <1>1, <1>3, <1>4 DEF ExclusionInv, Footing

LEMMA ExclusionStep ==
    ASSUME ExclusionInv, NEW p \in Door, Step(p)
    PROVE  ExclusionInv'
<1>1. Footing /\ RecordsShowState /\ PassedAreBehind
  BY DEF ExclusionInv
<1>2. Footing'
  BY <1>1, TypeStep, OwnerStep, ScanStep, FlagStep DEF Footing
<1>3. \A q \in Door \ {p} : SameState(q)
  BY <1>1, FrameStep
<1>4. RecordsShowState'
  <2> SUFFICES ASSUME NEW q \in Door, Participant(q)'
               PROVE  record'[own'[q]] = Shown(q)'
    BY DEF RecordsShowState
  <2>1. CASE q = p
    BY <1>1, <2>1, OwnShownStep
  <2>2. CASE q # p
    <3>1. SameState(q)
      BY <1>3, <2>2
    <3>2. Participant(q) /\ OwnsRecord(q)
      BY <3>1 DEF SameState, Participant, OwnsRecord
    <3>3. record'[own[q]] = record[own[q]] /\ record[own[q]] = Shown(q)
      BY <1>1, <2>2, <3>2, RecordFrameStep DEF RecordsShowState
    <3>4. Shown(q)' = Shown(q)
      BY <3>1
      DEF SameState, Shown, Choosing, Scanning, Queued, Idle, OwnPayload
    <3> QED
      BY <3>1, <3>3, <3>4 DEF SameState
  <2> QED
    BY <2>1, <2>2
<1>5. PassedAreBehind'
  <2> SUFFICES ASSUME NEW a \in Door, NEW b \in Door, a # b, Queued(a)',
                      Participant(b)', own'[b] \in Passed(a)',
                      name'[b] = name'[a]
               PROVE  Behind(b, a)'
    BY DEF PassedAreBehind
  <2>1. CASE a = p
    BY <1>3, <2>1, PasserStep
  <2>2. CASE b = p
    BY <1>3, <2>2, FollowerStep
  <2>3. CASE a # p /\ b # p
    <3>1. SameState(a) /\ SameState(b)
      BY <1>3, <2>3
    <3>2. /\ Queued(a) /\ Participant(b) /\ name[b] = name[a]
          /\ own[b] \in Slots
      BY <1>1, <3>1
      DEF SameState, Queued, Participant, Footing, OwnerLocked, OwnsRecord
    <3>3. own[b] \in Passed(a)
      BY <3>1, <3>2 DEF SameState, Passed, Scanning
    <3>4. Behind(b, a)
      BY <1>1, <3>2, <3>3 DEF PassedAreBehind
    <3> QED
      BY <3>1, <3>4 DEF SameState, Behind, Queued, Choosing, Scanning
  <2> QED
    BY <2>1, <2>2, <2>3
<1> QED
  BY <1>2, <1>4, <1>5 DEF ExclusionInv

LEMMA ExclusionStutter ==
    ASSUME ExclusionInv, UNCHANGED vars
    PROVE  ExclusionInv'
<1> USE DEF vars
<1>1. Footing'
  BY DEF ExclusionInv, Footing, TypeOK, Slots, OwnerLocked, OwnsRecord,
     ScansInFile, FlagsFit, Participant, Choosing, Scanning
<1>2. RecordsShowState'
  BY DEF ExclusionInv, RecordsShowState, Participant, Shown, Choosing, Queued,
     Scanning, Idle, OwnPayload
<1>3. PassedAreBehind'
  <2> SUFFICES ASSUME NEW p \in Door, NEW q \in Door, p # q, Queued(p)',
                      Participant(q)', own'[q] \in Passed(p)',
                      name'[q] = name'[p]
               PROVE  Behind(q, p)'
    BY DEF PassedAreBehind
  <2>1. Queued(p) /\ Participant(q) /\ own[q] \in Passed(p)
    BY DEF Queued, Participant, Passed, Scanning, Slots
  <2>2. Behind(q, p)
    BY <2>1 DEF ExclusionInv, PassedAreBehind
  <2> QED
    BY <2>2 DEF Behind, Queued, Choosing, Scanning
<1> QED
  BY <1>1, <1>2, <1>3 DEF ExclusionInv

\* ExclusionInv holds in every reachable state: the facts about od_reserve_wait
\* and od_reserve_request that make the bakery of ODRsv.c exclude.
THEOREM ExclusionInvariant == Spec => []ExclusionInv
<1>1. Init => ExclusionInv
  BY ExclusionInit
<1>2. ExclusionInv /\ [Next]_vars => ExclusionInv'
  BY ExclusionStep, ExclusionStutter DEF Next
<1> QED
  BY <1>1, <1>2, PTL DEF Spec

\* The session variables, the registry file and the tickets keep their types;
\* in particular no ticket word passes its width and no scan leaves the file.
THEOREM TypeCorrect == Spec => []TypeOK
<1>1. ExclusionInv => TypeOK
  BY DEF ExclusionInv, Footing
<1> QED
  BY <1>1, ExclusionInvariant, PTL

LEMMA HoldersExclude ==
    ASSUME ExclusionInv, NEW p \in Door, NEW q \in Door, Holds(p), Holds(q),
           name[p] = name[q]
    PROVE  p = q
<1> SUFFICES ASSUME p # q
             PROVE  FALSE
  OBVIOUS
<1>1. /\ Queued(p) /\ Participant(p) /\ Queued(q) /\ Participant(q)
      /\ own[p] \in Slots /\ own[q] \in Slots
  BY DEF Holds, ExclusionInv, Footing, FlagsFit, OwnerLocked, OwnsRecord,
     Participant, Queued
<1>2. own[q] \in Passed(p) /\ own[p] \in Passed(q)
  BY <1>1 DEF Holds, Passed
<1>3. Behind(q, p) /\ Behind(p, q)
  BY <1>1, <1>2 DEF ExclusionInv, PassedAreBehind
<1>4. /\ TicketPrecedes(ticket[p], own[p], ticket[q], own[q])
      /\ TicketPrecedes(ticket[q], own[q], ticket[p], own[p])
  BY <1>1, <1>3 DEF Behind
<1>5. /\ ticket[p] \in Ticket /\ ticket[q] \in Ticket
      /\ own[p] \in Nat /\ own[q] \in Nat
  BY BoundAssumption DEF ExclusionInv, Footing, TypeOK
<1> QED
  BY <1>4, <1>5, TicketPrecedesAsymmetric

\* od_reserve_wait never returns OD_RESERVE_ACQUIRED to two sessions for one
\* name, whatever crashes, stale records and half-taken tickets came before.
THEOREM Exclusion == Spec => []MutualExclusion
<1>1. ExclusionInv => MutualExclusion
  BY HoldersExclude DEF MutualExclusion
<1> QED
  BY <1>1, ExclusionInvariant, PTL

---------------------------------------------------------------------------
(* One live session per identity, and what a step may never do to the      *)
(* records.  The proofs rest on a classification of the steps by what they *)
(* do to the registry file and its locks: the four that a joining process  *)
(* has to itself, and three kinds that all the others fall under.          *)

\* A step that writes the whole payload of the own record.
Writes(p) ==
    /\ OwnsRecord(p) /\ pc[p] # "appending"
    /\ Participant(p)'
    /\ \E b \in BOOLEAN, n \in Name \union {NoName}, t \in Ticket :
           record' = [record EXCEPT ![own[p]] = OwnPayload(p, b, n, t)]
    /\ UNCHANGED <<count, lock, own>>
    /\ registry' = IF pc[p] = "resetting" THEN NoDoor ELSE registry
    /\ Queued(p) => ~Queued(p)'

\* A step that closes the registry file and takes no further part.
Closes(p) ==
    /\ Close(p)
    /\ UNCHANGED file
    /\ pc'[p] \in {"outside", "detached"}
    /\ own' = own \/ own' = [own EXCEPT ![p] = 0]
    /\ ~Queued(p)'

\* A step within a session that leaves the records alone.
Reads(p) ==
    /\ Participant(p) /\ Participant(p)'
    /\ UNCHANGED <<file, registry, own, name, ticket>>

LEMMA StepKinds ==
    ASSUME Footing, NEW p \in Door, Step(p)
    PROVE  \/ LockRegistry(p) \/ Reclaim(p) \/ Extend(p) \/ CommitRecord(p)
           \/ Writes(p) \/ Closes(p) \/ Reads(p)
<1> USE ZeroTicketType
<1> USE DEF Footing, TypeOK
<1>1. CASE RefuseIdentity(p)
  <2>1. ~requested[p]
    BY <1>1 DEF RefuseIdentity, Goto, FlagsFit, Scanning
  <2> QED
    BY <1>1, <2>1 DEF RefuseIdentity, Goto, Closes, session, file, Queued
<1>2. CASE JoinFails(p) \/ Leave(p)
  BY <1>2 DEF JoinFails, Leave, Forget, Closes, Queued
<1>3. CASE FinishFailure(p) \/ WriteFails(p)
  BY <1>3 DEF FinishFailure, WriteFails, Detach, Forget, Closes, Queued
<1>4. CASE Crash(p)
  BY <1>4 DEF Crash, Forget, Closes, Queued
<1>5. CASE RecordUnreadable(p)
  <2>1. CASE requested[p]
    <3>1. Detach(p) /\ UNCHANGED file
      BY <1>5, <2>1 DEF RecordUnreadable
    <3> QED
      BY <3>1 DEF Detach, Forget, Closes, Queued
  <2>2. CASE ~requested[p]
    <3>1. /\ pc' = [pc EXCEPT ![p] = "failing"]
          /\ record' = [record EXCEPT ![own[p]] = Idle(p)]
          /\ UNCHANGED <<count, lock, registry, session>>
      BY <1>5, <2>2 DEF RecordUnreadable
    <3>2. pc[p] \in {"probing", "reading", "rechecking"}
      BY <1>5 DEF RecordUnreadable
    <3> QED
      BY <2>2, <3>1, <3>2
      DEF Writes, OwnsRecord, Participant, Queued, Idle, session
  <2> QED
    BY <2>1, <2>2
<1>6. CASE ResetRecord(p)
  <2>1. ~requested[p]
    BY <1>6 DEF ResetRecord, Goto, FlagsFit, Scanning
  <2> QED
    BY <1>6, <2>1
    DEF ResetRecord, Goto, Writes, OwnsRecord, Participant, Queued, Idle,
        session
<1>7. CASE BeginRequest(p)
  <2>1. PICK n \in Name :
          record' = [record EXCEPT
                        ![own[p]] = OwnPayload(p, TRUE, n, ZeroTicket)]
    BY <1>7 DEF BeginRequest
  <2> QED
    BY <1>7, <2>1
    DEF BeginRequest, Goto, Writes, OwnsRecord, Participant, Queued
<1>8. CASE SnapshotTimesOut(p)
  <2>1. ~requested[p]
    BY <1>8 DEF SnapshotTimesOut, Goto, FlagsFit, Scanning
  <2> QED
    BY <1>8, <2>1
    DEF SnapshotTimesOut, Goto, Writes, OwnsRecord, Participant, Queued, Idle,
        session
<1>9. CASE IssueTicket(p)
  <2>1. NextTicket(seen[p]) \in Ticket
    BY <1>9, NextTicketType DEF IssueTicket
  <2> QED
    BY <1>9, <2>1
    DEF IssueTicket, ScanDone, Writes, OwnsRecord, Participant, Queued
<1>10. CASE TicketsExhausted(p)
  BY <1>10 DEF TicketsExhausted, ScanDone, Writes, OwnsRecord, Participant,
               Queued, Idle, session
<1>11. CASE EndReservation(p)
  BY <1>11 DEF EndReservation, Writes, OwnsRecord, Participant, Queued, Idle
<1>12. CASE ClearRecord(p)
  BY <1>12 DEF ClearRecord, Goto, Writes, OwnsRecord, Participant, Queued,
               Idle, session
<1>13. CASE SnapshotForRequest(p) \/ SnapshotForWait(p)
  BY <1>13 DEF SnapshotForRequest, SnapshotForWait, BeginScan, Goto, Reads,
               Participant, session
<1>14. CASE CollectTicket(p) \/ PassPeer(p) \/ Pending(p)
  BY <1>14 DEF CollectTicket, PassPeer, Pending, Goto, Reads, Participant,
               session
<1>15. CASE ProbeFree(p) \/ SkipStale(p) \/ ProbeBusy(p)
  BY <1>15 DEF ProbeFree, SkipStale, ProbeBusy, Goto, Reads, Participant,
               session
<1>16. CASE ReadUncommitted(p) \/ RecheckFree(p)
  BY <1>16 DEF ReadUncommitted, RecheckFree, Goto, Reads, Participant, session
<1>17. CASE Acquire(p)
  BY <1>17 DEF Acquire, ScanDone, Reads, Participant
<1> QED
  BY <1>1, <1>2, <1>3, <1>4, <1>5, <1>6, <1>7, <1>8, <1>9, <1>10, <1>11,
     <1>12, <1>13, <1>14, <1>15, <1>16, <1>17
  DEF Step, Join, Request, ReadLiveRecord, Wait, Depart

---------------------------------------------------------------------------
(* The invariant.                                                          *)

\* Whose record it is and whether it counts.
SameLabel(r, s) ==
    /\ record'[r].identity = record[s].identity
    /\ record'[r].committed = record[s].committed

\* Only an append and its commitment change what ODReserveCheckIdentities sees.
LEMMA LabelsStay ==
    ASSUME Footing, IdentityInv, NEW p \in Door, Step(p),
           ~Extend(p), ~CommitRecord(p)
    PROVE  count' = count /\ \A r \in Slots : SameLabel(r, r)
<1>1. CASE LockRegistry(p) \/ Reclaim(p) \/ Closes(p) \/ Reads(p)
  BY <1>1 DEF LockRegistry, Reclaim, Closes, Reads, file, SameLabel
<1>2. CASE Writes(p)
  <2>1. PICK b \in BOOLEAN, n \in Name \union {NoName}, t \in Ticket :
            record' = [record EXCEPT ![own[p]] = OwnPayload(p, b, n, t)]
    BY <1>2 DEF Writes
  <2>2. /\ record[own[p]].identity = IdentityOf[p]
        /\ record[own[p]].committed = TRUE
    BY <1>2 DEF Writes, IdentityInv, RecordsKeepIdentity, Footing, TypeOK,
                OwnerLocked, Payload
  <2>3. record \in [Slots -> Payload]
    BY DEF Footing, TypeOK
  <2> QED
    BY <1>2, <2>1, <2>2, <2>3 DEF Writes, OwnPayload, SameLabel
<1> QED
  BY <1>1, <1>2, StepKinds

LEMMA RegistryStep ==
    ASSUME Footing, IdentityInv, NEW p \in Door, Step(p)
    PROVE  RegistrySerialisesJoins'
<1> SUFFICES ASSUME NEW q \in Door
             PROVE  Joining(q)' <=> registry' = q
  BY DEF RegistrySerialisesJoins
<1> USE DoorAssumption
<1>1. (Joining(q) <=> registry = q) /\ (Joining(p) <=> registry = p)
  BY DEF IdentityInv, RegistrySerialisesJoins
<1>2. q # p => SameState(q)
  BY FrameStep
<1>3. q # p => (Joining(q)' <=> Joining(q))
  BY <1>2 DEF SameState, Joining
<1>4. CASE LockRegistry(p)
  BY <1>1, <1>3, <1>4 DEF LockRegistry, Goto, Joining, Footing, TypeOK
<1>5. CASE Reclaim(p) \/ Extend(p) \/ CommitRecord(p)
  BY <1>1, <1>3, <1>5
  DEF Reclaim, Extend, CommitRecord, Goto, Joining, Footing, TypeOK
<1>6. CASE Writes(p)
  BY <1>1, <1>3, <1>6 DEF Writes, Joining, Participant, OwnsRecord
<1>7. CASE Closes(p)
  BY <1>1, <1>3, <1>7 DEF Closes, Close, Joining
<1>8. CASE Reads(p)
  BY <1>1, <1>3, <1>8 DEF Reads, Joining, Participant
<1> QED
  BY <1>4, <1>5, <1>6, <1>7, <1>8, StepKinds

LEMMA KeepStep ==
    ASSUME Footing, Footing', IdentityInv, NEW p \in Door, Step(p)
    PROVE  RecordsKeepIdentity'
<1> SUFFICES ASSUME NEW q \in Door, OwnsRecord(q)'
             PROVE  /\ record'[own'[q]].identity = IdentityOf[q]
                    /\ record'[own'[q]].committed <=> pc'[q] # "appending"
  BY DEF RecordsKeepIdentity
<1>1. /\ record \in [Slots -> Payload] /\ pc \in [Door -> PC]
      /\ own \in [Door -> 0..MaxRecords] /\ count \in Nat
  BY BoundAssumption DEF Footing, TypeOK
<1>2. OwnsRecord(q) =>
          /\ own[q] \in Slots
          /\ record[own[q]].identity = IdentityOf[q]
          /\ record[own[q]].committed <=> pc[q] # "appending"
  BY DEF IdentityInv, RecordsKeepIdentity, Footing, OwnerLocked
<1>3. CASE q # p
  <2>1. SameState(q) /\ OwnsRecord(q)
    BY <1>3, FrameStep DEF SameState, OwnsRecord, Participant
  <2>2. record'[own[q]] = record[own[q]]
    BY <1>3, <2>1, RecordFrameStep
  <2> QED
    BY <1>2, <2>1, <2>2 DEF SameState
<1>4. CASE q = p
  <2>1. CASE LockRegistry(p) \/ Closes(p)
    BY <1>1, <1>4, <2>1
    DEF LockRegistry, Closes, Goto, OwnsRecord, Participant
  <2>2. CASE Reclaim(p)
    <3>1. PICK r \in Matches(p) : own' = [own EXCEPT ![p] = r]
      BY <2>2 DEF Reclaim
    <3>2. pc'[p] = "resetting" /\ record' = record /\ own'[p] = r
      BY <1>1, <2>2, <3>1 DEF Reclaim, Goto, file
    <3> QED
      BY <1>4, <3>1, <3>2 DEF Matches
  <2>3. CASE Extend(p)
    <3>1. /\ own'[p] = count + 1 /\ pc'[p] = "appending"
          /\ record'[count + 1] = [Idle(p) EXCEPT !.committed = FALSE]
      BY <1>1, <2>3 DEF Extend, Goto, Slots
    <3> QED
      BY <1>4, <3>1 DEF Idle, OwnPayload
  <2>4. CASE CommitRecord(p)
    <3>1. OwnsRecord(p) /\ own'[p] = own[p] /\ pc'[p] = "resetting"
      BY <1>1, <2>4 DEF CommitRecord, Goto, OwnsRecord, session
    <3>2. record' = [record EXCEPT ![own[p]].committed = TRUE]
      BY <2>4 DEF CommitRecord
    <3> QED
      BY <1>1, <1>2, <1>4, <3>1, <3>2 DEF Payload
  <2>5. CASE Writes(p)
    <3>1. own'[p] = own[p] /\ pc'[p] # "appending"
      BY <2>5 DEF Writes, Participant
    <3>2. PICK b \in BOOLEAN, n \in Name \union {NoName}, t \in Ticket :
              record' = [record EXCEPT ![own[p]] = OwnPayload(p, b, n, t)]
      BY <2>5 DEF Writes
    <3>3. record'[own[p]] = OwnPayload(p, b, n, t)
      BY <1>1, <1>2, <1>4, <2>5, <3>2 DEF Writes
    <3> QED
      BY <1>4, <3>1, <3>3 DEF OwnPayload
  <2>6. CASE Reads(p)
    BY <1>2, <1>4, <2>6 DEF Reads, Participant, OwnsRecord, file
  <2> QED
    BY <2>1, <2>2, <2>3, <2>4, <2>5, <2>6, StepKinds
<1> QED
  BY <1>3, <1>4

LEMMA UniqueStep ==
    ASSUME Footing, IdentityInv, NEW p \in Door, Step(p)
    PROVE  IdentitiesUnique'
<1>1. /\ record \in [Slots -> Payload] /\ pc \in [Door -> PC]
      /\ own \in [Door -> 0..MaxRecords] /\ count \in Nat
  BY BoundAssumption DEF Footing, TypeOK
<1>2. IdentitiesUnique /\ RegistrySerialisesJoins
  BY DEF IdentityInv
\* While p joins nobody else is in the middle of an append.
<1>3. ASSUME NEW q \in Door, q # p, pc'[q] = "appending"
      PROVE  pc[q] = "appending" /\ Matches(q) = {} /\ ~Joining(p)
  <2>1. pc[q] = "appending"
    BY <1>3, FrameStep DEF SameState
  <2> QED
    BY <1>2, <1>3, <2>1
    DEF IdentitiesUnique, RegistrySerialisesJoins, Joining
<1>4. CASE Extend(p)
  <2>1. /\ Matches(p) = {} /\ count' = count + 1 /\ Slots' = 1..(count + 1)
        /\ \A r \in Slots : record'[r] = record[r]
        /\ record'[count + 1] = [Idle(p) EXCEPT !.committed = FALSE]
    BY <1>1, <1>4 DEF Extend, Slots
  <2>2. ~record'[count + 1].committed
    BY <2>1 DEF Idle, OwnPayload
  <2>3. ASSUME NEW r \in Slots', record'[r].committed
        PROVE  r \in Slots /\ record'[r] = record[r]
    <3>1. r # count + 1
      BY <2>2, <2>3
    <3>2. r \in Slots
      BY <1>1, <2>1, <3>1 DEF Slots
    <3> QED
      BY <2>1, <3>2
  <2>4. ASSUME NEW q \in Door, pc'[q] = "appending"
        PROVE  Matches(q)' = {}
    <3>1. Joining(p)
      BY <1>4 DEF Extend, Goto, Joining
    <3>2. q = p
      BY <1>3, <2>4, <3>1
    <3> QED
      BY <2>1, <2>3, <3>2 DEF Matches
  <2>5. ASSUME NEW r \in Slots', NEW s \in Slots', record'[r].committed,
               record'[s].committed,
               record'[r].identity = record'[s].identity
        PROVE  r = s
    <3>1. /\ r \in Slots /\ record'[r] = record[r]
          /\ s \in Slots /\ record'[s] = record[s]
      BY <2>3, <2>5
    <3> QED
      BY <1>2, <2>5, <3>1 DEF IdentitiesUnique
  <2> QED
    BY <2>4, <2>5 DEF IdentitiesUnique
<1>5. CASE CommitRecord(p)
  <2>1. /\ own[p] \in Slots /\ record[own[p]].identity = IdentityOf[p]
        /\ Matches(p) = {} /\ pc[p] = "appending" /\ pc'[p] = "resetting"
        /\ count' = count
    BY <1>1, <1>5
    DEF CommitRecord, Goto, OwnsRecord, Footing, OwnerLocked, IdentityInv,
        RecordsKeepIdentity, IdentitiesUnique
  <2>2. record' = [record EXCEPT ![own[p]].committed = TRUE]
    BY <1>5 DEF CommitRecord
  <2>3. \A r \in Slots : record'[r].identity = record[r].identity
    BY <1>1, <2>1, <2>2 DEF Payload
  <2>4. \A r \in Slots : r # own[p] => record'[r] = record[r]
    BY <1>1, <2>2
  <2>5. \A r \in Slots : record[r].committed =>
            record[r].identity # IdentityOf[p]
    BY <2>1 DEF Matches
  <2>6. \A r, s \in Slots :
           (/\ record'[r].committed /\ record'[s].committed
            /\ record'[r].identity = record'[s].identity) => r = s
    BY <1>2, <2>1, <2>3, <2>4, <2>5 DEF IdentitiesUnique
  <2>7. \A q \in Door : pc'[q] # "appending"
    BY <1>3, <2>1 DEF Joining
  <2> QED
    BY <2>1, <2>6, <2>7 DEF IdentitiesUnique, Slots
<1>6. CASE ~Extend(p) /\ ~CommitRecord(p)
  <2>1. count' = count /\ \A r \in Slots : SameLabel(r, r)
    BY <1>6, LabelsStay
  <2>2. Slots' = Slots
    BY <2>1 DEF Slots
  <2>3. pc'[p] # "appending"
    BY <1>1, <1>6, StepKinds
    DEF LockRegistry, Reclaim, Goto, Writes, Closes, Reads, Participant
  <2>4. \A q \in Door : pc'[q] = "appending" => Matches(q)' = {}
    BY <1>3, <2>1, <2>2, <2>3 DEF Matches, SameLabel
  <2> QED
    BY <1>2, <2>1, <2>2, <2>4 DEF IdentitiesUnique, SameLabel
<1> QED
  BY <1>4, <1>5, <1>6

LEMMA IdentityInit == Init => IdentityInv
<1> SUFFICES ASSUME Init
             PROVE  IdentityInv
  OBVIOUS
<1>1. Footing
  BY ExclusionInit DEF ExclusionInv
<1>2. \A p \in Door : pc[p] = "outside" /\ registry # p
  BY DoorAssumption DEF Init
<1>3. Slots = {}
  BY DEF Init, Slots
<1> QED
  BY <1>1, <1>2, <1>3
  DEF IdentityInv, RegistrySerialisesJoins, Joining, RecordsKeepIdentity,
      OwnsRecord, Participant, IdentitiesUnique, Matches

LEMMA IdentityStep ==
    ASSUME Footing, Footing', IdentityInv, NEW p \in Door, Step(p)
    PROVE  IdentityInv'
BY RegistryStep, KeepStep, UniqueStep DEF IdentityInv

LEMMA IdentityStutter ==
    ASSUME Footing', IdentityInv, UNCHANGED vars
    PROVE  IdentityInv'
BY DEF vars, IdentityInv, RegistrySerialisesJoins, Joining,
       RecordsKeepIdentity, OwnsRecord, Participant, IdentitiesUnique,
       Matches, Slots

\* What ODReserveCheckIdentities relies on and re-establishes: one committed
\* record for an identity, and no second one in the making.
THEOREM IdentityInvariant == Spec => []IdentityInv
<1>1. Init => IdentityInv
  BY IdentityInit
<1>2. ExclusionInv => Footing
  BY DEF ExclusionInv
<1>3. ExclusionInv /\ ExclusionInv' /\ IdentityInv /\ [Next]_vars
        => IdentityInv'
  BY IdentityStep, IdentityStutter DEF Next, ExclusionInv
<1> QED
  BY <1>1, <1>3, ExclusionInvariant, PTL DEF Spec

\* Two live sessions of one identity are one session: od_init of a second
\* process with the same node number fails or waits, whoever crashed before.
THEOREM OneSession == Spec => []OneSessionPerIdentity
<1>1. ASSUME IdentityInv, NEW p \in Door, NEW q \in Door, Participant(p),
             Participant(q), IdentityOf[p] = IdentityOf[q]
      PROVE  p = q
  <2>1. /\ own[p] \in Slots /\ lock[own[p]] = p
        /\ own[q] \in Slots /\ lock[own[q]] = q
    BY <1>1 DEF IdentityInv, Footing, OwnerLocked, OwnsRecord
  <2>2. /\ record[own[p]].committed /\ record[own[q]].committed
        /\ record[own[p]].identity = record[own[q]].identity
    BY <1>1 DEF IdentityInv, RecordsKeepIdentity, OwnsRecord, Participant
  <2>3. own[p] = own[q]
    BY <1>1, <2>1, <2>2 DEF IdentityInv, IdentitiesUnique
  <2> QED
    BY <2>1, <2>3
<1>2. IdentityInv => OneSessionPerIdentity
  BY <1>1 DEF OneSessionPerIdentity
<1> QED
  BY <1>2, IdentityInvariant, PTL

---------------------------------------------------------------------------
(* What a step may never do.                                               *)

\* A slot whose append died before its commit byte is never adopted.
THEOREM Tombstones == Spec => TombstonesStay
<1> DEFINE A == \A r \in Slots :
                   ~record[r].committed /\ (\A p \in Door : own[p] # r)
                       => record'[r] = record[r] /\ \A p \in Door : own'[p] # r
<1>1. ASSUME Footing, NEW p \in Door, Step(p), NEW r \in Slots,
             ~record[r].committed, \A q \in Door : own[q] # r
      PROVE  record'[r] = record[r] /\ \A q \in Door : own'[q] # r
  <2>1. /\ record \in [Slots -> Payload] /\ count \in Nat
        /\ own \in [Door -> 0..MaxRecords] /\ r \in Nat /\ r # 0
        /\ r # count + 1
    BY <1>1, BoundAssumption DEF Footing, TypeOK, Slots
  <2>2. CASE LockRegistry(p) \/ CommitRecord(p) \/ Reads(p)
    BY <1>1, <2>1, <2>2 DEF LockRegistry, CommitRecord, Reads, file, session
  <2>3. CASE Reclaim(p)
    <3>1. PICK s \in Matches(p) : own' = [own EXCEPT ![p] = s]
      BY <2>3 DEF Reclaim
    <3>2. s # r /\ record' = record
      BY <1>1, <2>3, <3>1 DEF Matches, Reclaim, file
    <3> QED
      BY <1>1, <2>1, <3>1, <3>2
  <2>4. CASE Extend(p)
    BY <1>1, <2>1, <2>4 DEF Extend, Slots
  <2>5. CASE Writes(p)
    BY <1>1, <2>1, <2>5 DEF Writes
  <2>6. CASE Closes(p)
    BY <1>1, <2>1, <2>6 DEF Closes, file
  <2> QED
    BY <1>1, <2>2, <2>3, <2>4, <2>5, <2>6, StepKinds
<1>2. UNCHANGED vars => A
  BY DEF vars
<1>3. ExclusionInv /\ [Next]_vars => A
  BY <1>1, <1>2 DEF Next, ExclusionInv
<1>4. ExclusionInv /\ [Next]_vars => [A]_vars
  BY <1>3
<1> QED
  BY <1>4, ExclusionInvariant, PTL DEF Spec, TombstonesStay

\* No write reaches a record but the writer's own, under its lifetime lock.
THEOREM OwnersWrite == Spec => OnlyOwnersWrite
<1> DEFINE A == \A r \in Slots :
                   record'[r] # record[r]
                       => \E p \in Door : /\ own[p] = r /\ lock[r] = p
                                          /\ own'[p] = r /\ lock'[r] = p
<1>1. ASSUME Footing, NEW p \in Door, Step(p), NEW r \in Slots,
             record'[r] # record[r]
      PROVE  own[p] = r /\ lock[r] = p /\ own'[p] = r /\ lock'[r] = p
  <2>1. record \in [Slots -> Payload]
    BY <1>1 DEF Footing, TypeOK
  <2>2. CASE LockRegistry(p) \/ Reclaim(p) \/ Closes(p) \/ Reads(p)
    BY <1>1, <2>2 DEF LockRegistry, Reclaim, Closes, Reads, file
  <2>3. CASE Extend(p)
    BY <1>1, <2>3 DEF Extend, Slots, Footing, TypeOK
  <2>4. CASE CommitRecord(p)
    <3>1. OwnsRecord(p) /\ own' = own /\ lock' = lock
      BY <2>4 DEF CommitRecord, Goto, OwnsRecord, session
    <3>2. own[p] = r
      BY <1>1, <2>1, <2>4 DEF CommitRecord
    <3> QED
      BY <1>1, <3>1, <3>2 DEF Footing, OwnerLocked
  <2>5. CASE Writes(p)
    <3>1. OwnsRecord(p) /\ own' = own /\ lock' = lock
      BY <2>5 DEF Writes
    <3>2. own[p] = r
      BY <1>1, <2>1, <2>5 DEF Writes
    <3> QED
      BY <1>1, <3>1, <3>2 DEF Footing, OwnerLocked
  <2> QED
    BY <1>1, <2>2, <2>3, <2>4, <2>5, StepKinds
<1>2. UNCHANGED vars => A
  BY DEF vars
<1>3. ExclusionInv /\ [Next]_vars => [A]_vars
  BY <1>1, <1>2 DEF Next, ExclusionInv
<1> QED
  BY <1>3, ExclusionInvariant, PTL DEF Spec, OnlyOwnersWrite

\* What a queued request shows its peers stays as it is while it is queued.
THEOREM QueuedTickets == Spec => QueuedTicketsStay
<1> DEFINE A == \A p \in Door :
                   Queued(p) /\ Queued(p)' => record'[own'[p]] = record[own[p]]
<1>1. ASSUME Footing, NEW p \in Door, Step(p), NEW q \in Door, Queued(q),
             Queued(q)'
      PROVE  record'[own'[q]] = record[own[q]]
  <2>1. /\ Participant(q) /\ OwnsRecord(q)
        /\ pc[q] \notin {"outside", "joining", "appending"}
    BY <1>1 DEF Footing, FlagsFit, Queued, Scanning, Participant, OwnsRecord
  <2>2. CASE q # p
    BY <1>1, <2>1, <2>2, FrameStep, RecordFrameStep DEF SameState
  <2>3. CASE q = p
    BY <1>1, <2>1, <2>3, StepKinds
    DEF LockRegistry, Reclaim, Extend, CommitRecord, Goto, Writes, Closes,
        Reads, file
  <2> QED
    BY <2>2, <2>3
<1>2. UNCHANGED vars => A
  BY DEF vars
<1>3. ExclusionInv /\ [Next]_vars => [A]_vars
  BY <1>1, <1>2 DEF Next, ExclusionInv
<1> QED
  BY <1>3, ExclusionInvariant, PTL DEF Spec, QueuedTicketsStay
==============================================================================
