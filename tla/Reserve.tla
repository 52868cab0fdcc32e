------------------------------ MODULE Reserve ------------------------------
(***************************************************************************)
(* Named filesystem reservations (src/src/ODRsv.c).                        *)
(*                                                                         *)
(* Door processes share one registry file.  Each session owns one record   *)
(* of it, keeps the record's lifetime byte locked for as long as it lives, *)
(* and orders its requests for a named resource with a bakery ticket that  *)
(* it publishes in the payload of its record.                              *)
(*                                                                         *)
(* One step is one system call that other processes can observe: taking or *)
(* dropping a byte-range lock, reading or writing one payload.  A payload  *)
(* transfer is one step because ODReserveAccess holds the payload's range  *)
(* lock around it.  Records are numbered from 1, where the code has 0.     *)
(* The registry header is taken as committed: module Registry models how   *)
(* it comes to be.                                                         *)
(***************************************************************************)
EXTENDS Integers, FiniteSets

CONSTANTS
    Door,         \* the processes that open the registry
    Identity,     \* the Local identity and one identity per node number
    IdentityOf,   \* the identity each process was started with
    Name,         \* reservation names
    NoName,       \* the empty name of a record without a request
    NoDoor,       \* the holder of a lock nobody holds
    MaxRecords,   \* bound: records the registry file may grow to
    WordMax,      \* largest value of a ticket word (2^32 - 1 in the code)
    IOErrors      \* TRUE when file reads and writes may fail

ASSUME DoorAssumption == NoDoor \notin Door
ASSUME IdentityAssumption == IdentityOf \in [Door -> Identity]
ASSUME NameAssumption == NoName \notin Name
ASSUME BoundAssumption == MaxRecords \in Nat /\ WordMax \in Nat \ {0}
ASSUME IOAssumption == IOErrors \in BOOLEAN

VARIABLES
    count,      \* records in the file, counted from its length
    record,     \* their payloads
    lock,       \* who holds each record's lifetime byte
    registry,   \* who holds registry byte 0 exclusively
    pc,         \* where each process is
    own,        \* dwODReserveRecord, 0 when it has none
    name,       \* szODReserveName
    ticket,     \* dwODReserveTicketHigh and dwODReserveTicketLow
    requested,  \* bODReserveRequested
    acquired,   \* bODReserveAcquired
    snap,       \* dwODReserveRecordCount, while a scan runs
    scan,       \* dwRecord, the record the scan has reached
    seen        \* dwHigh and dwLow, the largest ticket a request has met

file == <<count, record>>
session == <<own, name, ticket, requested, acquired>>
scanning == <<snap, scan, seen>>
vars == <<count, record, lock, registry, pc, own, name, ticket, requested,
          acquired, snap, scan, seen>>

---------------------------------------------------------------------------
(* Tickets: two machine words, compared and incremented as one number.     *)

Ticket == [high : 0..WordMax, low : 0..WordMax]
ZeroTicket == [high |-> 0, low |-> 0]

\* Mutant of TicketGreater: words compared in the wrong order.
TicketGreaterLowFirst(a, b) ==
    \/ a.low > b.low
    \/ a.low = b.low /\ a.high > b.high

TicketGreater(a, b) ==
    \/ a.high > b.high
    \/ a.high = b.high /\ a.low > b.low

\* Mutant of TicketPrecedes: equal tickets are not put in order.
TicketSmaller(t, r, u, s) == TicketGreater(u, t)

\* The request of record r with ticket t goes before that of s with u.
TicketPrecedes(t, r, u, s) ==
    \/ TicketGreater(u, t)
    \/ t = u /\ r < s

\* Mutant of TicketOverflows: the last ticket of all is not noticed.
TicketOverflowsLate(t) == t.high > WordMax

TicketOverflows(t) == t.high = WordMax /\ t.low = WordMax

NextTicket(t) ==
    IF t.low = WordMax THEN [high |-> t.high + 1, low |-> 0]
                       ELSE [t EXCEPT !.low = t.low + 1]

---------------------------------------------------------------------------
Payload == [committed : BOOLEAN, identity : Identity, choosing : BOOLEAN,
            name : Name \union {NoName}, ticket : Ticket]

\* What ODReserveWriteOwn puts in the record of p.
OwnPayload(p, choosing, n, t) ==
    [committed |-> TRUE, identity |-> IdentityOf[p], choosing |-> choosing,
     name |-> n, ticket |-> t]

Idle(p) == OwnPayload(p, FALSE, NoName, ZeroTicket)

Record == 1..MaxRecords
Slots == 1..count

\* Positions of a scan: every record but the scanner's own.
FirstSlot(p) == IF own[p] = 1 THEN 2 ELSE 1
SlotAfter(p, r) == IF r + 1 = own[p] THEN r + 2 ELSE r + 1
ScanDone(p) == pc[p] = "probing" /\ scan[p] > snap[p]

\* Closing the registry file drops every lock the process has on it.
Close(p) ==
    /\ lock' = [r \in Slots |-> IF lock[r] = p THEN NoDoor ELSE lock[r]]
    /\ registry' = IF registry = p THEN NoDoor ELSE registry

\* The session state a process has when it takes no part in reservations (the
\* code leaves a ticket and a record number behind that nothing reads again).
Forget(p) ==
    /\ own' = [own EXCEPT ![p] = 0]
    /\ name' = [name EXCEPT ![p] = NoName]
    /\ ticket' = [ticket EXCEPT ![p] = ZeroTicket]
    /\ requested' = [requested EXCEPT ![p] = FALSE]
    /\ acquired' = [acquired EXCEPT ![p] = FALSE]

EndScan(p) ==
    /\ snap' = [snap EXCEPT ![p] = 0]
    /\ scan' = [scan EXCEPT ![p] = 0]
    /\ seen' = [seen EXCEPT ![p] = ZeroTicket]

Detach(p) ==
    /\ pc' = [pc EXCEPT ![p] = "detached"]
    /\ Close(p)
    /\ Forget(p)
    /\ EndScan(p)

Goto(p, from, to) ==
    /\ pc[p] = from
    /\ pc' = [pc EXCEPT ![p] = to]

Init ==
    /\ count = 0
    /\ record = << >>
    /\ lock = << >>
    /\ registry = NoDoor
    /\ pc = [p \in Door |-> "outside"]
    /\ own = [p \in Door |-> 0]
    /\ name = [p \in Door |-> NoName]
    /\ ticket = [p \in Door |-> ZeroTicket]
    /\ requested = [p \in Door |-> FALSE]
    /\ acquired = [p \in Door |-> FALSE]
    /\ snap = [p \in Door |-> 0]
    /\ scan = [p \in Door |-> 0]
    /\ seen = [p \in Door |-> ZeroTicket]

---------------------------------------------------------------------------
(* Joining: ODReserveSessionInitialize.                                    *)

\* ODReservePrepareHeader returns with the registry lock held.
LockRegistry(p) ==
    /\ Goto(p, "outside", "joining")
    /\ registry = NoDoor
    /\ registry' = p
    /\ UNCHANGED <<file, lock, session, scanning>>

\* Mutants of Matches: the search that skips a locked record of the identity,
\* and the one that forgets to look at the commit byte.
MatchesUnlocked(p) ==
    {r \in Slots : /\ record[r].committed /\ record[r].identity = IdentityOf[p]
                   /\ lock[r] = NoDoor}
MatchesAny(p) == {r \in Slots : record[r].identity = IdentityOf[p]}

\* ODReserveCheckIdentities looks at committed records only.
Matches(p) ==
    {r \in Slots : record[r].committed /\ record[r].identity = IdentityOf[p]}

\* Mutant of Reclaim: the record is taken over without its lifetime lock.
ReclaimUnlocked(p) ==
    /\ Goto(p, "joining", "resetting")
    /\ \E r \in Matches(p) : own' = [own EXCEPT ![p] = r]
    /\ UNCHANGED <<file, lock, registry, name, ticket, requested, acquired,
                   scanning>>

\* It reclaims the one record of this identity when its lifetime byte is free.
Reclaim(p) ==
    /\ Goto(p, "joining", "resetting")
    /\ \E r \in Matches(p) :
          /\ Matches(p) = {r}
          /\ lock[r] = NoDoor
          /\ lock' = [lock EXCEPT ![r] = p]
          /\ own' = [own EXCEPT ![p] = r]
    /\ UNCHANGED <<file, registry, name, ticket, requested, acquired, scanning>>

\* A record of this identity that stays locked for the whole retry interval,
\* or a second record of it, makes the initialization fail.
RefuseIdentity(p) ==
    /\ Goto(p, "joining", "outside")
    /\ \/ \E r \in Matches(p) : lock[r] # NoDoor
       \/ Cardinality(Matches(p)) > 1
    /\ Close(p)
    /\ UNCHANGED <<file, session, scanning>>

\* ODReserveAppendParticipant extends the file by a record and locks it ...
Extend(p) ==
    /\ Goto(p, "joining", "appending")
    /\ Matches(p) = {}
    /\ count < MaxRecords
    /\ count' = count + 1
    /\ record' = [r \in 1..count' |-> IF r \in Slots THEN record[r]
                     ELSE [Idle(p) EXCEPT !.committed = FALSE]]
    /\ lock' = [r \in 1..count' |-> IF r \in Slots THEN lock[r] ELSE p]
    /\ own' = [own EXCEPT ![p] = count']
    /\ UNCHANGED <<registry, name, ticket, requested, acquired, scanning>>

\* ... and writes the commit byte last.
CommitRecord(p) ==
    /\ Goto(p, "appending", "resetting")
    /\ record' = [record EXCEPT ![own[p]].committed = TRUE]
    /\ UNCHANGED <<count, lock, registry, session, scanning>>

\* The record may still show the request of the session that had it before.
ResetRecord(p) ==
    /\ Goto(p, "resetting", "ready")
    /\ record' = [record EXCEPT ![own[p]] = Idle(p)]
    /\ registry' = NoDoor
    /\ UNCHANGED <<count, lock, session, scanning>>

\* A transfer fails, or the file cannot grow beyond its bound.
JoinFails(p) ==
    /\ pc[p] \in {"joining", "appending", "resetting"}
    /\ \/ IOErrors
       \/ pc[p] = "joining" /\ Matches(p) = {} /\ count = MaxRecords
    /\ pc' = [pc EXCEPT ![p] = "outside"]
    /\ Close(p)
    /\ Forget(p)
    /\ UNCHANGED <<file, scanning>>

---------------------------------------------------------------------------
(* Requesting: od_reserve_request.                                         *)

BeginRequest(p) ==
    /\ Goto(p, "ready", "choosing")
    /\ ~requested[p]
    /\ \E n \in Name :
          /\ name' = [name EXCEPT ![p] = n]
          /\ record' = [record EXCEPT
                           ![own[p]] = OwnPayload(p, TRUE, n, ZeroTicket)]
    /\ UNCHANGED <<count, lock, registry, own, ticket, requested, acquired,
                   scanning>>

\* ODReserveSnapshotRecords: a shared registry lock around reading the count.
BeginScan(p) ==
    /\ registry = NoDoor
    /\ snap' = [snap EXCEPT ![p] = count]
    /\ scan' = [scan EXCEPT ![p] = FirstSlot(p)]
    /\ UNCHANGED <<file, lock, registry, session, seen>>

SnapshotForRequest(p) ==
    /\ Goto(p, "choosing", "probing")
    /\ BeginScan(p)

\* The registry stayed locked for the whole retry interval: od_reserve_request
\* withdraws its claim and detaches.
SnapshotTimesOut(p) ==
    /\ Goto(p, "choosing", "failing")
    /\ registry # NoDoor
    /\ record' = [record EXCEPT ![own[p]] = Idle(p)]
    /\ UNCHANGED <<count, lock, registry, session, scanning>>

---------------------------------------------------------------------------
(* ODReserveReadLiveRecord, for requests and waits alike.                  *)

\* Mutant of ProbeFree: a stale record is read as if its owner lived.
ReadStale(p) ==
    /\ Goto(p, "probing", "reading")
    /\ scan[p] <= snap[p]
    /\ lock[scan[p]] = NoDoor
    /\ UNCHANGED <<file, lock, registry, session, scanning>>

\* A lifetime byte nobody holds can be locked: the record is stale.
ProbeFree(p) ==
    /\ Goto(p, "probing", "releasing")
    /\ scan[p] <= snap[p]
    /\ lock[scan[p]] = NoDoor
    /\ lock' = [lock EXCEPT ![scan[p]] = p]
    /\ UNCHANGED <<file, registry, session, scanning>>

SkipStale(p) ==
    /\ Goto(p, "releasing", "probing")
    /\ lock' = [lock EXCEPT ![scan[p]] = NoDoor]
    /\ scan' = [scan EXCEPT ![p] = SlotAfter(p, scan[p])]
    /\ UNCHANGED <<file, registry, session, snap, seen>>

ProbeBusy(p) ==
    /\ Goto(p, "probing", "reading")
    /\ scan[p] <= snap[p]
    /\ lock[scan[p]] # NoDoor
    /\ UNCHANGED <<file, lock, registry, session, scanning>>

\* A payload without its commit byte: the owner may have gone meanwhile.
ReadUncommitted(p) ==
    /\ Goto(p, "reading", "rechecking")
    /\ ~record[scan[p]].committed
    /\ UNCHANGED <<file, lock, registry, session, scanning>>

RecheckFree(p) ==
    /\ Goto(p, "rechecking", "releasing")
    /\ lock[scan[p]] = NoDoor
    /\ lock' = [lock EXCEPT ![scan[p]] = p]
    /\ UNCHANGED <<file, registry, session, scanning>>

\* The record counts as unreadable: a request fails, a wait detaches.
RecordUnreadable(p) ==
    /\ \/ pc[p] = "rechecking" /\ lock[scan[p]] # NoDoor
       \/ pc[p] \in {"probing", "reading", "rechecking"} /\ IOErrors
    /\ \/ /\ ~requested[p]
          /\ pc' = [pc EXCEPT ![p] = "failing"]
          /\ record' = [record EXCEPT ![own[p]] = Idle(p)]
          /\ EndScan(p)
          /\ UNCHANGED <<count, lock, registry, session>>
       \/ /\ requested[p]
          /\ Detach(p)
          /\ UNCHANGED file

---------------------------------------------------------------------------
(* What a request makes of a live record, and how it ends.                 *)

SameName(p, r) == record[r].name = name[p]

\* Mutant of CollectTicket: the last ticket met is kept, not the largest.
CollectLastTicket(p) ==
    LET r == scan[p] IN
    /\ Goto(p, "reading", "probing")
    /\ ~requested[p]
    /\ record[r].committed
    /\ scan' = [scan EXCEPT ![p] = SlotAfter(p, r)]
    /\ seen' = [seen EXCEPT ![p] =
                   IF SameName(p, r) THEN record[r].ticket ELSE @]
    /\ UNCHANGED <<file, lock, registry, session, snap>>

CollectTicket(p) ==
    LET r == scan[p] IN
    /\ Goto(p, "reading", "probing")
    /\ ~requested[p]
    /\ record[r].committed
    /\ scan' = [scan EXCEPT ![p] = SlotAfter(p, r)]
    /\ seen' = [seen EXCEPT ![p] =
                   IF SameName(p, r) /\ TicketGreater(record[r].ticket, @)
                   THEN record[r].ticket ELSE @]
    /\ UNCHANGED <<file, lock, registry, session, snap>>

IssueTicket(p) ==
    LET t == NextTicket(seen[p]) IN
    /\ ScanDone(p)
    /\ ~requested[p]
    /\ ~TicketOverflows(seen[p])
    /\ pc' = [pc EXCEPT ![p] = "ready"]
    /\ ticket' = [ticket EXCEPT ![p] = t]
    /\ record' = [record EXCEPT ![own[p]] = OwnPayload(p, FALSE, name[p], t)]
    /\ requested' = [requested EXCEPT ![p] = TRUE]
    /\ EndScan(p)
    /\ UNCHANGED <<count, lock, registry, own, name, acquired>>

TicketsExhausted(p) ==
    /\ ScanDone(p)
    /\ ~requested[p]
    /\ TicketOverflows(seen[p])
    /\ pc' = [pc EXCEPT ![p] = "failing"]
    /\ record' = [record EXCEPT ![own[p]] = Idle(p)]
    /\ EndScan(p)
    /\ UNCHANGED <<count, lock, registry, session>>

\* od_reserve_request withdrew its claim; ODReserveDetach closes the file.
FinishFailure(p) ==
    /\ pc[p] = "failing"
    /\ Detach(p)
    /\ UNCHANGED file

---------------------------------------------------------------------------
(* Waiting: ODReserveWaitCore, called by od_reserve_wait and               *)
(* od_reserve_wait_until; PENDING brings the process back to "ready".      *)

SnapshotForWait(p) ==
    /\ Goto(p, "ready", "probing")
    /\ requested[p] /\ ~acquired[p]
    /\ BeginScan(p)

MustWaitFor(p, r) ==
    /\ SameName(p, r)
    /\ \/ record[r].choosing
       \/ TicketPrecedes(record[r].ticket, r, ticket[p], own[p])

PassPeer(p) ==
    /\ Goto(p, "reading", "probing")
    /\ requested[p]
    /\ record[scan[p]].committed
    /\ ~MustWaitFor(p, scan[p])
    /\ scan' = [scan EXCEPT ![p] = SlotAfter(p, scan[p])]
    /\ UNCHANGED <<file, lock, registry, session, snap, seen>>

\* A peer goes first, or its payload is locked by another reader or its owner.
Pending(p) ==
    /\ Goto(p, "reading", "ready")
    /\ requested[p]
    /\ EndScan(p)
    /\ UNCHANGED <<file, lock, registry, session>>

Acquire(p) ==
    /\ ScanDone(p)
    /\ requested[p]
    /\ pc' = [pc EXCEPT ![p] = "ready"]
    /\ acquired' = [acquired EXCEPT ![p] = TRUE]
    /\ EndScan(p)
    /\ UNCHANGED <<file, lock, registry, own, name, ticket, requested>>

---------------------------------------------------------------------------
(* Ending a reservation, leaving the registry, and dying.                  *)

\* Mutant of EndReservation: the request is not forgotten.
EndKeepsRequest(p) ==
    /\ pc[p] = "ready"
    /\ requested[p]
    /\ record' = [record EXCEPT ![own[p]] = Idle(p)]
    /\ acquired' = [acquired EXCEPT ![p] = FALSE]
    /\ UNCHANGED <<count, lock, registry, pc, own, name, ticket, requested,
                   scanning>>

\* od_reserve_end, for a turn that is held and for one that is queued.
EndReservation(p) ==
    /\ pc[p] = "ready"
    /\ requested[p]
    /\ record' = [record EXCEPT ![own[p]] = Idle(p)]
    /\ requested' = [requested EXCEPT ![p] = FALSE]
    /\ acquired' = [acquired EXCEPT ![p] = FALSE]
    /\ name' = [name EXCEPT ![p] = NoName]
    /\ ticket' = [ticket EXCEPT ![p] = ZeroTicket]
    /\ UNCHANGED <<count, lock, registry, pc, own, scanning>>

\* The payload could not be written, at the start of a request, when a claim
\* is withdrawn or at the end of a reservation: the process detaches and its
\* record keeps what it says.
WriteFails(p) ==
    /\ IOErrors
    /\ \/ pc[p] = "ready"
       \/ /\ pc[p] \in {"choosing", "probing", "reading", "rechecking"}
          /\ ~requested[p]
    /\ Detach(p)
    /\ UNCHANGED file

\* ODReserveSessionShutdown clears the record, then closes the file.
ClearRecord(p) ==
    /\ Goto(p, "ready", "leaving")
    /\ record' = [record EXCEPT ![own[p]] = Idle(p)]
    /\ UNCHANGED <<count, lock, registry, session, scanning>>

Leave(p) ==
    /\ pc[p] \in {"leaving", "detached"}
    /\ pc' = [pc EXCEPT ![p] = "outside"]
    /\ Close(p)
    /\ Forget(p)
    /\ UNCHANGED <<file, scanning>>

\* The process dies: the operating system drops its locks, its record stays.
Crash(p) ==
    /\ pc[p] # "outside"
    /\ pc' = [pc EXCEPT ![p] = "outside"]
    /\ Close(p)
    /\ Forget(p)
    /\ EndScan(p)
    /\ UNCHANGED file

---------------------------------------------------------------------------
Join(p) ==
    \/ LockRegistry(p) \/ Reclaim(p) \/ RefuseIdentity(p) \/ Extend(p)
    \/ CommitRecord(p) \/ ResetRecord(p) \/ JoinFails(p)

Request(p) ==
    \/ BeginRequest(p) \/ SnapshotForRequest(p) \/ SnapshotTimesOut(p)
    \/ CollectTicket(p) \/ IssueTicket(p) \/ TicketsExhausted(p)
    \/ FinishFailure(p)

ReadLiveRecord(p) ==
    \/ ProbeFree(p) \/ SkipStale(p) \/ ProbeBusy(p) \/ ReadUncommitted(p)
    \/ RecheckFree(p) \/ RecordUnreadable(p)

Wait(p) == SnapshotForWait(p) \/ PassPeer(p) \/ Pending(p) \/ Acquire(p)

Depart(p) ==
    \/ EndReservation(p) \/ WriteFails(p) \/ ClearRecord(p) \/ Leave(p)
    \/ Crash(p)

Step(p) ==
    Join(p) \/ Request(p) \/ ReadLiveRecord(p) \/ Wait(p) \/ Depart(p)

Next == \E p \in Door : Step(p)

Spec == Init /\ [][Next]_vars

---------------------------------------------------------------------------
(* Fairness: a process that is inside the library goes on, one that waits   *)
(* polls again after its 25 ms pause, and a caller that was told ACQUIRED   *)
(* ends its turn.                                                           *)

FinishRequest(p) ==
    IssueTicket(p) \/ TicketsExhausted(p) \/ FinishFailure(p)

FinishJoin(p) ==
    /\ pc[p] \in {"joining", "appending", "resetting"}
    /\ Join(p)

Fairness ==
    \A p \in Door :
        /\ WF_vars(FinishJoin(p))
        /\ WF_vars(ReadLiveRecord(p) \/ CollectTicket(p))
        /\ WF_vars(FinishRequest(p))
        /\ WF_vars(Acquire(p))
        /\ WF_vars(Leave(p) /\ pc[p] = "leaving")
        /\ WF_vars(PassPeer(p) \/ Pending(p))
        /\ SF_vars(SnapshotForRequest(p))
        /\ SF_vars(SnapshotForWait(p))
        /\ WF_vars(EndReservation(p) /\ acquired[p])

\* Two scans meet: p finds the lifetime byte of a record nobody owns locked by
\* a prober, or the payload of a peer it need not wait for locked by a reader.
Collide(p) ==
    \/ ProbeBusy(p) /\ own[lock[scan[p]]] # scan[p]
    \/ Pending(p) /\ ~MustWaitFor(p, scan[p])

\* What costs a waiting process one more scan each time, and does not go on
\* for ever: crashes and departures, requests withdrawn before their turn, and
\* collisions (a probe holds its lock for two system calls of every 25 ms).
Disturb(p) ==
    \/ Crash(p) \/ ClearRecord(p)
    \/ EndReservation(p) /\ ~acquired[p]
    \/ Collide(p)

FairSpec ==
    /\ Spec
    /\ Fairness
    /\ <>[][\A p \in Door : ~Disturb(p)]_vars

---------------------------------------------------------------------------
(* Properties.                                                             *)

PC == {"outside", "joining", "appending", "resetting", "ready", "choosing",
       "probing", "releasing", "reading", "rechecking", "failing", "leaving",
       "detached"}

TypeOK ==
    /\ count \in 0..MaxRecords
    /\ record \in [Slots -> Payload]
    /\ lock \in [Slots -> Door \union {NoDoor}]
    /\ registry \in Door \union {NoDoor}
    /\ pc \in [Door -> PC]
    /\ own \in [Door -> 0..MaxRecords]
    /\ name \in [Door -> Name \union {NoName}]
    /\ ticket \in [Door -> Ticket]
    /\ requested \in [Door -> BOOLEAN]
    /\ acquired \in [Door -> BOOLEAN]
    /\ snap \in [Door -> 0..MaxRecords]
    /\ scan \in [Door -> 0..MaxRecords + 2]
    /\ seen \in [Door -> Ticket]

\* The caller of p was told OD_RESERVE_ACQUIRED and has not given it up.
Holds(p) == acquired[p] /\ pc[p] = "ready"

\* A request that other participants must order themselves against.
Queued(p) == requested[p] /\ pc[p] # "leaving"

\* A session whose record shows its own state.
Participant(p) ==
    pc[p] \in {"ready", "choosing", "probing", "releasing", "reading",
               "rechecking", "failing", "leaving"}

\* Two processes that were both told OD_RESERVE_ACQUIRED for one name are the
\* same process, whatever crashes, rejoins, stale records and half-taken
\* tickets came before (od_reserve_wait: "the caller may access the resource").
MutualExclusion ==
    \A p, q \in Door : Holds(p) /\ Holds(q) /\ name[p] = name[q] => p = q

\* No two live sessions have one identity: ODReserveCheckIdentities reclaims
\* the record of an identity or fails, and never appends a second one.
OneSessionPerIdentity ==
    \A p, q \in Door :
        Participant(p) /\ Participant(q) /\ IdentityOf[p] = IdentityOf[q]
            => p = q

\* An append that died before its commit byte leaves a tombstone for ever:
\* no later session adopts the slot or writes to it.
TombstonesStay ==
    [][\A r \in Slots :
          ~record[r].committed /\ (\A p \in Door : own[p] # r)
              => record'[r] = record[r] /\ \A p \in Door : own'[p] # r]_vars

\* A record changes only at the hand of the session that holds its lifetime
\* lock before and after the write, so no peer's state is ever overwritten.
OnlyOwnersWrite ==
    [][\A r \in Slots :
          record'[r] # record[r]
              => \E p \in Door : /\ own[p] = r /\ lock[r] = p
                                 /\ own'[p] = r /\ lock'[r] = p]_vars

\* "A participant does not rewrite its ticket while that request remains
\* queued": peers that passed it over rely on what they read.
QueuedTicketsStay ==
    [][\A p \in Door :
          Queued(p) /\ Queued(p)' => record'[own'[p]] = record[own[p]]]_vars

\* A queued request is served, or its session ends or detaches: no crashed
\* holder, stale record or tombstone blocks the queue for ever.
EveryTurnComes == \A p \in Door : Queued(p) ~> Holds(p) \/ ~Queued(p)

\* Contention alone never detaches a session that waits ("each scan treats
\* ordinary registry or peer-lock contention as pending").
ContentionIsPending ==
    [][\A p \in Door : Queued(p) => pc'[p] # "detached"]_vars

=============================================================================
