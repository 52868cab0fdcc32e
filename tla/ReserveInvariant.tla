------------------------- MODULE ReserveInvariant --------------------------
(***************************************************************************)
(* The inductive invariant behind the safety properties of Reserve: why    *)
(* the bakery of ODRsv.c excludes, although a scan reads its peers one by  *)
(* one while they crash, end their requests and start new ones.            *)
(***************************************************************************)
EXTENDS Reserve

Scanning(p) == pc[p] \in {"probing", "releasing", "reading", "rechecking"}

\* A request that has not taken its ticket yet.
Choosing(p) == pc[p] = "choosing" \/ (Scanning(p) /\ ~requested[p])

OwnsRecord(p) == Participant(p) \/ pc[p] \in {"appending", "resetting"}

\* A session keeps its lifetime lock from the claim of its record to the end.
OwnerLocked ==
    \A p \in Door :
        OwnsRecord(p) => own[p] \in Slots /\ lock[own[p]] = p

\* Scans stay inside the snapshot, and a probe lock belongs to its prober.
ScansInFile ==
    \A p \in Door :
        /\ Scanning(p) => snap[p] <= count /\ scan[p] \in Nat \ {0, own[p]}
        /\ pc[p] \in {"releasing", "reading", "rechecking"}
               => scan[p] <= snap[p]
        /\ pc[p] = "releasing" => lock[scan[p]] = p

\* What a requesting process has in memory goes with where it is.
FlagsFit ==
    \A p \in Door :
        /\ requested[p] => Scanning(p) \/ pc[p] \in {"ready", "leaving"}
        /\ acquired[p] => requested[p] /\ pc[p] \in {"ready", "leaving"}
        /\ Choosing(p) \/ requested[p] => name[p] \in Name

\* Where every process is, and what it has a hand on.
Footing == TypeOK /\ OwnerLocked /\ ScansInFile /\ FlagsFit

\* What a participant's record shows its peers.
Shown(p) ==
    IF Choosing(p) THEN OwnPayload(p, TRUE, name[p], ZeroTicket)
    ELSE IF Queued(p) THEN OwnPayload(p, FALSE, name[p], ticket[p])
    ELSE Idle(p)

RecordsShowState ==
    \A p \in Door : Participant(p) => record[own[p]] = Shown(p)

\* The records whose owners the current wait of p no longer has to look at.
Passed(p) ==
    {r \in Slots : \/ acquired[p]
                   \/ Scanning(p) /\ (r < scan[p] \/ r > snap[p])}

\* q cannot end up before p: its ticket is larger, or it is bound to meet the
\* ticket of p before it takes its own, or it has met one as large.
Behind(q, p) ==
    /\ Queued(q) => TicketPrecedes(ticket[p], own[p], ticket[q], own[q])
    /\ Choosing(q) /\ Scanning(q) =>
          /\ own[p] <= snap[q]
          /\ scan[q] <= own[p] \/ ~TicketGreater(ticket[p], seen[q])

PassedAreBehind ==
    \A p, q \in Door :
        (/\ p # q /\ Queued(p) /\ Participant(q)
         /\ own[q] \in Passed(p) /\ name[q] = name[p])
            => Behind(q, p)

\* The strengthening of MutualExclusion that every step preserves.
ExclusionInv == Footing /\ RecordsShowState /\ PassedAreBehind

---------------------------------------------------------------------------
(* The same for OneSessionPerIdentity.                                     *)

Joining(p) == pc[p] \in {"joining", "appending", "resetting"}

RegistrySerialisesJoins == \A p \in Door : Joining(p) <=> registry = p

RecordsKeepIdentity ==
    \A p \in Door :
        OwnsRecord(p) =>
            /\ record[own[p]].identity = IdentityOf[p]
            /\ record[own[p]].committed <=> pc[p] # "appending"

IdentitiesUnique ==
    /\ \A r, s \in Slots :
          (/\ record[r].committed /\ record[s].committed
           /\ record[r].identity = record[s].identity) => r = s
    /\ \A p \in Door : pc[p] = "appending" => Matches(p) = {}

IdentityInv ==
    /\ Footing
    /\ RegistrySerialisesJoins
    /\ RecordsKeepIdentity
    /\ IdentitiesUnique
=============================================================================
