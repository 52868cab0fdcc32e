--------------------------- MODULE RegistryProofs ---------------------------
(***************************************************************************)
(* Processes that open the registry with Registry take part in Reserve     *)
(* like the ones its theorems are about, and the header comes first.       *)
(*                                                                         *)
(* The strengthening that every step preserves, HeaderInv, says that at    *)
(* most one process ever believes that it created the file, and that no    *)
(* header is committed as long as there is one; this is what lets it fill  *)
(* the header with zeros without a lock.                                   *)
(***************************************************************************)
EXTENDS Registry, ReserveProofs

\* Where the creator of the file is until it has committed the header.
Creating(p) == at[p] \in {"created", "blank", "writing", "written"}

HeaderInv ==
    /\ RegistryTypeOK
    /\ \A p \in Door : at[p] # "away" => pc[p] = "outside"
    /\ \A p \in Door : Creating(p) => header \in {"empty", "zeros", "uncommitted"}
    /\ \A p, q \in Door : Creating(p) /\ Creating(q) => p = q
    /\ \A p \in Door : at[p] \in {"checking", "writing", "written"} => byte = p

\* Every step is a step of Reserve, or does not change its state.
THEOREM ImplementsReserve == RegistrySpec => Spec
<1>1. RegistryInit => Init
  BY DEF RegistryInit
<1>2. [RegistryNext]_registryVars => [Next]_vars
  <2> SUFFICES ASSUME [RegistryNext]_registryVars
               PROVE  [Next]_vars
    OBVIOUS
  <2>1. ASSUME NEW p \in Door, Opening(p)
        PROVE  LockRegistry(p) \/ UNCHANGED vars
    BY <2>1 DEF Opening, Open, Create, WriteZeros, LockByte, WriteHeader, CommitHeader,
       FindHeader, Retry, GiveUp, Advances
  <2>2. ASSUME NEW p \in Door, LockRegistry(p) \/ Inside(p)
        PROVE  Next
    BY <2>2 DEF Next, Step, Join, Inside
  <2>3. CASE UNCHANGED registryVars
    BY <2>3 DEF registryVars, vars
  <2> QED
    BY <2>1, <2>2, <2>3 DEF RegistryNext
<1> QED
  BY <1>1, <1>2, PTL DEF RegistrySpec, Spec

\* So reservations exclude each other in a registry that comes to be while
\* the processes race for it.
THEOREM RegistryExclusion == RegistrySpec => []MutualExclusion
BY ImplementsReserve, Exclusion, PTL

---------------------------------------------------------------------------
LEMMA OpeningKeepsHeaderInv ==
    ASSUME Footing, HeaderInv, NEW p \in Door, Opening(p)
    PROVE  HeaderInv' /\ (header \in {"committed", "foreign"} => header' = header)
<1> USE DEF HeaderInv, RegistryTypeOK, Creating, Header, Advances, vars
<1>t. pc \in [Door -> PC] /\ TypeOK
  BY DEF Footing, TypeOK
<1>1. CASE Open(p)
  BY <1>1, <1>t DEF Open, TypeOK, Slots
<1>2. CASE Create(p)
  BY <1>2, <1>t DEF Create, TypeOK, Slots
<1>3. CASE WriteZeros(p)
  BY <1>3, <1>t DEF WriteZeros, TypeOK, Slots
<1>4. CASE LockByte(p)
  BY ZenonT(60), <1>4, <1>t, DoorAssumption DEF LockByte, ByteFree, TypeOK, Slots
<1>5. CASE WriteHeader(p)
  BY <1>5, <1>t DEF WriteHeader, TypeOK, Slots
<1>6. CASE CommitHeader(p)
  <2>1. TypeOK'
    BY <1>6, <1>t DEF CommitHeader, LockRegistry, TypeOK, Slots, Goto, file, session, scanning, PC
  <2> QED
    BY <1>6, <1>t, <2>1, DoorAssumption DEF CommitHeader, LockRegistry, Goto
<1>7. CASE FindHeader(p)
  <2>1. TypeOK'
    BY <1>7, <1>t DEF FindHeader, LockRegistry, TypeOK, Slots, Goto, file, session, scanning, PC
  <2> QED
    BY <1>7, <1>t, <2>1 DEF FindHeader, LockRegistry, Goto
<1>8. CASE Retry(p)
  BY <1>8, <1>t DEF Retry, TypeOK, Slots
<1>9. CASE GiveUp(p)
  BY <1>9, <1>t DEF GiveUp, TypeOK, Slots
<1> QED
  BY <1>1, <1>2, <1>3, <1>4, <1>5, <1>6, <1>7, <1>8, <1>9 DEF Opening

\* A step inside moves a process that opens nothing.
LEMMA InsideKeepsHeaderInv ==
    ASSUME Footing, Footing', HeaderInv, NEW p \in Door, Inside(p)
    PROVE  HeaderInv'
<1>1. \A q \in Door \ {p} : pc'[q] = pc[q]
  BY FrameStep DEF Inside, SameState
<1>2. TypeOK' /\ UNCHANGED <<header, at, byte>> /\ pc[p] # "outside"
  BY DEF Inside, opening, Footing
<1> QED
  BY <1>1, <1>2 DEF HeaderInv, RegistryTypeOK, Creating

LEMMA HeaderInvStep ==
    ASSUME Footing, Footing', HeaderInv, [RegistryNext]_registryVars
    PROVE  HeaderInv'
<1>1. CASE UNCHANGED registryVars
  <2>1. UNCHANGED <<pc, header, at, byte>> /\ TypeOK'
    BY <1>1 DEF registryVars, opening, vars, Footing
  <2> QED
    BY <2>1 DEF HeaderInv, RegistryTypeOK, Creating
<1>2. CASE RegistryNext
  BY <1>2, OpeningKeepsHeaderInv, InsideKeepsHeaderInv DEF RegistryNext
<1> QED
  BY <1>1, <1>2

LEMMA HeaderInvariant == RegistrySpec => [](Footing /\ HeaderInv)
<1>1. RegistrySpec => []Footing
  <2>1. ExclusionInv => Footing
    BY DEF ExclusionInv
  <2> QED
    BY <2>1, ImplementsReserve, ExclusionInvariant, PTL
<1>2. RegistryInit /\ Footing => HeaderInv
  BY DEF RegistryInit, Init, HeaderInv, RegistryTypeOK, Creating, Header, Footing
<1>3. Footing /\ Footing' /\ HeaderInv /\ [RegistryNext]_registryVars => HeaderInv'
  BY HeaderInvStep
<1> QED
  BY <1>1, <1>2, <1>3, PTL DEF RegistrySpec

\* No header that is committed, or that is somebody else's, is ever written,
\* and nobody enters a registry without a committed header, for any number of
\* processes that race to create it and die where they may.
THEOREM HeaderFirst == RegistrySpec => HeaderComesFirst
<1> DEFINE First ==
        /\ header \in {"committed", "foreign"} => header' = header
        /\ \A p \in Door : pc[p] = "outside" /\ pc'[p] # "outside" => header' = "committed"
<1>1. Footing /\ HeaderInv /\ [RegistryNext]_registryVars => [First]_registryVars
  <2> SUFFICES ASSUME Footing, HeaderInv, RegistryNext
               PROVE  First
    OBVIOUS
  <2>1. PICK p \in Door : Opening(p) \/ Inside(p)
    BY DEF RegistryNext
  <2>2. CASE Opening(p)
    <3>1. header \in {"committed", "foreign"} => header' = header
      BY <2>2, OpeningKeepsHeaderInv
    <3>2. ASSUME NEW q \in Door, pc[q] = "outside", pc'[q] # "outside"
          PROVE  header' = "committed"
      <4>1. CommitHeader(p) \/ FindHeader(p)
        BY <2>2, <3>2 DEF Opening, Open, Create, WriteZeros, LockByte, WriteHeader, Retry,
           GiveUp, Advances, vars
      <4> QED
        BY <4>1 DEF CommitHeader, FindHeader
    <3> QED
      BY <3>1, <3>2
  <2>3. CASE Inside(p)
    <3>1. \A q \in Door \ {p} : pc'[q] = pc[q]
      BY <2>3, FrameStep DEF Inside, SameState
    <3> QED
      BY <2>3, <3>1 DEF Inside, opening
  <2> QED
    BY <2>1, <2>2, <2>3
<1> QED
  BY <1>1, HeaderInvariant, PTL DEF RegistrySpec, HeaderComesFirst
=============================================================================
