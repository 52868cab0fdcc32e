----------------------------- MODULE MCReserve -----------------------------
(***************************************************************************)
(* Instances of Reserve for TLC.                                           *)
(***************************************************************************)
EXTENDS ReserveInvariant, TLC

\* Every process is a node of its own; the processes are then its identities.
OwnNodes == [p \in Door |-> p]

DoorSymmetry == Permutations(Door)
=============================================================================
