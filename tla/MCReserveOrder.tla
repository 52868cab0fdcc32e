--------------------------- MODULE MCReserveOrder --------------------------
(***************************************************************************)
(* Instances of ReserveOrder for TLC: every process is a node of its own.  *)
(***************************************************************************)
EXTENDS ReserveOrder, TLC

OwnNodes == [p \in Door |-> p]

DoorSymmetry == Permutations(Door)
=============================================================================
