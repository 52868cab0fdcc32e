----------------------------- MODULE MCTimeLimit -----------------------------
(* The time limit with children whose time is charged: od_spawn_freeze_time  *)
(* is FALSE.                                                                 *)
EXTENDS TimeLimit
=============================================================================
