------------------------------ MODULE MCSession ------------------------------
(* Model checking of Session: see MCSession*.cfg for the values.            *)
EXTENDS Session
=============================================================================
