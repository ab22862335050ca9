---------------------------- MODULE MCPoolState ----------------------------
(* Model checking instances of the flags of the servers of a pool. *)
EXTENDS PoolState
=============================================================================
