---------------------------- MODULE MCReplicate ----------------------------
(* Model checking instances of the replication inside a pool. *)
EXTENDS Replicate
=============================================================================
