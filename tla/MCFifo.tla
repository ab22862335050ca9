------------------------------- MODULE MCFifo -------------------------------
(* Model checking instances of the replication fifo. *)
EXTENDS Fifo
=============================================================================
