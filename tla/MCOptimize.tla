----------------------------- MODULE MCOptimize -----------------------------
(* Model checking instances of the optimize task. *)
EXTENDS Optimize
=============================================================================
