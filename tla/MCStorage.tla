----------------------------- MODULE MCStorage -----------------------------
(* Model checking instances of the storage of points. *)
EXTENDS Storage, TLC

CONSTANTS name1, name2     \* two names

\* The names of series are interchangeable.
Symmetry == Permutations(Names)
=============================================================================
