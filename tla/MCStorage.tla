----------------------------- MODULE MCStorage -----------------------------
(* Storage, small: see the .cfg file for the bounds.                       *)
EXTENDS Storage, TLC

CONSTANTS p1, v1, v2, r1, r2

Symmetric == Permutations({v1, v2}) \cup Permutations({r1, r2})
=============================================================================
