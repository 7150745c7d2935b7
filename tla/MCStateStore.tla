---------------------------- MODULE MCStateStore ----------------------------
(* The platform state file, small: see the .cfg files for the bounds.      *)
EXTENDS StateStore, TLC

Symmetry == Permutations(Procs)
=============================================================================
