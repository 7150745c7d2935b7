---------------------------- MODULE MCDataPlane ----------------------------
(* The data plane, small: see the .cfg files for the bounds.               *)
EXTENDS DataPlane
=============================================================================
