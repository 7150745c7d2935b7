---------------------------- MODULE MCJsonStore ----------------------------
(* The registry file, small: see MCJsonStore.cfg for the bounds.           *)
EXTENDS JsonStore
=============================================================================
