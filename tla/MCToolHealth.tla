---------------------------- MODULE MCToolHealth ----------------------------
(* One tool that may run in two places: tools do not affect each other.    *)
EXTENDS ToolHealth

CONSTANTS t1, u1, u2
=============================================================================
