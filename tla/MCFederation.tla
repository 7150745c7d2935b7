---------------------------- MODULE MCFederation ----------------------------
(* Federation, small: see the .cfg file for the bounds.                    *)
EXTENDS Federation

CONSTANTS h1, h2

(* A bootstrap host, and another one that an operator names in two ways.   *)
Named == {Url(h1), Url(h2), [host |-> h2, form |-> "host"]}
=============================================================================
