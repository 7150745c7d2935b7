--------------------------- MODULE MCControlPlane ---------------------------
(* The control plane, small: see the .cfg file for the bounds.             *)
EXTENDS ControlPlane

(* One replica, one and a half, and three and a half.                      *)
Requested == {2, 3, 7}
=============================================================================
