------------------------------- MODULE Faults -------------------------------
(***************************************************************************)
(* The failures of saves that a service has to live with, beside the       *)
(* state that it saves: as many as the bound admits, at any time.          *)
(***************************************************************************)
EXTENDS StateCell

CONSTANTS
    MaxFaults   \* bound: saves that fail

ASSUME FaultsAssumption == MaxFaults \in Nat

VARIABLES
    faults      \* saves that failed

Fault == faults < MaxFaults /\ faults' = faults + 1
NoFault == UNCHANGED faults
=============================================================================
