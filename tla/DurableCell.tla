---------------------------- MODULE DurableCell ----------------------------
(***************************************************************************)
(* What a snapshot file promises its callers, without files: one value     *)
(* that is replaced atomically, what a power loss may turn it into, and    *)
(* the newest value whose durability was confirmed.  The promise ends when *)
(* the medium loses bytes that were already stable ("broken").             *)
(***************************************************************************)
EXTENDS Naturals

VARIABLES
    value,      \* what a start reads while the machine keeps its power
    possible,   \* what a start may read after a power loss
    acked,      \* the newest confirmed value
    broken      \* the medium was damaged

vars == <<value, possible, acked, broken>>

Init ==
    /\ value = 0
    /\ possible = {0}
    /\ acked = 0
    /\ broken = FALSE

(* The value is replaced; until it settles both may be found.              *)
Publish ==
    /\ value' \in Nat
    /\ acked <= value'
    /\ possible' = possible \cup {value'}
    /\ UNCHANGED acked

(* The value becomes stable, and may be confirmed.                         *)
Settle ==
    /\ possible' = {value}
    /\ acked' \in {acked, value}
    /\ UNCHANGED value

(* A power loss leaves one of the possible values, which is then stable.   *)
Lose ==
    /\ value' \in possible
    /\ possible' = {value'}
    /\ UNCHANGED acked

(* An unbroken cell is published, settled or lost; a broken one stays so.  *)
Next ==
    \/ broken'
    \/ ~broken' /\ (Publish \/ Settle \/ Lose)

Spec == Init /\ [][Next]_vars
=============================================================================
