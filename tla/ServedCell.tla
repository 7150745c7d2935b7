----------------------------- MODULE ServedCell -----------------------------
(***************************************************************************)
(* What the services rely on when they extend StateCell, as the            *)
(* specification of one process over its state file: a mutation is saved   *)
(* or undone, a start takes one of two files, a kill may leave a save half *)
(* done.  The promise ends when a temporary file is left behind, which a   *)
(* later start may load, or when two processes overlap ("broken").         *)
(***************************************************************************)
EXTENDS StateCell

CONSTANTS
    States,
    None        \* the state before the first mutation

VARIABLES
    broken

served == <<cell, up, broken>>

Init == StartsWith(None) /\ up = FALSE /\ broken = FALSE

(* mutateState.  The handlers that save several times are sequences of     *)
(* this: SavedTwice is Saved and Saved, SavedOnce is Saved and NotSaved.   *)
Mutate(next) ==
    /\ up
    /\ Saved(next) \/ NotSaved(next)
    /\ UNCHANGED up

(* A start may be killed once it has written a file back.                  *)
Start ==
    /\ ~up
    /\ Reloaded
    /\ up' \in BOOLEAN

(* A kill, perhaps in the middle of a save; what was in memory is lost.    *)
Kill(next) ==
    /\ up
    /\ up' = FALSE
    /\ mem' \in States
    /\ UNCHANGED <<disk, older>> \/ Interrupted(next)

Next ==
    \/ broken'
    \/ ~broken' /\ (Start \/ \E next \in States : Mutate(next) \/ Kill(next))

Spec == Init /\ [][Next]_served
=============================================================================
