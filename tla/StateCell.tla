----------------------------- MODULE StateCell -----------------------------
(***************************************************************************)
(* The platform state as the services of one process see it: a mutation    *)
(* through mutateState of src/state.ts as one step, by what becomes of its *)
(* save.  StateStore has the calls behind it.  A start loads the primary   *)
(* or, when it is the younger file, the backup, which holds what the       *)
(* primary held before the last save (StateStore!AtMostOneBehind).         *)
(* Left to StateStore: temporary files of killed processes, overlapping    *)
(* processes and unreadable files.                                         *)
(***************************************************************************)
EXTENDS Integers, Sequences

VARIABLES
    mem,    \* the exported state
    disk,   \* platform-state.json
    older,  \* platform-state.json.bak
    up      \* the process runs

cell == <<mem, disk, older>>

(* What readers see now or after a restart.                                *)
Views == {mem, disk, older}

StartsWith(s) == mem = s /\ disk = s /\ older = s

(* The mutation is the last of its handler and is stored.                  *)
Saved(next) ==
    /\ mem' = next
    /\ disk' = next
    /\ older' = disk

(* The handler goes on to store an event or a health check: a second save  *)
(* that carries the mutation into the backup.                              *)
SavedTwice(next) ==
    /\ mem' = next
    /\ disk' = next
    /\ older' = next

(* The mutation is stored, the event after it is not.                      *)
SavedOnce(next) ==
    /\ mem' = next
    /\ disk' = next
    /\ older' \in {disk, next}

(* applyStateSnapshot puts back every list that the mutation had changed.  *)
Undone == UNCHANGED mem

(* A save that does not return: nothing was replaced, or the backup was,   *)
(* or both files were.                                                     *)
Interrupted(next) ==
    \/ disk' = disk /\ older' \in {older, disk}
    \/ disk' = next /\ older' = disk

(* The save throws, and the mutation is undone in memory.                  *)
NotSaved(next) == Undone /\ Interrupted(next)

(* A handler that stores one state after the other, "states" in turn.      *)
SavedInTurn(states) ==
    LET n == Len(states) IN
    /\ mem' = states[n]
    /\ disk' = states[n]
    /\ older' = IF n = 1 THEN disk ELSE states[n - 1]

(* One of these saves throws, and what follows it is not done.             *)
StoppedInTurn(states) ==
    \E k \in DOMAIN states :
       LET stored == IF k = 1 THEN disk ELSE states[k - 1] IN
       /\ mem' = IF k = 1 THEN mem ELSE states[k - 1]
       /\ \/ /\ disk' = stored
             /\ \/ older' = stored
                \/ older' = IF k = 1 THEN older ELSE IF k = 2 THEN disk ELSE states[k - 2]
          \/ disk' = states[k] /\ older' = stored

(* loadStateWithRecovery: "primary" and "backup" are what the two files are *)
(* sanitised to.  Only a backup is written back, and that may fail.        *)
LoadedAs(primary, backup) ==
    /\ \/ mem' = primary /\ UNCHANGED disk
       \/ mem' = backup /\ disk' \in {disk, backup}
    /\ UNCHANGED older

Reloaded == LoadedAs(disk, older)
=============================================================================
