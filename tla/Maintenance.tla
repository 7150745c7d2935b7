---------------------------- MODULE Maintenance ----------------------------
(***************************************************************************)
(* Maintenance windows that operators set and clear: the part of the       *)
(* platform state that src/maintenance/index.ts keeps, and what the audit  *)
(* log of src/audit/index.ts is told of it.  Surface has the requests.     *)
(*                                                                         *)
(* A change stores the state, appends to the log if it can, and stores the *)
(* state again with the event (src/observability/service.ts).  A process   *)
(* killed in between leaves the files as a failure at that point does.     *)
(* An append that fails may leave half a line; the next entry is then the  *)
(* other half of a line that nobody can parse.  The log is not synced:     *)
(* what a power loss takes from it is left out, as are the end, the reason *)
(* and the name of a window, which are for display only.                   *)
(***************************************************************************)
EXTENDS StateCell

CONSTANTS
    Subjects,   \* tools and domains
    Operators,
    None,       \* no window, and other absent values
    MaxChanges  \* bound: changes of windows

ASSUME MaintenanceAssumption ==
    /\ MaxChanges \in Nat
    /\ None \notin [since : 1 .. MaxChanges, by : Operators]

VARIABLES
    log,        \* audit.ndjson, as far as it is about windows
    ragged,     \* the log ends with half a line
    changes,    \* changes attempted; they number the windows
    unsettled   \* subjects with a change that failed half way or is not in the log

maintenance == <<cell, log, ragged, changes, unsettled>>

Window == [since : 1 .. MaxChanges, by : Operators]
Entry == [subject : Subjects, word : {"started", "updated", "ended"}, at : 1 .. MaxChanges]

MaintenanceTypeOK ==
    /\ Views \subseteq [Subjects -> Window \cup {None}]
    /\ log \in Seq(Entry)
    /\ ragged \in BOOLEAN
    /\ changes \in 0 .. MaxChanges
    /\ unsettled \subseteq Subjects

NoWindows == [s \in Subjects |-> None]

MaintenanceInit ==
    /\ StartsWith(NoWindows)
    /\ log = <<>>
    /\ ragged = FALSE
    /\ changes = 0
    /\ unsettled = {}

(* appendAuditEntry adds a line.                                           *)
Logged(entry) == ~ragged /\ log' = Append(log, entry) /\ ragged' = FALSE

(* It adds nothing, or half of a line, or all of it to half a line; none   *)
(* of which it tells anybody.                                              *)
Unlogged == log' = log /\ ragged' \in BOOLEAN

Changed(s, next, word) ==
    LET entry == [subject |-> s, word |-> word, at |-> changes + 1] IN
    /\ changes < MaxChanges
    /\ changes' = changes + 1
    /\ \/ /\ SavedTwice(next) /\ Logged(entry)
          /\ unsettled' = IF word = "updated" THEN unsettled ELSE unsettled \ {s}
       \/ /\ \/ NotSaved(next) /\ UNCHANGED <<log, ragged>>
             \/ SavedTwice(next) /\ Unlogged
             \/ SavedOnce(next) /\ (Logged(entry) \/ Unlogged)
          /\ unsettled' = unsettled \cup {s}

(* Mutant: an update starts the window anew.                               *)
SetAnew(s, operator) ==
    [mem EXCEPT ![s] = [since |-> changes + 1, by |-> operator]]

(* startedAt is kept by an update.                                         *)
SetTo(s, operator) ==
    [mem EXCEPT ![s] = [since |-> IF @ = None THEN changes + 1 ELSE @.since,
                        by |-> operator]]

SetMaintenance(s, operator) ==
    Changed(s, SetTo(s, operator), IF mem[s] = None THEN "started" ELSE "updated")

(* A subject without a window is answered 404, after a save all the same.  *)
ClearMaintenance(s) ==
    \/ /\ mem[s] # None
       /\ Changed(s, [mem EXCEPT ![s] = None], "ended")
    \/ /\ mem[s] = None
       /\ Saved(mem) \/ NotSaved(mem)
       /\ UNCHANGED <<log, ragged, changes, unsettled>>

(* The services store other parts of the same state, and their events may  *)
(* go to the same log.                                                     *)
StoreOther ==
    /\ Saved(mem) \/ SavedTwice(mem) \/ NotSaved(mem)
    /\ Unlogged
    /\ UNCHANGED <<changes, unsettled>>

-----------------------------------------------------------------------------
(* What the log says of s: the window it last heard start, None if it      *)
(* heard it end or never heard of it.                                      *)
About(s) == {i \in DOMAIN log : log[i].subject = s /\ log[i].word # "updated"}

LastAbout(s) == CHOOSE i \in About(s) : \A j \in About(s) : j <= i

LastHeard(s) ==
    IF About(s) = {} \/ log[LastAbout(s)].word = "ended" THEN None
    ELSE log[LastAbout(s)].at

(* The audit log and the windows agree: a part is in maintenance, in memory*)
(* and in each file a restart may load, exactly if the log last heard its  *)
(* window start, and since then, whoever updated it.  They are apart only  *)
(* after a change that failed half way, or whose entry failed or followed  *)
(* half a line (which is not reported to anybody), until an entry of the   *)
(* part's next start or end is added.                                      *)
MaintenanceLogged ==
    \A s \in Subjects \ unsettled : \A view \in Views :
        LastHeard(s) = IF view[s] = None THEN None ELSE view[s].since
=============================================================================
