----------------------------- MODULE StateStore -----------------------------
(***************************************************************************)
(* The platform state file of src/state.ts: nodes, workloads, peers and    *)
(* the rest, one JSON snapshot that every mutation rewrites.  Cloud        *)
(* processes may overlap during a restart, so there are several of them;   *)
(* each is one event loop and its file calls are synchronous, but the      *)
(* calls of two processes interleave.                                      *)
(*                                                                         *)
(* A snapshot is the number of the mutation that made it, 0 is the empty   *)
(* state.  A load prefers the newest modification time, so files carry the *)
(* time of their last write, which a rename keeps; the clock need not move *)
(* between two calls.  Processes may be killed at any call; power losses   *)
(* are left to JsonStore, whose fsync calls are the same.                  *)
(***************************************************************************)
EXTENDS Naturals

CONSTANTS
    Procs,      \* processes that may overlap
    Absent,     \* no file, and no snapshot
    Torn,       \* JSON.parse fails on the content
    MaxSaves,   \* bound: mutations
    MaxClock    \* bound: time

ASSUME BoundsAssumption == MaxSaves \in Nat /\ MaxClock \in Nat

File == [content : Nat \cup {Torn}, mtime : 0..MaxClock]

ASSUME SentinelsAssumption == Torn \notin Nat /\ Absent \notin File

Empty == 0

VARIABLES
    primary,    \* platform-state.json
    backup,     \* platform-state.json.bak
    temp,       \* temp[p]: the uniquely named file of p's current write
    strays,     \* such files left behind by processes that were killed
    clock,
    pc,         \* pc[p]: the next call of p
    job,        \* job[p]: the locals of p's current write
    mem,        \* mem[p]: the exported state, as readers in p see it
    saves,      \* how many mutations were attempted
    acked,      \* the newest mutation that returned
    base,       \* the state that mutation was made from
    failed,     \* a call failed, or a process was killed in a call
    overlapped  \* a process started while another was running

files == <<primary, backup, temp, strays>>
local == <<pc, job, mem>>
ledger == <<saves, acked, base, failed, overlapped>>
vars == <<files, clock, local, ledger>>

(* What a write knows: whether a mutation saves or a load repairs, the     *)
(* snapshot it writes, the state a failed mutation restores, and what it   *)
(* read from the primary to copy it to the backup.                         *)
Job == [task : {"save", "repair"}, writing : Nat, before : Nat,
        source : Nat \cup {Torn}]

NewJob(kind, new, old) ==
    [task |-> kind, writing |-> new, before |-> old, source |-> Empty]

NoJob == NewJob("repair", Empty, Empty)

BeforeRename == {"open", "fill", "copy", "copying", "rename"}

TypeOK ==
    /\ primary \in File \cup {Absent}
    /\ backup \in File \cup {Absent}
    /\ temp \in [Procs -> File \cup {Absent}]
    /\ strays \subseteq File
    /\ clock \in 0..MaxClock
    /\ pc \in [Procs -> BeforeRename \cup {"down", "idle", "sync"}]
    /\ job \in [Procs -> Job]
    /\ mem \in [Procs -> Nat]
    /\ saves \in 0..MaxSaves
    /\ acked \in Nat
    /\ base \in Nat
    /\ failed \in BOOLEAN
    /\ overlapped \in BOOLEAN

Init ==
    /\ primary = Absent
    /\ backup = Absent
    /\ temp = [p \in Procs |-> Absent]
    /\ strays = {}
    /\ clock = 0
    /\ pc = [p \in Procs |-> "down"]
    /\ job = [p \in Procs |-> NoJob]
    /\ mem = [p \in Procs |-> Empty]
    /\ saves = 0
    /\ acked = Empty
    /\ base = Empty
    /\ failed = FALSE
    /\ overlapped = FALSE

-----------------------------------------------------------------------------
(* writeSnapshotAtomic: one file call per action.                          *)

Written(c) == [content |-> c, mtime |-> clock]

Goto(p, label) ==
    /\ pc' = [pc EXCEPT ![p] = label]
    /\ UNCHANGED <<clock, mem, ledger>>

Finish(p, label) ==
    /\ pc' = [pc EXCEPT ![p] = label]
    /\ job' = [job EXCEPT ![p] = NoJob]

SetBackup(f) == backup' = f /\ UNCHANGED <<primary, temp, strays>>

(* Mutant: the temporary file has one fixed name.                          *)
SetTempFixedName(p, f) ==
    temp' = [q \in Procs |-> f] /\ UNCHANGED <<primary, backup, strays>>

SetTemp(p, f) == temp' = [temp EXCEPT ![p] = f] /\ UNCHANGED <<primary, backup, strays>>

OpenTemp(p) ==
    /\ pc[p] = "open"
    /\ SetTemp(p, Written(Torn))
    /\ Goto(p, "fill")
    /\ UNCHANGED job

(* Mutant: a failed write of the content is ignored.                       *)
FillTempIgnoringErrors(p) ==
    /\ pc[p] = "fill"
    /\ UNCHANGED files
    /\ Goto(p, IF job[p].task = "save" /\ primary # Absent THEN "copy" ELSE "rename")
    /\ UNCHANGED job

(* Mutant: the primary is replaced without a backup of it.                 *)
FillTempToRename(p) ==
    /\ pc[p] = "fill"
    /\ SetTemp(p, Written(job[p].writing))
    /\ Goto(p, "rename")
    /\ UNCHANGED job

FillTemp(p) ==
    /\ pc[p] = "fill"
    /\ SetTemp(p, Written(job[p].writing))
    /\ Goto(p, IF job[p].task = "save" /\ primary # Absent THEN "copy" ELSE "rename")
    /\ UNCHANGED job

(* Mutant: the content of the primary never reaches the backup.            *)
OpenBackupUnread(p) ==
    /\ pc[p] = "copy"
    /\ SetBackup(Written(Torn))
    /\ Goto(p, "copying")
    /\ UNCHANGED job

(* copyFileSync opens both files, then copies.  The backup is taken after  *)
(* the new content was written, so it is the younger file of the two.      *)
OpenBackup(p) ==
    /\ pc[p] = "copy"
    /\ SetBackup(Written(Torn))
    /\ job' = [job EXCEPT ![p].source = primary.content]
    /\ Goto(p, "copying")

CopyBackup(p) ==
    /\ pc[p] = "copying"
    /\ SetBackup(Written(job[p].source))
    /\ Goto(p, "rename")
    /\ UNCHANGED job

Rename(p) ==
    /\ pc[p] = "rename"
    /\ temp[p] # Absent
    /\ primary' = temp[p]
    /\ temp' = [temp EXCEPT ![p] = Absent]
    /\ UNCHANGED <<backup, strays, job>>
    /\ Goto(p, "sync")

(* The directory is synced and the write returns: a mutation is confirmed, *)
(* a load has repaired what it found.                                      *)
Return(p) ==
    /\ pc[p] = "sync"
    /\ Finish(p, "idle")
    /\ IF job[p].task = "save"
       THEN acked' = job[p].writing /\ base' = job[p].before
       ELSE UNCHANGED <<acked, base>>
    /\ UNCHANGED <<files, clock, mem, saves, failed, overlapped>>

(* Mutant: a failed mutation stays in memory.                              *)
WriteFailsKeepingMemory(p) ==
    /\ pc[p] \in BeforeRename \cup {"sync"}
    /\ SetTemp(p, Absent)
    /\ Finish(p, "idle")
    /\ failed' = TRUE
    /\ UNCHANGED <<clock, mem, saves, acked, base, overlapped>>

(* A call throws: the temporary file is removed (best effort), mutateState *)
(* puts the old state back into memory, and a load keeps what it read.  A  *)
(* failed directory sync comes too late to undo the rename.                *)
WriteFails(p) ==
    /\ pc[p] \in BeforeRename \cup {"sync"}
    /\ \/ SetTemp(p, Absent)
       \/ /\ temp[p] # Absent
          /\ strays' = strays \cup {temp[p]}
          /\ temp' = [temp EXCEPT ![p] = Absent]
          /\ UNCHANGED <<primary, backup>>
    /\ mem' = IF job[p].task = "save" THEN [mem EXCEPT ![p] = job[p].before] ELSE mem
    /\ Finish(p, "idle")
    /\ failed' = TRUE
    /\ UNCHANGED <<clock, saves, acked, base, overlapped>>

-----------------------------------------------------------------------------
(* mutateState changes the state in memory first, then saves it.           *)
Mutate(p) ==
    /\ pc[p] = "idle"
    /\ saves < MaxSaves
    /\ saves' = saves + 1
    /\ mem' = [mem EXCEPT ![p] = saves + 1]
    /\ job' = [job EXCEPT ![p] = NewJob("save", saves + 1, mem[p])]
    /\ pc' = [pc EXCEPT ![p] = "open"]
    /\ UNCHANGED <<files, clock, acked, base, failed, overlapped>>

-----------------------------------------------------------------------------
(* loadStateWithRecovery.                                                  *)

Parses(f) == f # Absent /\ f.content # Torn

(* Candidates in the order in which they are listed; of two of one age the *)
(* sort keeps the earlier.  Any file named like a temporary file counts,   *)
(* also one that another process is writing.                               *)
Temps == strays \cup {temp[p] : p \in Procs}

Candidates ==
    {[rank |-> 1, file |-> f] : f \in {g \in {primary} : Parses(g)}}
    \cup {[rank |-> 2, file |-> f] : f \in {g \in Temps : Parses(g)}}
    \cup {[rank |-> 3, file |-> f] : f \in {g \in {backup} : Parses(g)}}

Beats(a, b) ==
    \/ a.file.mtime > b.file.mtime
    \/ a.file.mtime = b.file.mtime /\ a.rank <= b.rank

Winners == {w \in Candidates : \A c \in Candidates : Beats(w, c)}

(* Whether a process starts while another still runs.                      *)
Overlap(p) == overlapped' = (overlapped \/ \E q \in Procs \ {p} : pc[q] # "down")

LoadNothing(p) ==
    /\ pc[p] = "down"
    /\ Candidates = {}
    /\ mem' = [mem EXCEPT ![p] = Empty]
    /\ pc' = [pc EXCEPT ![p] = "idle"]
    /\ Overlap(p)
    /\ UNCHANGED <<files, clock, job, saves, acked, base, failed>>

(* A winner other than the primary is rewritten, without a backup.         *)
Load(p) ==
    /\ pc[p] = "down"
    /\ \E w \in Winners :
         /\ mem' = [mem EXCEPT ![p] = w.file.content]
         /\ IF w.rank = 1
            THEN Finish(p, "idle")
            ELSE /\ pc' = [pc EXCEPT ![p] = "open"]
                 /\ job' = [job EXCEPT ![p] = NewJob("repair", w.file.content, Empty)]
    /\ Overlap(p)
    /\ UNCHANGED <<files, clock, saves, acked, base, failed>>

-----------------------------------------------------------------------------
(* The environment.                                                        *)

(* A kill leaves the unique temporary file behind; no load removes it.     *)
Kill(p) ==
    /\ pc[p] # "down"
    /\ strays' = strays \cup ({temp[p]} \ {Absent})
    /\ temp' = [temp EXCEPT ![p] = Absent]
    /\ Finish(p, "down")
    /\ mem' = [mem EXCEPT ![p] = Empty]
    /\ failed' = (failed \/ pc[p] # "idle")
    /\ UNCHANGED <<primary, backup, clock, saves, acked, base, overlapped>>

Tick ==
    /\ clock < MaxClock
    /\ clock' = clock + 1
    /\ UNCHANGED <<files, local, ledger>>

Step(p) ==
    \/ OpenTemp(p)
    \/ FillTemp(p)
    \/ OpenBackup(p)
    \/ CopyBackup(p)
    \/ Rename(p)
    \/ Return(p)
    \/ WriteFails(p)
    \/ Mutate(p)
    \/ LoadNothing(p)
    \/ Load(p)
    \/ Kill(p)

Next == (\E p \in Procs : Step(p)) \/ Tick

Spec == Init /\ [][Next]_vars

-----------------------------------------------------------------------------
(* Properties.                                                             *)

(* The primary file is replaced whole: at no call of any process, and      *)
(* after no kill, does it hold half a snapshot.                            *)
PrimaryNeverTorn == primary # Absent => primary.content # Torn

(* Overlapping processes do not disturb each other's writes ("its final    *)
(* rename cannot see ENOENT"): what a process is about to rename is the    *)
(* file it wrote.                                                          *)
RenameFindsOwnFile ==
    \A p \in Procs : pc[p] = "rename" => temp[p] # Absent /\ temp[p].content = job[p].writing

(* mutateState gives back the old state when the save fails: a process     *)
(* between calls never serves a mutation newer than what the files hold,   *)
(* whatever calls fail and wherever it is killed.  (A process that starts  *)
(* beside a running one may serve a write of the other that then fails.)   *)
Stored == {f \in {primary, backup} \cup Temps : Parses(f)}

MemoryNotAheadOfFiles ==
    ~overlapped => \A p \in Procs : (pc[p] = "idle" /\ mem[p] # Empty) =>
        \E f \in Stored : mem[p] <= f.content

Undisturbed == ~failed /\ ~overlapped

AtRest == \A p \in Procs : pc[p] \in {"idle", "down"}

(* Without failures and overlaps a restart goes back at most one mutation: *)
(* it loads the last confirmed one or the state that one was made from.    *)
AtMostOneBehind ==
    (Undisturbed /\ AtRest) => \A w \in Winners : w.file.content \in {acked, base}

(* What the recovery is for ("recovers from backup when primary and temp   *)
(* are invalid"): with a valid primary and no failure, a restart loads the *)
(* last confirmed mutation.                                                *)
RestartKeepsConfirmed ==
    (Undisturbed /\ AtRest) => \A w \in Winners : w.file.content = acked

-----------------------------------------------------------------------------
(* What a process that overlaps with no other, and that no temporary file  *)
(* was left to, makes of the state: a ServedCell.  While a mutation runs,  *)
(* memory is what its failure goes back to; the rename counts when the     *)
(* write returns, or is cut short; and a load that repairs does not serve. *)

PrimaryValue == IF primary = Absent THEN Empty ELSE primary.content

(* A backup that does not parse is about to be copied, or was: a start     *)
(* takes the primary.                                                      *)
BackupValue ==
    IF backup = Absent THEN Empty
    ELSE IF Parses(backup) THEN backup.content ELSE PrimaryValue

(* The state p serves when the write it is in fails.                       *)
GoesBackTo(p) == IF job[p].task = "save" THEN job[p].before ELSE mem[p]

Storing(p) == pc[p] = "sync" /\ job[p].task = "save"

Serves(p) == pc[p] = "idle" \/ job[p].task = "save"

CellUp == \E p \in Procs : Serves(p)

CellMem == IF CellUp THEN GoesBackTo(CHOOSE p \in Procs : Serves(p)) ELSE BackupValue

CellDisk == IF \E p \in Procs : Storing(p) THEN BackupValue ELSE PrimaryValue

Cell == INSTANCE ServedCell WITH
    States <- 0..MaxSaves,
    None <- Empty,
    mem <- CellMem,
    disk <- CellDisk,
    older <- BackupValue,
    up <- CellUp,
    broken <- overlapped \/ strays # {}

(* state.ts implements the cell that the services build on, with every     *)
(* call failing and a kill at every call, until a temporary file is left   *)
(* behind or two processes overlap.                                        *)
ImplementsCell == Cell!Spec
=============================================================================
