----------------------------- MODULE JsonStore -----------------------------
(***************************************************************************)
(* The file protocol of src/persistence/json-store.ts, which keeps the     *)
(* tool registry on disk, together with its most careful caller,           *)
(* commitCatalog of src/systems-api/registry.ts.                           *)
(*                                                                         *)
(* A snapshot is a number: the n-th save writes snapshot n, and 0 is the   *)
(* empty registry.  Three names live in one directory: the primary file,   *)
(* the fixed ".tmp" file and the ".bak" file.                              *)
(*                                                                         *)
(* The file system is outside the repository.  It is modelled by the       *)
(* guarantees the code asks of it with its fsync calls: what a process     *)
(* reads back is "file"; after a power loss a name may resolve to any      *)
(* content in "durable"; a file whose bytes were never fsynced may come    *)
(* back torn, and a rename or an unlink is settled only by an fsync of     *)
(* the directory.                                                          *)
(***************************************************************************)
EXTENDS Naturals

CONSTANTS
    Absent,     \* the name does not exist
    Torn,       \* the file exists and JSON.parse fails on it
    MaxSaves,   \* bound: saves the process attempts
    MaxRots     \* bound: times the medium damages the primary file

ASSUME SentinelsAssumption ==
    /\ Absent \notin Nat
    /\ Torn \notin Nat
    /\ Absent # Torn

ASSUME BoundsAssumption == MaxSaves \in Nat /\ MaxRots \in Nat

Name == {"primary", "temp", "backup"}
Content == Nat \cup {Absent, Torn}
Empty == 0

(* The calls of writeJsonStoreAtomic that precede the replacement, in      *)
(* order, then the two directory syncs that follow it.                     *)
BeforeReplace ==
    {"copy", "copying", "flushBackup", "write", "writing", "flushTemp", "rename"}
Phase == BeforeReplace \cup {"idle", "syncDir", "resync", "down"}

VARIABLES
    file,       \* file[n]: what a process reads under the name n
    dirty,      \* names whose current bytes were not fsynced
    durable,    \* durable[n]: what n may hold after a power loss
    phase,      \* the next call of the synchronous code, "idle" or "down"
    task,       \* "save" (backupCurrentPrimary) or "repair" (a load's rewrite)
    writing,    \* the snapshot being written
    visible,    \* registry.catalog: the snapshot readers are served
    acked,      \* the newest snapshot a save has confirmed
    prevAcked,  \* the value of acked before that confirmation
    saves,      \* how many saves were attempted
    rots,       \* how often the medium damaged the primary
    disturbed   \* an I/O call failed or the process died at least once

disk == <<file, dirty, durable>>
caller == <<visible, acked, prevAcked>>
budget == <<saves, rots>>
vars == <<disk, phase, task, writing, caller, budget, disturbed>>

TypeOK ==
    /\ file \in [Name -> Content]
    /\ dirty \in SUBSET Name
    /\ durable \in [Name -> SUBSET Content]
    /\ phase \in Phase
    /\ task \in {"save", "repair"}
    /\ writing \in Nat
    /\ visible \in Nat
    /\ acked \in Nat
    /\ prevAcked \in Nat
    /\ saves \in Nat
    /\ rots \in Nat
    /\ disturbed \in BOOLEAN

Init ==
    /\ file = [n \in Name |-> Absent]
    /\ dirty = {}
    /\ durable = [n \in Name |-> {Absent}]
    /\ phase = "idle"
    /\ task = "save"
    /\ writing = Empty
    /\ visible = Empty
    /\ acked = Empty
    /\ prevAcked = Empty
    /\ saves = 0
    /\ rots = 0
    /\ disturbed = FALSE

-----------------------------------------------------------------------------
(* File system calls.                                                      *)

Readable(c) == c \in Nat

(* Bytes written and not yet fsynced: a power loss may keep all of them,   *)
(* some of them, or what the name held before.                             *)
Put(n, c) ==
    /\ file' = [file EXCEPT ![n] = c]
    /\ dirty' = dirty \cup {n}
    /\ durable' = [durable EXCEPT ![n] = @ \cup {Torn, c}]

FsyncFile(n) ==
    /\ dirty' = dirty \ {n}
    /\ UNCHANGED <<file, durable>>

(* safeUnlink of the temporary file: best effort, so it may do nothing.    *)
UnlinkTemp ==
    \/ UNCHANGED disk
    \/ /\ file' = [file EXCEPT !["temp"] = Absent]
       /\ dirty' = dirty \ {"temp"}
       /\ durable' = [durable EXCEPT !["temp"] = @ \cup {Absent}]

(* Mutant: the directory is not synced.                                    *)
FsyncDirectorySkipped == UNCHANGED disk

(* fsyncDirectory: a name whose bytes are stable now surely holds them.    *)
FsyncDirectory ==
    /\ durable' = [n \in Name |->
                     IF n \in dirty THEN durable[n] ELSE {file[n]}]
    /\ UNCHANGED <<file, dirty>>

-----------------------------------------------------------------------------
(* writeJsonStoreAtomic.                                                   *)

Goto(p) == phase' = p /\ UNCHANGED <<task, writing, caller, budget, disturbed>>

(* Mutant: no backup of the current primary.                               *)
BeginSaveNoBackup ==
    /\ phase = "idle"
    /\ saves < MaxSaves
    /\ saves' = saves + 1
    /\ writing' = saves + 1
    /\ task' = "save"
    /\ phase' = "write"
    /\ UNCHANGED <<disk, caller, rots, disturbed>>

(* A save: a backup is taken only of a primary that exists.                *)
BeginSave ==
    /\ phase = "idle"
    /\ saves < MaxSaves
    /\ saves' = saves + 1
    /\ writing' = saves + 1
    /\ task' = "save"
    /\ phase' = IF file["primary"] # Absent THEN "copy" ELSE "write"
    /\ UNCHANGED <<disk, caller, rots, disturbed>>

(* copyFileSync truncates the old backup, then fills it.                   *)
OpenBackup == phase = "copy" /\ Put("backup", Torn) /\ Goto("copying")

CopyBackup ==
    phase = "copying" /\ Put("backup", file["primary"]) /\ Goto("flushBackup")

FlushBackup == phase = "flushBackup" /\ FsyncFile("backup") /\ Goto("write")

OpenTemp == phase = "write" /\ Put("temp", Torn) /\ Goto("writing")

WriteTemp == phase = "writing" /\ Put("temp", writing) /\ Goto("flushTemp")

(* Mutant: the temporary file is not fsynced before the rename.            *)
FlushTempSkipped == phase = "flushTemp" /\ UNCHANGED disk /\ Goto("rename")

FlushTemp == phase = "flushTemp" /\ FsyncFile("temp") /\ Goto("rename")

Rename ==
    /\ phase = "rename"
    /\ file' = [file EXCEPT !["primary"] = file["temp"], !["temp"] = Absent]
    /\ durable' = [durable EXCEPT
         !["primary"] = @ \cup {file["temp"]}
                          \cup IF "temp" \in dirty THEN {Torn} ELSE {},
         !["temp"] = @ \cup {Absent}]
    /\ dirty' = dirty \ {"temp"}
    /\ Goto("syncDir")

(* The save is confirmed: commitCatalog publishes the snapshot.            *)
Confirm ==
    /\ visible' = writing
    /\ acked' = writing
    /\ prevAcked' = acked

SyncDir ==
    /\ phase = "syncDir"
    /\ FsyncDirectory
    /\ IF task = "save" THEN Confirm ELSE UNCHANGED caller
    /\ phase' = "idle"
    /\ UNCHANGED <<task, writing, budget, disturbed>>

(* Mutant: the catalog is published before the save is known to succeed.   *)
WriteFailsPublished ==
    /\ phase \in BeforeReplace
    /\ UnlinkTemp
    /\ phase' = "idle"
    /\ visible' = IF task = "save" THEN writing ELSE visible
    /\ disturbed' = TRUE
    /\ UNCHANGED <<task, writing, acked, prevAcked, budget>>

(* Any call before the replacement throws: the temporary file is removed,  *)
(* the caller keeps the old catalog (or, on a repair, what it loaded).     *)
WriteFails ==
    /\ phase \in BeforeReplace
    /\ UnlinkTemp
    /\ phase' = "idle"
    /\ disturbed' = TRUE
    /\ UNCHANGED <<task, writing, caller, budget>>

(* Mutant: a save whose directory sync failed is confirmed.                *)
SyncDirFailsConfirmed ==
    /\ phase = "syncDir"
    /\ IF task = "save" THEN Confirm ELSE UNCHANGED caller
    /\ phase' = "idle"
    /\ disturbed' = TRUE
    /\ UNCHANGED <<disk, task, writing, budget>>

(* The directory sync throws: JsonStorePostReplaceError.  commitCatalog    *)
(* publishes the snapshot when it reads it back from the disk, then        *)
(* retries the sync; when the read fails too, it keeps the old catalog.  A *)
(* repair swallows the error.                                              *)
SyncDirFails ==
    /\ phase = "syncDir"
    /\ \/ /\ task = "save"
          /\ file["primary"] = writing
          /\ phase' = "resync"
          /\ visible' = writing
       \/ /\ phase' = "idle"
          /\ UNCHANGED visible
    /\ disturbed' = TRUE
    /\ UNCHANGED <<disk, task, writing, acked, prevAcked, budget>>

(* syncJsonStoreSnapshot.                                                  *)
Resync ==
    /\ phase = "resync"
    /\ FsyncDirectory
    /\ Confirm
    /\ phase' = "idle"
    /\ UNCHANGED <<task, writing, budget, disturbed>>

ResyncFails == phase = "resync" /\ UNCHANGED disk /\ Goto("idle")

-----------------------------------------------------------------------------
(* loadJsonStoreWithRecovery.                                              *)

(* A readable primary is the committed value; the temporary file and then  *)
(* the backup are considered only without one.                             *)
Winner(f) ==
    IF Readable(f["primary"]) THEN "primary"
    ELSE IF Readable(f["temp"]) THEN "temp"
    ELSE IF Readable(f["backup"]) THEN "backup"
    ELSE "empty"

Recovered(f) == IF Winner(f) = "empty" THEN Empty ELSE f[Winner(f)]

(* The winner of a load is rewritten without a backup unless it is the     *)
(* primary itself; a stray temporary file is then removed.  When nothing   *)
(* parses the load returns before it touches the disk.                     *)
LoadEffect ==
    /\ task' = "repair"
    /\ writing' = Recovered(file)
    /\ \/ /\ Winner(file) = "primary"
          /\ UnlinkTemp
          /\ phase' = "idle"
       \/ /\ Winner(file) = "empty"
          /\ UNCHANGED disk
          /\ phase' = "idle"
       \/ /\ Winner(file) \in {"temp", "backup"}
          /\ UNCHANGED disk
          /\ phase' = "write"

Restart ==
    /\ phase = "down"
    /\ LoadEffect
    /\ visible' = Recovered(file)
    /\ UNCHANGED <<acked, prevAcked, budget, disturbed>>

(* queryAuditLog loads the registry file while the process is running.     *)
AuditRead ==
    /\ phase = "idle"
    /\ LoadEffect
    /\ UNCHANGED <<caller, budget, disturbed>>

-----------------------------------------------------------------------------
(* The environment.                                                        *)

(* The process is killed: the page cache survives.                         *)
Crash ==
    /\ phase # "down"
    /\ phase' = "down"
    /\ disturbed' = TRUE
    /\ UNCHANGED <<disk, task, writing, caller, budget>>

(* What a power loss now may leave under the three names.                  *)
Files(p, t, b) ==
    [n \in Name |-> IF n = "primary" THEN p ELSE IF n = "temp" THEN t ELSE b]

AfterPowerLoss ==
    {Files(p, t, b) :
       p \in durable["primary"], t \in durable["temp"], b \in durable["backup"]}

(* The machine loses power: each name falls back to durable content.       *)
PowerLoss ==
    /\ \E left \in AfterPowerLoss :
         /\ file' = left
         /\ durable' = [n \in Name |-> {left[n]}]
    /\ dirty' = {}
    /\ phase' = "down"
    /\ disturbed' = TRUE
    /\ UNCHANGED <<task, writing, caller, budget>>

(* The medium damages the primary file while no call is running.           *)
Rot ==
    /\ phase \in {"idle", "down"}
    /\ rots < MaxRots
    /\ file["primary"] # Absent
    /\ rots' = rots + 1
    /\ file' = [file EXCEPT !["primary"] = Torn]
    /\ durable' = [durable EXCEPT !["primary"] = {Torn}]
    /\ UNCHANGED <<dirty, phase, task, writing, caller, saves, disturbed>>

Next ==
    \/ BeginSave
    \/ OpenBackup
    \/ CopyBackup
    \/ FlushBackup
    \/ OpenTemp
    \/ WriteTemp
    \/ FlushTemp
    \/ Rename
    \/ SyncDir
    \/ WriteFails
    \/ SyncDirFails
    \/ Resync
    \/ ResyncFails
    \/ Restart
    \/ AuditRead
    \/ Crash
    \/ PowerLoss
    \/ Rot

Spec == Init /\ [][Next]_vars

-----------------------------------------------------------------------------
(* Properties.  "Undamaged" is the promise's premise: it excludes the loss *)
(* of bytes that were already stable, and nothing else.                    *)

Undamaged == rots = 0

(* The replacement is atomic: whatever call fails, and wherever the        *)
(* process dies or the power goes, the primary file parses or is absent.   *)
PrimaryNeverTorn ==
    Undamaged => Torn \notin durable["primary"] \cup {file["primary"]}

(* Once a save is confirmed, every later start reads that snapshot or a    *)
(* newer one: after a kill, and after a power loss at any moment of a      *)
(* later save, of its failure, of a retried sync, or of a recovery.        *)
AckedSurvives ==
    Undamaged => \A f \in AfterPowerLoss \cup {file} : acked <= Recovered(f)

(* Persist before visible: once something was confirmed, a running process *)
(* serves a catalog no older than the confirmed one and no newer than what *)
(* a restart would read.  (Before that a first save that died before its   *)
(* rename may be served from the temporary file, and a failed repair then  *)
(* removes that file: nothing confirmed is lost.)                          *)
VisibleIsStored ==
    (Undamaged /\ phase # "down" /\ acked > 0) =>
        acked <= visible /\ visible <= Recovered(file)

(* The backup: if damage to the primary is the only thing that ever goes   *)
(* wrong, at rest the load still yields at least the confirmed snapshot    *)
(* before the newest one.                                                  *)
BackupCoversOneRot ==
    (rots <= 1 /\ ~disturbed /\ phase = "idle") => prevAcked <= Recovered(file)

(* Read through the primary file, the protocol is an atomic cell.          *)
ValueOf(c) == IF Readable(c) THEN c ELSE Empty

Cell == INSTANCE DurableCell WITH
    value <- ValueOf(file["primary"]),
    possible <- {ValueOf(c) : c \in durable["primary"]},
    acked <- acked,
    broken <- rots > 0

(* json-store.ts implements DurableCell until the medium is damaged.       *)
ImplementsCell == Cell!Spec
=============================================================================
