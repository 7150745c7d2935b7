-------------------------- MODULE StateStoreProofs --------------------------
(***************************************************************************)
(* Theorems about StateStore for any number of processes, mutations and    *)
(* kills: the state file is replaced whole, no process renames a file that *)
(* is not the one it wrote, and, while processes do not overlap, what a    *)
(* failed save goes back to and what a restart finds are bounded.          *)
(***************************************************************************)
EXTENDS StateStore, TLAPS

(* The strengthening: from the moment its new content is written until it  *)
(* is renamed, a process's temporary file holds what it is writing; and a  *)
(* backup is taken only of a primary that exists, which it then does for   *)
(* good.                                                                   *)
OwnsTemp ==
    \A p \in Procs : pc[p] \in {"copy", "copying", "rename"} =>
        temp[p] # Absent /\ temp[p].content = job[p].writing

CopiesPrimary == \A p \in Procs : pc[p] = "copy" => primary # Absent

SafeInv == TypeOK /\ OwnsTemp /\ CopiesPrimary /\ PrimaryNeverTorn

-----------------------------------------------------------------------------
(* The second strengthening, for what a restart finds.                     *)

Live(p) == pc[p] # "down"

(* What each file and each process holds, whoever else runs: no snapshot   *)
(* beyond the mutations made, no file from the future, no backup without a *)
(* primary, and outside of a write neither a job nor a temporary file.     *)
Numbered(f) == Parses(f) => f.content <= saves

FilesInv ==
    /\ Numbered(primary)
    /\ Numbered(backup)
    /\ \A f \in strays : Numbered(f)
    /\ \A p \in Procs : Numbered(temp[p])
    /\ backup # Absent => primary # Absent /\ backup.mtime <= clock

JobInv(p) ==
    /\ mem[p] <= saves
    /\ job[p].writing <= saves
    /\ job[p].before <= saves
    /\ job[p].source # Torn => job[p].source <= saves
    /\ pc[p] \in {"down", "idle"} => job[p] = NoJob
    /\ pc[p] \in {"down", "idle", "open", "sync"} => temp[p] = Absent
    /\ pc[p] \in {"copy", "copying"} => job[p].task = "save" /\ primary # Absent

(* A file that no later call overwrites with something older holds         *)
(* snapshot n or a newer one.                                              *)
Kept(n) ==
    \/ n <= PrimaryValue
    \/ \E f \in strays : Parses(f) /\ n <= f.content

SoloJob(p) ==
    /\ Kept(GoesBackTo(p))
    /\ pc[p] # "idle" => mem[p] = job[p].writing
    /\ job[p].task = "save" => job[p].writing = saves
    /\ pc[p] = "copying" => job[p].source = primary.content
    /\ (pc[p] = "rename" /\ job[p].task = "repair" /\ backup # Absent) =>
         backup.mtime <= temp[p].mtime
    /\ pc[p] = "sync" => primary # Absent /\ primary.content = job[p].writing

(* What one process at a time may rely on.  A backup that a load would     *)
(* prefer to the primary holds nothing that the primary or a stray file    *)
(* does not hold; a repair's new file is at least as young as the backup,  *)
(* so that it settles which of the two the next load prefers.              *)
SoloInv ==
    /\ \A p, q \in Procs : Live(p) /\ Live(q) => p = q
    /\ (Parses(backup) /\ backup.mtime > primary.mtime) => Kept(backup.content)
    /\ \A p \in Procs : Live(p) => SoloJob(p)

CalmJob(p) ==
    /\ (pc[p] = "idle" \/ (job[p].task = "save" /\ ~Storing(p))) =>
         GoesBackTo(p) = PrimaryValue
    /\ (job[p].task = "save" /\ pc[p] \in {"rename", "sync"} /\ Parses(backup)) =>
         backup.content = job[p].before
    /\ (job[p].task = "repair" /\ pc[p] # "idle") => job[p].writing \in {acked, base}

(* Without failures the primary holds the state in memory, and each of the *)
(* two files the last confirmed mutation or the state it was made from,    *)
(* except between the rename and the return of a save, when the backup     *)
(* already holds what will be that state.                                  *)
CalmInv ==
    /\ strays = {}
    /\ Parses(backup) => backup.content \in {acked, base}
    /\ (primary # Absent /\ \A p \in Procs : ~Storing(p)) =>
         primary.content \in {acked, base}
    /\ \A p \in Procs : Live(p) => CalmJob(p)

IInv ==
    /\ SafeInv
    /\ FilesInv
    /\ \A p \in Procs : JobInv(p)
    /\ ~overlapped => SoloInv
    /\ Undisturbed => CalmInv

(* A new job is well formed.                                               *)
LEMMA NewJobType ==
  ASSUME NEW kind \in {"save", "repair"}, NEW new \in Nat, NEW old \in Nat
  PROVE  NewJob(kind, new, old) \in Job
  BY DEF NewJob, Job, Empty

(* What is written is a file.                                              *)
LEMMA WrittenFacts ==
  ASSUME clock \in 0..MaxClock, NEW c \in Nat \cup {Torn}
  PROVE  /\ Written(c) \in File
         /\ Written(c) # Absent
         /\ Written(c).content = c
  BY SentinelsAssumption DEF Written, File

(* The winner of a load holds a snapshot.                                  *)
LEMMA WinnerFacts ==
  ASSUME TypeOK, NEW w \in Winners
  PROVE  w.file.content \in Nat
  <1>1. ASSUME NEW f, f \in {primary, backup} \cup Temps, Parses(f)
        PROVE  f.content \in Nat
    BY <1>1 DEF TypeOK, Temps, Parses, File
  <1> QED
    BY <1>1 DEF Winners, Candidates

(* A step of a process keeps the types.                                    *)
LEMMA StepType ==
  ASSUME TypeOK, CopiesPrimary, NEW p \in Procs, Step(p)
  PROVE  TypeOK'
  <1> USE DEF TypeOK
  <1>0. NoJob \in Job /\ Torn \in Nat \cup {Torn} /\ job[p] \in Job
    BY NewJobType DEF NoJob, Empty
  <1>1. CASE OpenTemp(p)
    <2>1. Written(Torn) \in File
      BY WrittenFacts
    <2> QED
      BY <1>1, <2>1 DEF OpenTemp, SetTemp, Goto, ledger, BeforeRename
  <1>2. CASE FillTemp(p)
    <2>1. Written(job[p].writing) \in File
      BY <1>0, WrittenFacts DEF Job
    <2>2. (IF job[p].task = "save" /\ primary # Absent THEN "copy" ELSE "rename")
            \in BeforeRename
      BY DEF BeforeRename
    <2> QED
      BY <1>2, <2>1, <2>2 DEF FillTemp, SetTemp, Goto, ledger
  <1>3. CASE OpenBackup(p)
    <2>1. Written(Torn) \in File
      BY WrittenFacts
    <2>2. primary.content \in Nat \cup {Torn}
      BY <1>3 DEF OpenBackup, CopiesPrimary, File
    <2>3. job' \in [Procs -> Job]
      BY <1>0, <1>3, <2>2 DEF OpenBackup, Job
    <2> QED
      BY <1>3, <2>1, <2>3 DEF OpenBackup, SetBackup, Goto, ledger, BeforeRename
  <1>4. CASE CopyBackup(p)
    <2>1. Written(job[p].source) \in File
      BY <1>0, WrittenFacts DEF Job
    <2> QED
      BY <1>4, <2>1 DEF CopyBackup, SetBackup, Goto, ledger, BeforeRename
  <1>5. CASE Rename(p)
    BY <1>5 DEF Rename, Goto, ledger
  <1>6. CASE Return(p)
    <2>1. acked' \in Nat /\ base' \in Nat
      BY <1>0, <1>6 DEF Return, Job
    <2> QED
      BY <1>0, <1>6, <2>1 DEF Return, Finish, files
  <1>7. CASE WriteFails(p)
    BY <1>0, <1>7 DEF WriteFails, Finish, SetTemp, Job
  <1>8. CASE Mutate(p)
    <2>1. NewJob("save", saves + 1, mem[p]) \in Job
      BY BoundsAssumption, NewJobType
    <2>2. saves + 1 \in 0..MaxSaves
      BY <1>8, BoundsAssumption DEF Mutate
    <2> QED
      BY <1>8, <2>1, <2>2 DEF Mutate, files, BeforeRename
  <1>9. CASE LoadNothing(p)
    BY <1>9 DEF LoadNothing, Overlap, files, Empty
  <1>10. CASE Load(p)
    <2>1. PICK w \in Winners :
            /\ mem' = [mem EXCEPT ![p] = w.file.content]
            /\ IF w.rank = 1
               THEN Finish(p, "idle")
               ELSE /\ pc' = [pc EXCEPT ![p] = "open"]
                    /\ job' = [job EXCEPT ![p] = NewJob("repair", w.file.content, Empty)]
      BY <1>10 DEF Load
    <2>2. w.file.content \in Nat /\ NewJob("repair", w.file.content, Empty) \in Job
      BY WinnerFacts, NewJobType DEF Empty
    <2>3. mem' \in [Procs -> Nat] /\ job' \in [Procs -> Job]
      BY <1>0, <2>1, <2>2 DEF Finish
    <2>4. pc' \in [Procs -> BeforeRename \cup {"down", "idle", "sync"}]
      BY <2>1 DEF Finish, BeforeRename
    <2>5. overlapped' \in BOOLEAN
      BY <1>10 DEF Load, Overlap
    <2> QED
      BY <1>10, <2>3, <2>4, <2>5 DEF Load, files
  <1>11. CASE Kill(p)
    BY <1>0, <1>11 DEF Kill, Finish, Empty
  <1> QED
    BY <1>1, <1>2, <1>3, <1>4, <1>5, <1>6, <1>7, <1>8, <1>9, <1>10, <1>11 DEF Step

(* A step changes the temporary file and the locals of its own process.    *)
LEMMA OtherTemps ==
  ASSUME TypeOK, NEW p \in Procs, Step(p), NEW q \in Procs, q # p
  PROVE  temp'[q] = temp[q] /\ pc'[q] = pc[q] /\ job'[q] = job[q] /\ mem'[q] = mem[q]
  <1> USE DEF TypeOK
  <1>1. CASE OpenTemp(p) \/ FillTemp(p) \/ OpenBackup(p) \/ CopyBackup(p) \/ Rename(p)
    BY <1>1 DEF OpenTemp, FillTemp, OpenBackup, CopyBackup, Rename, SetTemp,
                SetBackup, Goto
  <1>2. CASE Return(p) \/ WriteFails(p) \/ Kill(p)
    BY <1>2 DEF Return, WriteFails, Kill, Finish, SetTemp, files
  <1>3. CASE Mutate(p) \/ LoadNothing(p) \/ Load(p)
    BY <1>3 DEF Mutate, LoadNothing, Load, Finish, files
  <1> QED
    BY <1>1, <1>2, <1>3 DEF Step

(* After its own step a process still owns what it is about to rename.     *)
LEMMA OwnTemp ==
  ASSUME TypeOK, OwnsTemp, NEW p \in Procs, Step(p),
         pc'[p] \in {"copy", "copying", "rename"}
  PROVE  temp'[p] # Absent /\ temp'[p].content = job'[p].writing
  <1> USE DEF TypeOK
  <1>1. CASE OpenTemp(p)
    BY <1>1 DEF OpenTemp, Goto
  <1>2. CASE FillTemp(p)
    <2>1. job[p].writing \in Nat
      BY DEF Job
    <2> QED
      BY <1>2, <2>1, WrittenFacts DEF FillTemp, SetTemp
  <1>3. CASE OpenBackup(p)
    <2>1. job'[p].writing = job[p].writing
      BY <1>3 DEF OpenBackup, Job
    <2> QED
      BY <1>3, <2>1 DEF OpenBackup, SetBackup, OwnsTemp
  <1>4. CASE CopyBackup(p)
    BY <1>4 DEF CopyBackup, SetBackup, OwnsTemp
  <1>5. CASE Rename(p) \/ Return(p) \/ WriteFails(p) \/ Kill(p)
    BY <1>5 DEF Rename, Return, WriteFails, Kill, Goto, Finish
  <1>6. CASE Mutate(p) \/ LoadNothing(p) \/ Load(p)
    BY <1>6 DEF Mutate, LoadNothing, Load, Finish
  <1> QED
    BY <1>1, <1>2, <1>3, <1>4, <1>5, <1>6 DEF Step

(* Only a rename changes the primary, and what it puts there was owned.    *)
LEMMA PrimaryStep ==
  ASSUME SafeInv, NEW p \in Procs, Step(p)
  PROVE  /\ primary' = primary \/ (primary' # Absent /\ primary'.content \in Nat)
         /\ pc'[p] = "copy" => primary' # Absent
  <1> USE DEF SafeInv
  <1>1. CASE Rename(p)
    <2>1. temp[p] # Absent /\ temp[p].content = job[p].writing
      BY <1>1 DEF Rename, OwnsTemp
    <2>2. job[p].writing \in Nat
      BY DEF TypeOK, Job
    <2>3. pc'[p] = "sync"
      BY <1>1 DEF Rename, Goto, TypeOK
    <2> QED
      BY <1>1, <2>1, <2>2, <2>3 DEF Rename
  <1>2. CASE FillTemp(p)
    BY <1>2 DEF FillTemp, SetTemp, Goto, TypeOK
  <1>3. CASE OpenTemp(p) \/ OpenBackup(p) \/ CopyBackup(p)
    BY <1>3 DEF OpenTemp, OpenBackup, CopyBackup, SetTemp, SetBackup, Goto, TypeOK
  <1>4. CASE Return(p) \/ WriteFails(p) \/ Kill(p)
    BY <1>4 DEF Return, WriteFails, Kill, SetTemp, Finish, files, TypeOK
  <1>5. CASE Mutate(p) \/ LoadNothing(p) \/ Load(p)
    BY <1>5 DEF Mutate, LoadNothing, Load, Finish, files, TypeOK
  <1> QED
    BY <1>1, <1>2, <1>3, <1>4, <1>5 DEF Step

(* The strengthened invariant is inductive.                                *)
LEMMA SafeStep ==
  ASSUME SafeInv, [Next]_vars
  PROVE  SafeInv'
  <1>1. ASSUME NEW p \in Procs, Step(p) PROVE SafeInv'
    <2>1. TypeOK'
      BY <1>1, StepType DEF SafeInv
    <2>2. OwnsTemp'
      BY <1>1, OtherTemps, OwnTemp DEF SafeInv, OwnsTemp
    <2>3. CopiesPrimary'
      BY <1>1, OtherTemps, PrimaryStep DEF SafeInv, CopiesPrimary
    <2>4. PrimaryNeverTorn'
      BY <1>1, PrimaryStep, SentinelsAssumption DEF SafeInv, PrimaryNeverTorn
    <2> QED
      BY <2>1, <2>2, <2>3, <2>4 DEF SafeInv
  <1>2. CASE Tick
    <2>1. clock' \in 0..MaxClock
      BY <1>2, BoundsAssumption DEF Tick, SafeInv, TypeOK
    <2> QED
      BY <1>2, <2>1 DEF Tick, SafeInv, TypeOK, OwnsTemp, CopiesPrimary,
                        PrimaryNeverTorn, files, local, ledger
  <1>3. CASE UNCHANGED vars
    BY <1>3 DEF vars, files, local, ledger, SafeInv, TypeOK, OwnsTemp, CopiesPrimary,
                PrimaryNeverTorn
  <1> QED
    BY <1>1, <1>2, <1>3 DEF Next

(* It holds before the first start.                                        *)
LEMMA SafeInit == Init => SafeInv
  <1>1. NoJob \in Job
    BY NewJobType DEF NoJob, Empty
  <1>2. Init => TypeOK
    <2> SUFFICES ASSUME Init PROVE TypeOK
      OBVIOUS
    <2>1. /\ primary \in File \cup {Absent}
          /\ backup \in File \cup {Absent}
          /\ temp \in [Procs -> File \cup {Absent}]
          /\ strays \subseteq File
      BY DEF Init
    <2>2. pc \in [Procs -> BeforeRename \cup {"down", "idle", "sync"}]
      BY DEF Init
    <2>3. clock \in 0..MaxClock /\ saves \in 0..MaxSaves
      BY BoundsAssumption DEF Init
    <2>4. job \in [Procs -> Job] /\ mem \in [Procs -> Nat]
      BY <1>1 DEF Init, Empty
    <2>5. acked \in Nat /\ base \in Nat /\ failed \in BOOLEAN /\ overlapped \in BOOLEAN
      BY DEF Init, Empty
    <2> QED
      BY <2>1, <2>2, <2>3, <2>4, <2>5 DEF TypeOK
  <1>3. Init => OwnsTemp /\ CopiesPrimary /\ PrimaryNeverTorn
    BY DEF Init, OwnsTemp, CopiesPrimary, PrimaryNeverTorn
  <1> QED
    BY <1>2, <1>3 DEF SafeInv

(* The variables keep their types for any number of processes.             *)
THEOREM TypeCorrect == Spec => []TypeOK
  <1>1. SafeInv => TypeOK
    BY DEF SafeInv
  <1> QED
    BY <1>1, SafeInit, SafeStep, PTL DEF Spec

(* writeSnapshotAtomic replaces the primary whole: no kill and no failed   *)
(* call of any process leaves half a snapshot under that name.             *)
THEOREM PrimaryIsAtomic == Spec => []PrimaryNeverTorn
  <1>1. SafeInv => PrimaryNeverTorn
    BY DEF SafeInv
  <1> QED
    BY <1>1, SafeInit, SafeStep, PTL DEF Spec

(* The unique temporary names do what their comment says: a process finds  *)
(* the file it wrote when it renames it, however many overlap.             *)
THEOREM RenamesOwnFile == Spec => []RenameFindsOwnFile
  <1>1. SafeInv => RenameFindsOwnFile
    BY DEF SafeInv, OwnsTemp, RenameFindsOwnFile
  <1> QED
    BY <1>1, SafeInit, SafeStep, PTL DEF Spec

-----------------------------------------------------------------------------
(* The second strengthening, step by step.                                 *)

(* The numbers and files that the steps compare.                           *)
LEMMA Shapes ==
  ASSUME SafeInv
  PROVE  /\ saves \in Nat /\ clock \in Nat /\ acked \in Nat /\ base \in Nat
         /\ \A f \in File : f \in [content : Nat \cup {Torn}, mtime : Nat] /\ f # Absent
         /\ primary # Absent => primary \in File /\ primary.content \in Nat
         /\ backup # Absent => backup \in File
         /\ \A q \in Procs : /\ mem[q] \in Nat
                             /\ job[q] \in Job
                             /\ job[q].writing \in Nat
                             /\ job[q].before \in Nat
                             /\ job[q].source \in Nat \cup {Torn}
                             /\ temp[q] # Absent => temp[q] \in File
  <1> USE DEF SafeInv, TypeOK
  <1>1. saves \in Nat /\ clock \in Nat
    BY BoundsAssumption
  <1>2. \A f \in File : f \in [content : Nat \cup {Torn}, mtime : Nat] /\ f # Absent
    BY SentinelsAssumption, BoundsAssumption DEF File
  <1>3. primary # Absent => primary \in File /\ primary.content \in Nat
    BY <1>2 DEF PrimaryNeverTorn
  <1>4. \A q \in Procs : /\ job[q] \in Job
                         /\ job[q].writing \in Nat
                         /\ job[q].before \in Nat
                         /\ job[q].source \in Nat \cup {Torn}
    BY DEF Job
  <1> QED
    BY <1>1, <1>2, <1>3, <1>4

(* Attempted mutations are only added.                                     *)
LEMMA SavesGrow ==
  ASSUME SafeInv, NEW p \in Procs, Step(p)
  PROVE  saves' \in Nat /\ saves <= saves'
  <1>1. saves \in Nat
    BY Shapes
  <1> QED
    BY <1>1 DEF Step, OpenTemp, FillTemp, OpenBackup, CopyBackup, Rename, Return,
       WriteFails, Mutate, LoadNothing, Load, Kill, Goto, ledger

(* A load leaves the files alone and takes over what one of them holds.    *)
LEMMA LoadFacts ==
  ASSUME SafeInv, FilesInv, NEW p \in Procs, Load(p)
  PROVE  /\ UNCHANGED <<files, clock, saves, acked, base, failed>>
         /\ mem'[p] \in Nat /\ mem'[p] <= saves
         /\ \/ /\ pc' = [pc EXCEPT ![p] = "idle"]
               /\ job' = [job EXCEPT ![p] = NoJob]
               /\ Parses(primary) /\ mem'[p] = primary.content
            \/ /\ pc' = [pc EXCEPT ![p] = "open"]
               /\ job' = [job EXCEPT ![p] = NewJob("repair", mem'[p], Empty)]
               /\ \E f \in Temps \cup {backup} : Parses(f) /\ mem'[p] = f.content
         /\ mem' = [mem EXCEPT ![p] = mem'[p]]
  <1>1. PICK w \in Winners :
          /\ mem' = [mem EXCEPT ![p] = w.file.content]
          /\ IF w.rank = 1
             THEN Finish(p, "idle")
             ELSE /\ pc' = [pc EXCEPT ![p] = "open"]
                  /\ job' = [job EXCEPT ![p] = NewJob("repair", w.file.content, Empty)]
    BY DEF Load
  <1>2. mem'[p] = w.file.content /\ w.file.content \in Nat
    BY <1>1, WinnerFacts DEF SafeInv, TypeOK
  <1>3. /\ Parses(w.file)
        /\ w.rank = 1 => w.file = primary
        /\ w.rank # 1 => w.file \in Temps \cup {backup}
    BY DEF Winners, Candidates
  <1>4. w.file.content <= saves
    BY <1>3 DEF FilesInv, Numbered, Temps, Winners, Candidates
  <1> QED
    BY <1>1, <1>2, <1>3, <1>4 DEF Load, Finish

(* No file and no job gets ahead of the mutations made.                    *)
LEMMA FilesStep ==
  ASSUME SafeInv, FilesInv, \A q \in Procs : JobInv(q), NEW p \in Procs, Step(p)
  PROVE  FilesInv'
  <1> USE SentinelsAssumption, Shapes, SavesGrow DEF FilesInv, Numbered, Parses
  <1>0. temp \in [Procs -> File \cup {Absent}] /\ strays \subseteq File
    BY DEF SafeInv, TypeOK
  <1>1. CASE OpenTemp(p)
    <2>1. temp' = [temp EXCEPT ![p] = Written(Torn)] /\ Written(Torn).content = Torn
      BY <1>1 DEF OpenTemp, SetTemp, Written
    <2> QED
      BY <1>0, <1>1, <2>1 DEF OpenTemp, SetTemp, Goto, ledger
  <1>2. CASE FillTemp(p)
    <2>1. /\ temp' = [temp EXCEPT ![p] = Written(job[p].writing)]
          /\ Written(job[p].writing).content = job[p].writing
      BY <1>2 DEF FillTemp, SetTemp, Written
    <2> QED
      BY <1>0, <1>2, <2>1 DEF FillTemp, SetTemp, Goto, ledger, JobInv
  <1>3. CASE OpenBackup(p)
    <2>1. backup' = Written(Torn) /\ Written(Torn).content = Torn /\ Written(Torn).mtime = clock
      BY <1>3 DEF OpenBackup, SetBackup, Written
    <2> QED
      BY <1>3, <2>1 DEF OpenBackup, SetBackup, Goto, ledger, JobInv
  <1>4. CASE CopyBackup(p)
    <2>1. /\ backup' = Written(job[p].source)
          /\ Written(job[p].source).content = job[p].source
          /\ Written(job[p].source).mtime = clock
      BY <1>4 DEF CopyBackup, SetBackup, Written
    <2> QED
      BY <1>4, <2>1 DEF CopyBackup, SetBackup, Goto, ledger, JobInv
  <1>5. CASE Rename(p)
    BY <1>0, <1>5 DEF Rename, Goto, ledger
  <1>6. CASE Return(p)
    BY <1>6 DEF Return, files
  <1>7. CASE WriteFails(p)
    BY <1>0, <1>7 DEF WriteFails, SetTemp
  <1>8. CASE Mutate(p)
    <2>1. saves' = saves + 1 /\ UNCHANGED <<primary, backup, temp, strays, clock>>
      BY <1>8 DEF Mutate, files
    <2>2. ASSUME NEW f, f = Absent \/ f \in File, Numbered(f) PROVE Parses(f) => f.content <= saves'
      BY <2>1, <2>2
    <2> QED
      BY <1>0, <2>1, <2>2
  <1>9. CASE LoadNothing(p) \/ Load(p)
    BY <1>9 DEF LoadNothing, Load, files
  <1>10. CASE Kill(p)
    BY <1>0, <1>10 DEF Kill
  <1> QED
    BY <1>1, <1>2, <1>3, <1>4, <1>5, <1>6, <1>7, <1>8, <1>9, <1>10 DEF Step

(* A primary is never removed.                                             *)
LEMMA PrimaryStays ==
  ASSUME SafeInv, NEW p \in Procs, Step(p), primary # Absent
  PROVE  primary' # Absent
  BY PrimaryStep

(* Jobs start and end with their write, and own a file only within it.     *)
LEMMA JobStep ==
  ASSUME SafeInv, FilesInv, \A q \in Procs : JobInv(q), NEW p \in Procs, Step(p),
         NEW r \in Procs
  PROVE  JobInv(r)'
  <1> USE Shapes, SavesGrow
  <1>0. /\ temp \in [Procs -> File \cup {Absent}] /\ mem \in [Procs -> Nat]
        /\ job \in [Procs -> Job] /\ pc \in [Procs -> BeforeRename \cup {"down", "idle", "sync"}]
    BY DEF SafeInv, TypeOK
  <1>00. /\ NoJob.writing = 0 /\ NoJob.before = 0 /\ NoJob.source = 0
         /\ \A k, n, m : /\ NewJob(k, n, m).task = k /\ NewJob(k, n, m).writing = n
                         /\ NewJob(k, n, m).before = m /\ NewJob(k, n, m).source = 0
    BY DEF NoJob, NewJob, Empty
  <1>a. CASE r # p
    <2>1. temp'[r] = temp[r] /\ pc'[r] = pc[r] /\ job'[r] = job[r] /\ mem'[r] = mem[r]
      BY <1>a, OtherTemps DEF SafeInv
    <2> QED
      BY <2>1, PrimaryStays DEF JobInv
  <1>b. CASE r = p
    <2>1. CASE OpenTemp(p)
      BY <1>0, <1>b, <2>1 DEF OpenTemp, SetTemp, Goto, ledger, JobInv
    <2>2. CASE FillTemp(p)
      BY <1>0, <1>b, <2>2 DEF FillTemp, SetTemp, Goto, ledger, JobInv
    <2>3. CASE OpenBackup(p)
      <3>1. /\ job'[p].writing = job[p].writing /\ job'[p].before = job[p].before
            /\ job'[p].task = job[p].task /\ job'[p].source = primary.content
        BY <1>0, <2>3 DEF OpenBackup, Job
      <3>2. primary.content <= saves
        BY <2>3 DEF OpenBackup, JobInv, FilesInv, Numbered, Parses, SafeInv, PrimaryNeverTorn
      <3> QED
        BY <1>0, <1>b, <2>3, <3>1, <3>2 DEF OpenBackup, SetBackup, Goto, ledger, JobInv
    <2>4. CASE CopyBackup(p)
      BY <1>0, <1>b, <2>4 DEF CopyBackup, SetBackup, Goto, ledger, JobInv
    <2>5. CASE Rename(p)
      BY <1>0, <1>b, <2>5 DEF Rename, Goto, ledger, JobInv
    <2>6. CASE Return(p)
      BY <1>0, <1>00, <1>b, <2>6 DEF Return, Finish, files, JobInv
    <2>7. CASE WriteFails(p)
      BY <1>0, <1>00, <1>b, <2>7 DEF WriteFails, SetTemp, Finish, JobInv
    <2>8. CASE Mutate(p)
      BY <1>0, <1>00, <1>b, <2>8 DEF Mutate, files, JobInv
    <2>9. CASE LoadNothing(p)
      BY <1>0, <1>00, <1>b, <2>9 DEF LoadNothing, files, JobInv, Empty
    <2>10. CASE Load(p)
      <3>1. temp' = temp /\ saves' = saves /\ primary' = primary
        BY <2>10, LoadFacts DEF files
      <3>2. temp[p] = Absent
        BY <2>10 DEF Load, JobInv
      <3> QED
        BY <1>0, <1>00, <1>b, <2>10, <3>1, <3>2, LoadFacts DEF JobInv, Empty
    <2>11. CASE Kill(p)
      BY <1>0, <1>00, <1>b, <2>11 DEF Kill, Finish, JobInv, Empty
    <2> QED
      BY <2>1, <2>2, <2>3, <2>4, <2>5, <2>6, <2>7, <2>8, <2>9, <2>10, <2>11 DEF Step
  <1> QED
    BY <1>a, <1>b

(* A process that acts while none overlapped acts alone.                   *)
LEMMA Alone ==
  ASSUME IInv, NEW p \in Procs, Step(p), ~overlapped'
  PROVE  /\ ~overlapped
         /\ Live(p) \/ LoadNothing(p) \/ Load(p)
         /\ \A q \in Procs : q # p => ~Live(q) /\ ~Live(q)' /\ temp[q] = Absent
  <1>1. ~overlapped /\ (Live(p) \/ LoadNothing(p) \/ Load(p))
    <2>1. CASE LoadNothing(p) \/ Load(p)
      BY <2>1 DEF LoadNothing, Load, Overlap, IInv, SafeInv, TypeOK
    <2>2. CASE OpenTemp(p) \/ FillTemp(p) \/ OpenBackup(p) \/ CopyBackup(p) \/ Rename(p)
      BY <2>2 DEF OpenTemp, FillTemp, OpenBackup, CopyBackup, Rename, Goto, ledger, Live
    <2>3. CASE Return(p) \/ WriteFails(p) \/ Mutate(p) \/ Kill(p)
      BY <2>3 DEF Return, WriteFails, Mutate, Kill, Live, BeforeRename
    <2> QED
      BY <2>1, <2>2, <2>3 DEF Step
  <1>2. ASSUME NEW q \in Procs, q # p PROVE ~Live(q)
    <2>1. CASE Live(p)
      BY <1>1, <1>2, <2>1 DEF IInv, SoloInv
    <2>2. CASE LoadNothing(p) \/ Load(p)
      BY <1>2, <2>2 DEF LoadNothing, Load, Overlap, Live
    <2> QED
      BY <1>1, <2>1, <2>2
  <1>3. ASSUME NEW q \in Procs, q # p PROVE pc'[q] = pc[q]
    BY <1>3, OtherTemps DEF IInv, SafeInv
  <1> QED
    BY <1>1, <1>2, <1>3 DEF Live, IInv, JobInv

(* What a load takes over is kept: the primary or a stray holds it.        *)
LEMMA LoadedIsKept ==
  ASSUME IInv, NEW p \in Procs, Load(p), ~overlapped'
  PROVE  Kept(mem'[p])
  <1>1. PICK w \in Winners : mem' = [mem EXCEPT ![p] = w.file.content]
    BY DEF Load
  <1>2. mem'[p] = w.file.content /\ w.file.content \in Nat
    BY <1>1, WinnerFacts DEF IInv, SafeInv, TypeOK
  <1>3. \A q \in Procs : temp[q] = Absent
    BY Alone DEF Step, Load, IInv, JobInv
  <1>4. Parses(w.file) /\ w \in Candidates /\ \A c \in Candidates : Beats(w, c)
    BY DEF Winners, Candidates
  <1>5. CASE w.file = primary
    BY <1>2, <1>4, <1>5 DEF Kept, PrimaryValue, Parses
  <1>6. CASE w.file \in Temps
    BY <1>2, <1>3, <1>4, <1>6 DEF Kept, Temps, Parses
  <1>7. CASE w.rank = 3 /\ w.file = backup
    <2>1. primary # Absent /\ Parses(primary)
      BY <1>4, <1>7 DEF IInv, SafeInv, FilesInv, Parses, PrimaryNeverTorn
    <2>2. [rank |-> 1, file |-> primary] \in Candidates
      BY <2>1 DEF Candidates
    <2>3. Beats(w, [rank |-> 1, file |-> primary])
      BY <1>4, <2>2
    <2>4. backup.mtime > primary.mtime
      BY <1>7, <2>3 DEF Beats
    <2>5. ~overlapped
      BY Alone DEF Step
    <2> QED
      BY <1>2, <1>4, <1>7, <2>4, <2>5 DEF IInv, SoloInv
  <1> QED
    BY <1>4, <1>5, <1>6, <1>7 DEF Candidates

(* The state that a failure falls back to stays in a file that no later    *)
(* call overwrites with something older.                                   *)
LEMMA SoloStep ==
  ASSUME IInv, NEW p \in Procs, Step(p), ~overlapped'
  PROVE  SoloInv'
  <1>0. /\ temp \in [Procs -> File \cup {Absent}] /\ mem \in [Procs -> Nat]
        /\ job \in [Procs -> Job] /\ pc \in [Procs -> BeforeRename \cup {"down", "idle", "sync"}]
    BY DEF IInv, SafeInv, TypeOK
  <1>1. /\ SafeInv /\ FilesInv /\ JobInv(p) /\ SoloInv
        /\ Live(p) => SoloJob(p)
    BY Alone DEF IInv, SoloInv
  <1>00. /\ NoJob.writing = 0 /\ NoJob.before = 0 /\ NoJob.task = "repair"
         /\ \A k, n, m : /\ NewJob(k, n, m).task = k /\ NewJob(k, n, m).writing = n
                         /\ NewJob(k, n, m).before = m
    BY DEF NoJob, NewJob, Empty
  <1> DEFINE Covered == (Parses(backup) /\ backup.mtime > primary.mtime) => Kept(backup.content)
  <1> SUFFICES Covered' /\ (Live(p)' => SoloJob(p)')
    BY Alone DEF SoloInv
  <1>c. Covered
    BY <1>1 DEF SoloInv
  <1> USE Shapes DEF Live, Kept, PrimaryValue, SoloJob, GoesBackTo
  <1>2. CASE OpenTemp(p)
    BY <1>0, <1>1, <1>c, <1>2 DEF OpenTemp, SetTemp, Goto, ledger
  <1>3. CASE FillTemp(p)
    <2>1. temp'[p].mtime = clock
      BY <1>0, <1>3 DEF FillTemp, SetTemp, Written
    <2> QED
      BY <1>0, <1>1, <1>c, <1>3, <2>1 DEF FillTemp, SetTemp, Goto, ledger, FilesInv
  <1>4. CASE OpenBackup(p)
    <2>1. backup'.content = Torn
      BY <1>4 DEF OpenBackup, SetBackup, Written
    <2>2. /\ job'[p].writing = job[p].writing /\ job'[p].before = job[p].before
          /\ job'[p].task = job[p].task /\ job'[p].source = primary.content
      BY <1>0, <1>4 DEF OpenBackup, Job
    <2> QED
      BY <1>0, <1>1, <1>4, <2>1, <2>2 DEF OpenBackup, SetBackup, Goto, ledger, Parses
  <1>5. CASE CopyBackup(p)
    <2>1. backup'.content = primary.content /\ primary # Absent /\ primary.content \in Nat
      BY <1>1, <1>5 DEF CopyBackup, SetBackup, Written, JobInv
    <2>2. job[p].task = "save"
      BY <1>1, <1>5 DEF CopyBackup, JobInv
    <2> QED
      BY <1>0, <1>1, <1>5, <2>1, <2>2 DEF CopyBackup, SetBackup, Goto, ledger
  <1>6. CASE Rename(p)
    <2>1. /\ primary' = temp[p] /\ primary' # Absent /\ primary'.content = job[p].writing
          /\ backup' = backup /\ strays' = strays /\ job' = job /\ mem' = mem /\ saves' = saves
          /\ pc[p] = "rename" /\ pc'[p] = "sync"
      BY <1>0, <1>1, <1>6 DEF Rename, Goto, ledger, SafeInv, OwnsTemp
    <2>2. CASE job[p].task = "save"
      <3>1. Covered'
        BY <1>1, <2>1, <2>2 DEF FilesInv, Numbered
      <3> QED
        BY <1>1, <2>1, <2>2, <3>1 DEF JobInv
    <2>3. CASE job[p].task = "repair"
      <3>1. backup # Absent => backup.mtime <= primary'.mtime
        BY <1>1, <2>1, <2>3
      <3>2. Covered'
        <4>1. primary'.mtime \in Nat /\ (backup # Absent => backup.mtime \in Nat)
          BY <1>0, <1>1, <2>1
        <4> QED
          BY <2>1, <3>1, <4>1 DEF Parses
      <3> QED
        BY <1>1, <2>1, <2>3, <3>2
    <2> QED
      BY <1>1, <2>2, <2>3 DEF Job
  <1>7. CASE Return(p)
    BY <1>0, <1>00, <1>1, <1>c, <1>7 DEF Return, Finish, files
  <1>8. CASE WriteFails(p)
    <2>1. /\ UNCHANGED <<primary, backup, clock, saves>> /\ strays \subseteq strays'
          /\ pc'[p] = "idle" /\ job'[p] = NoJob /\ mem'[p] = GoesBackTo(p)
      BY <1>0, <1>8 DEF WriteFails, SetTemp, Finish
    <2>2. Kept(GoesBackTo(p)) /\ GoesBackTo(p) \in Nat
      BY <1>1, <1>8 DEF WriteFails, BeforeRename
    <2> QED
      BY <1>00, <1>c, <2>1, <2>2
  <1>9. CASE Mutate(p)
    BY <1>0, <1>00, <1>1, <1>c, <1>9 DEF Mutate, files, JobInv
  <1>10. CASE LoadNothing(p)
    BY <1>0, <1>00, <1>1, <1>c, <1>10 DEF LoadNothing, files, JobInv, Empty
  <1>11. CASE Load(p)
    <2>1. UNCHANGED <<primary, backup, strays>> /\ mem'[p] \in Nat
      BY <1>1, <1>11, LoadFacts DEF files
    <2>2. Kept(mem'[p])
      BY <1>11, LoadedIsKept
    <2> QED
      BY <1>0, <1>00, <1>1, <1>c, <1>11, <2>1, <2>2, LoadFacts
  <1>12. CASE Kill(p)
    BY <1>0, <1>c, <1>12 DEF Kill, Finish
  <1> QED
    BY <1>2, <1>3, <1>4, <1>5, <1>6, <1>7, <1>8, <1>9, <1>10, <1>11, <1>12 DEF Step

(* A step after which nothing has failed had nothing fail before it, and   *)
(* is no failing call and no kill within a call.                           *)
LEMMA StillCalm ==
  ASSUME IInv, NEW p \in Procs, Step(p), Undisturbed'
  PROVE  /\ Undisturbed
         /\ ~WriteFails(p)
         /\ Kill(p) => pc[p] = "idle"
  <1>1. ~overlapped
    BY Alone DEF Undisturbed
  <1>2. failed \in BOOLEAN
    BY DEF IInv, SafeInv, TypeOK
  <1>3. ~WriteFails(p) /\ (Kill(p) => pc[p] = "idle" /\ ~failed)
    BY <1>2 DEF WriteFails, Kill, Undisturbed
  <1>4. CASE OpenTemp(p) \/ FillTemp(p) \/ OpenBackup(p) \/ CopyBackup(p) \/ Rename(p)
    BY <1>1, <1>3, <1>4 DEF OpenTemp, FillTemp, OpenBackup, CopyBackup, Rename, Goto, ledger, Undisturbed
  <1>5. CASE Return(p) \/ Mutate(p) \/ LoadNothing(p) \/ Load(p)
    BY <1>1, <1>3, <1>5 DEF Return, Mutate, LoadNothing, Load, Undisturbed
  <1> QED
    BY <1>1, <1>3, <1>4, <1>5 DEF Step, Undisturbed

(* Undisturbed, the two files hold the last confirmed mutation and the     *)
(* state it was made from, at every call.                                  *)
LEMMA CalmStep ==
  ASSUME IInv, NEW p \in Procs, Step(p), Undisturbed'
  PROVE  CalmInv'
  <1>0. /\ temp \in [Procs -> File \cup {Absent}] /\ mem \in [Procs -> Nat]
        /\ job \in [Procs -> Job] /\ pc \in [Procs -> BeforeRename \cup {"down", "idle", "sync"}]
    BY DEF IInv, SafeInv, TypeOK
  <1>1. /\ SafeInv /\ FilesInv /\ JobInv(p) /\ CalmInv
        /\ Live(p) => SoloJob(p) /\ CalmJob(p)
    BY StillCalm DEF IInv, SoloInv, CalmInv, Undisturbed
  <1>00. /\ NoJob.writing = 0 /\ NoJob.before = 0 /\ NoJob.task = "repair"
         /\ \A k, n, m : /\ NewJob(k, n, m).task = k /\ NewJob(k, n, m).writing = n
                         /\ NewJob(k, n, m).before = m
    BY DEF NoJob, NewJob, Empty
  <1>b. \A q \in Procs : q # p => ~Live(q) /\ ~Live(q)' /\ temp[q] = Absent
    BY Alone DEF Undisturbed
  <1> SUFFICES /\ strays' = {}
               /\ Parses(backup)' => backup'.content \in {acked', base'}
               /\ primary' # Absent /\ ~Storing(p)' => primary'.content \in {acked', base'}
               /\ Live(p)' => CalmJob(p)'
    BY <1>b DEF CalmInv
  <1>c. /\ strays = {}
        /\ Parses(backup) => backup.content \in {acked, base}
        /\ primary # Absent /\ ~Storing(p) => primary.content \in {acked, base}
    <2>1. \A q \in Procs : q # p => ~Storing(q)
      BY <1>b DEF Storing, Live
    <2> QED
      BY <1>1, <2>1 DEF CalmInv
  <1> USE Shapes DEF Live, PrimaryValue, CalmJob, Storing, GoesBackTo
  <1>2. CASE OpenTemp(p)
    BY <1>0, <1>1, <1>c, <1>2 DEF OpenTemp, SetTemp, Goto, ledger
  <1>3. CASE FillTemp(p)
    BY <1>0, <1>1, <1>c, <1>3 DEF FillTemp, SetTemp, Goto, ledger, FilesInv, Parses
  <1>4. CASE OpenBackup(p)
    <2>1. backup'.content = Torn
      BY <1>4 DEF OpenBackup, SetBackup, Written
    <2>2. /\ job'[p].writing = job[p].writing /\ job'[p].before = job[p].before
          /\ job'[p].task = job[p].task
      BY <1>0, <1>4 DEF OpenBackup, Job
    <2> QED
      BY <1>0, <1>1, <1>c, <1>4, <2>1, <2>2 DEF OpenBackup, SetBackup, Goto, ledger, Parses
  <1>5. CASE CopyBackup(p)
    <2>1. /\ backup'.content = primary.content /\ primary # Absent
          /\ job[p].task = "save" /\ primary.content = job[p].before
      BY <1>1, <1>5 DEF CopyBackup, SetBackup, Written, JobInv, SoloJob
    <2> QED
      BY <1>0, <1>1, <1>c, <1>5, <2>1 DEF CopyBackup, SetBackup, Goto, ledger
  <1>6. CASE Rename(p)
    <2>1. /\ primary' = temp[p] /\ primary' # Absent /\ primary'.content = job[p].writing
          /\ backup' = backup /\ strays' = strays /\ job' = job /\ mem' = mem
          /\ acked' = acked /\ base' = base
          /\ pc[p] = "rename" /\ pc'[p] = "sync"
      BY <1>0, <1>1, <1>6 DEF Rename, Goto, ledger, SafeInv, OwnsTemp
    <2>2. job[p].task \in {"save", "repair"}
      BY <1>1 DEF Job
    <2> QED
      BY <1>1, <1>c, <2>1, <2>2 DEF Parses
  <1>7. CASE Return(p)
    <2>1. /\ UNCHANGED <<primary, backup, strays, mem>>
          /\ pc[p] = "sync" /\ pc'[p] = "idle" /\ job'[p] = NoJob
          /\ primary # Absent /\ primary.content = job[p].writing /\ mem[p] = job[p].writing
      BY <1>0, <1>1, <1>7 DEF Return, Finish, files, SoloJob
    <2>2. CASE job[p].task = "save"
      BY <1>00, <1>1, <1>c, <1>7, <2>1, <2>2 DEF Return, Parses
    <2>3. CASE job[p].task = "repair"
      BY <1>00, <1>1, <1>c, <1>7, <2>1, <2>3 DEF Return, Parses
    <2> QED
      BY <1>1, <2>2, <2>3 DEF Job
  <1>8. CASE Mutate(p)
    BY <1>0, <1>00, <1>1, <1>c, <1>8 DEF Mutate, files, JobInv
  <1>9. CASE LoadNothing(p)
    <2>1. primary = Absent
      <3>1. primary # Absent => [rank |-> 1, file |-> primary] \in Candidates
        BY <1>1 DEF Candidates, SafeInv, PrimaryNeverTorn, Parses
      <3> QED
        BY <1>9, <3>1 DEF LoadNothing
    <2> QED
      BY <1>0, <1>00, <1>1, <1>c, <1>9, <2>1 DEF LoadNothing, files, JobInv, Empty
  <1>10. CASE Load(p)
    <2>1. UNCHANGED <<primary, backup, strays, acked, base>> /\ mem'[p] \in Nat
      BY <1>1, <1>10, LoadFacts DEF files
    <2>2. \A q \in Procs : temp[q] = Absent
      BY <1>1, <1>b, <1>10 DEF Load, JobInv
    <2>3. \A f \in Temps : f = Absent
      BY <1>c, <2>2 DEF Temps
    <2>4. pc[p] = "down" /\ ~Storing(p)
      BY <1>10 DEF Load
    <2>5. \/ /\ pc'[p] = "idle" /\ job'[p] = NoJob
             /\ primary # Absent /\ mem'[p] = primary.content
          \/ /\ pc'[p] = "open" /\ job'[p] = NewJob("repair", mem'[p], Empty)
             /\ Parses(backup) /\ mem'[p] = backup.content
      BY <1>0, <1>1, <1>10, <2>3, LoadFacts DEF Parses
    <2> QED
      BY <1>00, <1>c, <2>1, <2>4, <2>5 DEF Parses
  <1>11. CASE Kill(p)
    <2>1. temp[p] = Absent
      BY <1>1, <1>11, StillCalm DEF JobInv
    <2> QED
      BY <1>0, <1>c, <1>11, <2>1, StillCalm DEF Kill, Finish
  <1> QED
    BY <1>2, <1>3, <1>4, <1>5, <1>6, <1>7, <1>8, <1>9, <1>10, <1>11, StillCalm DEF Step

(* All of it together is inductive.                                        *)
LEMMA IInvStep ==
  ASSUME IInv, [Next]_vars
  PROVE  IInv'
  <1>1. SafeInv'
    BY SafeStep DEF IInv
  <1>2. ASSUME NEW p \in Procs, Step(p) PROVE IInv'
    <2>1. FilesInv' /\ \A r \in Procs : JobInv(r)'
      BY <1>2, FilesStep, JobStep DEF IInv
    <2>2. ~overlapped' => SoloInv'
      BY <1>2, SoloStep
    <2>3. Undisturbed' => CalmInv'
      BY <1>2, CalmStep
    <2> QED
      BY <1>1, <2>1, <2>2, <2>3 DEF IInv
  <1>3. CASE Tick
    <2>1. clock' = clock + 1 /\ clock \in Nat
      BY <1>3, Shapes DEF Tick, IInv
    <2>2. UNCHANGED <<files, local, ledger>>
      BY <1>3 DEF Tick
    <2>3. FilesInv'
      BY <2>1, <2>2, Shapes DEF IInv, FilesInv, Numbered, Parses, files, local, ledger
    <2>4. /\ \A r \in Procs : JobInv(r)'
          /\ ~overlapped' => SoloInv'
          /\ Undisturbed' => CalmInv'
      BY <2>2 DEF IInv, JobInv, SoloInv, SoloJob, CalmInv, CalmJob, Undisturbed, Live,
                  Kept, PrimaryValue, GoesBackTo, Storing, Parses, files, local, ledger
    <2> QED
      BY <1>1, <2>3, <2>4 DEF IInv
  <1>4. CASE UNCHANGED vars
    BY <1>1, <1>4 DEF vars, files, local, ledger, IInv, FilesInv, Numbered, JobInv, SoloInv,
                SoloJob, CalmInv, CalmJob, Undisturbed, Live, Kept, PrimaryValue,
                GoesBackTo, Storing, Parses
  <1> QED
    BY <1>2, <1>3, <1>4 DEF Next

(* And it holds before the first start.                                    *)
LEMMA IInvInit == Init => IInv
  <1> SUFFICES ASSUME Init PROVE IInv
    OBVIOUS
  <1>1. SafeInv
    BY SafeInit
  <1>2. FilesInv /\ \A p \in Procs : JobInv(p)
    BY SentinelsAssumption
    DEF Init, FilesInv, Numbered, Parses, JobInv, NoJob, NewJob, Empty
  <1>3. SoloInv /\ CalmInv
    BY DEF Init, SoloInv, CalmInv, Live, Parses
  <1> QED
    BY <1>1, <1>2, <1>3 DEF IInv

(* mutateState gives back the old state when its save fails: as long as    *)
(* processes do not overlap, a process between calls serves nothing newer  *)
(* than what some file still holds, whatever failed and was killed.        *)
THEOREM MemoryIsStored == Spec => []MemoryNotAheadOfFiles
  <1>1. IInv => MemoryNotAheadOfFiles
    <2> SUFFICES ASSUME IInv, ~overlapped, NEW p \in Procs, pc[p] = "idle", mem[p] # Empty
                 PROVE  \E f \in Stored : mem[p] <= f.content
      BY DEF MemoryNotAheadOfFiles
    <2>1. Kept(mem[p]) /\ mem[p] \in Nat /\ mem[p] # 0
      BY Shapes DEF IInv, SoloInv, SoloJob, Live, JobInv, GoesBackTo, NoJob, NewJob, Empty
    <2>2. primary # Absent => Parses(primary)
      BY DEF IInv, SafeInv, PrimaryNeverTorn, Parses
    <2> QED
      BY <2>1, <2>2 DEF Kept, PrimaryValue, Stored, Temps, Empty
  <1> QED
    BY <1>1, IInvInit, IInvStep, PTL DEF Spec

(* Without failures and overlaps a restart goes back at most one mutation. *)
THEOREM RestartLosesAtMostOne == Spec => []AtMostOneBehind
  <1>1. IInv => AtMostOneBehind
    <2> SUFFICES ASSUME IInv, Undisturbed, AtRest, NEW w \in Winners
                 PROVE  w.file.content \in {acked, base}
      BY DEF AtMostOneBehind
    <2>1. \A p \in Procs : temp[p] = Absent /\ ~Storing(p)
      BY DEF IInv, JobInv, AtRest, Storing
    <2>2. \A f \in Temps : f = Absent
      BY <2>1 DEF IInv, CalmInv, Temps
    <2>3. Parses(w.file) /\ w.file \in {primary, backup} \cup Temps
      BY DEF Winners, Candidates
    <2> QED
      BY <2>1, <2>2, <2>3 DEF IInv, CalmInv, Parses
  <1> QED
    BY <1>1, IInvInit, IInvStep, PTL DEF Spec

-----------------------------------------------------------------------------
(* The refinement: what one undisturbed process makes of the files is what *)
(* the services take for granted (ServedCell).                             *)

Unbroken == ~overlapped /\ strays = {}

(* From the opening of the backup to the rename a start would find nothing *)
(* but the primary, the copy is whole when the rename comes, and what a    *)
(* load repairs is the backup.                                             *)
CleanJob(p) ==
    /\ (pc[p] \in {"copying", "rename"} /\ job[p].task = "save") =>
         BackupValue = PrimaryValue
    /\ (pc[p] = "rename" /\ job[p].task = "save") => backup = Absent \/ Parses(backup)
    /\ (job[p].task = "repair" /\ pc[p] \notin {"idle", "down"}) =>
         Parses(backup) /\ backup.content = job[p].writing

CleanInv == Unbroken => \A p \in Procs : CleanJob(p)

(* Temporary files that are left behind stay; so a cell that is unbroken   *)
(* after a step was unbroken before.                                       *)
LEMMA StillUnbroken ==
  ASSUME IInv, NEW p \in Procs, Step(p), Unbroken'
  PROVE  /\ Unbroken
         /\ \A q \in Procs : q # p => ~Live(q) /\ ~Live(q)' /\ temp[q] = Absent
         /\ Live(p) \/ LoadNothing(p) \/ Load(p)
         /\ JobInv(p) /\ (Live(p) => SoloJob(p))
         /\ WriteFails(p) => UNCHANGED <<primary, backup>>
         /\ Kill(p) => temp[p] = Absent
  <1>1. /\ ~overlapped
        /\ \A q \in Procs : q # p => ~Live(q) /\ ~Live(q)' /\ temp[q] = Absent
        /\ Live(p) \/ LoadNothing(p) \/ Load(p)
    BY Alone DEF Unbroken
  <1>2. strays \subseteq strays'
    BY DEF Step, OpenTemp, FillTemp, OpenBackup, CopyBackup, Rename, Return, WriteFails,
           Mutate, LoadNothing, Load, Kill, SetTemp, SetBackup, files
  <1>3. WriteFails(p) => UNCHANGED <<primary, backup>>
    BY DEF WriteFails, SetTemp
  <1>4. Kill(p) => temp[p] = Absent
    BY DEF Kill, Unbroken
  <1> QED
    BY <1>1, <1>2, <1>3, <1>4 DEF Unbroken, IInv, SoloInv

(* A load takes the primary or the backup, if there is nothing else.       *)
LEMMA LoadsOneOfTwo ==
  ASSUME IInv, NEW p \in Procs, Load(p), Unbroken'
  PROVE  /\ UNCHANGED <<primary, backup>>
         /\ \/ /\ pc' = [pc EXCEPT ![p] = "idle"]
               /\ job' = [job EXCEPT ![p] = NoJob]
               /\ Parses(primary) /\ mem'[p] = primary.content
            \/ /\ pc' = [pc EXCEPT ![p] = "open"]
               /\ job' = [job EXCEPT ![p] = NewJob("repair", mem'[p], Empty)]
               /\ Parses(backup) /\ mem'[p] = backup.content
  <1>1. Unbroken /\ \A q \in Procs : temp[q] = Absent
    BY StillUnbroken DEF Step, Load, JobInv
  <1>2. \A f \in Temps : f = Absent
    BY <1>1 DEF Temps, Unbroken
  <1> QED
    BY <1>2, LoadFacts DEF IInv, Parses, files

(* The copy that a rename relies on, and the source of a repair.           *)
LEMMA CleanStep ==
  ASSUME IInv, CleanInv, NEW p \in Procs, Step(p), Unbroken'
  PROVE  CleanInv'
  <1>0. /\ temp \in [Procs -> File \cup {Absent}] /\ mem \in [Procs -> Nat]
        /\ job \in [Procs -> Job] /\ pc \in [Procs -> BeforeRename \cup {"down", "idle", "sync"}]
    BY DEF IInv, SafeInv, TypeOK
  <1>00. /\ NoJob.task = "repair"
         /\ \A k, n, m : NewJob(k, n, m).task = k /\ NewJob(k, n, m).writing = n
    BY DEF NoJob, NewJob
  <1>1. /\ SafeInv /\ FilesInv /\ JobInv(p) /\ CleanJob(p)
        /\ Live(p) => SoloJob(p)
    BY StillUnbroken DEF IInv, CleanInv
  <1>b. \A q \in Procs : q # p => ~Live(q)'
    BY StillUnbroken
  <1>c. IInv'
    BY IInvStep DEF Next
  <1>d. ASSUME NEW q \in Procs, q # p PROVE CleanJob(q)'
    <2>1. pc'[q] = "down"
      BY <1>b, <1>d DEF Live
    <2> QED
      BY <2>1 DEF CleanJob
  <1> SUFFICES CleanJob(p)'
    BY <1>d DEF CleanInv
  <1> USE Shapes DEF CleanJob, BackupValue, PrimaryValue
  <1>2. CASE OpenTemp(p)
    BY <1>0, <1>1, <1>2 DEF OpenTemp, SetTemp, Goto
  <1>3. CASE FillTemp(p)
    BY <1>0, <1>1, <1>3 DEF FillTemp, SetTemp, Goto, FilesInv
  <1>4. CASE OpenBackup(p)
    <2>1. backup'.content = Torn /\ backup' # Absent /\ UNCHANGED primary
      BY <1>4, WrittenFacts DEF OpenBackup, SetBackup, SafeInv, TypeOK, IInv
    <2>2. job'[p].task = job[p].task /\ job[p].task = "save" /\ pc'[p] = "copying"
      BY <1>0, <1>1, <1>4 DEF OpenBackup, Goto, JobInv, Job
    <2> QED
      BY <2>1, <2>2 DEF Parses
  <1>5. CASE CopyBackup(p)
    <2>1. /\ backup' = Written(job[p].source) /\ backup' # Absent
          /\ backup'.content = primary.content /\ primary' = primary /\ primary # Absent
      BY <1>0, <1>1, <1>5, WrittenFacts
      DEF CopyBackup, SetBackup, Written, JobInv, SoloJob, Live, SafeInv, TypeOK
    <2>2. Parses(backup)' /\ job[p].task = "save" /\ job' = job
      BY <1>1, <1>5, <2>1, SentinelsAssumption DEF CopyBackup, Parses, JobInv
    <2> QED
      BY <2>1, <2>2
  <1>6. CASE Rename(p)
    BY <1>0, <1>1, <1>6 DEF Rename, Goto
  <1>7. CASE Return(p) \/ WriteFails(p) \/ Kill(p)
    BY <1>0, <1>7 DEF Return, WriteFails, Kill, Finish
  <1>8. CASE Mutate(p)
    BY <1>0, <1>00, <1>8 DEF Mutate
  <1>9. CASE LoadNothing(p)
    BY <1>0, <1>9 DEF LoadNothing
  <1>10. CASE Load(p)
    BY <1>0, <1>00, <1>10, LoadsOneOfTwo
  <1> QED
    BY <1>2, <1>3, <1>4, <1>5, <1>6, <1>7, <1>8, <1>9, <1>10 DEF Step

(* The state of the cell, while p alone runs or none does.                 *)
LEMMA CellValues ==
  ASSUME NEW p \in Procs,
         \A q \in Procs : JobInv(q), \A q \in Procs : q # p => ~Live(q)
  PROVE  /\ CellUp <=> Serves(p)
         /\ CellMem = IF Serves(p) THEN GoesBackTo(p) ELSE BackupValue
         /\ CellDisk = IF Storing(p) THEN BackupValue ELSE PrimaryValue
  <1>1. ASSUME NEW q \in Procs, q # p PROVE ~Serves(q) /\ ~Storing(q)
    BY <1>1 DEF Live, JobInv, Serves, Storing, NoJob, NewJob
  <1>2. CellUp <=> Serves(p)
    BY <1>1 DEF CellUp
  <1>3. CellDisk = IF Storing(p) THEN BackupValue ELSE PrimaryValue
    BY <1>1 DEF CellDisk
  <1> DEFINE c == CHOOSE q \in Procs : Serves(q)
  <1>4. Serves(p) => c = p
    BY <1>1
  <1>5. CellMem = IF CellUp THEN GoesBackTo(c) ELSE BackupValue
    BY DEF CellMem
  <1> HIDE DEF c
  <1>6. CellMem = IF Serves(p) THEN GoesBackTo(p) ELSE BackupValue
    BY <1>2, <1>4, <1>5
  <1> QED
    BY <1>2, <1>3, <1>6

(* The same after a step.                                                  *)
LEMMA CellValuesNext ==
  ASSUME NEW p \in Procs,
         \A q \in Procs : JobInv(q)', \A q \in Procs : q # p => ~Live(q)'
  PROVE  /\ CellUp' <=> Serves(p)'
         /\ CellMem' = IF Serves(p)' THEN GoesBackTo(p)' ELSE BackupValue'
         /\ CellDisk' = IF Storing(p)' THEN BackupValue' ELSE PrimaryValue'
  <1>1. ASSUME NEW q \in Procs, q # p PROVE ~Serves(q)' /\ ~Storing(q)'
    BY <1>1 DEF Live, JobInv, Serves, Storing, NoJob, NewJob
  <1>2. CellUp' <=> Serves(p)'
    BY <1>1 DEF CellUp
  <1>3. CellDisk' = IF Storing(p)' THEN BackupValue' ELSE PrimaryValue'
    BY <1>1 DEF CellDisk
  <1> DEFINE c == CHOOSE q \in Procs : Serves(q)'
  <1>4. Serves(p)' => c = p
    BY <1>1
  <1>5. CellMem' = IF CellUp' THEN (IF job'[c].task = "save" THEN job'[c].before ELSE mem'[c])
                   ELSE BackupValue'
    BY DEF CellMem, GoesBackTo
  <1> HIDE DEF c
  <1>6. CellMem' = IF Serves(p)' THEN GoesBackTo(p)' ELSE BackupValue'
    BY <1>2, <1>4, <1>5 DEF GoesBackTo
  <1> QED
    BY <1>2, <1>3, <1>6

(* The values of the cell are numbers of mutations made.                   *)
LEMMA CellStates ==
  ASSUME IInv
  PROVE  /\ PrimaryValue \in 0..MaxSaves
         /\ BackupValue \in 0..MaxSaves
         /\ \A q \in Procs : GoesBackTo(q) \in 0..MaxSaves
  <1>1. saves \in 0..MaxSaves /\ MaxSaves \in Nat
    BY BoundsAssumption DEF IInv, SafeInv, TypeOK
  <1>2. PrimaryValue \in 0..MaxSaves
    BY <1>1, Shapes
    DEF IInv, FilesInv, Numbered, PrimaryValue, Parses, SafeInv, PrimaryNeverTorn, Empty
  <1>3. BackupValue \in 0..MaxSaves
    BY <1>1, <1>2, Shapes DEF IInv, FilesInv, Numbered, BackupValue, Parses, File, Empty
  <1>4. ASSUME NEW q \in Procs PROVE GoesBackTo(q) \in 0..MaxSaves
    <2>1. mem[q] \in Nat /\ job[q].before \in Nat
      BY Shapes DEF IInv
    <2>2. mem[q] <= saves /\ job[q].before <= saves
      BY DEF IInv, JobInv
    <2> QED
      BY <1>1, <2>1, <2>2 DEF GoesBackTo
  <1> QED
    BY <1>2, <1>3, <1>4

(* A step that changes nothing that the services see is a stutter of the   *)
(* cell.                                                                   *)
LEMMA CellStutters ==
  ASSUME Unbroken, Unbroken', CellMem' = CellMem, CellDisk' = CellDisk,
         BackupValue' = BackupValue, CellUp' <=> CellUp
  PROVE  UNCHANGED Cell!served
  <1>1. CellUp' = CellUp
    BY DEF CellUp
  <1> QED
    BY <1>1 DEF Unbroken, Cell!served, Cell!cell

(* Every step of the only process is a step of the cell.                   *)
LEMMA CellStep ==
  ASSUME IInv, IInv', CleanInv, NEW p \in Procs, Step(p), Unbroken'
  PROVE  Cell!Next \/ UNCHANGED Cell!served
  <1>0. /\ temp \in [Procs -> File \cup {Absent}] /\ mem \in [Procs -> Nat]
        /\ job \in [Procs -> Job] /\ pc \in [Procs -> BeforeRename \cup {"down", "idle", "sync"}]
    BY DEF IInv, SafeInv, TypeOK
  <1>00. /\ NoJob.task = "repair"
         /\ \A k, n, m : /\ NewJob(k, n, m).task = k /\ NewJob(k, n, m).writing = n
                         /\ NewJob(k, n, m).before = m
    BY DEF NoJob, NewJob
  <1>1. /\ SafeInv /\ FilesInv /\ JobInv(p) /\ CleanJob(p) /\ Unbroken
        /\ Live(p) => SoloJob(p)
    BY StillUnbroken DEF IInv, CleanInv
  <1>2. /\ CellUp <=> Serves(p)
        /\ CellMem = IF Serves(p) THEN GoesBackTo(p) ELSE BackupValue
        /\ CellDisk = IF Storing(p) THEN BackupValue ELSE PrimaryValue
    BY StillUnbroken, CellValues DEF IInv
  <1>3. /\ CellUp' <=> Serves(p)'
        /\ CellMem' = IF Serves(p)' THEN GoesBackTo(p)' ELSE BackupValue'
        /\ CellDisk' = IF Storing(p)' THEN BackupValue' ELSE PrimaryValue'
    BY StillUnbroken, CellValuesNext DEF IInv
  <1>4. /\ \A next \in 0..MaxSaves : Cell!Mutate(next) => Cell!Next
        /\ \A next \in 0..MaxSaves : Cell!Kill(next) => Cell!Next
        /\ Cell!Start => Cell!Next
    BY DEF Cell!Next, Unbroken
  <1>5. /\ PrimaryValue \in 0..MaxSaves
        /\ BackupValue \in 0..MaxSaves
        /\ GoesBackTo(p) \in 0..MaxSaves
    BY CellStates
  <1>6. ASSUME CellUp, CellUp', NEW next \in 0..MaxSaves,
               Cell!Saved(next) \/ Cell!NotSaved(next)
        PROVE  Cell!Next
    BY <1>4, <1>6 DEF Cell!Mutate
  <1>7. ASSUME ~CellUp, Cell!Reloaded
        PROVE  Cell!Next
    BY <1>4, <1>7 DEF Cell!Start, CellUp
  <1> HIDE DEF CellMem, CellDisk, CellUp
  <1>8. /\ Serves(p) => Live(p)
        /\ Storing(p) => Serves(p)
        /\ job[p].task \in {"save", "repair"}
    BY <1>1, Shapes DEF Serves, Storing, Live, JobInv, NoJob, NewJob, Job
  <1>9. CASE OpenTemp(p) \/ FillTemp(p) \/ CopyBackup(p) \/ Mutate(p)
    <2>1. GoesBackTo(p)' = GoesBackTo(p) /\ (Serves(p)' <=> Serves(p)) /\ ~Storing(p) /\ ~Storing(p)'
      BY <1>0, <1>00, <1>1, <1>9
      DEF OpenTemp, FillTemp, CopyBackup, Mutate, Goto, GoesBackTo, Serves, Storing, JobInv
    <2>2. PrimaryValue' = PrimaryValue
      BY <1>9 DEF OpenTemp, FillTemp, CopyBackup, Mutate, SetTemp, SetBackup, files, PrimaryValue
    <2>3. BackupValue' = BackupValue
      <3>1. CASE CopyBackup(p)
        <4>1. /\ backup' = Written(job[p].source) /\ backup' # Absent
              /\ backup'.content = primary.content /\ primary # Absent
          BY <1>0, <1>1, <3>1, WrittenFacts
          DEF CopyBackup, SetBackup, Written, JobInv, SoloJob, Live, SafeInv, TypeOK, Job
        <4>2. BackupValue = PrimaryValue
          BY <1>1, <3>1 DEF CopyBackup, CleanJob, JobInv
        <4> QED
          BY <1>1, <4>1, <4>2, <2>2 DEF BackupValue, PrimaryValue, Parses, SafeInv, PrimaryNeverTorn
      <3>2. CASE OpenTemp(p) \/ FillTemp(p) \/ Mutate(p)
        BY <3>2 DEF OpenTemp, FillTemp, Mutate, SetTemp, files, BackupValue, PrimaryValue
      <3> QED
        BY <1>9, <3>1, <3>2
    <2> QED
      BY <1>1, <1>2, <1>3, <2>1, <2>2, <2>3, CellStutters
  <1>10. CASE OpenBackup(p)
    <2>1. /\ job'[p].task = job[p].task /\ job[p].task = "save" /\ job'[p].before = job[p].before
          /\ pc[p] = "copy" /\ pc'[p] = "copying"
      BY <1>0, <1>1, <1>10 DEF OpenBackup, JobInv, Job, Goto
    <2>2. PrimaryValue' = PrimaryValue /\ BackupValue' = PrimaryValue
      BY <1>10, WrittenFacts
      DEF OpenBackup, SetBackup, PrimaryValue, BackupValue, Parses, IInv, SafeInv, TypeOK
    <2>3. /\ CellUp /\ CellUp' /\ CellMem' = CellMem
          /\ CellDisk = PrimaryValue /\ CellDisk' = PrimaryValue
      BY <1>2, <1>3, <2>1, <2>2 DEF Serves, Storing, GoesBackTo
    <2>4. Cell!NotSaved(PrimaryValue)
      BY <2>2, <2>3 DEF Cell!NotSaved, Cell!Undone, Cell!Interrupted
    <2> QED
      BY <1>5, <1>6, <2>3, <2>4
  <1>11. CASE Rename(p)
    <2>1. /\ primary' = temp[p] /\ primary' # Absent /\ primary'.content = job[p].writing
          /\ backup' = backup /\ job' = job /\ mem' = mem
          /\ pc[p] = "rename" /\ pc'[p] = "sync"
      BY <1>0, <1>1, <1>11 DEF Rename, Goto, SafeInv, OwnsTemp
    <2>2. CASE job[p].task = "save"
      <3>1. BackupValue = PrimaryValue
        BY <1>1, <2>1, <2>2 DEF CleanJob
      <3>2. BackupValue' = BackupValue
        <4>1. backup = Absent \/ Parses(backup)
          BY <1>1, <2>1, <2>2 DEF CleanJob
        <4> QED
          BY <2>1, <4>1 DEF BackupValue, Parses
      <3> QED
        BY <1>1, <1>2, <1>3, <2>1, <2>2, <3>1, <3>2, CellStutters DEF Serves, Storing, GoesBackTo
    <2>3. CASE job[p].task = "repair"
      <3>1. /\ Parses(backup) /\ backup.content = job[p].writing
        BY <1>1, <2>1, <2>3 DEF CleanJob
      <3>2. /\ BackupValue' = BackupValue /\ BackupValue = job[p].writing
            /\ PrimaryValue' = job[p].writing
        BY <2>1, <3>1 DEF BackupValue, PrimaryValue, Parses
      <3>3. /\ ~CellUp /\ CellMem' = BackupValue /\ CellDisk' = BackupValue
        BY <1>2, <1>3, <2>1, <2>3, <3>2 DEF Serves, Storing
      <3>4. Cell!Reloaded
        BY <3>2, <3>3 DEF Cell!Reloaded, Cell!LoadedAs
      <3> QED
        BY <1>7, <3>3, <3>4
    <2> QED
      BY <1>8, <2>2, <2>3
  <1>12. CASE Return(p)
    <2>1. /\ UNCHANGED <<primary, backup, mem>> /\ pc[p] = "sync" /\ pc'[p] = "idle"
          /\ job'[p].task = "repair" /\ mem[p] = job[p].writing
          /\ PrimaryValue = job[p].writing
      BY <1>0, <1>00, <1>1, <1>12 DEF Return, Finish, files, SoloJob, PrimaryValue, Live
    <2>2. PrimaryValue' = PrimaryValue /\ BackupValue' = BackupValue
      BY <2>1 DEF PrimaryValue, BackupValue, Parses
    <2>3. CellUp' /\ CellMem' = job[p].writing /\ CellDisk' = job[p].writing
      BY <1>3, <2>1, <2>2 DEF Serves, Storing, GoesBackTo
    <2>4. CASE job[p].task = "save"
      <3>1. CellUp /\ CellDisk = BackupValue
        BY <1>2, <2>1, <2>4 DEF Serves, Storing
      <3>2. Cell!Saved(job[p].writing)
        BY <2>2, <2>3, <3>1 DEF Cell!Saved
      <3> QED
        BY <1>5, <1>6, <2>1, <2>3, <3>1, <3>2
    <2>5. CASE job[p].task = "repair"
      <3>1. ~CellUp /\ CellDisk = PrimaryValue
        BY <1>2, <2>1, <2>5 DEF Serves, Storing
      <3>2. Cell!Reloaded
        BY <2>1, <2>2, <2>3, <3>1 DEF Cell!Reloaded, Cell!LoadedAs
      <3> QED
        BY <1>7, <3>1, <3>2
    <2> QED
      BY <1>8, <2>4, <2>5
  <1>13. CASE WriteFails(p)
    <2>1. /\ UNCHANGED <<primary, backup>> /\ pc[p] \notin {"idle", "down"} /\ pc'[p] = "idle"
          /\ job'[p].task = "repair" /\ mem'[p] = GoesBackTo(p)
      BY <1>0, <1>00, <1>13, StillUnbroken DEF WriteFails, Finish, BeforeRename, GoesBackTo
    <2>2. PrimaryValue' = PrimaryValue /\ BackupValue' = BackupValue
      BY <2>1 DEF PrimaryValue, BackupValue, Parses
    <2>3. CellUp' /\ CellMem' = GoesBackTo(p) /\ CellDisk' = PrimaryValue
      BY <1>3, <2>1, <2>2 DEF Serves, Storing, GoesBackTo
    <2>4. CASE job[p].task = "save"
      <3>1. CellUp /\ CellMem = GoesBackTo(p)
        BY <1>2, <2>4 DEF Serves
      <3>2. Cell!NotSaved(PrimaryValue)
        BY <1>2, <2>2, <2>3, <3>1 DEF Cell!NotSaved, Cell!Undone, Cell!Interrupted
      <3> QED
        BY <1>5, <1>6, <2>3, <3>1, <3>2
    <2>5. CASE job[p].task = "repair"
      <3>1. ~CellUp /\ CellDisk = PrimaryValue
        BY <1>2, <2>1, <2>5 DEF Serves, Storing
      <3>2. GoesBackTo(p) = BackupValue
        BY <1>1, <2>1, <2>5 DEF GoesBackTo, CleanJob, SoloJob, Live, BackupValue, Parses
      <3>3. Cell!Reloaded
        BY <2>2, <2>3, <3>1, <3>2 DEF Cell!Reloaded, Cell!LoadedAs
      <3> QED
        BY <1>7, <3>1, <3>3
    <2> QED
      BY <1>8, <2>4, <2>5
  <1>14. CASE LoadNothing(p) \/ Load(p)
    <2>1. /\ pc[p] = "down" /\ job[p].task = "repair" /\ UNCHANGED <<primary, backup>>
      BY <1>00, <1>1, <1>14 DEF LoadNothing, Load, JobInv, files
    <2>2. PrimaryValue' = PrimaryValue /\ BackupValue' = BackupValue
      BY <2>1 DEF PrimaryValue, BackupValue, Parses
    <2>3. ~CellUp /\ CellMem = BackupValue /\ CellDisk = PrimaryValue
      BY <1>2, <2>1 DEF Serves, Storing
    <2>4. CASE LoadNothing(p)
      <3>1. primary = Absent
        <4>1. primary # Absent => [rank |-> 1, file |-> primary] \in Candidates
          BY <1>1 DEF Candidates, SafeInv, PrimaryNeverTorn, Parses
        <4> QED
          BY <2>4, <4>1 DEF LoadNothing
      <3>2. pc'[p] = "idle" /\ job'[p].task = "repair" /\ mem'[p] = PrimaryValue
        BY <1>0, <2>1, <2>4, <3>1 DEF LoadNothing, PrimaryValue
      <3>3. CellMem' = PrimaryValue /\ CellDisk' = PrimaryValue
        BY <1>3, <2>2, <3>2 DEF Serves, Storing, GoesBackTo
      <3>4. Cell!Reloaded
        BY <2>2, <2>3, <3>3 DEF Cell!Reloaded, Cell!LoadedAs
      <3> QED
        BY <1>7, <2>3, <3>4
    <2>5. ASSUME Load(p), pc'[p] = "idle", job'[p] = NoJob,
                 Parses(primary), mem'[p] = primary.content
          PROVE  Cell!Next
      <3>1. mem'[p] = PrimaryValue
        BY <2>5 DEF Parses, PrimaryValue
      <3>2. CellMem' = PrimaryValue /\ CellDisk' = PrimaryValue
        BY <1>00, <1>3, <2>2, <2>5, <3>1 DEF Serves, Storing, GoesBackTo
      <3>3. Cell!Reloaded
        BY <2>2, <2>3, <3>2 DEF Cell!Reloaded, Cell!LoadedAs
      <3> QED
        BY <1>7, <2>3, <3>3
    <2>6. ASSUME Load(p), pc'[p] = "open", job'[p].task = "repair"
          PROVE  UNCHANGED Cell!served
      <3>1. ~CellUp' /\ CellMem' = BackupValue /\ CellDisk' = PrimaryValue
        BY <1>3, <2>2, <2>6 DEF Serves, Storing
      <3> QED
        BY <1>1, <2>2, <2>3, <3>1, CellStutters
    <2> QED
      BY <1>0, <1>00, <1>14, <2>4, <2>5, <2>6, LoadsOneOfTwo
  <1>15. CASE Kill(p)
    <2>1. /\ UNCHANGED <<primary, backup>> /\ pc[p] # "down" /\ pc'[p] = "down"
          /\ job'[p].task = "repair"
      BY <1>0, <1>00, <1>15 DEF Kill, Finish
    <2>2. PrimaryValue' = PrimaryValue /\ BackupValue' = BackupValue
      BY <2>1 DEF PrimaryValue, BackupValue, Parses
    <2>3. ~CellUp' /\ CellMem' = BackupValue /\ CellDisk' = PrimaryValue
      BY <1>3, <2>1, <2>2 DEF Serves, Storing
    <2>4. CASE Serves(p)
      <3>1. CellUp' = FALSE
        BY <2>3 DEF CellUp
      <3>2. UNCHANGED <<CellDisk, BackupValue>> \/ Cell!Interrupted(PrimaryValue)
        BY <1>2, <2>2, <2>3 DEF Cell!Interrupted
      <3>3. Cell!Kill(PrimaryValue)
        BY <1>2, <1>5, <2>3, <2>4, <3>1, <3>2 DEF Cell!Kill
      <3> QED
        BY <1>4, <1>5, <3>3
    <2>5. CASE ~Serves(p)
      BY <1>1, <1>2, <1>8, <2>2, <2>3, <2>5, CellStutters
    <2> QED
      BY <2>4, <2>5
  <1> QED
    BY <1>9, <1>10, <1>11, <1>12, <1>13, <1>14, <1>15 DEF Step

(* state.ts is the cell that the services build on: for any number of      *)
(* mutations, failing calls, kills and restarts, until a temporary file is *)
(* left behind or two processes overlap.                                   *)
THEOREM StateStoreImplementsCell == Spec => ImplementsCell
  <1> DEFINE Inv == IInv /\ CleanInv
  <1>1. Init => Inv /\ Cell!Init
    <2> SUFFICES ASSUME Init PROVE Inv /\ Cell!Init
      OBVIOUS
    <2>1. IInv
      BY IInvInit
    <2>2. CleanInv
      BY DEF Init, CleanInv, CleanJob
    <2>3. \A p \in Procs : ~Serves(p) /\ ~Storing(p)
      BY DEF Init, Serves, Storing, NoJob, NewJob
    <2>4. PrimaryValue = Empty /\ BackupValue = Empty
      BY DEF Init, PrimaryValue, BackupValue
    <2>5. CellUp = FALSE /\ CellMem = Empty /\ CellDisk = Empty
      BY <2>3, <2>4 DEF CellUp, CellMem, CellDisk
    <2>6. (overlapped \/ strays # {}) = FALSE
      BY DEF Init
    <2> QED
      BY <2>1, <2>2, <2>4, <2>5, <2>6 DEF Cell!Init, Cell!StartsWith
  <1>2. Inv /\ [Next]_vars => Inv' /\ [Cell!Next]_(Cell!served)
    <2> SUFFICES ASSUME Inv, [Next]_vars PROVE Inv' /\ [Cell!Next]_(Cell!served)
      OBVIOUS
    <2>1. IInv'
      BY IInvStep
    <2>2. CASE ~Unbroken'
      BY <2>1, <2>2 DEF Cell!Next, Unbroken, CleanInv
    <2>3. ASSUME Unbroken', NEW p \in Procs, Step(p)
          PROVE  CleanInv' /\ (Cell!Next \/ UNCHANGED Cell!served)
      BY <2>1, <2>3, CleanStep, CellStep
    <2>4. CASE Tick \/ UNCHANGED vars
      <3>1. UNCHANGED <<files, local, ledger>>
        BY <2>4 DEF Tick, vars
      <3>2. CleanInv'
        BY <3>1 DEF CleanInv, Unbroken, CleanJob, BackupValue, PrimaryValue, Parses,
                    files, local, ledger
      <3>3. UNCHANGED Cell!served
        BY <3>1 DEF Cell!served, Cell!cell, CellMem, CellDisk, CellUp, Serves, Storing,
                    GoesBackTo, BackupValue, PrimaryValue, Parses, files, local, ledger
      <3> QED
        BY <2>1, <3>2, <3>3
    <2> QED
      BY <2>1, <2>2, <2>3, <2>4 DEF Next
  <1> QED
    BY <1>1, <1>2, PTL DEF Spec, ImplementsCell, Cell!Spec
=============================================================================
