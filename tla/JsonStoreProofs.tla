-------------------------- MODULE JsonStoreProofs --------------------------
(***************************************************************************)
(* What MCJsonStore.cfg checks on three saves, for any number of saves,    *)
(* failures, crashes and power losses.                                     *)
(***************************************************************************)
EXTENDS JsonStore, TLAPS

Active == BeforeReplace \cup {"syncDir", "resync"}

(* The bytes a name may come back with are those of attempted saves, and   *)
(* what a process reads now is one of the possible outcomes.               *)
DiskInv ==
    /\ \A n \in Name : file[n] \in durable[n]
    /\ \A n \in Name : \A c \in durable[n] : c \in Nat => c <= saves
    /\ "primary" \notin dirty

(* Before its rename the temporary file holds the snapshot, stably; after  *)
(* it, the primary does.                                                   *)
ProtocolInv ==
    /\ phase \in {"flushTemp", "rename"} => file["temp"] = writing
    /\ phase = "rename" => "temp" \notin dirty
    /\ phase \in {"syncDir", "resync"} => file["primary"] = writing
    /\ phase = "resync" => task = "save"
    /\ phase \in Active => writing <= saves
    /\ acked <= saves
    /\ visible <= saves

(* No outcome of a power loss on the primary name predates the confirmed   *)
(* snapshot, and no write in progress would replace it by an older one.    *)
AckedInv ==
    /\ \A c \in durable["primary"] :
         /\ c # Torn
         /\ c = Absent => acked = 0
         /\ c \in Nat => acked <= c
    /\ phase \in Active => acked <= writing

(* The served catalog lies between the confirmed snapshot and the file.    *)
VisibleInv ==
    /\ (phase # "down" /\ acked > 0) =>
         acked <= visible /\ visible <= file["primary"]
    /\ (phase \in Active /\ (task = "save" \/ acked > 0)) => visible <= writing

(* The backup holds at least snapshot n, or n is the empty registry.       *)
BackedUp(n) == n = Empty \/ (file["backup"] \in Nat /\ n <= file["backup"])

(* A save writes the newest attempted snapshot, and only a save backs up.  *)
(* While no call failed, no temporary file is left at rest; while the      *)
(* medium is sound too, the backup covers the confirmed snapshot before    *)
(* the newest one at rest, and the newest one once a save has copied it.   *)
(* After one damage to the primary, the backup alone must cover it, and a  *)
(* repair writes what the backup covered.                                  *)
BackupInv ==
    /\ prevAcked <= acked
    /\ (phase \in Active /\ task = "save") => writing = saves
    /\ phase \in {"copy", "copying", "flushBackup"} => task = "save"
    /\ ~disturbed =>
         /\ phase \notin {"resync", "down"}
         /\ phase \notin {"writing", "flushTemp", "rename"} => file["temp"] = Absent
    /\ (~disturbed /\ rots = 0) =>
         /\ (phase = "idle" \/ task = "repair") => BackedUp(prevAcked)
         /\ (task = "save" /\ phase \in {"flushBackup", "write", "writing",
                                         "flushTemp", "rename", "syncDir"}) =>
              BackedUp(acked)
    /\ (~disturbed /\ rots <= 1) =>
         /\ phase = "idle" =>
              /\ file["primary"] = Absent => prevAcked = Empty
              /\ file["primary"] = Torn => BackedUp(prevAcked)
              /\ file["primary"] \in Nat => prevAcked <= file["primary"]
         /\ (phase \in Active /\ task = "repair") => prevAcked <= writing

IInv ==
    /\ TypeOK
    /\ DiskInv
    /\ ProtocolInv
    /\ rots = 0 => AckedInv /\ VisibleInv
    /\ BackupInv

(* Every content the code or the environment puts under a name.            *)
LEMMA Contents == /\ Absent \in Content
                  /\ Torn \in Content
                  /\ Nat \subseteq Content
                  /\ \A c \in Content : c \in Nat \/ c = Absent \/ c = Torn
  BY DEF Content

(* A load reads the primary when it parses, and always yields a snapshot   *)
(* number: that of one of the three files, or the empty registry.          *)
LEMMA RecoveredValue ==
    ASSUME NEW f \in [Name -> Content]
    PROVE  /\ Recovered(f) \in Nat
           /\ f["primary"] \in Nat <=> Winner(f) = "primary"
           /\ f["primary"] \in Nat => Recovered(f) = f["primary"]
           /\ Recovered(f) = 0 \/ \E n \in Name : Recovered(f) = f[n]
  BY SentinelsAssumption DEF Name, Content, Recovered, Winner, Readable, Empty

(* Removing the temporary file leaves the primary and the types alone.     *)
LEMMA UnlinkTempFacts ==
    ASSUME TypeOK, UnlinkTemp
    PROVE  /\ file' \in [Name -> Content]
           /\ dirty' \in SUBSET Name
           /\ durable' \in [Name -> SUBSET Content]
           /\ file'["primary"] = file["primary"]
           /\ durable'["primary"] = durable["primary"]
<1>1. CASE UNCHANGED disk
  BY <1>1 DEF TypeOK, disk
<1>2. CASE /\ file' = [file EXCEPT !["temp"] = Absent]
           /\ dirty' = dirty \ {"temp"}
           /\ durable' = [durable EXCEPT !["temp"] = @ \cup {Absent}]
  <2>1. durable["temp"] \cup {Absent} \in SUBSET Content
    BY Contents DEF TypeOK, Name
  <2>2. QED
    BY <1>2, <2>1, Contents DEF TypeOK, Name
<1>3. QED
  BY <1>1, <1>2 DEF UnlinkTemp

(* A load leaves the primary alone and rewrites it only when it does not   *)
(* parse.                                                                  *)
LEMMA LoadFacts ==
    ASSUME TypeOK, LoadEffect
    PROVE  /\ task' = "repair"
           /\ writing' = Recovered(file)
           /\ Recovered(file) \in Nat
           /\ phase' = "idle" \/ (phase' = "write" /\ file["primary"] \notin Nat)
           /\ file["primary"] \in Nat => Recovered(file) = file["primary"]
           /\ file' \in [Name -> Content]
           /\ dirty' \in SUBSET Name
           /\ durable' \in [Name -> SUBSET Content]
           /\ file'["primary"] = file["primary"]
           /\ durable'["primary"] = durable["primary"]
<1>1. /\ Recovered(file) \in Nat
      /\ file["primary"] \in Nat <=> Winner(file) = "primary"
      /\ file["primary"] \in Nat => Recovered(file) = file["primary"]
  BY RecoveredValue DEF TypeOK
<1>2. UNCHANGED disk \/ UnlinkTemp
  BY DEF LoadEffect
<1>3. /\ file' \in [Name -> Content]
      /\ dirty' \in SUBSET Name
      /\ durable' \in [Name -> SUBSET Content]
      /\ file'["primary"] = file["primary"]
      /\ durable'["primary"] = durable["primary"]
  BY <1>2, UnlinkTempFacts DEF TypeOK, disk
<1>4. phase' = "idle" \/ (phase' = "write" /\ file["primary"] \notin Nat)
  <2>1. CASE Winner(file) = "primary"
    BY <2>1 DEF LoadEffect
  <2>2. CASE Winner(file) # "primary"
    <3>1. file["primary"] \notin Nat
      BY <1>1, <2>2
    <3>2. phase' = "idle" \/ phase' = "write"
      BY DEF LoadEffect
    <3>3. QED
      BY <3>1, <3>2
  <2>3. QED
    BY <2>1, <2>2
<1>5. QED
  BY <1>1, <1>3, <1>4 DEF LoadEffect

-----------------------------------------------------------------------------
(* Types, by one step per action.                                          *)

(* Every reachable state of the file protocol has the types of TypeOK.     *)
THEOREM TypeCorrect == Spec => []TypeOK
<1>1. Init => TypeOK
  <2> SUFFICES ASSUME Init PROVE TypeOK
    OBVIOUS
  <2>1. file \in [Name -> Content] /\ durable \in [Name -> SUBSET Content]
    BY Contents DEF Init
  <2>2. QED
    BY <2>1 DEF Init, TypeOK, Phase, Empty
<1>2. TypeOK /\ [Next]_vars => TypeOK'
  <2> SUFFICES ASSUME TypeOK, [Next]_vars PROVE TypeOK'
    OBVIOUS
  <2> USE Contents DEF TypeOK, Name, Phase, BeforeReplace, disk, caller, budget
  <2>1. CASE BeginSave
    BY <2>1 DEF BeginSave
  <2>2. CASE OpenBackup
    BY <2>2 DEF OpenBackup, Put, Goto
  <2>3. CASE CopyBackup
    BY <2>3 DEF CopyBackup, Put, Goto
  <2>4. CASE FlushBackup
    BY <2>4 DEF FlushBackup, FsyncFile, Goto
  <2>5. CASE OpenTemp
    BY <2>5 DEF OpenTemp, Put, Goto
  <2>6. CASE WriteTemp
    BY <2>6 DEF WriteTemp, Put, Goto
  <2>7. CASE FlushTemp
    BY <2>7 DEF FlushTemp, FsyncFile, Goto
  <2>8. CASE Rename
    BY <2>8 DEF Rename, Goto
  <2>9. CASE SyncDir
    BY <2>9 DEF SyncDir, FsyncDirectory, Confirm
  <2>10. CASE WriteFails
    BY <2>10, UnlinkTempFacts DEF WriteFails
  <2>11. CASE SyncDirFails
    BY <2>11 DEF SyncDirFails
  <2>12. CASE Resync
    BY <2>12 DEF Resync, FsyncDirectory, Confirm
  <2>13. CASE ResyncFails
    BY <2>13 DEF ResyncFails, Goto
  <2>14. CASE Restart
    BY <2>14, LoadFacts DEF Restart
  <2>15. CASE AuditRead
    BY <2>15, LoadFacts DEF AuditRead
  <2>16. CASE Crash
    BY <2>16 DEF Crash
  <2>17. CASE PowerLoss
    BY <2>17 DEF PowerLoss, AfterPowerLoss, Files
  <2>18. CASE Rot
    BY <2>18 DEF Rot
  <2>19. CASE UNCHANGED vars
    BY <2>19 DEF vars
  <2>20. QED
    BY <2>1, <2>2, <2>3, <2>4, <2>5, <2>6, <2>7, <2>8, <2>9, <2>10, <2>11, <2>12, <2>13, <2>14, <2>15, <2>16, <2>17, <2>18, <2>19 DEF Next
<1>3. QED
  BY <1>1, <1>2, PTL DEF Spec

-----------------------------------------------------------------------------
(* The inductive invariant, part by part.                                  *)

(* Every call keeps the disk accounted for.                                *)
LEMMA DiskStep ==
    ASSUME TypeOK, DiskInv, ProtocolInv, [Next]_vars
    PROVE  DiskInv'
  <2> USE SentinelsAssumption
      DEF TypeOK, Name, Content, Phase, BeforeReplace, Active, Empty,
          disk, caller, budget,
          DiskInv, ProtocolInv
  <2>1. CASE BeginSave
    BY <2>1 DEF BeginSave
  <2>2. CASE OpenBackup
    BY <2>2 DEF OpenBackup, Put, Goto
  <2>3. CASE CopyBackup
    BY <2>3 DEF CopyBackup, Put, Goto
  <2>4. CASE FlushBackup
    BY <2>4 DEF FlushBackup, FsyncFile, Goto
  <2>5. CASE OpenTemp
    BY <2>5 DEF OpenTemp, Put, Goto
  <2>6. CASE WriteTemp
    BY <2>6 DEF WriteTemp, Put, Goto
  <2>7. CASE FlushTemp
    BY <2>7 DEF FlushTemp, FsyncFile, Goto
  <2>8. CASE Rename
    BY <2>8 DEF Rename, Goto
  <2>9. CASE SyncDir
    BY <2>9 DEF SyncDir, FsyncDirectory, Confirm
  <2>10. CASE WriteFails
    BY <2>10 DEF WriteFails, UnlinkTemp
  <2>11. CASE SyncDirFails
    BY <2>11 DEF SyncDirFails
  <2>12. CASE Resync
    BY <2>12 DEF Resync, FsyncDirectory, Confirm
  <2>13. CASE ResyncFails
    BY <2>13 DEF ResyncFails, Goto
  <2>14. CASE Restart
    BY <2>14 DEF Restart, LoadEffect, UnlinkTemp
  <2>15. CASE AuditRead
    BY <2>15 DEF AuditRead, LoadEffect, UnlinkTemp
  <2>16. CASE Crash
    BY <2>16 DEF Crash
  <2>17. CASE PowerLoss
    BY <2>17 DEF PowerLoss, AfterPowerLoss, Files
  <2>18. CASE Rot
    BY <2>18 DEF Rot
  <2>19. CASE UNCHANGED vars
    BY <2>19 DEF vars
  <2>20. QED
    BY <2>1, <2>2, <2>3, <2>4, <2>5, <2>6, <2>7, <2>8, <2>9, <2>10, <2>11, <2>12, <2>13, <2>14, <2>15, <2>16, <2>17, <2>18, <2>19 DEF Next

(* The calls come in an order that makes the snapshot stable before it is  *)
(* renamed over the primary.                                               *)
LEMMA ProtocolStep ==
    ASSUME TypeOK, DiskInv, ProtocolInv, [Next]_vars
    PROVE  ProtocolInv'
  <2> USE SentinelsAssumption
      DEF TypeOK, Name, Content, Phase, BeforeReplace, Active, Empty,
          disk, caller, budget, DiskInv, ProtocolInv
  <2>1. CASE BeginSave
    BY <2>1 DEF BeginSave
  <2>2. CASE OpenBackup
    BY <2>2 DEF OpenBackup, Put, Goto
  <2>3. CASE CopyBackup
    BY <2>3 DEF CopyBackup, Put, Goto
  <2>4. CASE FlushBackup
    BY <2>4 DEF FlushBackup, FsyncFile, Goto
  <2>5. CASE OpenTemp
    BY <2>5 DEF OpenTemp, Put, Goto
  <2>6. CASE WriteTemp
    <3>1. file'["temp"] = writing /\ file'["primary"] = file["primary"]
      BY <2>6 DEF WriteTemp, Put
    <3>2. /\ phase' = "flushTemp" /\ writing' = writing /\ acked' = acked
          /\ visible' = visible /\ saves' = saves /\ phase = "writing"
      BY <2>6 DEF WriteTemp, Goto
    <3>3. QED
      BY <3>1, <3>2
  <2>7. CASE FlushTemp
    BY <2>7 DEF FlushTemp, FsyncFile, Goto
  <2>8. CASE Rename
    BY <2>8 DEF Rename, Goto
  <2>9. CASE SyncDir
    BY <2>9 DEF SyncDir, FsyncDirectory, Confirm
  <2>10. CASE WriteFails
    BY <2>10 DEF WriteFails, UnlinkTemp
  <2>11. CASE SyncDirFails
    BY <2>11 DEF SyncDirFails
  <2>12. CASE Resync
    BY <2>12 DEF Resync, FsyncDirectory, Confirm
  <2>13. CASE ResyncFails
    BY <2>13 DEF ResyncFails, Goto
  <2>14. CASE Restart
    <3>1. /\ Recovered(file) = 0 \/ \E n \in Name : Recovered(file) = file[n]
          /\ file["primary"] \in Nat <=> Winner(file) = "primary"
          /\ file["primary"] \in Nat => Recovered(file) = file["primary"]
          /\ Recovered(file) \in Nat
      BY RecoveredValue
    <3>2. QED
      BY <2>14, <3>1 DEF Restart, LoadEffect, UnlinkTemp
  <2>15. CASE AuditRead
    <3>1. /\ Recovered(file) = 0 \/ \E n \in Name : Recovered(file) = file[n]
          /\ file["primary"] \in Nat <=> Winner(file) = "primary"
          /\ Recovered(file) \in Nat
      BY RecoveredValue
    <3>2. QED
      BY <2>15, <3>1 DEF AuditRead, LoadEffect, UnlinkTemp
  <2>16. CASE Crash
    BY <2>16 DEF Crash
  <2>17. CASE PowerLoss
    BY <2>17 DEF PowerLoss, AfterPowerLoss, Files
  <2>18. CASE Rot
    BY <2>18 DEF Rot
  <2>19. CASE UNCHANGED vars
    BY <2>19 DEF vars
  <2>20. QED
    BY <2>1, <2>2, <2>3, <2>4, <2>5, <2>6, <2>7, <2>8, <2>9, <2>10, <2>11, <2>12, <2>13, <2>14, <2>15, <2>16, <2>17, <2>18, <2>19 DEF Next

(* As long as the medium is sound, the confirmed snapshot stays covered.   *)
LEMMA AckedStep ==
    ASSUME TypeOK, DiskInv, ProtocolInv, AckedInv, rots' = 0, [Next]_vars
    PROVE  AckedInv'
  <2> USE SentinelsAssumption
      DEF TypeOK, Name, Content, Phase, BeforeReplace, Active, Empty,
          disk, caller, budget,
          DiskInv, ProtocolInv, AckedInv
  <2>1. CASE BeginSave
    BY <2>1 DEF BeginSave
  <2>2. CASE OpenBackup
    BY <2>2 DEF OpenBackup, Put, Goto
  <2>3. CASE CopyBackup
    BY <2>3 DEF CopyBackup, Put, Goto
  <2>4. CASE FlushBackup
    BY <2>4 DEF FlushBackup, FsyncFile, Goto
  <2>5. CASE OpenTemp
    BY <2>5 DEF OpenTemp, Put, Goto
  <2>6. CASE WriteTemp
    BY <2>6 DEF WriteTemp, Put, Goto
  <2>7. CASE FlushTemp
    BY <2>7 DEF FlushTemp, FsyncFile, Goto
  <2>8. CASE Rename
    BY <2>8 DEF Rename, Goto
  <2>9. CASE SyncDir
    BY <2>9 DEF SyncDir, FsyncDirectory, Confirm
  <2>10. CASE WriteFails
    BY <2>10, UnlinkTempFacts DEF WriteFails
  <2>11. CASE SyncDirFails
    BY <2>11 DEF SyncDirFails
  <2>12. CASE Resync
    BY <2>12 DEF Resync, FsyncDirectory, Confirm
  <2>13. CASE ResyncFails
    BY <2>13 DEF ResyncFails, Goto
  <2>14. CASE Restart
    <3>1. file["primary"] \notin Nat => acked = 0
      BY Contents
    <3>2. /\ durable'["primary"] = durable["primary"]
          /\ writing' \in Nat
          /\ phase' = "idle" \/ (phase' = "write" /\ file["primary"] \notin Nat)
          /\ acked' = acked
      BY <2>14, LoadFacts DEF Restart
    <3>3. phase' \in Active => acked' <= writing'
      BY <3>1, <3>2
    <3>4. \A c \in durable'["primary"] :
            /\ c # Torn
            /\ c = Absent => acked' = 0
            /\ c \in Nat => acked' <= c
      BY <3>2
    <3>5. QED
      BY <3>3, <3>4
  <2>15. CASE AuditRead
    <3>1. file["primary"] \notin Nat => acked = 0
      BY Contents
    <3>2. /\ durable'["primary"] = durable["primary"]
          /\ writing' \in Nat
          /\ phase' = "idle" \/ (phase' = "write" /\ file["primary"] \notin Nat)
          /\ acked' = acked
      BY <2>15, LoadFacts DEF AuditRead
    <3>3. phase' \in Active => acked' <= writing'
      BY <3>1, <3>2
    <3>4. \A c \in durable'["primary"] :
            /\ c # Torn
            /\ c = Absent => acked' = 0
            /\ c \in Nat => acked' <= c
      BY <3>2
    <3>5. QED
      BY <3>3, <3>4
  <2>16. CASE Crash
    BY <2>16 DEF Crash
  <2>17. CASE PowerLoss
    BY <2>17 DEF PowerLoss, AfterPowerLoss, Files
  <2>18. CASE Rot
    BY <2>18 DEF Rot
  <2>19. CASE UNCHANGED vars
    BY <2>19 DEF vars
  <2>20. QED
    BY <2>1, <2>2, <2>3, <2>4, <2>5, <2>6, <2>7, <2>8, <2>9, <2>10, <2>11, <2>12, <2>13, <2>14, <2>15, <2>16, <2>17, <2>18, <2>19 DEF Next

(* And the served catalog stays between the two.                           *)
LEMMA VisibleStep ==
    ASSUME TypeOK, DiskInv, ProtocolInv, AckedInv, VisibleInv, rots' = 0, [Next]_vars
    PROVE  VisibleInv'
  <2> USE SentinelsAssumption
      DEF TypeOK, Name, Content, Phase, BeforeReplace, Active, Empty,
          disk, caller, budget,
          DiskInv, ProtocolInv, AckedInv, VisibleInv
  <2>1. CASE BeginSave
    BY <2>1 DEF BeginSave
  <2>2. CASE OpenBackup
    BY <2>2 DEF OpenBackup, Put, Goto
  <2>3. CASE CopyBackup
    BY <2>3 DEF CopyBackup, Put, Goto
  <2>4. CASE FlushBackup
    BY <2>4 DEF FlushBackup, FsyncFile, Goto
  <2>5. CASE OpenTemp
    BY <2>5 DEF OpenTemp, Put, Goto
  <2>6. CASE WriteTemp
    BY <2>6 DEF WriteTemp, Put, Goto
  <2>7. CASE FlushTemp
    BY <2>7 DEF FlushTemp, FsyncFile, Goto
  <2>8. CASE Rename
    BY <2>8 DEF Rename, Goto
  <2>9. CASE SyncDir
    BY <2>9 DEF SyncDir, FsyncDirectory, Confirm
  <2>10. CASE WriteFails
    BY <2>10, UnlinkTempFacts DEF WriteFails
  <2>11. CASE SyncDirFails
    BY <2>11 DEF SyncDirFails
  <2>12. CASE Resync
    BY <2>12 DEF Resync, FsyncDirectory, Confirm
  <2>13. CASE ResyncFails
    BY <2>13 DEF ResyncFails, Goto
  <2>14. CASE Restart
    <3>1. file["primary"] \notin Nat => acked = 0
      BY Contents
    <3>2. acked > 0 => phase' = "idle" /\ Recovered(file) = file["primary"]
      BY <2>14, <3>1, LoadFacts DEF Restart
    <3>3. Recovered(file) \in Nat /\ file'["primary"] = file["primary"] /\ task' = "repair"
      BY <2>14, LoadFacts DEF Restart
    <3>4. QED
      BY <2>14, <3>1, <3>2, <3>3 DEF Restart
  <2>15. CASE AuditRead
    <3>1. file["primary"] \notin Nat => acked = 0
      BY Contents
    <3>2. acked > 0 => phase' = "idle" /\ Recovered(file) = file["primary"]
      BY <2>15, <3>1, LoadFacts DEF AuditRead
    <3>3. Recovered(file) \in Nat /\ file'["primary"] = file["primary"] /\ task' = "repair"
      BY <2>15, LoadFacts DEF AuditRead
    <3>4. QED
      BY <2>15, <3>1, <3>2, <3>3 DEF AuditRead
  <2>16. CASE Crash
    BY <2>16 DEF Crash
  <2>17. CASE PowerLoss
    BY <2>17 DEF PowerLoss, AfterPowerLoss, Files
  <2>18. CASE Rot
    BY <2>18 DEF Rot
  <2>19. CASE UNCHANGED vars
    BY <2>19 DEF vars
  <2>20. QED
    BY <2>1, <2>2, <2>3, <2>4, <2>5, <2>6, <2>7, <2>8, <2>9, <2>10, <2>11, <2>12, <2>13, <2>14, <2>15, <2>16, <2>17, <2>18, <2>19 DEF Next

(* The backup keeps up with the saves, and recovery with the backup.       *)
LEMMA BackupStep ==
    ASSUME TypeOK, DiskInv, ProtocolInv, rots = 0 => AckedInv, BackupInv, [Next]_vars
    PROVE  BackupInv'
  <2> USE SentinelsAssumption
      DEF TypeOK, Name, Content, Phase, BeforeReplace, Active, Empty,
          disk, caller, budget,
          DiskInv, ProtocolInv, AckedInv, BackupInv, BackedUp
  <2>1. CASE BeginSave
    BY <2>1 DEF BeginSave
  <2>2. CASE OpenBackup
    BY <2>2 DEF OpenBackup, Put, Goto
  <2>3. CASE CopyBackup
    BY <2>3 DEF CopyBackup, Put, Goto
  <2>4. CASE FlushBackup
    BY <2>4 DEF FlushBackup, FsyncFile, Goto
  <2>5. CASE OpenTemp
    BY <2>5 DEF OpenTemp, Put, Goto
  <2>6. CASE WriteTemp
    BY <2>6 DEF WriteTemp, Put, Goto
  <2>7. CASE FlushTemp
    BY <2>7 DEF FlushTemp, FsyncFile, Goto
  <2>8. CASE Rename
    BY <2>8 DEF Rename, Goto
  <2>9. CASE SyncDir
    BY <2>9 DEF SyncDir, FsyncDirectory, Confirm
  <2>10. CASE WriteFails
    BY <2>10 DEF WriteFails, UnlinkTemp
  <2>11. CASE SyncDirFails
    BY <2>11 DEF SyncDirFails
  <2>12. CASE Resync
    BY <2>12 DEF Resync, FsyncDirectory, Confirm
  <2>13. CASE ResyncFails
    BY <2>13 DEF ResyncFails, Goto
  <2>14. CASE Restart
    BY <2>14, LoadFacts DEF Restart
  <2>15. CASE AuditRead
    <3>1. /\ task' = "repair" /\ writing' = Recovered(file) /\ Recovered(file) \in Nat
          /\ phase' = "idle" \/ (phase' = "write" /\ file["primary"] \notin Nat)
          /\ file'["primary"] = file["primary"]
          /\ UNCHANGED <<caller, budget, disturbed>>
          /\ phase = "idle"
      BY <2>15, LoadFacts DEF AuditRead
    <3>2. file'["backup"] = file["backup"] /\ (file["temp"] = Absent => file'["temp"] = Absent)
      BY <2>15 DEF AuditRead, LoadEffect, UnlinkTemp
    <3>3. (~disturbed /\ rots <= 1) => prevAcked <= Recovered(file)
      BY <3>1 DEF Recovered, Winner, Readable
    <3>4. QED
      BY <3>1, <3>2, <3>3
  <2>16. CASE Crash
    BY <2>16 DEF Crash
  <2>17. CASE PowerLoss
    BY <2>17 DEF PowerLoss
  <2>18. CASE Rot
    BY <2>18 DEF Rot
  <2>19. CASE UNCHANGED vars
    BY <2>19 DEF vars
  <2>20. QED
    BY <2>1, <2>2, <2>3, <2>4, <2>5, <2>6, <2>7, <2>8, <2>9, <2>10, <2>11, <2>12, <2>13, <2>14, <2>15, <2>16, <2>17, <2>18, <2>19 DEF Next

(* A medium that is sound after a step was sound before it.                *)
LEMMA SoundBefore ==
    ASSUME TypeOK, [Next]_vars, rots' = 0
    PROVE  rots = 0
  <2> USE DEF TypeOK, budget
  <2>1. CASE BeginSave
    BY <2>1 DEF BeginSave
  <2>2. CASE OpenBackup
    BY <2>2 DEF OpenBackup, Goto
  <2>3. CASE CopyBackup
    BY <2>3 DEF CopyBackup, Goto
  <2>4. CASE FlushBackup
    BY <2>4 DEF FlushBackup, Goto
  <2>5. CASE OpenTemp
    BY <2>5 DEF OpenTemp, Goto
  <2>6. CASE WriteTemp
    BY <2>6 DEF WriteTemp, Goto
  <2>7. CASE FlushTemp
    BY <2>7 DEF FlushTemp, Goto
  <2>8. CASE Rename
    BY <2>8 DEF Rename, Goto
  <2>9. CASE SyncDir
    BY <2>9 DEF SyncDir
  <2>10. CASE WriteFails
    BY <2>10 DEF WriteFails
  <2>11. CASE SyncDirFails
    BY <2>11 DEF SyncDirFails
  <2>12. CASE Resync
    BY <2>12 DEF Resync
  <2>13. CASE ResyncFails
    BY <2>13 DEF ResyncFails, Goto
  <2>14. CASE Restart
    BY <2>14 DEF Restart
  <2>15. CASE AuditRead
    BY <2>15 DEF AuditRead
  <2>16. CASE Crash
    BY <2>16 DEF Crash
  <2>17. CASE PowerLoss
    BY <2>17 DEF PowerLoss
  <2>18. CASE Rot
    BY <2>18 DEF Rot
  <2>19. CASE UNCHANGED vars
    BY <2>19 DEF vars
  <2>20. QED
    BY <2>1, <2>2, <2>3, <2>4, <2>5, <2>6, <2>7, <2>8, <2>9, <2>10, <2>11, <2>12, <2>13, <2>14, <2>15, <2>16, <2>17, <2>18, <2>19 DEF Next

(* The inductive invariant holds in every reachable state.                 *)
LEMMA InductiveInvariant == Spec => []IInv
<1>1. Init => IInv
  <2> SUFFICES ASSUME Init PROVE IInv
    OBVIOUS
  <2>1. TypeOK
    BY Contents DEF Init, TypeOK, Phase, Empty
  <2>2. QED
    BY <2>1, SentinelsAssumption
    DEF Init, IInv, DiskInv, ProtocolInv, AckedInv, VisibleInv, BackupInv,
        BackedUp, Active, BeforeReplace, Name, Empty
<1>2. IInv /\ [Next]_vars /\ TypeOK' => IInv'
  <2> SUFFICES ASSUME IInv, [Next]_vars, TypeOK' PROVE IInv'
    OBVIOUS
  <2>1. DiskInv' /\ ProtocolInv' /\ BackupInv'
    BY DiskStep, ProtocolStep, BackupStep DEF IInv
  <2>2. ASSUME rots' = 0 PROVE AckedInv' /\ VisibleInv'
    <3>1. rots = 0
      BY <2>2, SoundBefore DEF IInv
    <3>2. QED
      BY <2>2, <3>1, AckedStep, VisibleStep DEF IInv
  <2>3. QED
    BY <2>1, <2>2 DEF IInv
<1>3. QED
  BY <1>1, <1>2, TypeCorrect, PTL DEF Spec

-----------------------------------------------------------------------------
(* The promises.                                                           *)

(* No failure and no power loss leaves a primary that does not parse.      *)
THEOREM PrimaryIsAtomic == Spec => []PrimaryNeverTorn
<1>1. IInv => PrimaryNeverTorn
  BY DEF IInv, PrimaryNeverTorn, Undamaged, AckedInv, DiskInv, Name
<1>2. QED
  BY <1>1, InductiveInvariant, PTL

(* A confirmed save is never lost, whatever fails afterwards.              *)
THEOREM ConfirmedSavesSurvive == Spec => []AckedSurvives
<1>1. ASSUME IInv, rots = 0, NEW f \in [Name -> Content],
             f["primary"] \in durable["primary"]
      PROVE  acked <= Recovered(f)
  <2>1. /\ f["primary"] # Torn
        /\ f["primary"] = Absent => acked = 0
        /\ f["primary"] \in Nat => acked <= f["primary"]
    BY <1>1 DEF IInv, AckedInv
  <2>2. /\ Recovered(f) \in Nat
        /\ f["primary"] \in Nat => Recovered(f) = f["primary"]
    BY <1>1, RecoveredValue
  <2>3. f["primary"] \in Nat \/ f["primary"] = Absent
    BY <1>1, <2>1, Contents DEF Name
  <2>4. QED
    BY <2>1, <2>2, <2>3
<1>2. IInv => AckedSurvives
  <2> SUFFICES ASSUME IInv, rots = 0, NEW f \in AfterPowerLoss \cup {file}
               PROVE  acked <= Recovered(f)
    BY DEF AckedSurvives, Undamaged
  <2>1. f \in [Name -> Content] /\ f["primary"] \in durable["primary"]
    <3>1. CASE f = file
      BY <3>1 DEF IInv, TypeOK, DiskInv, Name
    <3>2. CASE f \in AfterPowerLoss
      <4>1. PICK p \in durable["primary"], t \in durable["temp"],
                 b \in durable["backup"] : f = Files(p, t, b)
        BY <3>2 DEF AfterPowerLoss
      <4>2. p \in Content /\ t \in Content /\ b \in Content
        BY <4>1 DEF IInv, TypeOK, Name
      <4>3. QED
        BY <4>1, <4>2 DEF Files, Name
    <3>3. QED
      BY <3>1, <3>2
  <2>2. QED
    BY <2>1, <1>1
<1>3. QED
  BY <1>2, InductiveInvariant, PTL

(* Readers are served nothing a restart would lose, nor a catalog older    *)
(* than the confirmed one.                                                 *)
THEOREM ReadersSeeStoredCatalog == Spec => []VisibleIsStored
<1>1. IInv => VisibleIsStored
  <2> SUFFICES ASSUME IInv, rots = 0, phase # "down", acked > 0
               PROVE  acked <= visible /\ visible <= Recovered(file)
    BY DEF VisibleIsStored, Undamaged
  <2>1. file["primary"] \in Nat
    BY Contents DEF IInv, TypeOK, DiskInv, AckedInv, Name
  <2>2. Recovered(file) = file["primary"]
    BY <2>1, RecoveredValue DEF IInv, TypeOK
  <2>3. QED
    BY <2>2 DEF IInv, VisibleInv
<1>2. QED
  BY <1>1, InductiveInvariant, PTL

(* When damage to the primary is the only thing that ever went wrong, a    *)
(* load at rest still yields at least the confirmed snapshot before the    *)
(* newest one: the backup of the last save, or what a repair made of it.   *)
THEOREM BackupOutlivesOneRot == Spec => []BackupCoversOneRot
<1>1. IInv => BackupCoversOneRot
  <2> SUFFICES ASSUME IInv, rots <= 1, ~disturbed, phase = "idle"
               PROVE  prevAcked <= Recovered(file)
    BY DEF BackupCoversOneRot
  <2>1. /\ file["temp"] = Absent
        /\ file["primary"] = Absent => prevAcked = Empty
        /\ file["primary"] = Torn => BackedUp(prevAcked)
        /\ file["primary"] \in Nat => prevAcked <= file["primary"]
    BY DEF IInv, BackupInv
  <2>2. file["primary"] \in Content /\ Recovered(file) \in Nat /\ prevAcked \in Nat
    BY RecoveredValue DEF IInv, TypeOK, Name
  <2>3. QED
    BY <2>1, <2>2, SentinelsAssumption
    DEF Content, Recovered, Winner, Readable, BackedUp, Empty
<1>2. QED
  BY <1>1, InductiveInvariant, PTL

-----------------------------------------------------------------------------
(* The refinement.                                                         *)

(* The calls that do not rename, settle or lose the primary leave the      *)
(* abstract cell as it was.                                                *)
Quiet ==
    \/ BeginSave \/ OpenBackup \/ CopyBackup \/ FlushBackup \/ OpenTemp
    \/ WriteTemp \/ FlushTemp \/ WriteFails \/ SyncDirFails \/ ResyncFails
    \/ Restart \/ AuditRead \/ Crash

(* The steps that touch neither the primary file nor the confirmed value.  *)
LEMMA QuietSteps ==
    ASSUME TypeOK, Quiet
    PROVE  /\ file'["primary"] = file["primary"]
           /\ durable'["primary"] = durable["primary"]
           /\ acked' = acked
           /\ rots' = rots
  <2> USE DEF TypeOK, Name, disk, caller, budget
  <2>1. CASE BeginSave
    BY <2>1 DEF BeginSave
  <2>2. CASE OpenBackup
    BY <2>2 DEF OpenBackup, Put, Goto
  <2>3. CASE CopyBackup
    BY <2>3 DEF CopyBackup, Put, Goto
  <2>4. CASE FlushBackup
    BY <2>4 DEF FlushBackup, FsyncFile, Goto
  <2>5. CASE OpenTemp
    BY <2>5 DEF OpenTemp, Put, Goto
  <2>6. CASE WriteTemp
    BY <2>6 DEF WriteTemp, Put, Goto
  <2>7. CASE FlushTemp
    BY <2>7 DEF FlushTemp, FsyncFile, Goto
  <2>8. CASE WriteFails
    BY <2>8, UnlinkTempFacts DEF WriteFails
  <2>9. CASE SyncDirFails
    BY <2>9 DEF SyncDirFails
  <2>10. CASE ResyncFails
    BY <2>10 DEF ResyncFails, Goto
  <2>11. CASE Restart
    BY <2>11, LoadFacts DEF Restart
  <2>12. CASE AuditRead
    BY <2>12, LoadFacts DEF AuditRead
  <2>13. CASE Crash
    BY <2>13 DEF Crash
  <2>14. QED
    BY <2>1, <2>2, <2>3, <2>4, <2>5, <2>6, <2>7, <2>8, <2>9, <2>10, <2>11, <2>12, <2>13 DEF Quiet

(* Until the medium is damaged, the files behave as the abstract cell.     *)
THEOREM JsonStoreImplementsCell == Spec => ImplementsCell
<1>1. Init => Cell!Init
  BY SentinelsAssumption DEF Init, Cell!Init, ValueOf, Readable, Empty, Name
<1>2. IInv /\ IInv' /\ [Next]_vars => [Cell!Next]_(Cell!vars)
  <2> SUFFICES ASSUME IInv, IInv', [Next]_vars
               PROVE  [Cell!Next]_(Cell!vars)
    OBVIOUS
  <2>1. CASE rots' > 0
    BY <2>1 DEF Cell!Next
  <2>2. CASE rots' = 0
    <3>1. rots = 0
      BY <2>2, SoundBefore DEF IInv
    <3>2. CASE Quiet
      BY <3>2, QuietSteps DEF IInv, Cell!vars
    <3>3. CASE Rename
      <4>1. file'["primary"] = writing /\ writing \in Nat /\ acked <= writing
        BY <3>1, <3>3
        DEF Rename, IInv, TypeOK, Name, ProtocolInv, AckedInv, Active, BeforeReplace
      <4>2. durable'["primary"] = durable["primary"] \cup {writing}
        BY <3>3 DEF Rename, IInv, TypeOK, Name, ProtocolInv
      <4>3. acked' = acked
        BY <3>3 DEF Rename, Goto, caller
      <4>4. Cell!Publish
        BY <4>1, <4>2, <4>3 DEF Cell!Publish, ValueOf, Readable
      <4>5. QED
        BY <2>2, <4>4 DEF Cell!Next
    <3>4. CASE SyncDir \/ Resync
      <4>1. file["primary"] = writing /\ writing \in Nat
        BY <3>4 DEF SyncDir, Resync, IInv, TypeOK, ProtocolInv
      <4>2. file' = file /\ durable'["primary"] = {file["primary"]}
        BY <3>4 DEF SyncDir, Resync, FsyncDirectory, IInv, DiskInv, Name
      <4>3. acked' = acked \/ acked' = writing
        BY <3>4 DEF SyncDir, Resync, Confirm, caller
      <4>4. Cell!Settle
        BY <4>1, <4>2, <4>3 DEF Cell!Settle, ValueOf, Readable
      <4>5. QED
        BY <2>2, <4>4 DEF Cell!Next
    <3>5. CASE PowerLoss
      <4>1. PICK f \in AfterPowerLoss : file' = f /\ durable' = [n \in Name |-> {f[n]}]
        BY <3>5 DEF PowerLoss
      <4>2. f["primary"] \in durable["primary"]
        BY <4>1 DEF AfterPowerLoss, Files, Name
      <4>3. acked' = acked
        BY <3>5 DEF PowerLoss, caller
      <4>4. Cell!Lose
        BY <4>1, <4>2, <4>3 DEF Cell!Lose, Name
      <4>5. QED
        BY <2>2, <4>4 DEF Cell!Next
    <3>6. CASE Rot
      BY <2>2, <3>6 DEF Rot, IInv, TypeOK
    <3>7. CASE UNCHANGED vars
      BY <3>7 DEF vars, disk, caller, budget, Cell!vars
    <3>8. QED
      BY <3>2, <3>3, <3>4, <3>5, <3>6, <3>7 DEF Next, Quiet
  <2>3. QED
    BY <2>1, <2>2 DEF IInv, TypeOK
<1>3. QED
  BY <1>1, <1>2, InductiveInvariant, PTL DEF Spec, ImplementsCell, Cell!Spec
=============================================================================
