--------------------------- MODULE RecoveryProofs ---------------------------
(***************************************************************************)
(* What backup, restore and the recovery drill promise however often Paper *)
(* saves, whichever command fails and in any number of scripts: what is    *)
(* reported of the backup, the restore and the rollback is so; and where   *)
(* the clean-up's own commands work and no signal falls between `docker    *)
(* compose up' and the clearing of the flags, a restore is all or nothing  *)
(* and no service runs without a whole world.                              *)
(***************************************************************************)
EXTENDS Recovery, SequenceTheorems, TLAPS

-----------------------------------------------------------------------------
(* Ranges.                                                                 *)
Backup == [content : Content, complete : BOOLEAN]

HostTypes == volume \in Content /\ running \in BOOLEAN /\ remote \in Seq(Backup)

StatusTypes ==
    /\ script \in {"none", "backup", "restore"}
    /\ at \in Commands \cup {"none", "flags", "cleanup", "unpack", "restart"}
    /\ stopped \in BOOLEAN /\ mutated \in BOOLEAN /\ failed \in BOOLEAN /\ log \in BOOLEAN

HeldTypes ==
    stamp \in 0 .. Len(remote) /\ archive \in Content /\ image \in Content \cup {NoImage}

DrillTypes ==
    /\ drill \in {"none", "backup", "expect", "stop", "wipe", "restore", "compare",
                  "spoil", "reject", "judge"}
    /\ native \in Content /\ wiped \in BOOLEAN
    /\ happened \subseteq Claims /\ evidence \subseteq SUBSET Claims

Types == HostTypes /\ StatusTypes /\ HeldTypes /\ DrillTypes

(* Where a script stands, by its next command.                             *)
BackupAt == {"stop", "archive", "upload", "check", "start", "flags", "cleanup", "restart"}
RestoreAt == {"download", "verify", "stop", "image", "replace", "look", "start", "flags",
              "cleanup", "unpack", "restart"}
BeforeStop == {"download", "verify", "stop"}
CleaningUp == {"cleanup", "unpack", "restart"}
Changing == {"replace", "look", "start", "flags"}

Control ==
    /\ script = "none" => at = "none" /\ ~stopped /\ ~mutated /\ image = NoImage
    /\ script = "backup" => at \in BackupAt /\ ~mutated
    /\ script = "restore" => at \in RestoreAt /\ stamp >= 1

\* The flags that the trap reads, and the status.
Flags ==
    /\ script # "none" => (failed <=> at \in CleaningUp)
    /\ at \in BeforeStop => ~stopped
    /\ at \in PastStop => stopped /\ ~running
    /\ at = "flags" => stopped
    /\ mutated => image # NoImage /\ (stopped \/ LateInterrupt)
    /\ script = "restore" /\ at \in Commands \cup {"flags"} => (mutated <=> at \in Changing)
    /\ at \in Commands \cup {"flags", "cleanup"} => ~log
    /\ at = "unpack" => log /\ mutated
    /\ at = "restart" => (log <=> mutated)

\* What a script that is not cleaning up holds.
BackupHolds ==
    script = "backup" =>
        /\ at \in {"upload", "check", "start"} => archive = volume
        /\ at \in {"check", "start"} => Len(remote) >= 1 /\ remote[Len(remote)].content = archive
        /\ at = "start" => remote[Len(remote)].complete

RestoreHolds ==
    script = "restore" =>
        /\ at \in {"look", "start"} => volume = archive
        /\ at = "start" => archive \notin {Empty, Bad}

Scripts == Control /\ Flags /\ BackupHolds /\ RestoreHolds

(* The backups that were reported; the drill's bad one is not among them.  *)
ReportOf(n) ==
    /\ verified[n][1] \in 1 .. Len(remote)
    /\ remote[verified[n][1]] = [content |-> verified[n][2], complete |-> TRUE]
    /\ drill \in {"reject", "judge"} => verified[n][1] < Len(remote)

Reported ==
    /\ verified \in Seq(Nat \X Content)
    /\ \A n \in 1 .. Len(verified) : ReportOf(n)

(* The drill, step by step.                                                *)
Native == drill \notin {"none", "backup", "expect"} => native \in World

DrillBackup ==
    drill = "backup" =>
        /\ script # "restore" /\ volume \in World
        /\ at = "flags" \/ (script = "none" /\ ~failed) =>
              Len(remote) >= 1 /\ remote[Len(remote)].content \in World

DrillWaits ==
    /\ drill \in {"stop", "wipe", "restore", "spoil", "reject"} => script = "none"
    /\ drill \in {"compare", "judge"} => script # "backup"
    /\ drill \in {"wipe", "restore"} => ~running
    /\ drill = "restore" => volume = Empty
    /\ drill \in {"reject", "judge"} => Len(remote) >= 1

\* The restore into the emptied volume ...
EmptyRestore ==
    /\ drill = "compare" /\ script = "restore" =>
          /\ at \in BeforeStop \cup {"image"} => volume = Empty /\ ~running
          /\ at \in Changing => image = Empty
    /\ drill = "compare" /\ script = "none" /\ ~failed => "emptyRestore" \in happened
    /\ drill \in {"spoil", "reject", "judge"} => "emptyRestore" \in happened

\* ... and the restore that must fail.
Rollback ==
    drill = "judge" /\ log /\ at \in {"restart", "none"} =>
        "rollback" \in happened \/ volume = Partial

Drills == Native /\ DrillBackup /\ DrillWaits /\ EmptyRestore /\ Rollback

Recovers == Types /\ Scripts /\ Reported /\ Drills /\ RecoveriesHappened

(* With commands of the trap that work, on a host that was not wiped.      *)
RolledBackTo ==
    /\ at = "unpack" => volume = Empty /\ ~running
    /\ at = "restart" /\ mutated => volume = image /\ ~running
    /\ at = "cleanup" /\ mutated => ~running

Whole ==
    ~wiped =>
        /\ mutated /\ at # "flags" => image \in World
        /\ ~mutated \/ at = "flags" => volume \in World

-----------------------------------------------------------------------------
(* How the list of backups changes.                                        *)
Grows ==
    /\ Len(remote') = Len(remote) + 1
    /\ \A i \in 1 .. Len(remote) : remote'[i] = remote[i]

Shrinks ==
    /\ Len(remote') = Len(remote) - 1
    /\ \A i \in 1 .. Len(remote') : remote'[i] = remote[i]

LEMMA OneMore ==
    ASSUME remote \in Seq(Backup), NEW b \in Backup, remote' = Append(remote, b)
    PROVE  /\ remote' \in Seq(Backup) /\ Len(remote) \in Nat /\ Grows
           /\ remote'[Len(remote')] = b
  BY AppendProperties, LenProperties DEF Grows

LEMMA Shorter ==
    ASSUME NEW n \in Nat, n >= 1, NEW l, l = IF 1 <= n - 1 THEN n - 1 - 1 + 1 ELSE 0
    PROVE  l = n - 1
  OBVIOUS

LEMMA OneLess ==
    ASSUME remote \in Seq(Backup), Len(remote) >= 1,
           remote' = SubSeq(remote, 1, Len(remote) - 1)
    PROVE  remote' \in Seq(Backup) /\ Len(remote) \in Nat /\ Shrinks
<1>1. Len(remote) \in Nat /\ \A i \in 1 .. Len(remote) : remote[i] \in Backup
  BY LenProperties, ElementOfSeq
<1>2. /\ SubSeq(remote, 1, Len(remote) - 1) \in Seq(Backup)
      /\ Len(SubSeq(remote, 1, Len(remote) - 1))
            = IF 1 <= Len(remote) - 1 THEN Len(remote) - 1 - 1 + 1 ELSE 0
      /\ \A i \in 1 .. Len(remote) - 1 - 1 + 1 :
            SubSeq(remote, 1, Len(remote) - 1)[i] = remote[1 + i - 1]
  BY <1>1, SubSeqProperties
<1> DEFINE s == SubSeq(remote, 1, Len(remote) - 1)
<1>3. /\ s \in Seq(Backup)
      /\ \A i \in 1 .. Len(remote) - 1 - 1 + 1 : s[i] = remote[1 + i - 1]
  BY <1>2
<1>4. Len(s) = IF 1 <= Len(remote) - 1 THEN Len(remote) - 1 - 1 + 1 ELSE 0
  BY <1>2
<1>5. remote' = s
  OBVIOUS
<1> HIDE DEF s
<1>6. Len(remote) \in Nat /\ Len(s) = Len(remote) - 1
  BY <1>1, <1>4, Shorter
<1>7. \A i \in 1 .. Len(s) : s[i] = remote[i]
  BY <1>3, <1>6
<1> QED
  BY <1>3, <1>5, <1>6, <1>7 DEF Shrinks

LEMMA NoImageIsNoContent == NoImage \notin Content
  BY RecoveryAssumption DEF NoImage, Content, World, Partial, Bad, Empty

LEMMA InitialRecovery == Init => Types /\ Scripts /\ Reported /\ Drills /\ RecoveriesHappened
<1> SUFFICES ASSUME Init
             PROVE  Types /\ Scripts /\ Reported /\ Drills /\ RecoveriesHappened
  OBVIOUS
<1>1. Types
  <2>1. HostTypes
    BY RecoveryAssumption, EmptySeq DEF Init, HostTypes, Content, World
  <2>2. StatusTypes
    BY DEF Init, StatusTypes
  <2>3. Len(remote) = 0
    BY DEF Init
  <2>4. HeldTypes
    BY <2>3 DEF Init, HeldTypes, Content
  <2>5. DrillTypes
    BY DEF Init, DrillTypes, Content
  <2> QED
    BY <2>1, <2>2, <2>4, <2>5 DEF Types
<1>2. Scripts
  BY DEF Init, Scripts, Control, Flags, BackupHolds, RestoreHolds, Commands, BeforeStop, PastStop
<1>3. Reported /\ RecoveriesHappened
  <2>1. verified = <<>> /\ Len(verified) = 0
    BY DEF Init
  <2>2. verified \in Seq(Nat \X Content)
    BY <2>1, EmptySeq
  <2> QED
    BY <2>1, <2>2 DEF Init, Reported, RecoveriesHappened
<1>4. Drills
  BY DEF Init, Drills, Native, DrillBackup, DrillWaits, EmptyRestore, Rollback
<1> QED
  BY <1>1, <1>2, <1>3, <1>4

-----------------------------------------------------------------------------
\* What the volume holds and what was backed up.
LEMMA HostTypesKept ==
    ASSUME Types, Control, Flags, DrillWaits, [Next]_vars
    PROVE  HostTypes'
<1> USE DEF Types, HostTypes, host, shell, test, history
<1>1. CASE ByOperator \/ Stop \/ Archive \/ Check \/ Download \/ Verify \/ Image \/ Look
  BY <1>1 DEF ByOperator, StartBackup, StartRestore, Start, Stop, Do, After, Archive,
     Check, Download, Verify, Image, Look
<1>2. CASE Up \/ Finish \/ BeginDrill \/ Expect \/ DrillStop \/ DrillRestore \/ Compare \/
             Reject
  BY <1>2 DEF Up, Finish, Over, BeginDrill, StartBackup, Start, Expect, Step, DrillStop,
     DrillRestore, StartRestore, Compare, Reject
<1>3. CASE Save
  BY <1>3, RecoveryAssumption DEF Save, World, Content
<1>4. CASE Upload
  <2>1. PICK c \in BOOLEAN : remote' = Append(remote, [content |-> archive, complete |-> c])
    BY <1>4 DEF Upload
  <2>2. remote' \in Seq(Backup)
    BY <2>1, OneMore DEF HeldTypes, Backup
  <2> QED
    BY <1>4, <2>2 DEF Upload, Do
<1>5. CASE Replace
  BY <1>5 DEF Replace, Do, HeldTypes
<1>6. CASE Fail
  <2>1. \/ remote' = remote
        \/ remote' = Append(remote, [content |-> archive, complete |-> FALSE])
    BY <1>6 DEF Fail
  <2>2. remote' \in Seq(Backup)
    BY <2>1, OneMore DEF HeldTypes, Backup
  <2>3. running' \in BOOLEAN /\ volume' \in {volume, Partial}
    BY <1>6 DEF Fail
  <2> QED
    BY <1>6, <2>2, <2>3 DEF Content
<1>7. CASE CleanUp
  BY <1>7 DEF CleanUp, Content
<1>8. CASE Unpack
  <2>1. at = "unpack" /\ volume' \in {image, Partial}
    BY <1>8 DEF Unpack
  <2>2. image \in Content
    BY <2>1 DEF Flags, HeldTypes
  <2> QED
    BY <1>8, <2>1, <2>2 DEF Unpack, Content
<1>9. CASE Restart
  <2>1. running' \in BOOLEAN
    BY <1>9 DEF Restart, StatusTypes
  <2> QED
    BY <1>9, <2>1 DEF Restart
<1>10. CASE Wipe
  BY <1>10 DEF Wipe, Step, Content
<1>11. CASE Spoil
  <2>1. remote' \in Seq(Backup)
    BY <1>11, OneMore DEF Spoil, Backup, Content
  <2> QED
    BY <1>11, <2>1 DEF Spoil, Step
<1>12. CASE Judge
  BY <1>12, OneLess DEF Judge, Step, DrillWaits
<1>13. CASE DrillFails
  <2>1. remote' \in Seq(Backup)
    BY <1>13, OneLess DEF DrillFails, DrillWaits
  <2>2. volume' \in {volume, Partial} /\ running' \in BOOLEAN
    BY <1>13 DEF DrillFails
  <2> QED
    BY <1>13, <2>1, <2>2 DEF Content
<1>14. CASE Refuse
  BY <1>14 DEF Refuse
<1>15. CASE UNCHANGED vars
  BY <1>15 DEF vars
<1> QED
  BY <1>14, <1>1, <1>2, <1>3, <1>4, <1>5, <1>6, <1>7, <1>8, <1>9, <1>10, <1>11, <1>12, <1>13,
     <1>15 DEF Next

\* Where the script is and what its trap reads.
LEMMA StatusTypesKept ==
    ASSUME Types, [Next]_vars
    PROVE  StatusTypes'
<1> USE DEF Types, HostTypes, StatusTypes, Commands, host, shell, test, history
<1>1. CASE Save \/ ByOperator \/ Stop \/ Archive
  BY <1>1, ZenonT(30)
     DEF Save, ByOperator, StartBackup, StartRestore, Start, Stop, Do, After, Archive
<1>2. CASE Upload \/ Check \/ Download \/ Verify
  BY <1>2 DEF Upload, Do, Check, Download, Verify
<1>3. CASE Image \/ Replace \/ Look \/ Up \/ Finish
  BY <1>3 DEF Image, Do, Replace, Look, Up, Finish, Over
<1>4. CASE Refuse \/ Fail \/ CleanUp \/ Unpack \/ Restart
  BY <1>4 DEF Refuse, Fail, CleanUp, Unpack, Restart, Over
<1>5. CASE BeginDrill \/ Expect \/ DrillStop \/ Wipe
  BY <1>5 DEF BeginDrill, StartBackup, Start, Expect, Step, DrillStop, Wipe
<1>6. CASE DrillRestore \/ Compare \/ Spoil \/ Reject
  BY <1>6 DEF DrillRestore, StartRestore, Start, Step, Compare, Spoil, Reject
<1>7. CASE Judge \/ DrillFails
  BY <1>7 DEF Judge, Step, DrillFails
<1>8. CASE UNCHANGED vars
  BY <1>8 DEF vars
<1> QED
  BY <1>1, <1>2, <1>3, <1>4, <1>5, <1>6, <1>7, <1>8 DEF Next

\* What the script holds.
LEMMA HeldTypesKept ==
    ASSUME Types, Control, DrillWaits, [Next]_vars
    PROVE  HeldTypes'
<1> USE DEF Types, HostTypes, HeldTypes, host, shell, test, history
<1>1. CASE Save \/ Stop \/ Archive \/ Check \/ Verify \/ Image \/ Replace \/ Look
  BY <1>1 DEF Save, Stop, Do, After, Archive, Check, Verify, Image, Replace, Look
<1>2. CASE CleanUp \/ Unpack \/ Expect \/ DrillStop \/ Wipe \/ Compare
  BY <1>2 DEF CleanUp, Unpack, Expect, Step, DrillStop, Wipe, Compare
<1>3. CASE ByOperator
  <2>1. DOMAIN remote = 1 .. Len(remote) /\ Len(remote) \in Nat
    BY LenProperties
  <2> QED
    BY <1>3, <2>1 DEF ByOperator, StartBackup, StartRestore, Start
<1>4. CASE Upload
  <2>1. PICK c \in BOOLEAN : remote' = Append(remote, [content |-> archive, complete |-> c])
    BY <1>4 DEF Upload
  <2>2. Len(remote') = Len(remote) + 1 /\ Len(remote) \in Nat
    BY <2>1, OneMore DEF Backup, Grows
  <2> QED
    BY <1>4, <2>2 DEF Upload, Do
<1>5. CASE Download
  <2>1. script = "restore"
    BY <1>5 DEF Download, Do, Control, BackupAt, StatusTypes
  <2>2. stamp \in 1 .. Len(remote)
    BY <2>1, LenProperties DEF Control
  <2>3. remote[stamp] \in Backup
    BY <2>2, ElementOfSeq
  <2> QED
    BY <1>5, <2>3 DEF Download, Do, Backup
<1>6. CASE Finish
  BY <1>6 DEF Finish, Over, Content
<1>7. CASE Fail
  <2>1. \/ remote' = remote
        \/ remote' = Append(remote, [content |-> archive, complete |-> FALSE])
    BY <1>7 DEF Fail
  <2>2. Len(remote') \in {Len(remote), Len(remote) + 1} /\ Len(remote) \in Nat
    BY <2>1, OneMore, LenProperties DEF Backup, Grows
  <2> QED
    BY <1>7, <2>2 DEF Fail
<1>8. CASE Restart
  BY <1>8 DEF Restart, Over, Content
<1>9. CASE BeginDrill
  <2>1. DOMAIN remote = 1 .. Len(remote) /\ Len(remote) \in Nat
    BY LenProperties
  <2> QED
    BY <1>9, <2>1 DEF BeginDrill, StartBackup, Start
<1>10. CASE DrillRestore
  <2>1. DOMAIN remote = 1 .. Len(remote) /\ Len(remote) \in Nat
    BY LenProperties
  <2> QED
    BY <1>10, <2>1 DEF DrillRestore, Step, StartRestore, Start
<1>11. CASE Spoil
  <2>1. Len(remote') = Len(remote) + 1 /\ Len(remote) \in Nat
    BY <1>11, OneMore DEF Spoil, Backup, Content, Grows
  <2> QED
    BY <1>11, <2>1 DEF Spoil, Step
<1>12. CASE Reject
  <2>1. DOMAIN remote = 1 .. Len(remote) /\ Len(remote) \in Nat
    BY LenProperties
  <2> QED
    BY <1>12, <2>1 DEF Reject, Step, StartRestore, Start
<1>13. CASE Judge
  <2>1. Len(remote') \in Nat
    BY <1>13, OneLess, LenProperties DEF Judge, Step, DrillWaits
  <2> QED
    BY <1>13, <2>1 DEF Judge, Step
<1>14. CASE DrillFails
  <2>1. Len(remote') \in Nat
    BY <1>14, OneLess, LenProperties DEF DrillFails, DrillWaits
  <2> QED
    BY <1>14, <2>1 DEF DrillFails
<1>15. CASE Up \/ Refuse
  BY <1>15 DEF Up, Refuse
<1>16. CASE UNCHANGED vars
  BY <1>16 DEF vars
<1> QED
  BY <1>15, <1>1, <1>2, <1>3, <1>4, <1>5, <1>6, <1>7, <1>8, <1>9, <1>10, <1>11, <1>12, <1>13,
     <1>14, <1>16 DEF Next

\* Where the drill is and what it has seen.
LEMMA DrillTypesKept ==
    ASSUME Types, Control, Flags, DrillBackup, [Next]_vars
    PROVE  DrillTypes'
<1> USE DEF Types, HostTypes, DrillTypes, Claims, host, shell, test, history
<1>1. CASE Save \/ ByOperator \/ Stop \/ Archive \/ Upload \/ Check \/ Download \/ Verify
  BY <1>1 DEF Save, ByOperator, StartBackup, StartRestore, Start, Stop, Do, After,
     Archive, Upload, Check, Download, Verify
<1>2. CASE Image \/ Replace \/ Look \/ Up \/ Finish \/ Refuse \/ Fail \/ CleanUp \/ Unpack \/ Restart
  BY <1>2 DEF Image, Do, Replace, Look, Up, Finish, Over, Refuse, Fail, CleanUp, Unpack, Restart
<1>3. CASE BeginDrill \/ DrillStop \/ Wipe \/ DrillRestore \/ Compare \/ Spoil \/ Reject
             \/ Judge
  BY <1>3 DEF BeginDrill, StartBackup, Start, DrillStop, Step, Wipe, DrillRestore,
     StartRestore, Compare, Spoil, Reject, Judge
<1>4. CASE DrillFails
  BY <1>4 DEF DrillFails
<1>5. CASE Expect
  <2>1. remote[Len(remote)] \in Backup
    BY <1>5, ElementOfSeq, LenProperties DEF Expect, Step, DrillBackup
  <2> QED
    BY <1>5, <2>1 DEF Expect, Step, Backup
<1>6. CASE UNCHANGED vars
  BY <1>6 DEF vars
<1> QED
  BY <1>1, <1>2, <1>3, <1>4, <1>5, <1>6 DEF Next

\* The order of the commands.
LEMMA ControlKept ==
    ASSUME Types, Control, Flags, DrillWaits, [Next]_vars
    PROVE  Control'
<1> USE DEF Types, HostTypes, StatusTypes, HeldTypes, Control, Commands, BackupAt,
            RestoreAt, host, shell, test, history
<1>1. CASE Save \/ ByOperator \/ Stop \/ Archive
  BY <1>1 DEF Save, ByOperator, StartBackup, StartRestore, Start, Stop, Do, After, Archive
<1>2. CASE Upload \/ Check \/ Download \/ Verify
  BY <1>2 DEF Upload, Do, Check, Download, Verify
<1>3. CASE Image \/ Replace \/ Look \/ Up \/ Finish
  BY <1>3 DEF Image, Do, Replace, Look, Up, Finish, Over
<1>4. CASE CleanUp \/ Unpack \/ Restart \/ BeginDrill
  BY <1>4 DEF CleanUp, Unpack, Restart, Over, BeginDrill, StartBackup, Start
<1>5. CASE Expect \/ DrillStop \/ Wipe \/ DrillRestore
  BY <1>5 DEF Expect, Step, DrillStop, Wipe, DrillRestore, StartRestore, Start
<1>6. CASE Compare \/ Spoil \/ Reject \/ Judge
  BY <1>6 DEF Compare, Step, Spoil, Reject, StartRestore, Start, Judge
<1>7. CASE Fail
  BY <1>7 DEF Fail
<1>8. CASE DrillFails
  BY <1>8 DEF DrillFails
<1>9. CASE Refuse
  BY <1>9 DEF Refuse
<1>10. CASE UNCHANGED vars
  BY <1>10 DEF vars
<1> QED
  BY <1>9, <1>1, <1>2, <1>3, <1>4, <1>5, <1>6, <1>7, <1>8, <1>10 DEF Next

\* What the trap will read.
LEMMA FlagsKept ==
    ASSUME Types, Control, Flags, DrillWaits, [Next]_vars
    PROVE  Flags'
<1> USE DEF Types, StatusTypes, Control, Flags, Commands, BackupAt, RestoreAt, BeforeStop,
            PastStop, Changing, CleaningUp, host, shell, test, history
<1>1. CASE Save \/ ByOperator \/ Stop \/ Archive
  BY <1>1 DEF Save, ByOperator, StartBackup, StartRestore, Start, Stop, Do, After, Archive
<1>2. CASE Upload \/ Check \/ Download \/ Verify
  BY <1>2 DEF Upload, Do, Check, Download, Verify
<1>3. CASE Replace \/ Look \/ Up \/ Finish \/ CleanUp
  BY <1>3 DEF Replace, Do, Look, Up, Finish, Over, CleanUp
<1>4. CASE Unpack \/ Restart \/ BeginDrill \/ Expect
  BY <1>4 DEF Unpack, Restart, Over, BeginDrill, StartBackup, Start, Expect, Step
<1>5. CASE DrillStop \/ Wipe \/ DrillRestore \/ Compare
  BY <1>5 DEF DrillStop, Step, Wipe, DrillRestore, StartRestore, Start, Compare
<1>6. CASE Spoil \/ Reject \/ Judge
  BY <1>6 DEF Spoil, Step, Reject, StartRestore, Start, Judge
<1>7. CASE Image
  BY <1>7, NoImageIsNoContent DEF Image, Do, HostTypes
<1>8. CASE Fail
  BY <1>8 DEF Fail
<1>9. CASE DrillFails
  BY <1>9 DEF DrillFails
<1>10. CASE Refuse
  BY <1>10 DEF Refuse
<1>11. CASE UNCHANGED vars
  BY <1>11 DEF vars
<1> QED
  BY <1>10, <1>1, <1>2, <1>3, <1>4, <1>5, <1>6, <1>7, <1>8, <1>9, <1>11 DEF Next

\* A backup archives the volume that the stopped orchestrator left.
LEMMA BackupHoldsKept ==
    ASSUME Types, Control, Flags, BackupHolds, DrillWaits, [Next]_vars
    PROVE  BackupHolds'
<1> USE DEF Types, StatusTypes, Control, BackupHolds, BackupAt, RestoreAt, host, shell,
            test, history
<1>1. CASE ByOperator \/ Stop \/ Archive \/ Check \/ Download \/ Verify \/ Image \/
             Replace
  BY <1>1 DEF ByOperator, StartBackup, StartRestore, Start, Stop, Do, After, Archive,
     Check, Download, Verify, Image, Replace
<1>2. CASE Look \/ Up \/ Finish \/ Refuse \/ Fail \/ CleanUp \/ Unpack \/ Restart \/ BeginDrill \/ Expect
  BY <1>2 DEF Look, Do, Up, Finish, Over, Refuse, Fail, CleanUp, Unpack, Restart, BeginDrill,
     StartBackup, Start, Expect, Step
<1>3. CASE DrillStop \/ Wipe \/ DrillRestore \/ Compare \/ Spoil \/ Reject \/ Judge \/
             DrillFails
  BY <1>3 DEF DrillStop, Step, Wipe, DrillRestore, StartRestore, Start, Compare, Spoil,
     Reject, Judge, DrillFails
<1>4. CASE Save
  <2>1. at \notin PastStop
    BY <1>4 DEF Save, Flags
  <2> QED
    BY <1>4, <2>1 DEF Save, PastStop, Commands
<1>5. CASE Upload
  <2>1. PICK c \in BOOLEAN : remote' = Append(remote, [content |-> archive, complete |-> c])
    BY <1>5 DEF Upload
  <2>2. [content |-> archive, complete |-> c] \in Backup /\ remote \in Seq(Backup)
    BY DEF HostTypes, HeldTypes, Backup
  <2>3. /\ remote'[Len(remote')] = [content |-> archive, complete |-> c]
        /\ Len(remote') >= 1
    BY <2>1, <2>2, OneMore DEF Grows
  <2>4. remote'[Len(remote')].content = archive
    BY <2>3
  <2>5. at = "upload" /\ at' = "check" /\ UNCHANGED <<script, archive, volume>>
    BY <1>5 DEF Upload, Do
  <2> QED
    BY <2>3, <2>4, <2>5
<1>6. CASE UNCHANGED vars
  BY <1>6 DEF vars
<1> QED
  BY <1>1, <1>2, <1>3, <1>4, <1>5, <1>6 DEF Next

\* A restore puts its archive on the volume.
LEMMA RestoreHoldsKept ==
    ASSUME Types, Control, Flags, RestoreHolds, DrillWaits, [Next]_vars
    PROVE  RestoreHolds'
<1> USE DEF Types, StatusTypes, Control, RestoreHolds, BackupAt, RestoreAt, host, shell,
            test, history
<1>1. CASE ByOperator \/ Stop \/ Archive \/ Upload \/ Check \/ Download \/ Verify \/ Image
  BY <1>1 DEF ByOperator, StartBackup, StartRestore, Start, Stop, Do, After, Archive,
     Upload, Check, Download, Verify, Image
<1>2. CASE Replace \/ Look \/ Up \/ Finish \/ Refuse \/ Fail \/ CleanUp \/ Unpack \/ Restart \/ BeginDrill
  BY <1>2 DEF Replace, Do, Look, Up, Finish, Over, Refuse, Fail, CleanUp, Unpack, Restart, BeginDrill,
     StartBackup, Start
<1>3. CASE Expect \/ DrillStop \/ Wipe \/ DrillRestore \/ Compare \/ Spoil \/ Reject \/
             Judge
  BY <1>3 DEF Expect, Step, DrillStop, Wipe, DrillRestore, StartRestore, Start, Compare,
     Spoil, Reject, Judge
<1>4. CASE DrillFails
  BY <1>4 DEF DrillFails
<1>5. CASE Save
  <2>1. at \notin PastStop
    BY <1>5 DEF Save, Flags
  <2> QED
    BY <1>5, <2>1 DEF Save, PastStop, Commands
<1>6. CASE UNCHANGED vars
  BY <1>6 DEF vars
<1> QED
  BY <1>1, <1>2, <1>3, <1>4, <1>5, <1>6 DEF Next

-----------------------------------------------------------------------------
\* A report stays true as backups are added, and as the drill's bad one goes.
LEMMA ReportedBefore ==
    ASSUME Reported, Len(remote) \in Nat, Grows, verified' = verified
    PROVE  Reported'
<1> SUFFICES ASSUME NEW n \in 1 .. Len(verified)
             PROVE  ReportOf(n)'
  BY DEF Reported
<1>1. /\ verified[n][1] \in 1 .. Len(remote)
      /\ remote[verified[n][1]] = [content |-> verified[n][2], complete |-> TRUE]
  BY DEF Reported, ReportOf
<1>2. remote'[verified[n][1]] = remote[verified[n][1]]
  BY <1>1 DEF Grows
<1>3. verified[n][1] \in 1 .. Len(remote') /\ verified[n][1] < Len(remote')
  BY <1>1 DEF Grows
<1> QED
  BY <1>1, <1>2, <1>3 DEF ReportOf

LEMMA ReportedAfter ==
    ASSUME Reported, Len(remote) \in Nat, Shrinks, verified' = verified,
           drill \in {"reject", "judge"}, drill' = "none"
    PROVE  Reported'
<1> SUFFICES ASSUME NEW n \in 1 .. Len(verified)
             PROVE  ReportOf(n)'
  BY DEF Reported
<1>1. /\ verified[n][1] \in 1 .. Len(remote) /\ verified[n][1] < Len(remote)
      /\ remote[verified[n][1]] = [content |-> verified[n][2], complete |-> TRUE]
  BY DEF Reported, ReportOf
<1>2. verified[n][1] \in 1 .. Len(remote')
  BY <1>1 DEF Shrinks
<1>3. remote'[verified[n][1]] = remote[verified[n][1]]
  BY <1>2 DEF Shrinks
<1> QED
  BY <1>1, <1>2, <1>3 DEF ReportOf

LEMMA ReportedKept ==
    ASSUME Types, Control, BackupHolds, Reported, DrillWaits, [Next]_vars
    PROVE  Reported'
<1> USE DEF Types, HostTypes, host, shell, test, history
<1>u. ASSUME UNCHANGED <<verified, remote>>, drill' \notin {"reject", "judge"} \/ drill' = drill
      PROVE  Reported'
  BY <1>u DEF Reported, ReportOf
<1>1. CASE Save \/ ByOperator \/ Stop \/ Archive \/ Check \/ Download \/ Verify \/ Image
  BY <1>u, <1>1 DEF Save, ByOperator, StartBackup, StartRestore, Start, Stop, Do, After,
     Archive, Check, Download, Verify, Image
<1>2. CASE Replace \/ Look \/ Finish \/ Refuse \/ CleanUp \/ Unpack \/ Restart \/ BeginDrill \/ Expect \/
             DrillStop
  BY <1>u, <1>2 DEF Replace, Do, Look, Finish, Refuse, CleanUp, Unpack, Restart,
     Over, BeginDrill, StartBackup,
     Start, Expect, Step, DrillStop
<1>3. CASE Wipe \/ DrillRestore \/ Compare
  BY <1>u, <1>3 DEF Wipe, Step, DrillRestore, StartRestore, Start, Compare
<1>4. CASE Upload
  <2>1. PICK c \in BOOLEAN : remote' = Append(remote, [content |-> archive, complete |-> c])
    BY <1>u, <1>4 DEF Upload
  <2>2. [content |-> archive, complete |-> c] \in Backup
    BY DEF HeldTypes, Backup
  <2> QED
    BY <1>4, <2>1, <2>2, OneMore, ReportedBefore DEF Upload, Do, history, test
<1>5. CASE Up
  <2>1. CASE script = "backup"
    <3> DEFINE report == <<Len(remote), volume>>
    <3>1. /\ Len(remote) \in 1 .. Len(remote) /\ volume \in Content
          /\ remote[Len(remote)] \in Backup
      BY <1>5, <2>1, LenProperties, ElementOfSeq DEF Up, BackupHolds, HostTypes
    <3>2. remote[Len(remote)].content = volume /\ remote[Len(remote)].complete
      BY <1>5, <2>1 DEF Up, BackupHolds
    <3>3. remote[Len(remote)] = [content |-> volume, complete |-> TRUE]
      BY <3>1, <3>2 DEF Backup
    <3>4. /\ verified' = Append(verified, report) /\ report \in Nat \X Content
          /\ UNCHANGED <<remote, drill>>
      BY <1>5, <2>1, <3>1, LenProperties DEF Up, test
    <3>5. report[1] = Len(remote) /\ report[2] = volume
      OBVIOUS
    <3> HIDE DEF report
    <3>6. /\ verified' \in Seq(Nat \X Content) /\ Len(verified) \in Nat
          /\ Len(verified') = Len(verified) + 1
          /\ \A n \in 1 .. Len(verified) : verified'[n] = verified[n]
          /\ verified'[Len(verified')] = report
      BY <3>4, AppendProperties, LenProperties DEF Reported
    <3>7. drill \notin {"reject", "judge"} /\ drill' = drill
      BY <2>1, <3>4 DEF DrillWaits
    <3>8. ASSUME NEW n \in 1 .. Len(verified')
          PROVE  ReportOf(n)'
      <4>1. CASE n \in 1 .. Len(verified)
        BY <3>4, <3>6, <3>7, <4>1 DEF Reported, ReportOf
      <4>2. CASE n = Len(verified')
        <5>1. verified'[n] = report
          BY <3>6, <4>2
        <5> QED
          BY <3>1, <3>3, <3>4, <3>5, <3>7, <5>1 DEF ReportOf
      <4> QED
        BY <3>6, <4>1, <4>2
    <3> QED
      BY <3>6, <3>8 DEF Reported
  <2>2. CASE script # "backup"
    BY <1>5, <2>2 DEF Up, Reported, ReportOf
  <2> QED
    BY <2>1, <2>2
<1>6. CASE Fail
  <2>1. [content |-> archive, complete |-> FALSE] \in Backup
    BY DEF HeldTypes, Backup
  <2>2. \/ remote' = remote
        \/ remote' = Append(remote, [content |-> archive, complete |-> FALSE])
    BY <1>6 DEF Fail
  <2>3. CASE remote' = remote
    BY <1>u, <1>6, <2>3 DEF Fail, history, test
  <2>4. CASE remote' = Append(remote, [content |-> archive, complete |-> FALSE])
    BY <1>6, <2>1, <2>4, OneMore, ReportedBefore DEF Fail, history, test
  <2> QED
    BY <2>2, <2>3, <2>4
<1>7. CASE Spoil
  <2>1. [content |-> Bad, complete |-> TRUE] \in Backup
    BY DEF Backup, Content
  <2> QED
    BY <1>7, <2>1, OneMore, ReportedBefore DEF Spoil, Step
<1>8. CASE Reject
  BY <1>8 DEF Reject, StartRestore, Start, Step, Reported, ReportOf
<1>9. CASE Judge
  <2>1. drill = "judge" /\ drill' = "none" /\ verified' = verified
    BY <1>9 DEF Judge, Step
  <2>2. Shrinks /\ Len(remote) \in Nat
    BY <1>9, <2>1, OneLess DEF Judge, DrillWaits
  <2> QED
    BY <2>1, <2>2, ReportedAfter
<1>10. CASE DrillFails
  <2>1. drill' = "none" /\ verified' = verified
    BY <1>10 DEF DrillFails
  <2>2. CASE drill \in {"reject", "judge"}
    <3>1. Shrinks /\ Len(remote) \in Nat
      BY <1>10, <2>2, OneLess DEF DrillFails, DrillWaits
    <3> QED
      BY <2>1, <2>2, <3>1, ReportedAfter
  <2>3. CASE drill \notin {"reject", "judge"}
    BY <1>10, <2>1, <2>3 DEF DrillFails, Reported, ReportOf
  <2> QED
    BY <2>2, <2>3
<1>11. CASE UNCHANGED vars
  BY <1>u, <1>11 DEF vars
<1> QED
  BY <1>1, <1>2, <1>3, <1>4, <1>5, <1>6, <1>7, <1>8, <1>9, <1>10, <1>11 DEF Next

-----------------------------------------------------------------------------
\* What the drill compares with is a world.
LEMMA NativeKept ==
    ASSUME Types, DrillBackup, Native, [Next]_vars
    PROVE  Native'
<1> USE DEF Types, Native, host, shell, test, history
<1>1. CASE Save \/ ByOperator \/ Stop \/ Archive \/ Upload \/ Check \/ Download \/ Verify
  BY <1>1 DEF Save, ByOperator, StartBackup, StartRestore, Start, Stop, Do, After,
     Archive, Upload, Check, Download, Verify
<1>2. CASE Image \/ Replace \/ Look \/ Up \/ Finish \/ Refuse \/ Fail \/ CleanUp \/ Unpack \/ Restart
  BY <1>2 DEF Image, Do, Replace, Look, Up, Finish, Over, Refuse, Fail, CleanUp, Unpack, Restart
<1>3. CASE BeginDrill \/ DrillStop \/ Wipe \/ DrillRestore \/ Compare \/ Spoil \/ Reject
             \/ Judge
  BY <1>3 DEF BeginDrill, StartBackup, Start, DrillStop, Step, Wipe, DrillRestore,
     StartRestore, Compare, Spoil, Reject, Judge
<1>4. CASE DrillFails
  BY <1>4 DEF DrillFails
<1>5. CASE Expect
  BY <1>5 DEF Expect, Step, DrillBackup
<1>6. CASE UNCHANGED vars
  BY <1>6 DEF vars
<1> QED
  BY <1>1, <1>2, <1>3, <1>4, <1>5, <1>6 DEF Next

\* The drill begins with a backup of a whole world.
LEMMA DrillBackupKept ==
    ASSUME Types, Control, Flags, BackupHolds, DrillBackup, [Next]_vars
    PROVE  DrillBackup'
<1> USE DEF Types, StatusTypes, Control, DrillBackup, BackupAt, host, shell, test, history
<1>1. CASE ByOperator \/ Stop \/ Archive \/ Upload \/ Check \/ Download \/ Verify \/ Image
  BY <1>1 DEF ByOperator, StartBackup, StartRestore, Start, Stop, Do, After, Archive,
     Upload, Check, Download, Verify, Image
<1>2. CASE Replace \/ Look \/ Refuse \/ Fail \/ CleanUp \/ Unpack \/ BeginDrill \/ Expect \/
             DrillStop
  BY <1>2 DEF Replace, Do, Look, Refuse, Fail, CleanUp, Unpack, BeginDrill, StartBackup, Start,
     Expect, Step, DrillStop
<1>3. CASE Wipe \/ DrillRestore \/ Compare \/ Spoil \/ Reject \/ Judge \/ DrillFails
  BY <1>3 DEF Wipe, Step, DrillRestore, StartRestore, Start, Compare, Spoil, Reject,
     Judge, DrillFails
<1>4. CASE Save
  <2>1. volume \in World => volume' \in World
    BY <1>4, RecoveryAssumption DEF Save, World
  <2> QED
    BY <1>4, <2>1 DEF Save
<1>5. CASE Finish
  <2>1. CASE script = "backup"
    BY <1>5, <2>1 DEF Finish, Over, BackupHolds
  <2>2. CASE script # "backup"
    BY <1>5, <2>2 DEF Finish, Over
  <2> QED
    BY <2>1, <2>2
<1>6. CASE Restart
  BY <1>6 DEF Restart, Over, Flags, CleaningUp
<1>7. CASE Up
  <2>1. drill = "backup" => script = "backup"
    BY <1>7 DEF Up
  <2>2. drill = "backup" => Len(remote) >= 1 /\ remote[Len(remote)].content = volume
    BY <1>7, <2>1 DEF Up, BackupHolds
  <2> QED
    BY <1>7, <2>1, <2>2 DEF Up
<1>8. CASE UNCHANGED vars
  BY <1>8 DEF vars
<1> QED
  BY <1>7, <1>1, <1>2, <1>3, <1>4, <1>5, <1>6, <1>8 DEF Next

\* The drill goes on when its script has ended.
LEMMA DrillWaitsKept ==
    ASSUME Types, Control, Flags, DrillBackup, DrillWaits, [Next]_vars
    PROVE  DrillWaits'
<1> USE DEF Types, StatusTypes, Control, DrillWaits, BackupAt, RestoreAt, host, shell,
            test, history
<1>1. CASE Save \/ ByOperator \/ Stop \/ Archive \/ Upload \/ Check \/ Download \/ Verify
  BY <1>1 DEF Save, ByOperator, StartBackup, StartRestore, Start, Stop, Do, After,
     Archive, Upload, Check, Download, Verify
<1>2. CASE Image \/ Replace \/ Look \/ Up \/ Finish \/ Refuse \/ Fail \/ CleanUp \/ Unpack \/ Restart
  BY <1>2 DEF Image, Do, Replace, Look, Up, Finish, Over, Refuse, Fail, CleanUp, Unpack, Restart
<1>3. CASE BeginDrill \/ Expect \/ DrillStop \/ Wipe \/ DrillRestore \/ Compare \/ Spoil
             \/ Reject
  BY <1>3 DEF BeginDrill, StartBackup, Start, Expect, Step, DrillStop, Wipe, DrillRestore,
     StartRestore, Compare, Spoil, Reject
<1>4. CASE Judge \/ DrillFails
  BY <1>4 DEF Judge, Step, DrillFails
<1>5. CASE UNCHANGED vars
  BY <1>5 DEF vars
<1> QED
  BY <1>1, <1>2, <1>3, <1>4, <1>5 DEF Next

\* The restore into the emptied volume succeeds or fails the drill.
LEMMA EmptyRestoreKept ==
    ASSUME Types, Control, Flags, DrillWaits, EmptyRestore, [Next]_vars
    PROVE  EmptyRestore'
<1> USE DEF Types, StatusTypes, Control, EmptyRestore, BackupAt, RestoreAt, Changing,
            BeforeStop, CleaningUp, host, shell, test, history
<1>1. CASE Save \/ ByOperator \/ Stop \/ Archive \/ Upload \/ Check \/ Download \/ Verify
  BY <1>1 DEF Save, ByOperator, StartBackup, StartRestore, Start, Stop, Do, After,
     Archive, Upload, Check, Download, Verify
<1>2. CASE Image \/ Replace \/ Look \/ Refuse \/ Fail \/ CleanUp \/ Unpack \/ BeginDrill \/ Expect
  BY <1>2 DEF Image, Do, Replace, Look, Refuse, Fail, CleanUp, Unpack, BeginDrill, StartBackup,
     Start, Expect, Step
<1>3. CASE DrillStop \/ Wipe \/ Compare \/ Spoil \/ Reject \/ Judge \/ DrillFails
  BY <1>3 DEF DrillStop, Step, Wipe, Compare, Spoil, Reject, StartRestore, Start, Judge,
     DrillFails
<1>4. CASE Finish
  <2>1. script # "none" /\ at \in Changing
    BY <1>4 DEF Finish, Changing
  <2>2. CASE drill = "compare"
    <3>1. script = "restore" /\ image = Empty
      BY <2>1, <2>2 DEF DrillWaits
    <3> QED
      BY <1>4, <2>2, <3>1 DEF Finish, Over
  <2>3. CASE drill # "compare"
    BY <1>4, <2>3 DEF Finish, Over
  <2> QED
    BY <2>2, <2>3
<1>5. CASE Restart
  BY <1>5 DEF Restart, Over, Flags
<1>6. CASE DrillRestore
  BY <1>6 DEF DrillRestore, StartRestore, Start, Step, DrillWaits
<1>7. CASE Up
  BY <1>7 DEF Up
<1>8. CASE UNCHANGED vars
  BY <1>8 DEF vars
<1> QED
  BY <1>7, <1>1, <1>2, <1>3, <1>4, <1>5, <1>6, <1>8 DEF Next

\* The restore that must fail puts back what was there, or leaves no whole world.
LEMMA RollbackKept ==
    ASSUME Types, Control, Flags, DrillWaits, Rollback, [Next]_vars
    PROVE  Rollback'
<1> USE DEF Types, StatusTypes, Control, Rollback, BackupAt, RestoreAt, host, shell, test,
            history
<1>1. CASE ByOperator \/ Stop \/ Archive \/ Upload \/ Check \/ Download \/ Verify \/ Image
  BY <1>1 DEF ByOperator, StartBackup, StartRestore, Start, Stop, Do, After, Archive,
     Upload, Check, Download, Verify, Image
<1>2. CASE Replace \/ Look \/ Refuse \/ Fail \/ CleanUp \/ Unpack \/ Restart \/ BeginDrill \/ Expect
  BY <1>2 DEF Replace, Do, Look, Refuse, Fail, CleanUp, Unpack, Restart, Over, BeginDrill,
     StartBackup, Start, Expect, Step
<1>3. CASE DrillStop \/ Wipe \/ DrillRestore \/ Compare \/ Spoil \/ Reject \/ Judge \/
             DrillFails
  BY <1>3 DEF DrillStop, Step, Wipe, DrillRestore, StartRestore, Start, Compare, Spoil,
     Reject, Judge, DrillFails
<1>4. CASE Save
  <2>1. volume = Partial => volume' = Partial
    BY <1>4 DEF Save, World, Partial
  <2> QED
    BY <1>4, <2>1 DEF Save
<1>5. CASE Finish
  BY <1>5 DEF Finish, Over, Flags, Commands
<1>6. CASE Up
  BY <1>6 DEF Up
<1>7. CASE UNCHANGED vars
  BY <1>7 DEF vars
<1> QED
  BY <1>6, <1>1, <1>2, <1>3, <1>4, <1>5, <1>7 DEF Next

\* The evidence is left by a drill in which both happened.
LEMMA EvidenceKept ==
    ASSUME Types, Control, Native, EmptyRestore, Rollback, RecoveriesHappened,
           [Next]_vars
    PROVE  RecoveriesHappened'
<1> USE DEF Types, RecoveriesHappened, host, shell, test, history
<1>1. CASE Save \/ ByOperator \/ Stop \/ Archive \/ Upload \/ Check \/ Download \/ Verify
  BY <1>1 DEF Save, ByOperator, StartBackup, StartRestore, Start, Stop, Do, After,
     Archive, Upload, Check, Download, Verify
<1>2. CASE Image \/ Replace \/ Look \/ Up \/ Finish \/ Refuse \/ Fail \/ CleanUp \/ Unpack \/ Restart
  BY <1>2 DEF Image, Do, Replace, Look, Up, Finish, Over, Refuse, Fail, CleanUp, Unpack, Restart
<1>3. CASE BeginDrill \/ Expect \/ DrillStop \/ Wipe \/ DrillRestore \/ Compare \/ Spoil
             \/ Reject
  BY <1>3 DEF BeginDrill, StartBackup, Start, Expect, Step, DrillStop, Wipe, DrillRestore,
     StartRestore, Compare, Spoil, Reject
<1>4. CASE DrillFails
  BY <1>4 DEF DrillFails
<1>5. CASE Judge
  <2>1. drill = "judge" /\ script = "none" /\ log /\ volume = native
    BY <1>5 DEF Judge, Step, RolledBack
  <2>2. volume # Partial
    BY <2>1 DEF Native, World, Partial
  <2>3. "rollback" \in happened /\ "emptyRestore" \in happened
    BY <2>1, <2>2 DEF Control, Rollback, EmptyRestore
  <2> QED
    BY <1>5, <2>3 DEF Judge
<1>6. CASE UNCHANGED vars
  BY <1>6 DEF vars
<1> QED
  BY <1>1, <1>2, <1>3, <1>4, <1>5, <1>6 DEF Next

-----------------------------------------------------------------------------
(* With commands of the trap that work, on a host that was not wiped.      *)
\* The trap puts the image on a volume that nothing else writes to.
LEMMA RolledBackToKept ==
    ASSUME UpIsAtomic, TrapWorks, ~LateInterrupt, Types, Control, Flags, DrillWaits,
           RolledBackTo,
           [Next]_vars
    PROVE  RolledBackTo'
<1> USE DEF Types, StatusTypes, Control, Flags, RolledBackTo, BackupAt, RestoreAt,
            Commands, PastStop, Changing, CleaningUp, host, shell, test, history
<1>1. CASE Save \/ ByOperator \/ Stop \/ Archive
  BY <1>1 DEF Save, ByOperator, StartBackup, StartRestore, Start, Stop, Do, After, Archive
<1>2. CASE Upload \/ Check \/ Download \/ Verify
  BY <1>2 DEF Upload, Do, Check, Download, Verify
<1>3. CASE Image \/ Replace \/ Look \/ Up \/ Finish
  BY <1>3 DEF Image, Do, Replace, Look, Up, Finish, Over
<1>4. CASE CleanUp \/ Unpack \/ Restart \/ BeginDrill
  BY <1>4 DEF CleanUp, Unpack, Restart, Over, BeginDrill, StartBackup, Start
<1>5. CASE Expect \/ DrillStop \/ Wipe \/ DrillRestore
  BY <1>5 DEF Expect, Step, DrillStop, Wipe, DrillRestore, StartRestore, Start
<1>6. CASE Compare \/ Spoil \/ Reject \/ Judge
  BY <1>6 DEF Compare, Step, Spoil, Reject, StartRestore, Start, Judge
<1>7. CASE Fail
  BY <1>7 DEF Fail
<1>8. CASE DrillFails
  BY <1>8 DEF DrillFails
<1>9. CASE Refuse
  BY <1>9 DEF Refuse
<1>10. CASE UNCHANGED vars
  BY <1>10 DEF vars
<1> QED
  BY <1>9, <1>1, <1>2, <1>3, <1>4, <1>5, <1>6, <1>7, <1>8, <1>10 DEF Next

\* What is whole is the volume, or the image of one that is being changed.
LEMMA WholeKept ==
    ASSUME UpIsAtomic, TrapWorks, ~LateInterrupt, Types, Control, Flags, RestoreHolds,
           RolledBackTo, Whole, [Next]_vars
    PROVE  Whole'
<1> USE DEF Types, StatusTypes, Control, Whole, BackupAt, RestoreAt, host, shell, test,
            history
<1>1. CASE ByOperator \/ Stop \/ Archive \/ Upload \/ Check \/ Download \/ Verify \/ Look
  BY <1>1 DEF ByOperator, StartBackup, StartRestore, Start, Stop, Do, After, Archive,
     Upload, Check, Download, Verify, Look
<1>2. CASE CleanUp \/ BeginDrill \/ Expect \/ DrillStop \/ Wipe \/ DrillRestore \/ Compare
             \/ Spoil
  BY <1>2 DEF CleanUp, BeginDrill, StartBackup, Start, Expect, Step, DrillStop, Wipe,
     DrillRestore, StartRestore, Compare, Spoil
<1>3. CASE Reject \/ Judge \/ DrillFails
  BY <1>3 DEF Reject, StartRestore, Start, Step, Judge, DrillFails
<1>4. CASE Save
  <2>1. volume \in World => volume' \in World
    BY <1>4, RecoveryAssumption DEF Save, World
  <2> QED
    BY <1>4, <2>1 DEF Save
<1>5. CASE Image
  <2>1. script = "restore" /\ ~mutated
    BY <1>5 DEF Image, Do, Flags, Commands, Changing
  <2> QED
    BY <1>5, <2>1 DEF Image, Do
<1>6. CASE Replace
  <2>1. mutated
    BY <1>6 DEF Replace, Do, Flags, Commands, Changing
  <2> QED
    BY <1>6, <2>1 DEF Replace, Do
<1>7. CASE Finish
  BY <1>7 DEF Finish, Over
<1>8. CASE Fail
  <2>1. at # "flags" /\ (at = "replace" => mutated)
    BY <1>8 DEF Fail, Flags, Commands, Changing
  <2>2. volume' = volume \/ mutated
    BY <1>8, <2>1 DEF Fail
  <2> QED
    BY <1>8, <2>1, <2>2 DEF Fail
<1>9. CASE Unpack
  <2>1. mutated
    BY <1>9 DEF Unpack, Flags
  <2> QED
    BY <1>9, <2>1 DEF Unpack
<1>10. CASE Restart
  <2>1. mutated => volume = image
    BY <1>10 DEF Restart, RolledBackTo
  <2> QED
    BY <1>10, <2>1 DEF Restart, Over
<1>11. CASE Up
  <2>1. CASE script = "backup"
    BY <1>11, <2>1 DEF Up
  <2>2. CASE script = "restore"
    <3>1. volume = archive /\ archive \in World \cup {Partial}
      BY <1>11, <2>2 DEF Up, RestoreHolds, HeldTypes, Content
    <3> QED
      BY <1>11, <2>2, <3>1 DEF Up
  <2> QED
    BY <1>11, <2>1, <2>2 DEF Up
<1>12. CASE Refuse
  BY <1>12 DEF Refuse
<1>13. CASE UNCHANGED vars
  BY <1>13 DEF vars
<1> QED
  BY <1>1, <1>2, <1>3, <1>4, <1>5, <1>6, <1>7, <1>8, <1>9, <1>10, <1>11, <1>12, <1>13
     DEF Next

-----------------------------------------------------------------------------
LEMMA RecoversKept ==
    ASSUME Recovers, [Next]_vars
    PROVE  Recovers'
<1> USE DEF Recovers, Scripts, Drills
<1>1. Types'
  BY HostTypesKept, StatusTypesKept, HeldTypesKept, DrillTypesKept DEF Types
<1>2. Scripts'
  BY ControlKept, FlagsKept, BackupHoldsKept, RestoreHoldsKept
<1>3. Native' /\ DrillBackup' /\ DrillWaits'
  BY NativeKept, DrillBackupKept, DrillWaitsKept
<1>4. EmptyRestore' /\ Rollback'
  BY EmptyRestoreKept, RollbackKept
<1> QED
  BY <1>1, <1>2, <1>3, <1>4, ReportedKept, EvidenceKept

LEMMA RecoversAlways == Spec => []Recovers
<1>1. Init => Recovers
  BY InitialRecovery DEF Recovers
<1>2. Recovers /\ [Next]_vars => Recovers'
  BY RecoversKept
<1> QED
  BY <1>1, <1>2, PTL DEF Spec

(* Whichever command fails, a script that may have changed the volume has  *)
(* stopped the orchestrator and holds the image to roll back to.           *)
THEOREM RecoveryTypeCorrect == Spec => []TypeOK
<1>1. Recovers => TypeOK
  BY DEF Recovers, Types, HostTypes, StatusTypes, HeldTypes, DrillTypes, Scripts, Flags,
     Backup, TypeOK
<1> QED
  BY <1>1, RecoversAlways, PTL

(* Whatever fails, on whatever host: a backup reported as verified is      *)
(* there in full and holds the world as the stopped orchestrator left it,  *)
(* and a drill that leaves evidence has restored into an empty volume and  *)
(* has rolled back a restore that failed.  (That the bad archive was       *)
(* rejected, which the evidence says too, does not follow.)                *)
THEOREM VerifiedRecoveriesAreReal == Spec => []RecoveriesAreReal
<1>1. Recovers => RecoveriesAreReal
  <2> SUFFICES ASSUME Recovers
               PROVE  VerifiedIsCold
    BY DEF Recovers, RecoveriesAreReal
  <2>1. DOMAIN verified = 1 .. Len(verified)
    BY LenProperties DEF Recovers, Reported
  <2> QED
    BY <2>1 DEF Recovers, Reported, ReportOf, VerifiedIsCold
<1> QED
  BY <1>1, RecoversAlways, PTL

\* The same, with what holds where the trap's own commands do their work.
LEMMA RollbackAlways ==
    ASSUME UpIsAtomic, TrapWorks, ~LateInterrupt
    PROVE  Spec => [](Recovers /\ RolledBackTo /\ Whole)
<1>1. Init => RolledBackTo /\ Whole
  BY RecoveryAssumption DEF Init, RolledBackTo, Whole, World
<1>2. Recovers /\ RolledBackTo /\ Whole /\ [Next]_vars => RolledBackTo' /\ Whole'
  BY RolledBackToKept, WholeKept DEF Recovers, Scripts, Drills
<1> QED
  BY <1>1, <1>2, RecoversAlways, PTL DEF Spec

(* Where `docker compose up' starts all services or none, the trap's       *)
(* commands do not fail and no script is interrupted between a successful  *)
(* `up' and the clearing of its flags: no service runs without a whole     *)
(* world, unless the drill wiped the volume.                               *)
THEOREM RecoveryRunsOnWholeWorld ==
    ASSUME UpIsAtomic, TrapWorks, ~LateInterrupt
    PROVE  Spec => []RunsOnWholeWorld
<1>1. Recovers /\ RolledBackTo /\ Whole => RunsOnWholeWorld
  <2> SUFFICES ASSUME Recovers, RolledBackTo, Whole, running, ~wiped, mutated, at # "flags"
               PROVE  FALSE
    BY DEF RunsOnWholeWorld, Whole
  <2> USE DEF Recovers, Scripts
  <2>1. script = "restore"
    BY DEF Control, Types, StatusTypes
  <2>2. at \in Changing \/ at \in CleaningUp
    BY <2>1 DEF Control, Flags, RestoreAt, Commands, Changing, CleaningUp
  <2> QED
    BY <2>2 DEF Flags, RolledBackTo, Changing, CleaningUp, PastStop, Commands
<1> QED
  BY <1>1, RollbackAlways, PTL

(* There, a restore starts the services on the backup, or puts back what   *)
(* was there before, whichever command fails or is interrupted.            *)
THEOREM RecoveryRestoreIsAtomic ==
    ASSUME UpIsAtomic, TrapWorks, ~LateInterrupt
    PROVE  Spec => RestoreIsAtomic
<1> DEFINE Starts == ~running /\ running' /\ ~failed' =>
                        volume' = archive /\ archive \notin {Empty, Bad}
           Ends == script' = "none" /\ failed' /\ mutated => volume' = image
<1>1. ASSUME Recovers, RolledBackTo, [Next]_vars, script = "restore"
      PROVE  Starts /\ Ends
  <2> USE DEF Recovers, Scripts
  <2>1. CASE Up
    BY <1>1, <2>1 DEF Up, RestoreHolds
  <2>2. CASE Finish
    BY <1>1, <2>2 DEF Finish, Flags, CleaningUp, host
  <2>3. CASE Restart
    BY <1>1, <2>3 DEF Restart, Flags, RolledBackTo, CleaningUp
  <2>4. CASE Fail
    BY <1>1, <2>4 DEF Fail
  <2>5. CASE ~(Up \/ Finish \/ Restart \/ Fail)
    <3>1. script' = script /\ (running' => running)
      BY <1>1, <2>5 DEF Next, vars, host, shell, Save, ByOperator, StartBackup, StartRestore,
         Start, Stop, Archive, Upload, Check, Download, Verify, Image, Replace, Look, Do,
         Refuse, CleanUp, Unpack, BeginDrill, Expect, DrillStop, Wipe, DrillRestore,
         Compare, Spoil, Reject, Judge, Step, DrillFails
    <3> QED
      BY <1>1, <3>1
  <2> QED
    BY <2>1, <2>2, <2>3, <2>4, <2>5
<1>2. Recovers /\ RolledBackTo /\ [Next]_vars =>
        [script = "restore" =>
             /\ ~running /\ running' /\ ~failed' =>
                   volume' = archive /\ archive \notin {Empty, Bad}
             /\ script' = "none" /\ failed' /\ mutated => volume' = image]_vars
  BY <1>1
<1> QED
  BY <1>2, RollbackAlways, PTL DEF Spec, RestoreIsAtomic
=============================================================================
