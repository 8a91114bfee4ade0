------------------------------ MODULE Recovery ------------------------------
(***************************************************************************)
(* Backup and restore: two shell scripts on the game host, and the drill   *)
(* that runs both and writes evidence of a recovery.                       *)
(*                                                                         *)
(* Every command may fail and every script be interrupted; `set -e' and    *)
(* the EXIT trap turn both into a clean-up.  A signal is taken when the    *)
(* command that runs has ended, `docker compose up' too: its flags are not *)
(* cleared yet.  While the orchestrator runs, Paper writes to the volume.  *)
(* The world a volume or an archive holds is known by its number of saves. *)
(***************************************************************************)
EXTENDS Integers, Sequences

CONSTANTS
    MaxSaves,      \* bound: saves of the world
    MaxScripts,    \* bound: scripts started
    UpIsAtomic,    \* `docker compose up' starts all of its services or none
    TrapWorks,     \* the commands of the trap do not fail
    LateInterrupt  \* a script may be interrupted when the services are up and its
                   \* flags are not cleared

ASSUME RecoveryAssumption ==
    /\ MaxSaves \in Nat \ {0} /\ MaxScripts \in Nat
    /\ UpIsAtomic \in BOOLEAN /\ TrapWorks \in BOOLEAN /\ LateInterrupt \in BOOLEAN

World == 1 .. MaxSaves
Empty == 0
Bad == -1        \* the drill's archive, which has no level.dat
Partial == -2    \* wiped or unpacked in part, or over another world's files
NoImage == -3
Content == {Partial, Bad, Empty} \cup World

VARIABLES
    volume, running,  \* the worlds volume; the orchestrator is up
    remote,           \* R2: the backups by stamp, with whether all was uploaded
    script, at,       \* the script and its next command
    stopped, mutated, \* the flags that its trap reads
    failed,           \* its exit status is not 0
    stamp, archive,   \* the backup to restore; the archive in TMP
    image,            \* pre-restore-worlds.tar.gz
    scripts,          \* how many were started
    drill,            \* the drill's next step
    native,           \* the native data it compares with
    log,              \* the last restore wrote that it rolls back
    verified,         \* history: what the volume held when a verified backup's
                      \* orchestrator had stopped, by stamp
    happened,         \* history: what happened since the drill began
    wiped,            \* history: the volume lost its world to the drill
    evidence          \* what had happened in the drills that left their evidence

host == <<volume, running>>
shell == <<script, at, stopped, mutated, failed, stamp, archive, image>>
test == <<drill, native, evidence>>
history == <<verified, happened, wiped>>
vars == <<host, remote, shell, scripts, log, test, history>>

Claims == {"emptyRestore", "rejection", "rollback"}
Commands == {"stop", "archive", "upload", "check", "start",
             "download", "verify", "image", "replace", "look"}

\* Every variable keeps to its range; a script that may have changed the volume
\* holds the rollback image, and has stopped the orchestrator.
TypeOK ==
    /\ volume \in Content /\ running \in BOOLEAN
    /\ remote \in Seq([content : Content, complete : BOOLEAN])
    /\ script \in {"none", "backup", "restore"}
    /\ at \in Commands \cup {"none", "flags", "cleanup", "unpack", "restart"}
    /\ stopped \in BOOLEAN /\ mutated \in BOOLEAN /\ failed \in BOOLEAN
    /\ stamp \in 0 .. Len(remote) /\ archive \in Content /\ image \in Content \cup {NoImage}
    /\ drill \in {"none", "backup", "expect", "stop", "wipe", "restore", "compare",
                  "spoil", "reject", "judge"}
    /\ native \in Content /\ log \in BOOLEAN /\ wiped \in BOOLEAN
    /\ happened \subseteq Claims /\ evidence \subseteq SUBSET Claims
    /\ mutated => image # NoImage /\ (stopped \/ LateInterrupt)

Init ==
    /\ volume = 1 /\ running = TRUE /\ remote = <<>>
    /\ script = "none" /\ at = "none" /\ stopped = FALSE /\ mutated = FALSE
    /\ failed = FALSE /\ stamp = 0 /\ archive = Empty /\ image = NoImage
    /\ scripts = 0 /\ drill = "none" /\ native = Empty
    /\ log = FALSE /\ verified = <<>> /\ happened = {} /\ wiped = FALSE /\ evidence = {}

-----------------------------------------------------------------------------
\* Paper saves the world; on a volume without one it generates another.
Save ==
    /\ running /\ volume < MaxSaves
    /\ volume' = IF volume \in World THEN volume + 1 ELSE Partial
    /\ UNCHANGED <<running, remote, shell, scripts, log, test, history>>

Start(name, first, s) ==
    /\ script = "none" /\ scripts < MaxScripts
    /\ scripts' = scripts + 1
    /\ script' = name /\ at' = first /\ stamp' = s /\ failed' = FALSE /\ log' = FALSE
    /\ UNCHANGED <<stopped, mutated, archive, image>>

StartBackup == Start("backup", "stop", 0)

\* The stamp of a backup the operator knows of, which may have been cut short.
StartRestore(s) == s \in DOMAIN remote /\ Start("restore", "download", s)

ByOperator ==
    /\ drill = "none"
    /\ StartBackup \/ \E s \in 1 .. MaxScripts : StartRestore(s)
    /\ UNCHANGED <<host, remote, test, history>>

-----------------------------------------------------------------------------
(* The commands, when they succeed.                                        *)
Do(name, next) ==
    /\ at = name
    /\ at' = next
    /\ UNCHANGED <<script, failed, stamp, scripts, log, test, history>>

After == IF script = "backup" THEN "archive" ELSE "image"

\* The flag that makes the trap start the services again is never set.
StopUnnoted ==
    /\ Do("stop", After)
    /\ running' = FALSE
    /\ UNCHANGED <<volume, remote, stopped, mutated, archive, image>>

Stop ==
    /\ Do("stop", After)
    /\ running' = FALSE /\ stopped' = TRUE
    /\ UNCHANGED <<volume, remote, mutated, archive, image>>

Archive ==
    /\ Do("archive", "upload")
    /\ archive' = volume
    /\ UNCHANGED <<host, remote, stopped, mutated, image>>

Upload ==
    /\ Do("upload", "check")
    /\ remote' \in {Append(remote, [content |-> archive, complete |-> c]) : c \in BOOLEAN}
    /\ UNCHANGED <<host, stopped, mutated, archive, image>>

\* Trusting the upload.
CheckNothing ==
    /\ Do("check", "start")
    /\ UNCHANGED <<host, remote, stopped, mutated, archive, image>>

\* rclone check compares the remote objects with the local ones.
Check ==
    /\ Do("check", "start")
    /\ remote[Len(remote)].complete
    /\ UNCHANGED <<host, remote, stopped, mutated, archive, image>>

Download ==
    /\ Do("download", "verify")
    /\ archive' = remote[stamp].content
    /\ UNCHANGED <<host, remote, stopped, mutated, image>>

\* All files there, their checksum, the release in README.txt, the paths.
Verify ==
    /\ Do("verify", "stop")
    /\ remote[stamp].complete
    /\ UNCHANGED <<host, remote, stopped, mutated, archive, image>>

Image ==
    /\ Do("image", "replace")
    /\ image' = volume /\ mutated' = TRUE
    /\ UNCHANGED <<host, remote, stopped, archive>>

Replace ==
    /\ Do("replace", "look")
    /\ volume' = archive
    /\ UNCHANGED <<running, remote, stopped, mutated, archive, image>>

\* Any file will do.
LookAtAll ==
    /\ Do("look", "start")
    /\ volume # Empty
    /\ UNCHANGED <<host, remote, stopped, mutated, archive, image>>

\* At least one native level.dat, which a world in part may have as well.
Look ==
    /\ Do("look", "start")
    /\ volume \notin {Empty, Bad}
    /\ UNCHANGED <<host, remote, stopped, mutated, archive, image>>

Over ==
    /\ script' = "none" /\ at' = "none"
    /\ stopped' = FALSE /\ mutated' = FALSE
    /\ archive' = Empty /\ image' = NoImage

\* The services are up; what this means for the histories is settled here.
Up ==
    /\ at = "start" /\ at' = "flags"
    /\ running' = TRUE
    /\ verified' = IF script = "backup" THEN Append(verified, <<Len(remote), volume>>)
                   ELSE verified
    /\ wiped' = IF script = "restore" THEN archive = Partial ELSE wiped
    /\ UNCHANGED <<volume, remote, script, stopped, mutated, failed, stamp, archive, image,
                   scripts, log, test, happened>>

\* The flags are cleared and the script reports success.
Finish ==
    /\ at = "flags"
    /\ Over
    /\ happened' = IF script = "restore" /\ image = Empty
                   THEN happened \cup {"emptyRestore"} ELSE happened
    /\ UNCHANGED <<host, remote, failed, stamp, scripts, log, test, verified, wiped>>

-----------------------------------------------------------------------------
\* The restored volume has no world in it, so that the restore gives up.
Refuse ==
    /\ at = "look" /\ volume \in {Empty, Bad}
    /\ at' = "cleanup" /\ failed' = TRUE
    /\ happened' = happened \cup {"rejection"}
    /\ UNCHANGED <<host, remote, script, stopped, mutated, stamp, archive, image, scripts,
                   log, test, verified, wiped>>

\* A command fails or is interrupted, having had some effect or none.
Fail ==
    /\ at \in Commands \/ (LateInterrupt /\ at = "flags")
    /\ at' = "cleanup" /\ failed' = TRUE
    /\ stopped' \in {stopped} \cup IF at = "flags" THEN {FALSE} ELSE {}
    /\ mutated' \in {mutated} \cup IF at = "flags" /\ ~stopped' THEN {FALSE} ELSE {}
    /\ running' \in CASE at = "stop" -> {running, FALSE}
                      [] at = "start" -> IF UpIsAtomic THEN {running} ELSE BOOLEAN
                      [] OTHER -> {running}
    /\ volume' \in IF at = "replace" THEN {volume, Partial} ELSE {volume}
    /\ remote' \in {remote} \cup
          IF at = "upload" THEN {Append(remote, [content |-> archive, complete |-> FALSE])}
          ELSE {}
    /\ UNCHANGED <<script, stamp, archive, image, scripts, log, test, history>>

\* Starting the services before the volume is rolled back.
CleanUpServicesFirst ==
    /\ at = "cleanup"
    /\ at' = IF mutated /\ image # NoImage THEN "unpack" ELSE "restart"
    /\ volume' = IF mutated /\ image # NoImage THEN Empty ELSE volume
    /\ running' = (running \/ stopped)
    /\ log' = (mutated /\ image # NoImage)
    /\ UNCHANGED <<remote, script, stopped, mutated, failed, stamp, archive, image,
                   scripts, test, history>>

\* The trap: a volume that may have changed is wiped for its rollback image ...
CleanUp ==
    /\ at = "cleanup"
    /\ at' = IF mutated /\ image # NoImage THEN "unpack" ELSE "restart"
    /\ volume' = IF mutated /\ image # NoImage THEN Empty ELSE volume
    /\ log' = (mutated /\ image # NoImage)
    /\ UNCHANGED <<running, remote, script, stopped, mutated, failed, stamp, archive, image,
                   scripts, test, history>>

\* ... which is unpacked over whatever Paper wrote since ...
Unpack ==
    /\ at = "unpack" /\ at' = "restart"
    /\ volume' \in {IF volume = Empty THEN image ELSE Partial}
                      \cup IF TrapWorks THEN {} ELSE {Partial}
    /\ happened' = IF volume' = image THEN happened \cup {"rollback"} ELSE happened
    /\ UNCHANGED <<running, remote, script, stopped, mutated, failed, stamp, archive, image,
                   scripts, log, test, verified, wiped>>

\* ... and services that were stopped are started.  The image is deleted.
Restart ==
    /\ at = "restart"
    /\ running' \in {running \/ stopped} \cup IF TrapWorks THEN {} ELSE {running}
    /\ Over
    /\ UNCHANGED <<volume, remote, failed, stamp, scripts, log, test, history>>

-----------------------------------------------------------------------------
(* The drill: a backup, a restore into an emptied volume, and a restore of *)
(* an archive without a world, which must fail and be rolled back.         *)
BeginDrill ==
    /\ drill = "none" /\ volume \in World
    /\ StartBackup
    /\ drill' = "backup" /\ happened' = {}
    /\ UNCHANGED <<host, remote, native, evidence, verified, wiped>>

Step(from, to) ==
    /\ script = "none" /\ drill = from /\ drill' = to
    /\ UNCHANGED <<verified, happened>>

Expect ==
    /\ Step("backup", "stop") /\ ~failed
    /\ native' = remote[Len(remote)].content
    /\ UNCHANGED <<host, remote, shell, scripts, log, wiped, evidence>>

DrillStop ==
    /\ Step("stop", "wipe")
    /\ running' = FALSE
    /\ UNCHANGED <<volume, remote, shell, scripts, log, native, wiped, evidence>>

Wipe ==
    /\ Step("wipe", "restore")
    /\ volume' = Empty /\ wiped' = TRUE
    /\ UNCHANGED <<running, remote, shell, scripts, log, native, evidence>>

DrillRestore ==
    /\ Step("restore", "compare")
    /\ StartRestore(Len(remote))
    /\ UNCHANGED <<host, remote, native, wiped, evidence>>

Compare ==
    /\ Step("compare", "spoil") /\ ~failed
    /\ volume = native
    /\ UNCHANGED <<host, remote, shell, scripts, log, native, wiped, evidence>>

Spoil ==
    /\ Step("spoil", "reject")
    /\ remote' = Append(remote, [content |-> Bad, complete |-> TRUE])
    /\ UNCHANGED <<host, shell, scripts, log, native, wiped, evidence>>

Reject ==
    /\ Step("reject", "judge")
    /\ StartRestore(Len(remote))
    /\ UNCHANGED <<host, remote, native, wiped, evidence>>

\* It failed, said that it rolls back, and left the native data as it was.
RolledBack == failed /\ log /\ volume = native

Judge ==
    /\ Step("judge", "none")
    /\ RolledBack
    /\ evidence' = evidence \cup {happened}
    /\ remote' = SubSeq(remote, 1, Len(remote) - 1)
    /\ stamp' = 0
    /\ UNCHANGED <<host, script, at, stopped, mutated, failed, archive, image, scripts,
                   log, native, wiped>>

\* Any of the drill's own steps fails, or a script in it does; the bad archive is
\* purged.
DrillFails ==
    /\ drill # "none" /\ script = "none"
    /\ drill' = "none"
    /\ volume' \in IF drill = "wipe" THEN {volume, Partial} ELSE {volume}
    /\ wiped' = (wiped \/ volume' # volume)
    /\ running' \in IF drill = "stop" THEN {running, FALSE} ELSE {running}
    /\ remote' = IF drill \in {"reject", "judge"} THEN SubSeq(remote, 1, Len(remote) - 1)
                 ELSE remote
    /\ stamp' = 0
    /\ UNCHANGED <<script, at, stopped, mutated, failed, archive, image, scripts, log,
                   native, evidence, verified, happened>>

Next ==
    \/ Save \/ ByOperator
    \/ Stop \/ Archive \/ Upload \/ Check
    \/ Download \/ Verify \/ Image \/ Replace \/ Look \/ Refuse \/ Up \/ Finish
    \/ Fail \/ CleanUp \/ Unpack \/ Restart
    \/ BeginDrill \/ Expect \/ DrillStop \/ Wipe \/ DrillRestore \/ Compare
    \/ Spoil \/ Reject \/ Judge \/ DrillFails

Spec == Init /\ [][Next]_vars

\* A script that was started goes on to its end.
Fairness ==
    WF_vars(Stop \/ Archive \/ Upload \/ Check \/ Download \/ Verify \/ Image \/ Replace
               \/ Look \/ Refuse \/ Up \/ Finish \/ Fail \/ CleanUp \/ Unpack \/ Restart)

FairSpec == Spec /\ Fairness

-----------------------------------------------------------------------------
(* A backup reported as uploaded and verified is there in full and holds   *)
(* the world as the stopped orchestrator left it, with every save.         *)
VerifiedIsCold ==
    \A n \in DOMAIN verified :
        remote[verified[n][1]] = [content |-> verified[n][2], complete |-> TRUE]

(* A restore starts the services on the backup, if it succeeds, and leaves *)
(* the very world that was there before, if it fails after it began to     *)
(* change the volume.                                                      *)
RestoreIsAtomic ==
    [][script = "restore" =>
           /\ ~running /\ running' /\ ~failed' =>
                 volume' = archive /\ archive \notin {Empty, Bad}
           /\ script' = "none" /\ failed' /\ mutated => volume' = image]_vars

(* But on the host whose volume the drill wiped, no service ever runs      *)
(* without a whole world, whatever fails and when.                         *)
RunsOnWholeWorld == running /\ ~wiped => volume \in World

(* The evidence file says that an empty volume was restored and that a     *)
(* failed restore was rolled back: both happened in that drill.            *)
RecoveriesHappened == \A e \in evidence : {"emptyRestore", "rollback"} \subseteq e

(* What the scripts report of a backup and the drill of its recoveries is  *)
(* so.                                                                     *)
RecoveriesAreReal == VerifiedIsCold /\ RecoveriesHappened

(* The evidence file also says that the archive without a world was        *)
(* rejected after the volume had changed.  The drill only knows that the   *)
(* restore failed and rolled back.                                         *)
RejectionHappened == \A e \in evidence : "rejection" \in e

(* Once a script is past stopping the orchestrator the services run again,  *)
(* however it ends.                                                        *)
PastStop == Commands \ {"download", "verify", "stop"}
ServicesReturn == at \in PastStop ~> running
=============================================================================
