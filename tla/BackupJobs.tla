------------------------------ MODULE BackupJobs ------------------------------
(***************************************************************************)
(* The jobs of the backup system (run-backups, run-recover, check-recover  *)
(* and the settings page), the configuration file they share, and the      *)
(* directories they keep on the backup server:                             *)
(*                                                                         *)
(*     _Backup_<t>   a backup being made, or one that was not finished     *)
(*     Latest_<t>    the last backup that was finished                     *)
(*     Backup_<t>    the ones before it                                    *)
(*                                                                         *)
(* The lock is TryLock, which BackupLock refines: one owner, released when *)
(* the owner ends.  A job works on the configuration it has read; the file *)
(* may have changed since.                                                 *)
(***************************************************************************)
EXTENDS Naturals, FiniteSets, FiniteSetsExt

CONSTANTS
    Backups,      \* runs of run-backups that may be under way at the same time
    Recovers,     \* runs of run-recover
    Killable,     \* the runs that may be killed
    MaxRuns,      \* backups started in all (bound)
    MaxCrashes,   \* jobs killed in all (bound)
    Failures      \* what may fail: "copy" (rsync, and the ownership records),
                  \* "list" (ls), "mv" and "rm" on the server, "refuse" (the
                  \* connection, the transport or a hook), "recover" (the rsync
                  \* of a recovery)

None   == 0
Jobs   == Backups \cup Recovers
Stamps == 1..MaxRuns

ASSUME JobsAssumption ==
    /\ Backups \cap Recovers = {} /\ None \notin Jobs /\ Killable \subseteq Jobs
    /\ MaxRuns \in Nat \ {0} /\ MaxCrashes \in Nat
    /\ Failures \subseteq {"copy", "list", "mv", "rm", "refuse", "recover"}

VARIABLES
    cfg,       \* the configuration file: Enabled and Recover
    disk,      \* the system's own files: whole, or partly those of a backup
    store,     \* the directory of each time stamp on the server
    full,      \* the stamps whose directory is a whole copy of the system
    mixed,     \* those copied while the system was a mixture itself
    clock,     \* the next time stamp
    owner,     \* the owner of the lock
    pc, my,    \* where each job is, and the configuration it has read
    stamp,     \* self.timesuffix of a run-backups
    from,      \* the Latest it moved aside; the backup a recovery reads
    check,     \* check-recover: off, has read that a recovery is asked for, fires
    crashes,   \* jobs killed so far
    newest,    \* (history) the stamp of the last backup finished
    mishap     \* (history) something happened that the directories or a recovery
               \* do not get over

remote  == <<store, full, mixed>>
history == <<newest, mishap>>
vars == <<cfg, disk, remote, clock, owner, pc, my, stamp, from, check, crashes, history>>

Config == [enabled : BOOLEAN, recover : BOOLEAN]

Init ==
    /\ cfg \in Config
    /\ disk = "whole"
    /\ store = [s \in Stamps |-> "none"] /\ full = {} /\ mixed = {}
    /\ clock = 1 /\ owner = None
    /\ pc = [j \in Jobs |-> "off"]
    /\ my = [j \in Jobs |-> cfg]
    /\ stamp = [j \in Backups |-> None]
    /\ from  = [j \in Jobs |-> None]
    /\ check = "off" /\ crashes = 0
    /\ newest = None /\ mishap = FALSE

Go(j, l) == pc' = [pc EXCEPT ![j] = l]

\* unlockit, and what the job does next
Leave(j, l) == owner' = None /\ Go(j, l)

May(f) == f \in Failures

-----------------------------------------------------------------------------
(* The directories                                                         *)

Named(n) == {s \in Stamps : store[s] = n}

\* getBackups and getLatestTstamp: the first name ls prints, if any
FirstOf(S) == IF S = {} THEN None ELSE Min(S)

\* the history: an error has shown nothing where there is a latest backup
Mishap == mishap' = TRUE
Overlooks(l) == mishap' = (mishap \/ l # FirstOf(Named("Latest")))

LatestSeen == {FirstOf(Named("Latest"))} \cup (IF May("list") THEN {None} ELSE {})

\* rm -rf _Backup_*
NoParts(d) == [s \in Stamps |-> IF d[s] = "part" THEN "none" ELSE d[s]]

Cleaned(d) == {NoParts(d)} \cup (IF May("rm") THEN {d} ELSE {})

\* more than one older backup (no part of the specification: the code's list
\* ends with an empty name, and asks for more than two)
TooFewOne(S) == Cardinality(S) < 1

TooFew(S) == Cardinality(S) < 2

-----------------------------------------------------------------------------
(* The settings page and cron                                              *)

\* settings.set: the user writes a configuration, and a recovery that is
\* asked for is started at once
UserSets(c) ==
    /\ cfg' = c
    /\ IF c.recover /\ \E r \in Recovers : pc[r] = "off"
       THEN \E r \in Recovers : pc[r] = "off" /\ Go(r, "loop")
       ELSE UNCHANGED pc
    /\ UNCHANGED <<disk, remote, clock, owner, my, stamp, from, check, crashes, history>>

\* check-recover reads the configuration
CheckReads ==
    /\ check = "off" /\ cfg.recover
    /\ check' = "asked"
    /\ UNCHANGED <<cfg, disk, remote, clock, owner, pc, my, stamp, from, crashes, history>>

\* it gets the lock and releases it; or it gives up
CheckLocks ==
    /\ check = "asked"
    /\ check' \in (IF owner = None THEN {"fire"} ELSE {"off"})
    /\ UNCHANGED <<cfg, disk, remote, clock, owner, pc, my, stamp, from, crashes, history>>

\* at(1) starts run-recover
CheckFires ==
    /\ check = "fire"
    /\ check' = "off"
    /\ \E r \in Recovers : IF pc[r] = "off" THEN Go(r, "loop") ELSE UNCHANGED pc
    /\ UNCHANGED <<cfg, disk, remote, clock, owner, my, stamp, from, crashes, history>>

-----------------------------------------------------------------------------
(* run-backups                                                             *)

\* its Backup object reads the configuration and the time; started by cron
\* only if backups are enabled
Start(j) ==
    /\ pc[j] = "off" /\ clock \in Stamps
    /\ ~cfg.recover
    /\ stamp' = [stamp EXCEPT ![j] = clock] /\ clock' = clock + 1
    /\ my' = [my EXCEPT ![j] = cfg]
    /\ Go(j, "lock")
    /\ UNCHANGED <<cfg, disk, remote, owner, from, check, crashes, history>>

\* the lock is not waited for (no part of the specification)
LockBlindly(j) ==
    /\ pc[j] = "lock"
    /\ owner' = j
    /\ Go(j, "locked")
    /\ UNCHANGED <<cfg, disk, remote, clock, my, stamp, from, check, crashes, history>>

Lock(j) ==
    /\ pc[j] = "lock" /\ owner = None
    /\ owner' = j
    /\ Go(j, "locked")
    /\ UNCHANGED <<cfg, disk, remote, clock, my, stamp, from, check, crashes, history>>

LockFails(j) ==
    /\ pc[j] = "lock" /\ owner # None
    /\ Go(j, "off")
    /\ UNCHANGED <<cfg, disk, remote, clock, owner, my, stamp, from, check, crashes, history>>

\* the server, the transport or the prebackup hook fails, or backups are not
\* enabled
Refused(j) ==
    /\ pc[j] = "locked" /\ (~my[j].enabled \/ May("refuse"))
    /\ Leave(j, "off")
    /\ UNCHANGED <<cfg, disk, remote, clock, my, stamp, from, check, crashes, history>>

\* start(): what it has read says that no recovery is pending
Begin(j) ==
    /\ pc[j] = "locked" /\ my[j].enabled /\ ~my[j].recover
    /\ store' = [store EXCEPT ![stamp[j]] = "part"]
    /\ Go(j, "room")
    /\ UNCHANGED <<cfg, disk, full, mixed, clock, owner, my, stamp, from, check, crashes, history>>

\* too little space: deleteOldest, and measure again
DeleteOldest(j) ==
    /\ pc[j] = "room" /\ ~TooFew(Named("Backup"))
    /\ LET s == FirstOf(Named("Backup"))
       IN /\ full' = full \ {s}
          /\ store' = [store EXCEPT ![s] = "none"]
    /\ UNCHANGED <<cfg, disk, mixed, clock, owner, pc, my, stamp, from, check, crashes, history>>

\* it cannot delete more, perhaps after it has deleted a part of the oldest:
\* start returns True, with what it made left behind
NoRoom(j) ==
    /\ pc[j] = "room"
    /\ full' \in {full} \cup (IF May("rm") /\ ~TooFew(Named("Backup"))
                              THEN {full \ {FirstOf(Named("Backup"))}} ELSE {})
    /\ Leave(j, "off")
    /\ UNCHANGED <<cfg, disk, store, mixed, clock, my, stamp, from, check, crashes, history>>

EnoughRoom(j) ==
    /\ pc[j] = "room"
    /\ Go(j, "copy")
    /\ UNCHANGED <<cfg, disk, remote, clock, owner, my, stamp, from, check, crashes, history>>

\* the ownership records cannot be written: what it made is left behind
RecordsFail(j) ==
    /\ pc[j] = "copy" /\ May("copy")
    /\ Leave(j, "off")
    /\ UNCHANGED <<cfg, disk, remote, clock, my, stamp, from, check, crashes, history>>

\* every rsync succeeds
Copy(j) ==
    /\ pc[j] = "copy"
    /\ full' = full \cup {stamp[j]}
    /\ mixed' = IF disk = "mixed" THEN mixed \cup {stamp[j]} ELSE mixed
    /\ Go(j, "aside")
    /\ UNCHANGED <<cfg, disk, store, clock, owner, my, stamp, from, check, crashes, history>>

\* something failed: remove anything we created
GiveUp(j, d) ==
    /\ store' \in Cleaned(d)
    /\ Leave(j, "off")
    /\ UNCHANGED <<cfg, disk, full, mixed, clock, my, stamp, from, check, crashes, newest>>

CopyFails(j) ==
    pc[j] = "copy" /\ May("copy") /\ GiveUp(j, store) /\ UNCHANGED mishap

\* mv Latest_<t> Backup_<t>, of the Latest it sees
MoveAside(j) ==
    /\ pc[j] = "aside"
    /\ \E l \in LatestSeen :
          /\ from' = [from EXCEPT ![j] = l]
          /\ store' = IF l = None THEN store ELSE [store EXCEPT ![l] = "Backup"]
          /\ Overlooks(l)
    /\ Go(j, "publish")
    /\ UNCHANGED <<cfg, disk, full, mixed, clock, owner, my, stamp, check, crashes, newest>>

MoveAsideFails(j) ==
    pc[j] = "aside" /\ May("mv") /\ Named("Latest") # {} /\ GiveUp(j, store) /\ Mishap

\* mv _Backup_<t> Latest_<t>
Publish(j) ==
    /\ pc[j] = "publish"
    /\ store' = [store EXCEPT ![stamp[j]] = "Latest"]
    /\ newest' = stamp[j]
    /\ from' = [from EXCEPT ![j] = None]
    /\ Leave(j, "off")
    /\ UNCHANGED <<cfg, disk, full, mixed, clock, my, stamp, check, crashes, mishap>>

\* the move fails; so may the move that puts the former Latest back
PublishFails(j) ==
    /\ pc[j] = "publish" /\ May("mv")
    /\ \E d \in {store} \cup (IF from[j] = None THEN {}
                              ELSE {[store EXCEPT ![from[j]] = "Latest"]}) : GiveUp(j, d)
    /\ Mishap

BackupStep(j) ==
    \/ Lock(j) \/ LockFails(j) \/ Refused(j) \/ Begin(j) \/ DeleteOldest(j) \/ NoRoom(j)
    \/ EnoughRoom(j) \/ RecordsFail(j) \/ Copy(j) \/ CopyFails(j) \/ MoveAside(j)
    \/ MoveAsideFails(j) \/ Publish(j) \/ PublishFails(j)

-----------------------------------------------------------------------------
(* run-recover                                                             *)

\* each pass reads the configuration; no recovery asked for ends the job
Loop(r) ==
    /\ pc[r] = "loop"
    /\ my' = [my EXCEPT ![r] = cfg]
    /\ Go(r, IF cfg.recover THEN "lock" ELSE "off")
    /\ UNCHANGED <<cfg, disk, remote, clock, owner, stamp, from, check, crashes, history>>

RLock(r) ==
    /\ pc[r] = "lock"
    /\ IF owner = None
       THEN owner' = r /\ Go(r, "locked")
       ELSE Go(r, "loop") /\ UNCHANGED owner
    /\ UNCHANGED <<cfg, disk, remote, clock, my, stamp, from, check, crashes, history>>

\* the server refuses, which ends the job; or a hook or the dry run fails
RRefused(r) ==
    /\ pc[r] = "locked"
    /\ \/ May("refuse") /\ Leave(r, "off") /\ Mishap
       \/ May("refuse") /\ Leave(r, "loop") /\ Mishap
       \/ None \in LatestSeen /\ Leave(r, "loop") /\ Overlooks(None)
    /\ UNCHANGED <<cfg, disk, remote, clock, my, stamp, from, check, crashes, newest>>

\* recover(): the files of the Latest it sees start to replace the system's
RBegin(r) ==
    /\ pc[r] = "locked"
    /\ \E l \in LatestSeen \ {None} : from' = [from EXCEPT ![r] = l]
    /\ disk' = "mixed"
    /\ Go(r, "copy")
    /\ UNCHANGED <<cfg, remote, clock, owner, my, stamp, check, crashes, history>>

\* the rsync ends well, or not: its exit code is logged, and nothing else
RCopy(r) ==
    /\ pc[r] = "copy"
    /\ \/ Go(r, "copied")
       \/ May("recover") /\ Go(r, "broken")
    /\ UNCHANGED <<cfg, disk, remote, clock, owner, my, stamp, from, check, crashes, history>>

\* the permissions cannot be restored: the next pass tries again
RPermsFail(r) ==
    /\ pc[r] \in {"copied", "broken"} /\ May("recover")
    /\ Leave(r, "loop") /\ Mishap
    /\ UNCHANGED <<cfg, disk, remote, clock, my, stamp, from, check, crashes, newest>>

\* a recovery that leaves the flag alone (no part of the specification)
RecoveredSilently(r) ==
    /\ pc[r] \in {"copied", "broken"}
    /\ disk' = IF pc[r] = "copied" /\ from[r] \in full \ mixed THEN "whole" ELSE "mixed"
    /\ Go(r, "done")
    /\ UNCHANGED <<cfg, remote, clock, owner, my, stamp, from, check, crashes, history>>

\* the permissions are restored; setRecover(False) writes the configuration
\* the job has read
Recovered(r) ==
    /\ pc[r] \in {"copied", "broken"}
    /\ disk' = IF pc[r] = "copied" /\ from[r] \in full \ mixed THEN "whole" ELSE "mixed"
    /\ cfg' = [my[r] EXCEPT !.recover = FALSE]
    /\ Go(r, "done")
    /\ UNCHANGED <<remote, clock, owner, my, stamp, from, check, crashes, history>>

RUnlock(r) ==
    /\ pc[r] = "done"
    /\ from' = [from EXCEPT ![r] = None]
    /\ Leave(r, "loop")
    /\ UNCHANGED <<cfg, disk, remote, clock, my, stamp, check, crashes, history>>

RecoverStep(r) ==
    \/ Loop(r) \/ RLock(r) \/ RRefused(r) \/ RBegin(r) \/ RCopy(r)
    \/ RPermsFail(r) \/ Recovered(r) \/ RUnlock(r)

-----------------------------------------------------------------------------
\* a job is killed; the kernel releases its lock
Crash(j) ==
    /\ j \in Killable /\ pc[j] # "off" /\ crashes < MaxCrashes
    /\ crashes' = crashes + 1
    /\ Go(j, "off")
    /\ from' = [from EXCEPT ![j] = None]
    /\ owner' = IF owner = j THEN None ELSE owner
    /\ mishap' = (mishap \/ j \in Backups)
    /\ UNCHANGED <<cfg, disk, remote, clock, my, stamp, check, newest>>

Next ==
    \/ \E c \in Config : UserSets(c)
    \/ CheckReads \/ CheckLocks \/ CheckFires
    \/ \E j \in Backups : Start(j) \/ BackupStep(j)
    \/ \E r \in Recovers : RecoverStep(r)
    \/ \E j \in Jobs : Crash(j)

Spec == Init /\ [][Next]_vars

\* jobs go on to their end, cron runs check-recover every minute; nothing is
\* assumed of the user, or of the backups cron or the user start
FairSpec ==
    /\ Spec
    /\ \A j \in Backups : WF_vars(BackupStep(j))
    /\ \A r \in Recovers : WF_vars(RecoverStep(r))
    /\ WF_vars(CheckReads) /\ WF_vars(CheckLocks) /\ WF_vars(CheckFires)

-----------------------------------------------------------------------------
\* Two states are the same for a run when they differ only in what is not read any
\* more: the variables of a job that has ended, the configuration a job has made up its
\* mind about, and whether a directory that is gone was whole.
Read(S, f) == {<<j, f[j]>> : j \in S}

Running ==
    LET live == {j \in Jobs : pc[j] # "off"}
        kept == {s \in Stamps : store[s] # "none"}
    IN <<cfg, disk, store, full \cap kept, mixed \cap kept, clock, owner, pc, check, crashes,
         history, Read(live, from), Read(live \cap Backups, stamp),
         Read({j \in live : pc[j] \notin {"loop", "room", "aside", "publish", "done"}
                              /\ ~(j \in Backups /\ pc[j] = "copy")}, my)>>

-----------------------------------------------------------------------------
(* Properties                                                              *)

BackupPlaces  == {"off", "lock", "locked", "room", "copy", "aside", "publish"}
RecoverPlaces == {"off", "loop", "lock", "locked", "copy", "copied", "broken", "done"}

\* Type invariant: files, directories and jobs keep their types.
TypeOK ==
    /\ cfg \in Config /\ my \in [Jobs -> Config]
    /\ disk \in {"whole", "mixed"}
    /\ store \in [Stamps -> {"none", "part", "Latest", "Backup"}]
    /\ full \subseteq Stamps /\ mixed \subseteq Stamps
    /\ clock \in 1..(MaxRuns + 1)
    /\ owner \in Jobs \cup {None}
    /\ pc \in [Jobs -> BackupPlaces \cup RecoverPlaces]
    /\ \A j \in Backups : pc[j] \in BackupPlaces
    /\ \A r \in Recovers : pc[r] \in RecoverPlaces
    /\ stamp \in [Backups -> Stamps \cup {None}]
    /\ from \in [Jobs -> Stamps \cup {None}]
    /\ check \in {"off", "asked", "fire"}
    /\ crashes \in 0..MaxCrashes
    /\ newest \in Stamps \cup {None} /\ mishap \in BOOLEAN

Finished == Named("Latest") \cup Named("Backup")

(***************************************************************************)
(* Once a backup has been finished, a whole one is on the server for ever, *)
(* under a name that recoveries know: whatever fails, whoever is killed    *)
(* between two moves, and however often space runs out.                    *)
(***************************************************************************)
KeepsACopy == newest # None => Finished \cap full # {}

(***************************************************************************)
(* The backup that a recovery reads stays where it is while it is read: no *)
(* backup moves it aside or deletes it, whoever is killed.                 *)
(***************************************************************************)
SourceStays ==
    \A r \in Recovers :
        pc[r] \in {"copy", "copied", "broken"} => store[from[r]] = "Latest"

(***************************************************************************)
(* The directories implement the shelf, until ls overlooks a backup, mv    *)
(* fails or a backup is killed: between its two moves the former Latest    *)
(* still counts as the latest.                                             *)
(***************************************************************************)
Aside == {from[j] : j \in {b \in Backups : pc[b] = "publish"}} \ {None}

Shelf == INSTANCE BackupShelf
            WITH latest <- IF Aside # {} THEN Min(Aside) ELSE FirstOf(Named("Latest")),
                 older  <- Named("Backup") \ Aside

ImplementsShelf ==
    Shelf!Init /\ [][~mishap' => Shelf!Next \/ UNCHANGED Shelf!shelf]_vars

(***************************************************************************)
(* "The standing recovery flag will drive this" (check-recover:5): a       *)
(* recovery that is asked for, with a backup to recover from, is carried   *)
(* out, or no longer asked for, also if run-recover is killed or rsync     *)
(* fails; unless the server refuses it, a move fails or a backup is killed.*)
(***************************************************************************)
RecoveryIsServed == cfg.recover /\ newest # None ~> ~cfg.recover \/ mishap

-----------------------------------------------------------------------------
(* What the comments say, and the code does not do                         *)

(***************************************************************************)
(* "IF A RECOVERY IS BEING ASKED FOR - DO NOT BACKUP ANYTHING!"            *)
(* (run-backups:22): no backup begins while a recovery is asked for.       *)
(***************************************************************************)
NoBackupWhenAsked ==
    [][\A j \in Backups : pc[j] = "locked" /\ pc'[j] = "room" => ~cfg.recover]_vars

(***************************************************************************)
(* "A successful recovery will reset the standing recovery flag."          *)
(* (check-recover:7): a job that has reset it has recovered the system.    *)
(***************************************************************************)
ResetMeansRecovered == \A r \in Recovers : pc[r] = "done" => disk = "whole"

(***************************************************************************)
(* "get the timestamp of the latest backup , if any" (backups.py:195): the *)
(* Latest that recoveries use, when no backup is under way, is the last    *)
(* backup that was finished.                                               *)
(***************************************************************************)
LatestIsNewest == owner \notin Backups => FirstOf(Named("Latest")) = newest

(***************************************************************************)
(* "something failed - remove anything we created on the backup target"    *)
(* (backups.py:572): when nobody is killed and rm does not fail, no        *)
(* _Backup_ directory outlives its job.                                    *)
(***************************************************************************)
NoLeftovers == owner = None /\ crashes = 0 => Named("part") = {}

(***************************************************************************)
(* "The standing recovery flag will drive this" (check-recover:5): a       *)
(* recovery that is asked for, when a backup has been made, ends or comes  *)
(* to find the latest one.                                                 *)
(***************************************************************************)
FlagDrives == cfg.recover /\ newest # None ~> ~cfg.recover \/ Named("Latest") # {}
=============================================================================
