------------------------------ MODULE WalArchive ------------------------------
(***************************************************************************)
(* The continuous archiving between two backups.  The database hands its   *)
(* log segments over one by one, each until the archiver exits with 0.     *)
(* The archiver puts the segment in a directory of its own, unless that    *)
(* holds too many already, and then, if no backup is running and the       *)
(* backup server answers, sends all the directory holds into the latest    *)
(* backup and removes it.  A run that had to leave its segment out asks    *)
(* for a new backup once it has sent the rest.                             *)
(*                                                                         *)
(* The database (archive_command of postgresql.conf) is external, and so   *)
(* is a backup, which is here what BackupJobs and BackupLock make of it:   *)
(* one that holds the lock and may become the latest.                      *)
(***************************************************************************)
EXTENDS Integers, FiniteSets, FiniteSetsExt

CONSTANTS
    Limit,      \* files above which a segment is left out (60)
    Faults,     \* what may fail: "store", "setup", "send", "at", "crash"
    MaxWal,     \* segments (bound)
    MaxBackups, \* backups (bound)
    MaxToggles  \* times the user turns backups on or off (bound)

Segments == 1..MaxWal
NoBackup == 0

ASSUME WalAssumption ==
    /\ Limit \in Nat /\ MaxWal \in Nat \ {0} /\ MaxBackups \in Nat /\ MaxToggles \in Nat
    /\ Faults \subseteq {"store", "setup", "send", "at", "crash"}

VARIABLES
    seg,        \* the segment the database hands over
    pc,         \* the archiver's process
    triggered, tStamp,
    local,      \* the archive directory
    whole,      \* segments whose last hand-over wrote their file to its end
    sent,       \* the backup each segment was sent to last
    lock,       \* who holds the backups' lock
    latest, base,       \* the latest backup; the last segment it does not need
    started,    \* the same of the backup that is running
    asked,      \* a backup was asked for, with at(1)
    enabled, toggles

archiver == <<pc, triggered, tStamp>>
store    == <<local, whole, sent>>
backup   == <<latest, base, started>>
user     == <<enabled, toggles>>
vars     == <<seg, archiver, store, lock, backup, asked, user>>

Init ==
    /\ seg = 1 /\ pc = "idle" /\ triggered = FALSE /\ tStamp = NoBackup
    /\ local = {} /\ whole = {} /\ sent = [s \in Segments |-> NoBackup]
    /\ lock = "free" /\ latest = NoBackup /\ base = 0 /\ started = 0
    /\ asked = FALSE /\ enabled = TRUE /\ toggles = 0

May(fault) == fault \in Faults

\* The archiver's process ends, with a status that the database takes for "kept";
\* or with another one, and the segment is handed over again.
Exit   == pc' = "idle" /\ seg' = seg + 1
Failed == pc' = "idle" /\ seg' = seg

Unlock == lock' = "free"

-----------------------------------------------------------------------------
(* The archiver                                                            *)

Call ==
    /\ pc = "idle" /\ seg \in Segments
    /\ IF enabled THEN pc' = "called" /\ seg' = seg ELSE Exit
    /\ triggered' = FALSE /\ tStamp' = NoBackup /\ whole' = whole \ {seg}
    /\ UNCHANGED <<local, sent, lock, backup, asked, user>>

\* No part of the specification: off by one.
Fuller == Cardinality(local) > Limit + 1

Full == Cardinality(local) > Limit

LeaveOut ==
    /\ pc = "called" /\ Full
    /\ triggered' = TRUE /\ pc' = "lock"
    /\ UNCHANGED <<seg, tStamp, store, lock, backup, asked, user>>

Store ==
    /\ pc = "called" /\ ~Full
    /\ local' = local \cup {seg} /\ whole' = whole \cup {seg}
    /\ pc' = "lock"
    /\ UNCHANGED <<seg, triggered, tStamp, sent, lock, backup, asked, user>>

\* No directory, or no room for the file, of which a part may be left.
StoreFails ==
    /\ May("store") /\ pc = "called"
    /\ \/ local' = local /\ whole' = whole
       \/ ~Full /\ local' = local \cup {seg} /\ whole' = whole \ {seg}
    /\ Exit
    /\ UNCHANGED <<triggered, tStamp, sent, lock, backup, asked, user>>

\* No part of the specification: the backup that runs is not waited for.
LockNot ==
    /\ pc = "lock"
    /\ pc' = "setup"
    /\ lock' = IF lock = "free" THEN "archiver" ELSE lock
    /\ UNCHANGED <<seg, triggered, tStamp, store, backup, asked, user>>

Lock ==
    /\ pc = "lock"
    /\ IF lock = "free" THEN lock' = "archiver" /\ pc' = "setup" /\ seg' = seg
                        ELSE lock' = lock /\ Exit
    /\ UNCHANGED <<triggered, tStamp, store, backup, asked, user>>

\* The latest backup's name is read, if there is one.
Setup ==
    /\ pc = "setup"
    /\ IF latest = NoBackup THEN Exit /\ Unlock
                            ELSE pc' = "send" /\ UNCHANGED <<seg, lock>>
    /\ tStamp' = latest
    /\ UNCHANGED <<triggered, store, backup, asked, user>>

\* No part of the specification: the lock is kept.
SetupFailsLocked ==
    /\ May("setup") /\ pc = "setup"
    /\ Exit /\ UNCHANGED lock
    /\ UNCHANGED <<triggered, tStamp, store, backup, asked, user>>

SetupFails ==
    /\ May("setup") /\ pc = "setup"
    /\ Exit /\ Unlock
    /\ UNCHANGED <<triggered, tStamp, store, backup, asked, user>>

\* No part of the specification: in another order.
Newest == Max(local)

\* The files are sent in the order of their names.
First == Min(local)

Send ==
    /\ pc = "send" /\ local # {}
    /\ sent' = [sent EXCEPT ![First] = tStamp]
    /\ pc' = "unlink"
    /\ UNCHANGED <<seg, triggered, tStamp, local, whole, lock, backup, asked, user>>

Unlink ==
    /\ pc = "unlink"
    /\ local' = local \ {First}
    /\ pc' = "send"
    /\ UNCHANGED <<seg, triggered, tStamp, whole, sent, lock, backup, asked, user>>

\* No part of the specification: the failure is not noticed.
SendFailsUnseen ==
    /\ May("send") /\ pc = "send" /\ local # {}
    /\ pc' = "unlink"
    /\ UNCHANGED <<seg, triggered, tStamp, store, lock, backup, asked, user>>

\* The lock is given back; the message that would tell why uses a name that is not
\* defined, and that ends the process.
SendFails ==
    /\ May("send") /\ pc = "send" /\ local # {}
    /\ Failed /\ Unlock
    /\ UNCHANGED <<triggered, tStamp, store, backup, asked, user>>

\* All has been sent.
Finish ==
    /\ pc = "send" /\ local = {}
    /\ asked' \in IF ~triggered THEN {asked}
                  ELSE {TRUE} \cup IF May("at") THEN {asked} ELSE {}
    /\ Exit /\ Unlock
    /\ UNCHANGED <<triggered, tStamp, store, backup, user>>

\* Killed: a file that was being written is a part of one.  The kernel gives the
\* lock back.
Crash ==
    /\ May("crash") /\ pc # "idle"
    /\ \/ UNCHANGED <<local, whole>>
       \/ /\ pc = "called" /\ ~Full
          /\ local' = local \cup {seg} /\ whole' = whole \ {seg}
    /\ Failed
    /\ lock' = IF lock = "archiver" THEN "free" ELSE lock
    /\ UNCHANGED <<triggered, tStamp, sent, backup, asked, user>>

-----------------------------------------------------------------------------
(* A backup: the cron job's, or the one that was asked for                 *)

BackupStarts ==
    /\ lock = "free" /\ latest < MaxBackups
    /\ lock' = "backup" /\ started' = seg - 1 /\ asked' = FALSE
    /\ UNCHANGED <<seg, archiver, store, latest, base, user>>

BackupEnds ==
    /\ lock = "backup" /\ Unlock
    /\ \/ latest' = latest + 1 /\ base' = started
       \/ UNCHANGED <<latest, base>>
    /\ UNCHANGED <<seg, archiver, store, started, asked, user>>

Toggle ==
    /\ toggles < MaxToggles
    /\ toggles' = toggles + 1 /\ enabled' = ~enabled
    /\ UNCHANGED <<seg, archiver, store, lock, backup, asked>>

-----------------------------------------------------------------------------
Archiver == \/ Call \/ LeaveOut \/ Store \/ StoreFails \/ Lock \/ Setup \/ SetupFails
            \/ Send \/ Unlink \/ SendFails \/ Finish \/ Crash
Next     == Archiver \/ BackupStarts \/ BackupEnds \/ Toggle

Spec == Init /\ [][Next]_vars

-----------------------------------------------------------------------------
\* Type invariant; and the archiver holds the lock exactly while it sends.
TypeOK ==
    /\ seg \in 1..(MaxWal + 1)
    /\ pc \in {"idle", "called", "lock", "setup", "send", "unlink"}
    /\ triggered \in BOOLEAN /\ tStamp \in 0..MaxBackups
    /\ local \subseteq Segments /\ whole \subseteq Segments
    /\ sent \in [Segments -> 0..MaxBackups]
    /\ lock \in {"free", "archiver", "backup"}
    /\ (lock = "archiver") <=> (pc \in {"setup", "send", "unlink"})
    /\ latest \in 0..MaxBackups /\ base \in 0..MaxWal /\ started \in 0..MaxWal
    /\ asked \in BOOLEAN /\ enabled \in BOOLEAN /\ toggles \in 0..MaxToggles

Answered == 1..(seg - 1)
IsSent(s) == sent[s] # NoBackup

\* A segment that the archiver wrote to its end is in its directory or at the backup
\* server, through failing transfers and killed processes (archiver, the
\* loop over the directory).
StoredStays == \A s \in whole : s \in local \/ IsSent(s)

\* What waits in the directory is never older than what was sent: a recovery reads
\* the segments in their order, and those that were sent have no gap that is still
\* waiting here (archiver: "for fileName in sorted(os.listdir(archiveDir))").
SentInOrder == \A s \in local, t \in Segments : IsSent(t) => t <= s

\* A segment that the latest backup needs, that was written and that does not wait here
\* was sent to that backup, not to the one before (archiver: "we only get busy
\* between backups").
SentToLatest ==
    \A s \in (Answered \cap whole) \ local : s > base => sent[s] = latest

\* A backup server that is away does not fill the disk (archiver: "We need to limit
\* the number of wal files we keep around when the backup server is unreachable").
LocalBounded == Cardinality(local) <= Limit + 1

Lost == {s \in Answered : s \notin whole \/ ~(s \in local \/ IsSent(s))}

\* When all has been sent and a segment that the latest backup needs is missing,
\* a backup has been started since, or asked for (archiver: "check if it was gone for more then 60
\* archiver runs which would mean we have a hole in the archiving stream and need
\* to create a backup now").
HoleMeansBackup ==
    (/\ pc = "idle" /\ local = {} /\ latest # NoBackup /\ lock = "free"
     /\ \E s \in Lost : s > base /\ s > started)
        => asked
=============================================================================
