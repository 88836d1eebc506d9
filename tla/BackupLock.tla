------------------------------ MODULE BackupLock ------------------------------
(***************************************************************************)
(* Backup.lockit and Backup.unlockit: the lock that keeps run-backups,     *)
(* run-recover, check-recover and the archiver apart.  It is made of two   *)
(* files: an flock on /tmp/lockfile, and /var/run/backups.pid, in which    *)
(* the owner records its process id.  A process that finds the lock taken  *)
(* and no process id unlinks the lock file.                                *)
(*                                                                         *)
(* A step is one system call, or several that only concern the process     *)
(* itself.  A process is one run of one of the scripts; it may be killed   *)
(* at any step, and the kernel then drops its lock (the descriptor is      *)
(* FD_CLOEXEC, so that no child of the process keeps it).                  *)
(***************************************************************************)
EXTENDS Naturals, Integers

CONSTANTS
    NProcs,     \* scripts that may run at the same time
    Waiters,    \* those whose lockit waits for the lock (run-backups)
    Watched,    \* those whose attempts are followed to their end
    MaxTries    \* seconds a waiter waits before it gives up

ASSUME LockAssumption ==
    /\ NProcs \in Nat \ {0} /\ MaxTries \in Nat
    /\ Waiters \subseteq 1..NProcs /\ Watched \subseteq 1..NProcs

Procs  == 1..NProcs
Inodes == 1..(NProcs + 1)      \* as many as can be open at the same time
Nil   == 0
Empty  == -1

VARIABLES
    name,     \* the inode at the path lockFile, or Nil
    fd,       \* the inode each process has open as lockfd, or Nil
    locked,   \* it holds the flock on that inode
    pidf,     \* the process id in pidFile; Empty, or Nil if there is no file
    wr,       \* processes whose open pidFile is still the one at the path
    known,    \* self.pid: not assigned, -1, or the id of a process
    tries,    \* seconds this call of lockit has waited
    at,       \* where it is
    met       \* (history) a process tried the lock, or gave it up, while another
              \* was where the two files disagree: between flock and the write of
              \* the process id, between the failed flock and the read of it, or
              \* between the unlock and the removal of the process id

lockVars == <<name, fd, locked, pidf, wr, known, tries, at, met>>

LockInit ==
    /\ name = Nil /\ pidf = Nil /\ wr = {}
    /\ fd     = [p \in Procs |-> Nil]
    /\ locked = [p \in Procs |-> FALSE]
    /\ known  = [p \in Procs |-> "unset"]
    /\ tries  = [p \in Procs |-> 0]
    /\ at     = [p \in Procs |-> "off"]
    /\ met = FALSE

Goes(p, l) == at' = [at EXCEPT ![p] = l]

\* no other process is where the two files disagree
Clear(p) == \A q \in Procs \ {p} : at[q] \notin {"read", "got", "write", "drop"}

Meets(p) == met' = (met \/ ~Clear(p))

\* a child that inherits the descriptor keeps the lock (no part of the
\* specification)
GoneWithChild(p) == Goes(p, "off") /\ UNCHANGED <<fd, locked, known, tries, wr>>

\* the process is gone with its Backup object, and the kernel has closed its files
Gone(p) ==
    /\ fd' = [fd EXCEPT ![p] = Nil]
    /\ locked' = [locked EXCEPT ![p] = FALSE]
    /\ known' = [known EXCEPT ![p] = "unset"]
    /\ tries' = [tries EXCEPT ![p] = 0]
    /\ wr' = wr \ {p}
    /\ Goes(p, "off")

-----------------------------------------------------------------------------
\* a script starts; its Backup object is new
StartScript(p) ==
    /\ at[p] = "off" /\ ~locked[p]
    /\ Goes(p, "out")
    /\ UNCHANGED <<name, fd, locked, pidf, wr, known, tries, met>>

\* it ends, or is killed
Exit(p) ==
    /\ at[p] # "off"
    /\ Gone(p)
    /\ UNCHANGED <<name, pidf, met>>

-----------------------------------------------------------------------------
(* lockit                                                                  *)

Fresh(i) == i # name /\ \A q \in Procs : fd[q] # i

\* open(lockFile, "w"); the file object of an earlier call is closed with it
Open(p) ==
    /\ at[p] = "out"
    /\ \E i \in Inodes :
          /\ IF name # Nil THEN i = name
             ELSE Fresh(i) /\ \A j \in Inodes : j < i => ~Fresh(j)
          /\ name' = i
          /\ fd' = [fd EXCEPT ![p] = i]
    /\ locked' = [locked EXCEPT ![p] = FALSE]
    /\ Goes(p, "try")
    /\ UNCHANGED <<pidf, wr, known, tries, met>>

\* a shared lock (no part of the specification)
BusyShared(p) == FALSE

Busy(p) == \E q \in Procs \ {p} : locked[q] /\ fd[q] = fd[p]

\* flock(LOCK_EX + LOCK_NB)
TryOk(p) ==
    /\ at[p] = "try" /\ ~Busy(p)
    /\ locked' = [locked EXCEPT ![p] = TRUE]
    /\ tries' = [tries EXCEPT ![p] = 0]
    /\ Goes(p, "got")
    /\ Meets(p)
    /\ UNCHANGED <<name, fd, pidf, wr, known>>

TryFails(p) ==
    /\ at[p] = "try" /\ Busy(p)
    /\ Goes(p, "read")
    /\ Meets(p)
    /\ UNCHANGED <<name, fd, locked, pidf, wr, known, tries>>

(***************************************************************************)
(* The read of pidFile.  An empty file leaves self.pid as it was, and a    *)
(* self.pid that was never assigned ends the process.                      *)
(***************************************************************************)
ReadPid(p) ==
    /\ at[p] = "read"
    /\ \/ /\ pidf = Nil
          /\ known' = [known EXCEPT ![p] = "none"]
          /\ Goes(p, "unlink")
          /\ UNCHANGED <<fd, locked, tries, wr>>
       \/ /\ pidf = Empty /\ known[p] = "unset"
          /\ Gone(p)
       \/ /\ pidf = Empty /\ known[p] # "unset"
          /\ Goes(p, IF known[p] = "none" THEN "unlink" ELSE "wait")
          /\ UNCHANGED <<fd, locked, known, tries, wr>>
       \/ /\ pidf \in Procs
          /\ known' = [known EXCEPT ![p] = "some"]
          /\ Goes(p, "wait")
          /\ UNCHANGED <<fd, locked, tries, wr>>
    /\ UNCHANGED <<name, pidf, met>>

\* os.unlink(lockFile), which raises when there is nothing to unlink; the
\* next flock is on the descriptor it has
Unlink(p) ==
    /\ at[p] = "unlink"
    /\ IF name # Nil
       THEN name' = Nil /\ Goes(p, "try") /\ UNCHANGED <<fd, locked, known, tries, wr>>
       ELSE Gone(p) /\ UNCHANGED name
    /\ UNCHANGED <<pidf, met>>

\* a wait that never gives up (no part of the specification)
WaitForEver(p) ==
    /\ at[p] = "wait"
    /\ Goes(p, "try")
    /\ UNCHANGED <<name, fd, locked, pidf, wr, known, tries, met>>

\* sleep(1), or close and return False
Wait(p) ==
    /\ at[p] = "wait"
    /\ IF p \in Waiters /\ tries[p] < MaxTries
       THEN /\ tries' = [tries EXCEPT ![p] = @ + 1]
            /\ Goes(p, "try")
            /\ UNCHANGED fd
       ELSE /\ fd' = [fd EXCEPT ![p] = Nil]
            /\ tries' = [tries EXCEPT ![p] = 0]
            /\ Goes(p, "out")
    /\ UNCHANGED <<name, locked, pidf, wr, known, met>>

\* open(pidFile, "w") creates or truncates it
CreatePid(p) ==
    /\ at[p] = "got"
    /\ pidf' = Empty
    /\ wr' = wr \cup {p}
    /\ Goes(p, "write")
    /\ UNCHANGED <<name, fd, locked, known, tries, met>>

\* the id is written to the file that was opened
WritePid(p) ==
    /\ at[p] = "write"
    /\ pidf' = IF p \in wr THEN p ELSE pidf
    /\ known' = [known EXCEPT ![p] = "some"]
    /\ wr' = wr \ {p}
    /\ Goes(p, "cs")
    /\ UNCHANGED <<name, fd, locked, tries, met>>

-----------------------------------------------------------------------------
(* unlockit: a process that does not read its own id returns without a     *)
(* word, and keeps its lock until it ends or calls lockit again            *)

Unlock(p) ==
    /\ at[p] = "cs"
    /\ IF pidf = p
       THEN /\ locked' = [locked EXCEPT ![p] = FALSE]
            /\ fd' = [fd EXCEPT ![p] = Nil]
            /\ Goes(p, "drop")
       ELSE /\ Goes(p, "out")
            /\ UNCHANGED <<fd, locked>>
    /\ Meets(p)
    /\ UNCHANGED <<name, pidf, wr, known, tries>>

\* an unlock that removes the lock file too (no part of the specification)
RemoveBoth(p) ==
    /\ at[p] = "drop"
    /\ pidf' = Nil /\ name' = Nil
    /\ wr' = {}
    /\ Goes(p, "out")
    /\ UNCHANGED <<fd, locked, known, tries, met>>

\* os.remove(pidFile), whoever wrote it
RemovePid(p) ==
    /\ at[p] = "drop"
    /\ pidf' = Nil
    /\ wr' = {}
    /\ Goes(p, "out")
    /\ UNCHANGED <<name, fd, locked, known, tries, met>>

-----------------------------------------------------------------------------
LockStep(p) == \/ TryOk(p) \/ TryFails(p) \/ ReadPid(p) \/ Unlink(p) \/ Wait(p)
               \/ CreatePid(p) \/ WritePid(p) \/ RemovePid(p)

LockNext == \E p \in Procs : StartScript(p) \/ Exit(p) \/ Open(p) \/ Unlock(p) \/ LockStep(p)

LockSpec == LockInit /\ [][LockNext]_lockVars

\* a process that is in lockit or unlockit goes on; when it calls them, and
\* whether, is its own affair
LockFairSpec == LockSpec /\ \A p \in Procs : WF_lockVars(LockStep(p))

-----------------------------------------------------------------------------
(* Properties                                                              *)

Places == {"off", "out", "try", "read", "unlink", "wait", "got", "write", "cs", "drop"}

\* Type invariant: files, descriptors and processes keep their types.
LockTypeOK ==
    /\ name \in Inodes \cup {Nil}
    /\ fd \in [Procs -> Inodes \cup {Nil}]
    /\ locked \in [Procs -> BOOLEAN]
    /\ pidf \in Procs \cup {Nil, Empty}
    /\ wr \subseteq Procs
    /\ known \in [Procs -> {"unset", "none", "some"}]
    /\ tries \in [Procs -> 0..MaxTries]
    /\ at \in [Procs -> Places]
    /\ met \in BOOLEAN

\* between the return of lockit and the call of unlockit
Inside(p) == at[p] = "cs"

\* Also after that; which the code does not promise to keep.
AlwaysExclusive == \A p, q \in Procs : Inside(p) /\ Inside(q) => p = q

(***************************************************************************)
(* "we only get busy between backups" (archiver:40): no two scripts have   *)
(* been told that they own the lock, until an attempt meets a stretch in   *)
(* which the two files disagree.                                           *)
(***************************************************************************)
MutualExclusion == ~met => AlwaysExclusive

(***************************************************************************)
(* The process id on file is the owner's for as long as it is inside: what *)
(* unlockit compares with its own id, and what stop() would kill; until    *)
(* then.                                                                   *)
(***************************************************************************)
OwnerRecorded == ~met => \A p \in Procs : Inside(p) => pidf = p

(***************************************************************************)
(* Whatever was killed wherever before, a process that runs alone does not *)
(* find the lock taken.                                                    *)
(***************************************************************************)
NoStaleLock ==
    \A p \in Procs : at[p] = "try" /\ (\A q \in Procs \ {p} : at[q] = "off") => ~Busy(p)

Ended(p) == at[p] \in {"cs", "out", "off"}

(***************************************************************************)
(* lockit (backups.py:372) loops without a sleep and without a limit while *)
(* it finds no process id. It comes to an end all the same - the lock is   *)
(* taken, lockit gives up, or the process does not survive it - unless it  *)
(* comes upon a lock file that another has made since it opened its own,   *)
(* and removes that; however many scripts there are.                       *)
(***************************************************************************)
Intrudes(p) == at[p] = "unlink" /\ name \notin {Nil, fd[p]}

AttemptEnds == \A p \in Watched : at[p] = "try" ~> Ended(p) \/ Intrudes(p)

\* It comes to an end whatever the others do.
AttemptAlwaysEnds == \A p \in Watched : at[p] = "try" ~> Ended(p)

(***************************************************************************)
(* The two files implement the lock the scripts rely on, until then: every *)
(* step takes the free lock, gives it back, or leaves it alone.            *)
(***************************************************************************)
Owner == IF \E p \in Procs : locked[p] THEN CHOOSE p \in Procs : locked[p] ELSE Nil

Mutex == INSTANCE TryLock WITH owner <- Owner, None <- Nil

ImplementsTryLock == Mutex!Init /\ [][met' \/ Mutex!Next]_Owner
=============================================================================
