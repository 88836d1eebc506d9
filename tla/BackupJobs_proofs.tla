------------------------- MODULE BackupJobs_proofs -------------------------
(***************************************************************************)
(* Proofs about the backup system: its lock (BackupLock), for any number   *)
(* of scripts and any wait, and its jobs (BackupJobs), for any sets of     *)
(* runs, any number of backups, whatever of Failures may happen and        *)
(* whoever may be killed.                                                  *)
(*                                                                         *)
(* The types of the lock hold whatever meets. Mutual exclusion, and with   *)
(* it the refinement of TryLock, takes LockInv, which holds until an       *)
(* attempt meets a stretch in which the two files disagree (met): every    *)
(* process in lockit has the file at the path open, the processes between  *)
(* flock and the end of unlockit are at most one, and a process that is    *)
(* about to read the owner's id finds one.                                 *)
(*                                                                         *)
(* The invariant of the jobs has these parts. Owning: a job that works on  *)
(* the server has the lock, so that there is one. Stamping: the directory  *)
(* a backup makes is its own. Whole: what recoveries may find is a whole   *)
(* copy, or has a whole one behind it. InOrder: until a mishap there is    *)
(* one Latest at most, and none between the two moves.                     *)
(***************************************************************************)
EXTENDS BackupLock, BackupJobs, FiniteSetTheorems, WellFoundedInduction, TLAPS

-----------------------------------------------------------------------------
(* BackupLock: types                                                       *)

LEMMA LockInitType == LockInit => LockTypeOK
<1>1. LockInit => met \in BOOLEAN
  BY DEF LockInit
<1>2. /\ {} \subseteq Procs /\ Nil \in Inodes \cup {Nil} /\ 0 \in 0..MaxTries
      /\ Nil \in Procs \cup {Nil, Empty}
  BY LockAssumption
<1> QED
  BY <1>1, <1>2 DEF LockInit, LockTypeOK, Places

\* Every step of every process keeps the types of the files and descriptors.
LEMMA LockNextType == LockTypeOK /\ [LockNext]_lockVars => LockTypeOK'
<1> SUFFICES ASSUME LockTypeOK, [LockNext]_lockVars PROVE LockTypeOK'
  OBVIOUS
<1> USE LockAssumption DEF LockTypeOK, Places, Goes, Meets
<1>1. ASSUME NEW p \in Procs, StartScript(p) PROVE LockTypeOK'
  BY <1>1 DEF StartScript
<1>2. ASSUME NEW p \in Procs, Exit(p) PROVE LockTypeOK'
  BY <1>2 DEF Exit, Gone, Nil
<1>3. ASSUME NEW p \in Procs, Open(p) PROVE LockTypeOK'
  BY <1>3 DEF Open
<1>4. ASSUME NEW p \in Procs, TryOk(p) PROVE LockTypeOK'
  BY <1>4 DEF TryOk
<1>5. ASSUME NEW p \in Procs, TryFails(p) PROVE LockTypeOK'
  BY <1>5 DEF TryFails
<1>6. ASSUME NEW p \in Procs, ReadPid(p) PROVE LockTypeOK'
  <2>1. CASE Gone(p) /\ UNCHANGED <<name, pidf, met>>
    BY <2>1 DEF Gone, Nil
  <2> QED
    BY <1>6, <2>1 DEF ReadPid
<1>7. ASSUME NEW p \in Procs, Unlink(p) PROVE LockTypeOK'
  <2>1. CASE Gone(p) /\ UNCHANGED <<name, pidf, met>>
    BY <2>1 DEF Gone, Nil
  <2> QED
    BY <1>7, <2>1 DEF Unlink, Nil
<1>8. ASSUME NEW p \in Procs, Wait(p) PROVE LockTypeOK'
  BY <1>8 DEF Wait
<1>9. ASSUME NEW p \in Procs, CreatePid(p) PROVE LockTypeOK'
  BY <1>9 DEF CreatePid
<1>10. ASSUME NEW p \in Procs, WritePid(p) PROVE LockTypeOK'
  BY <1>10 DEF WritePid
<1>11. ASSUME NEW p \in Procs, Unlock(p) PROVE LockTypeOK'
  BY <1>11 DEF Unlock
<1>12. ASSUME NEW p \in Procs, RemovePid(p) PROVE LockTypeOK'
  BY <1>12 DEF RemovePid
<1>13. CASE UNCHANGED lockVars
  BY <1>13 DEF lockVars
<1> QED
  BY <1>1, <1>2, <1>3, <1>4, <1>5, <1>6, <1>7, <1>8, <1>9, <1>10, <1>11, <1>12, <1>13
     DEF LockNext, LockStep

(***************************************************************************)
(* The lock and process-id files keep their types in every reachable       *)
(* state, for any number of scripts.                                       *)
(***************************************************************************)
THEOREM LockTypeCorrect == LockSpec => []LockTypeOK
  BY LockInitType, LockNextType, PTL DEF LockSpec

(***************************************************************************)
(* A process that has ended holds nothing: the kernel closes its files,    *)
(* wherever it was killed.                                                 *)
(***************************************************************************)
DeadHoldNothing == LockTypeOK /\ \A p \in Procs : at[p] = "off" => ~locked[p]

\* Every step keeps that, whatever meets.
LEMMA NextDead == DeadHoldNothing /\ [LockNext]_lockVars => DeadHoldNothing'
<1> SUFFICES ASSUME DeadHoldNothing, [LockNext]_lockVars
             PROVE  \A q \in Procs : at'[q] = "off" => ~locked'[q]
  BY LockNextType DEF DeadHoldNothing
<1> USE DEF DeadHoldNothing, LockTypeOK, Goes
<1>1. ASSUME NEW p \in Procs, StartScript(p) \/ Open(p) \/ TryOk(p) \/ TryFails(p)
      PROVE  \A q \in Procs : at'[q] = "off" => ~locked'[q]
  BY <1>1 DEF StartScript, Open, TryOk, TryFails
<1>2. ASSUME NEW p \in Procs, Exit(p) \/ ReadPid(p) \/ Unlink(p)
      PROVE  \A q \in Procs : at'[q] = "off" => ~locked'[q]
  BY <1>2 DEF Exit, ReadPid, Unlink, Gone
<1>3. ASSUME NEW p \in Procs,
             Wait(p) \/ CreatePid(p) \/ WritePid(p) \/ Unlock(p) \/ RemovePid(p)
      PROVE  \A q \in Procs : at'[q] = "off" => ~locked'[q]
  BY <1>3 DEF Wait, CreatePid, WritePid, Unlock, RemovePid
<1>4. CASE UNCHANGED lockVars
  BY <1>4 DEF lockVars
<1> QED
  BY <1>1, <1>2, <1>3, <1>4 DEF LockNext, LockStep

(***************************************************************************)
(* Whatever was killed wherever before, a process that runs alone does not *)
(* find the lock taken: no lock outlives its process.                      *)
(***************************************************************************)
THEOREM NoStaleLockHolds == LockSpec => []NoStaleLock
<1>1. LockInit => DeadHoldNothing
  BY LockInitType DEF LockInit, DeadHoldNothing
<1>2. DeadHoldNothing => NoStaleLock
  BY DEF DeadHoldNothing, NoStaleLock, Busy
<1> QED
  BY <1>1, <1>2, NextDead, PTL DEF LockSpec

-----------------------------------------------------------------------------
(* BackupLock: mutual exclusion                                            *)

Holding == {"got", "write", "cs"}
InLockit == {"try", "read", "wait", "got", "write", "cs"}

\* the flock is held from lockit's success to unlockit
LockedHere == \A p \in Procs : locked[p] <=> at[p] \in Holding

\* the lock file is never unlinked while a process is in lockit
SameFile == \A p \in Procs : /\ at[p] \in InLockit => fd[p] = name /\ name # Nil
                             /\ at[p] # "unlink"

\* the owner's id is on file, or its pidFile is still the one at the path
IdOnFile == \A p \in Procs : /\ at[p] = "write" => p \in wr
                             /\ at[p] = "cs" => pidf = p

\* who has failed to lock finds the id of a process
IdReadable == \A p \in Procs : at[p] = "read" =>
                  /\ pidf \in Procs
                  /\ \A q \in Procs \ {p} : at[q] \notin {"got", "write", "drop"}

OneOwner == \A p, q \in Procs :
                at[p] \in Holding \cup {"drop"} /\ at[q] \in Holding \cup {"drop"} => p = q

LockInv == LockTypeOK /\ LockedHere /\ SameFile /\ IdOnFile /\ IdReadable /\ OneOwner

LEMMA InitLock == LockInit => LockInv
<1>1. LockInit => LockTypeOK
  BY LockInitType
<1> QED
  BY <1>1 DEF LockInit, LockInv, LockedHere, SameFile, IdOnFile, IdReadable, OneOwner,
              Holding, InLockit

\* A process that fails to lock fails because of an owner that is inside.
LEMMA BusyMeansInside ==
  ASSUME LockInv, NEW p \in Procs, at[p] = "try", Clear(p), Busy(p)
  PROVE  \E q \in Procs \ {p} : at[q] = "cs" /\ pidf = q
BY DEF LockInv, LockTypeOK, LockedHere, IdOnFile, Busy, Clear, Holding

\* A process that can lock does so when nobody owns the lock.
LEMMA FreeMeansNobody ==
  ASSUME LockInv, NEW p \in Procs, at[p] = "try", Clear(p), ~Busy(p)
  PROVE  \A q \in Procs : ~locked[q] /\ at[q] \notin Holding \cup {"drop", "read"}
<1> SUFFICES ASSUME NEW q \in Procs
             PROVE  ~locked[q] /\ at[q] \notin Holding \cup {"drop", "read"}
  OBVIOUS
<1>1. CASE q = p
  BY <1>1 DEF LockInv, LockTypeOK, LockedHere, Holding
<1>2. CASE q # p
  <2>1. fd[p] = name
    BY DEF LockInv, SameFile, InLockit
  <2>2. at[q] \in Holding => fd[q] = name
    BY DEF LockInv, SameFile, InLockit, Holding
  <2> QED
    BY <1>2, <2>1, <2>2 DEF LockInv, LockTypeOK, LockedHere, Busy, Clear, Holding
<1> QED
  BY <1>1, <1>2

(***************************************************************************)
(* A step keeps LockInv unless it meets: one step for each action.         *)
(***************************************************************************)
LEMMA NextLock == LockInv /\ ~met' /\ [LockNext]_lockVars => LockInv'
<1> SUFFICES ASSUME LockInv, ~met', [LockNext]_lockVars PROVE LockInv'
  OBVIOUS
<1>t. LockTypeOK'
  BY LockNextType DEF LockInv
<1> USE <1>t DEF LockInv, LockTypeOK, LockedHere, SameFile, IdOnFile, IdReadable, OneOwner,
                 Holding, InLockit, Goes
<1>1. ASSUME NEW p \in Procs, StartScript(p) PROVE LockInv'
  BY <1>1 DEF StartScript
<1>2. ASSUME NEW p \in Procs, Exit(p) PROVE LockInv'
  BY <1>2 DEF Exit, Gone
<1>3. ASSUME NEW p \in Procs, Open(p) PROVE LockInv'
  BY <1>3 DEF Open, Nil, Inodes
<1>4. ASSUME NEW p \in Procs, TryOk(p) PROVE LockInv'
  <2>1. \A q \in Procs : ~locked[q] /\ at[q] \notin {"got", "write", "cs", "drop", "read"}
    BY <1>4, FreeMeansNobody DEF TryOk, Meets
  <2> QED
    BY <1>4, <2>1 DEF TryOk
<1>5. ASSUME NEW p \in Procs, TryFails(p) PROVE LockInv'
  <2>1. \E q \in Procs \ {p} : at[q] = "cs" /\ pidf = q
    BY <1>5, BusyMeansInside DEF TryFails, Meets
  <2>2. \A q \in Procs \ {p} : at[q] \notin {"read", "got", "write", "drop"}
    BY <1>5 DEF TryFails, Meets, Clear
  <2> QED
    BY <1>5, <2>1, <2>2 DEF TryFails
<1>6. ASSUME NEW p \in Procs, ReadPid(p) PROVE LockInv'
  <2>1. pidf \in Procs
    BY <1>6 DEF ReadPid
  <2>2. pidf # Nil /\ pidf # Empty
    BY <2>1, LockAssumption DEF Procs, Nil, Empty
  <2> QED
    BY <1>6, <2>1, <2>2 DEF ReadPid
<1>7. ASSUME NEW p \in Procs, Unlink(p) PROVE LockInv'
  BY <1>7 DEF Unlink
<1>8. ASSUME NEW p \in Procs, Wait(p) PROVE LockInv'
  BY <1>8 DEF Wait
<1>9. ASSUME NEW p \in Procs, CreatePid(p) PROVE LockInv'
  BY <1>9 DEF CreatePid
<1>10. ASSUME NEW p \in Procs, WritePid(p) PROVE LockInv'
  BY <1>10 DEF WritePid
<1>11. ASSUME NEW p \in Procs, Unlock(p) PROVE LockInv'
  <2>1. \A q \in Procs \ {p} : at[q] # "read"
    BY <1>11 DEF Unlock, Meets, Clear
  <2> QED
    BY <1>11, <2>1 DEF Unlock
<1>12. ASSUME NEW p \in Procs, RemovePid(p) PROVE LockInv'
  BY <1>12 DEF RemovePid
<1>13. CASE UNCHANGED lockVars
  BY <1>13 DEF lockVars
<1> QED
  BY <1>1, <1>2, <1>3, <1>4, <1>5, <1>6, <1>7, <1>8, <1>9, <1>10, <1>11, <1>12, <1>13
     DEF LockNext, LockStep

\* What has met has met.
LEMMA MetStays == LockTypeOK /\ met /\ [LockNext]_lockVars => met'
BY DEF LockTypeOK, LockNext, LockStep, StartScript, Exit, Open, TryOk, TryFails, ReadPid, Unlink, Wait,
       CreatePid, WritePid, Unlock, RemovePid, Meets, lockVars

\* LockInv, until an attempt meets
UntilMet == LockTypeOK /\ (~met => LockInv)

LEMMA NextUntilMet == UntilMet /\ [LockNext]_lockVars => UntilMet'
BY LockNextType, NextLock, MetStays DEF UntilMet

LEMMA LockInvariant == LockSpec => []UntilMet
<1>1. LockInit => UntilMet
  BY LockInitType, InitLock DEF UntilMet
<1> QED
  BY <1>1, NextUntilMet, PTL DEF LockSpec

(***************************************************************************)
(* No two scripts are between lockit and unlockit, for any number of       *)
(* scripts, until an attempt meets a stretch in which the files disagree.  *)
(***************************************************************************)
THEOREM ExclusionHolds == LockSpec => []MutualExclusion
<1>1. UntilMet => MutualExclusion
  BY DEF UntilMet, AlwaysExclusive, LockInv, OneOwner, MutualExclusion, Inside, Holding
<1> QED
  BY <1>1, LockInvariant, PTL

(***************************************************************************)
(* The id on file is the owner's, for any number of scripts, until then.   *)
(***************************************************************************)
THEOREM OwnerRecordedHolds == LockSpec => []OwnerRecorded
<1>1. UntilMet => OwnerRecorded
  BY DEF UntilMet, LockInv, IdOnFile, OwnerRecorded, Inside
<1> QED
  BY <1>1, LockInvariant, PTL

-----------------------------------------------------------------------------
(* BackupLock: the two files implement TryLock                             *)

\* Who holds the flock is the owner; nobody is, when nobody does.
LEMMA OwnerIs ==
  ASSUME LockInv
  PROVE  /\ \A p \in Procs : locked[p] => Owner = p
         /\ (\A p \in Procs : ~locked[p]) => Owner = Nil
<1>1. ASSUME NEW p \in Procs, locked[p] PROVE Owner = p
  <2>1. \A q \in Procs : locked[q] => q = p
    BY <1>1 DEF LockInv, LockedHere, OneOwner
  <2> QED
    BY <1>1, <2>1 DEF Owner
<1> QED
  BY <1>1 DEF Owner

LEMMA InitOwner == LockInit => Mutex!Init
  BY DEF LockInit, Mutex!Init, Owner

\* A step that leaves the flocks alone is a stutter of the lock.
LEMMA SameLocks ==
  ASSUME LockInv, LockInv', locked' = locked
  PROVE  Owner' = Owner
<1>1. CASE \E p \in Procs : locked[p]
  <2>1. PICK p \in Procs : locked[p]
    BY <1>1
  <2>2. Owner = p
    BY <2>1, OwnerIs
  <2>3. Owner' = p
    <3>1. locked'[p]
      BY <2>1
    <3> QED
      BY <3>1 DEF LockInv, LockedHere, OneOwner, Owner
  <2> QED
    BY <2>2, <2>3
<1>2. CASE \A p \in Procs : ~locked[p]
  BY <1>2 DEF Owner
<1> QED
  BY <1>1, <1>2

\* A process that lets go of its flock releases the lock; one that has none
\* changes nothing.
LEMMA LetsGo ==
  ASSUME LockInv, LockInv', NEW p \in Procs,
         locked' = [locked EXCEPT ![p] = FALSE]
  PROVE  [Mutex!Next]_Owner
<1>1. CASE ~locked[p]
  <2>1. locked' = locked
    BY <1>1 DEF LockInv, LockTypeOK
  <2> QED
    BY <2>1, SameLocks
<1>2. CASE locked[p]
  <2>1. Owner = p
    BY <1>2, OwnerIs
  <2>2. \A q \in Procs : ~locked'[q]
    BY <1>2 DEF LockInv, LockTypeOK, LockedHere, OneOwner
  <2>3. Owner' = Nil
    BY <2>2 DEF Owner
  <2> QED
    BY <2>1, <2>3 DEF Mutex!Next, Mutex!Release
<1> QED
  BY <1>1, <1>2

(***************************************************************************)
(* Every step takes the free lock, gives it back, or leaves it alone.      *)
(***************************************************************************)
LEMMA NextOwner == LockInv /\ ~met' /\ [LockNext]_lockVars => [Mutex!Next]_Owner
<1> SUFFICES ASSUME LockInv, ~met', [LockNext]_lockVars PROVE [Mutex!Next]_Owner
  OBVIOUS
<1>i. LockInv'
  BY NextLock
<1>1. ASSUME NEW p \in Procs, TryOk(p) PROVE [Mutex!Next]_Owner
  <2>1. \A q \in Procs : ~locked[q]
    BY <1>1, FreeMeansNobody DEF TryOk, Meets
  <2>2. Owner = Nil
    BY <2>1 DEF Owner
  <2>3. locked'[p]
    BY <1>1 DEF TryOk, LockInv, LockTypeOK
  <2>4. \A q \in Procs : locked'[q] => q = p
    BY <1>1, <2>1 DEF TryOk, LockInv, LockTypeOK
  <2>5. Owner' = p
    BY <2>3, <2>4 DEF Owner
  <2> QED
    BY <2>2, <2>5 DEF Mutex!Next, Mutex!Acquire
<1>2. ASSUME NEW p \in Procs, Exit(p) \/ Open(p) PROVE [Mutex!Next]_Owner
  BY <1>2, <1>i, LetsGo DEF Exit, Gone, Open
<1>3. ASSUME NEW p \in Procs, ReadPid(p) \/ Unlink(p) PROVE [Mutex!Next]_Owner
  <2>1. locked' = locked \/ locked' = [locked EXCEPT ![p] = FALSE]
    BY <1>3 DEF ReadPid, Unlink, Gone
  <2> QED
    BY <2>1, <1>i, LetsGo, SameLocks
<1>4. ASSUME NEW p \in Procs, Unlock(p) PROVE [Mutex!Next]_Owner
  <2>1. locked' = locked \/ locked' = [locked EXCEPT ![p] = FALSE]
    BY <1>4 DEF Unlock
  <2> QED
    BY <2>1, <1>i, LetsGo, SameLocks
<1>5. ASSUME NEW p \in Procs,
             \/ StartScript(p) \/ TryFails(p) \/ Wait(p)
             \/ CreatePid(p) \/ WritePid(p) \/ RemovePid(p)
      PROVE  [Mutex!Next]_Owner
  <2>1. locked' = locked
    BY <1>5 DEF StartScript, TryFails, Wait, CreatePid, WritePid, RemovePid
  <2> QED
    BY <2>1, <1>i, SameLocks
<1>6. CASE UNCHANGED lockVars
  BY <1>6, <1>i, SameLocks DEF lockVars
<1> QED
  BY <1>1, <1>2, <1>3, <1>4, <1>5, <1>6 DEF LockNext, LockStep

(***************************************************************************)
(* The lock file and the process-id file implement the lock the scripts    *)
(* rely on, for any number of scripts, until an attempt meets a stretch in *)
(* which they disagree.                                                    *)
(***************************************************************************)
THEOREM LockImplemented == LockSpec => ImplementsTryLock
<1>1. UntilMet /\ [LockNext]_lockVars => [met' \/ Mutex!Next]_Owner
  BY MetStays, NextOwner DEF UntilMet
<1> QED
  BY InitOwner, LockInvariant, <1>1, PTL DEF LockSpec, ImplementsTryLock

-----------------------------------------------------------------------------
(* BackupJobs: the first name of a list                                    *)

\* A set of natural numbers that has a bound has a smallest element, which is what
\* Min chooses.
LEMMA MinIs ==
    ASSUME NEW n \in Nat, NEW S, S \subseteq 0..n, S # {}
    PROVE  Min(S) \in S /\ \A s \in S : Min(S) <= s
<1> DEFINE Down == {0..s : s \in S}
<1>1. IsWellFoundedOn(StrictSubsetOrdering(0..n), FiniteSubsetsOf(0..n))
  BY FS_StrictSubsetOrderingWellFounded, Zenon
<1>2. Down \subseteq FiniteSubsetsOf(0..n) /\ Down # {}
  <2>1. \A s \in S : s \in Int /\ 0..s \subseteq 0..n
    OBVIOUS
  <2>2. \A s \in S : IsFiniteSet(0..s)
    BY <2>1, FS_Interval
  <2> QED
    BY <2>1, <2>2, Zenon DEF FiniteSubsetsOf
<1>3. PICK d \in Down : \A e \in Down : <<e, d>> \notin StrictSubsetOrdering(0..n)
  <2> HIDE DEF Down
  <2> QED
    BY <1>1, <1>2, WFMin
<1>4. PICK x \in S : d = 0..x
  BY <1>3
<1>5. ASSUME NEW y \in S PROVE x <= y
  <2>1. <<0..y, 0..x>> \notin StrictSubsetOrdering(0..n)
    BY <1>3, <1>4
  <2>2. 0..y \subseteq 0..n /\ 0..x \subseteq 0..n /\ x \in Nat /\ y \in Nat
    BY <1>4
  <2>3. ~ (0..y \subseteq 0..x /\ 0..y # 0..x)
    BY <2>1, <2>2 DEF StrictSubsetOrdering
  <2>4. CASE y < x
    <3>1. 0..y \subseteq 0..x
      BY <2>2, <2>4
    <3>2. x \in 0..x /\ x \notin 0..y
      BY <2>2, <2>4
    <3> QED
      BY <2>3, <3>1, <3>2
  <2> QED
    BY <2>2, <2>4
<1> QED
  BY <1>4, <1>5 DEF Min

\* FirstOf takes a stamp from the set, and none is lower.
LEMMA FirstIs ==
    ASSUME NEW S, S \subseteq Stamps
    PROVE  /\ S = {} => FirstOf(S) = None
           /\ S # {} => FirstOf(S) \in S /\ FirstOf(S) # None
                        /\ \A s \in S : FirstOf(S) <= s
<1>1. S \subseteq 0..MaxRuns /\ MaxRuns \in Nat /\ None \notin S
  BY JobsAssumption DEF Stamps, None
<1> QED
  BY <1>1, MinIs DEF FirstOf

\* The name that ls shows is that of a latest backup, or it shows none.
LEMMA SeenIs ==
    ASSUME NEW l \in LatestSeen
    PROVE  l = None \/ (l \in Named("Latest") /\ l \in Stamps /\ l # None)
<1>1. l = None \/ l = FirstOf(Named("Latest"))
  BY DEF LatestSeen
<1>2. Named("Latest") \subseteq Stamps
  BY DEF Named
<1> QED
  BY <1>1, <1>2, FirstIs

\* More than one of them leaves one behind.
LEMMA AnotherOne ==
    ASSUME NEW S, S \subseteq Stamps, ~TooFew(S)
    PROVE  /\ FirstOf(S) \in S
           /\ \E t \in S : t # FirstOf(S)
<1>1. S # {}
  BY FS_EmptySet DEF TooFew
<1>2. FirstOf(S) \in S
  BY <1>1, FirstIs
<1>3. Cardinality({FirstOf(S)}) = 1
  BY FS_Singleton
<1>4. S # {FirstOf(S)}
  BY <1>3 DEF TooFew
<1> QED
  BY <1>2, <1>4

\* Removing the parts changes no other directory.
LEMMA CleanedIs ==
    ASSUME NEW d \in [Stamps -> {"none", "part", "Latest", "Backup"}], NEW e \in Cleaned(d)
    PROVE  /\ e \in [Stamps -> {"none", "part", "Latest", "Backup"}]
           /\ \A s \in Stamps : d[s] # "part" => e[s] = d[s]
           /\ \A s \in Stamps : d[s] = "part" => e[s] \in {"none", "part"}
BY DEF Cleaned, NoParts

-----------------------------------------------------------------------------
(* BackupJobs: types                                                       *)

\* A backup that runs has taken a time stamp, which Copy adds to the whole ones.
Stamped == \A j \in Backups : pc[j] # "off" => stamp[j] \in Stamps

LEMMA InitType == Init => TypeOK /\ Stamped
<1> SUFFICES ASSUME Init PROVE TypeOK /\ Stamped
  OBVIOUS
<1>1. 1 \in 1..(MaxRuns + 1) /\ 0 \in 0..MaxCrashes
  BY JobsAssumption
<1> QED
  BY <1>1 DEF Init, TypeOK, Stamped, None, Jobs, BackupPlaces, RecoverPlaces

\* Every step keeps the files, the directories and the jobs typed.
LEMMA NextType == TypeOK /\ Stamped /\ [Next]_vars => TypeOK'
<1> SUFFICES ASSUME TypeOK, Stamped, [Next]_vars PROVE TypeOK'
  OBVIOUS
<1> USE JobsAssumption DEF TypeOK, BackupPlaces, RecoverPlaces, Jobs, Go, Leave, remote, history
<1> DEFINE Dirs == [Stamps -> {"none", "part", "Latest", "Backup"}]
<1>1. ASSUME NEW c \in Config, UserSets(c) PROVE TypeOK'
  BY <1>1 DEF UserSets
<1>2. CASE CheckReads \/ CheckLocks \/ CheckFires
  BY <1>2 DEF CheckReads, CheckLocks, CheckFires
<1>3. ASSUME NEW j \in Backups, Start(j) PROVE TypeOK'
  <2>1. clock' \in 1..(MaxRuns + 1)
    BY <1>3 DEF Start, Stamps
  <2> QED
    BY <1>3, <2>1 DEF Start
<1>4. ASSUME NEW j \in Backups, Lock(j) \/ LockFails(j) \/ Refused(j) PROVE TypeOK'
  BY <1>4 DEF Lock, LockFails, Refused
<1>5. ASSUME NEW j \in Backups, Begin(j) PROVE TypeOK'
  <2>1. store' \in Dirs /\ pc' \in [Jobs -> BackupPlaces \cup RecoverPlaces]
    BY <1>5 DEF Begin
  <2>2. /\ \A k \in Backups : pc'[k] \in BackupPlaces
        /\ \A r \in Recovers : pc'[r] \in RecoverPlaces
    BY <1>5 DEF Begin
  <2> QED
    BY <1>5, <2>1, <2>2 DEF Begin
<1>6. ASSUME NEW j \in Backups, DeleteOldest(j) PROVE TypeOK'
  BY <1>6 DEF DeleteOldest
<1>7. ASSUME NEW j \in Backups, NoRoom(j) PROVE TypeOK'
  <2>1. full' \subseteq Stamps
    BY <1>7 DEF NoRoom
  <2> QED
    BY <1>7, <2>1 DEF NoRoom
<1>8. ASSUME NEW j \in Backups, EnoughRoom(j) \/ RecordsFail(j) PROVE TypeOK'
  BY <1>8 DEF EnoughRoom, RecordsFail
<1>9. ASSUME NEW j \in Backups, NEW d \in Dirs, GiveUp(j, d), mishap' \in BOOLEAN
      PROVE  TypeOK'
  <2>1. store' \in Dirs
    BY <1>9, CleanedIs DEF GiveUp
  <2> QED
    BY <1>9, <2>1 DEF GiveUp
<1>10. ASSUME NEW j \in Backups, Copy(j) PROVE TypeOK'
  <2>1. stamp[j] \in Stamps
    BY <1>10 DEF Copy, Stamped
  <2> QED
    BY <1>10, <2>1 DEF Copy
<1>11. ASSUME NEW j \in Backups, CopyFails(j) \/ MoveAsideFails(j) PROVE TypeOK'
  <2>1. GiveUp(j, store) /\ mishap' \in BOOLEAN
    BY <1>11 DEF CopyFails, MoveAsideFails, Mishap
  <2> QED
    BY <1>9, <2>1
<1>12. ASSUME NEW j \in Backups, MoveAside(j) PROVE TypeOK'
  <2>1. PICK l \in LatestSeen :
            /\ from' = [from EXCEPT ![j] = l]
            /\ store' = IF l = None THEN store ELSE [store EXCEPT ![l] = "Backup"]
            /\ Overlooks(l)
    BY <1>12 DEF MoveAside
  <2>2. l = None \/ l \in Stamps
    BY SeenIs
  <2>3. mishap' \in BOOLEAN
    BY <2>1 DEF Overlooks
  <2> QED
    BY <1>12, <2>1, <2>2, <2>3 DEF MoveAside
<1>13. ASSUME NEW j \in Backups, Publish(j) PROVE TypeOK'
  BY <1>13 DEF Publish
<1>14. ASSUME NEW j \in Backups, PublishFails(j) PROVE TypeOK'
  <2>1. PICK d \in {store} \cup (IF from[j] = None THEN {}
                                 ELSE {[store EXCEPT ![from[j]] = "Latest"]}) : GiveUp(j, d)
    BY <1>14 DEF PublishFails
  <2>2. d \in Dirs
    OBVIOUS
  <2>3. mishap' \in BOOLEAN
    BY <1>14 DEF PublishFails, Mishap
  <2> QED
    BY <1>9, <2>1, <2>2, <2>3
<1>15. ASSUME NEW r \in Recovers, Loop(r) PROVE TypeOK'
  BY <1>15 DEF Loop
<1>16. ASSUME NEW r \in Recovers, RLock(r) PROVE TypeOK'
  BY <1>16 DEF RLock
<1>17. ASSUME NEW r \in Recovers, RRefused(r) PROVE TypeOK'
  <2>1. mishap' \in BOOLEAN
    BY <1>17 DEF RRefused, Mishap, Overlooks
  <2> QED
    BY <1>17, <2>1 DEF RRefused
<1>18. ASSUME NEW r \in Recovers, RBegin(r) PROVE TypeOK'
  <2>1. PICK l \in LatestSeen \ {None} : from' = [from EXCEPT ![r] = l]
    BY <1>18 DEF RBegin
  <2>2. l \in Stamps
    BY SeenIs
  <2> QED
    BY <1>18, <2>1, <2>2 DEF RBegin
<1>19. ASSUME NEW r \in Recovers, RCopy(r) PROVE TypeOK'
  BY <1>19 DEF RCopy
<1>24. ASSUME NEW r \in Recovers, RPermsFail(r) PROVE TypeOK'
  <2>1. mishap' \in BOOLEAN
    BY <1>24 DEF RPermsFail, Mishap
  <2> QED
    BY <1>24, <2>1 DEF RPermsFail
<1>20. ASSUME NEW r \in Recovers, Recovered(r) PROVE TypeOK'
  <2>1. cfg' \in Config
    <3>1. my[r] \in Config
      OBVIOUS
    <3> QED
      BY <1>20, <3>1 DEF Recovered, Config
  <2> QED
    BY <1>20, <2>1 DEF Recovered
<1>21. ASSUME NEW r \in Recovers, RUnlock(r) PROVE TypeOK'
  BY <1>21 DEF RUnlock
<1>22. ASSUME NEW j \in Jobs, Crash(j) PROVE TypeOK'
  <2>1. mishap' \in BOOLEAN /\ crashes' \in 0..MaxCrashes
    BY <1>22 DEF Crash
  <2> QED
    BY <1>22, <2>1 DEF Crash
<1>23. CASE UNCHANGED vars
  BY <1>23 DEF vars
<1> QED
  BY <1>1, <1>2, <1>3, <1>4, <1>5, <1>6, <1>7, <1>8, <1>10, <1>11, <1>12, <1>13, <1>14,
     <1>15, <1>16, <1>17, <1>18, <1>19, <1>20, <1>21, <1>22, <1>23, <1>24
     DEF Next, BackupStep, RecoverStep

-----------------------------------------------------------------------------
(* BackupJobs: the lock                                                    *)

AtWork(j) == pc[j] \notin {"off", "loop", "lock"}

Owning == \A j \in Jobs : AtWork(j) => owner = j

\* One job goes from place to place, and takes the lock before it works and gives
\* it back when it stops; a job that is killed gives it back too.
LEMMA OneMoves ==
    ASSUME TypeOK, Owning, NEW j \in Jobs, NEW l, Go(j, l),
           \/ l \in {"off", "loop", "lock"} /\ owner' = owner
           \/ l \in {"off", "loop"} /\ owner' = None /\ (AtWork(j) \/ owner = j)
           \/ AtWork(j) /\ owner' = owner
           \/ owner = None /\ owner' = j
    PROVE  Owning'
<1> USE JobsAssumption DEF TypeOK, Owning, AtWork, Go
<1>1. \A k \in Jobs : pc'[k] = IF k = j THEN l ELSE pc[k]
  OBVIOUS
<1>2. None \notin Jobs
  BY DEF Jobs
<1> QED
  BY <1>1, <1>2

LEMMA NextOwning == TypeOK /\ Owning /\ [Next]_vars => Owning'
<1> SUFFICES ASSUME TypeOK, Owning, [Next]_vars PROVE Owning'
  OBVIOUS
<1>0. Backups \subseteq Jobs /\ Recovers \subseteq Jobs
  BY DEF Jobs
<1>1. CASE \/ CheckReads \/ CheckLocks \/ UNCHANGED <<pc, owner>>
  BY <1>1 DEF CheckReads, CheckLocks, Owning, AtWork
<1>2. ASSUME NEW r \in Jobs, Go(r, "loop"), UNCHANGED owner PROVE Owning'
  BY <1>2, OneMoves
<1>3. ASSUME NEW c \in Config, UserSets(c) PROVE Owning'
  BY <1>0, <1>1, <1>2, <1>3 DEF UserSets
<1>4. CASE CheckFires
  BY <1>0, <1>1, <1>2, <1>4 DEF CheckFires
<1>5. ASSUME NEW j \in Backups, Start(j) \/ LockFails(j) PROVE Owning'
  BY <1>0, <1>5, OneMoves DEF Start, LockFails
<1>6. ASSUME NEW j \in Backups, Lock(j) PROVE Owning'
  BY <1>0, <1>6, OneMoves DEF Lock
<1>7. ASSUME NEW j \in Backups, AtWork(j), Leave(j, "off") PROVE Owning'
  BY <1>0, <1>7, OneMoves DEF Leave
<1>8. ASSUME NEW j \in Backups,
             \/ Refused(j) \/ NoRoom(j) \/ RecordsFail(j) \/ CopyFails(j) \/ MoveAsideFails(j)
             \/ Publish(j) \/ PublishFails(j)
      PROVE  Owning'
  BY <1>7, <1>8 DEF Refused, NoRoom, RecordsFail, CopyFails, MoveAsideFails, Publish,
                    PublishFails, GiveUp, AtWork
<1>9. ASSUME NEW j \in Backups,
             Begin(j) \/ EnoughRoom(j) \/ Copy(j) \/ MoveAside(j)
      PROVE  Owning'
  <2>1. AtWork(j) /\ owner' = owner /\ \E l \in BackupPlaces : Go(j, l)
    BY <1>9 DEF Begin, EnoughRoom, Copy, MoveAside, AtWork, BackupPlaces
  <2> QED
    BY <1>0, <2>1, OneMoves
<1>10. ASSUME NEW j \in Backups, DeleteOldest(j) PROVE Owning'
  BY <1>1, <1>10 DEF DeleteOldest
<1>11. ASSUME NEW r \in Recovers, Loop(r) PROVE Owning'
  <2>1. owner' = owner /\ \E l \in {"lock", "off"} : Go(r, l)
    BY <1>11 DEF Loop
  <2> QED
    BY <1>0, <2>1, OneMoves
<1>12. ASSUME NEW r \in Recovers, RLock(r) PROVE Owning'
  BY <1>0, <1>12, OneMoves DEF RLock
<1>13. ASSUME NEW r \in Recovers, RRefused(r) \/ RPermsFail(r) \/ RUnlock(r) PROVE Owning'
  <2>1. AtWork(r) /\ \E l \in {"off", "loop"} : Leave(r, l)
    BY <1>13 DEF RRefused, RPermsFail, RUnlock, AtWork
  <2> QED
    BY <1>0, <2>1, OneMoves DEF Leave
<1>14. ASSUME NEW r \in Recovers, RBegin(r) \/ RCopy(r) \/ Recovered(r) PROVE Owning'
  <2>1. AtWork(r) /\ owner' = owner /\ \E l \in RecoverPlaces : Go(r, l)
    BY <1>14 DEF RBegin, RCopy, Recovered, AtWork, RecoverPlaces
  <2> QED
    BY <1>0, <2>1, OneMoves
<1>15. ASSUME NEW j \in Jobs, Crash(j) PROVE Owning'
  BY <1>15, OneMoves DEF Crash
<1>16. CASE UNCHANGED vars
  BY <1>1, <1>16 DEF vars
<1> QED
  BY <1>1, <1>3, <1>4, <1>5, <1>6, <1>8, <1>9, <1>10, <1>11, <1>12, <1>13, <1>14, <1>15,
     <1>16 DEF Next, BackupStep, RecoverStep

\* The other jobs do nothing on the server while one does.
LEMMA Alone ==
    ASSUME Owning, NEW j \in Jobs, AtWork(j)
    PROVE  \A k \in Jobs \ {j} : pc[k] \in {"off", "loop", "lock"}
BY DEF Owning, AtWork

-----------------------------------------------------------------------------
(* BackupJobs: the directory a backup makes                                *)

Making == {"room", "copy", "aside", "publish"}

\* Each backup has a stamp of its own, of a directory that does not exist until it
\* begins, and that is a part until it publishes it.  What it has moved aside is an older
\* backup until then.
Stamping ==
    /\ \A s \in Stamps : s >= clock => store[s] = "none"
    /\ \A j \in Backups : pc[j] # "off" => stamp[j] \in Stamps /\ stamp[j] < clock
    /\ \A j, k \in Backups : pc[j] # "off" /\ pc[k] # "off" /\ j # k => stamp[j] # stamp[k]
    /\ \A j \in Backups : pc[j] \in {"lock", "locked"} => store[stamp[j]] = "none"
    /\ \A j \in Backups : pc[j] \in Making => store[stamp[j]] = "part"
    /\ \A j \in Backups : pc[j] = "publish" /\ from[j] # None => store[from[j]] = "Backup"

\* What the runs of run-backups may do without taking a stamp or beginning: go on, or end.
GoesOn ==
    \A k \in Backups :
        \/ pc'[k] = "off"
        \/ /\ pc[k] # "off"
           /\ pc'[k] \in {"lock", "locked"} => pc[k] \in {"lock", "locked"}
           /\ pc'[k] \in Making => pc[k] \in Making

\* The steps that make no directory keep the stamps' own.
LEMMA SameStamps ==
    ASSUME TypeOK, Stamping, UNCHANGED <<clock, stamp>>, GoesOn,
           \A s \in Stamps : store[s] = "none" => store'[s] = "none",
           \A k \in Backups : pc'[k] \in Making => store'[stamp[k]] = "part",
           \A k \in Backups : pc'[k] = "publish" /\ from'[k] # None => store'[from'[k]] = "Backup"
    PROVE  Stamping'
<1> USE DEF Stamping, GoesOn
<1>1. \A j \in Backups : pc'[j] # "off" => pc[j] # "off"
  OBVIOUS
<1>2. \A s \in Stamps : s >= clock' => store'[s] = "none"
  OBVIOUS
<1>3. \A j \in Backups : pc'[j] \in {"lock", "locked"} => store'[stamp'[j]] = "none"
  OBVIOUS
<1>4. /\ \A j \in Backups : pc'[j] # "off" => stamp'[j] \in Stamps /\ stamp'[j] < clock'
      /\ \A j, k \in Backups :
            pc'[j] # "off" /\ pc'[k] # "off" /\ j # k => stamp'[j] # stamp'[k]
  BY <1>1
<1> QED
  BY <1>2, <1>3, <1>4

\* The steps that leave the directories alone: of the user, of check-recover, of the
\* recoveries, of the backups between their moves, and of whoever kills them.
Quiet ==
    \/ \E c \in Config : UserSets(c)
    \/ CheckReads \/ CheckLocks \/ CheckFires
    \/ \E j \in Backups : \/ Lock(j) \/ LockFails(j) \/ Refused(j) \/ NoRoom(j)
                          \/ EnoughRoom(j) \/ RecordsFail(j) \/ Copy(j)
    \/ \E r \in Recovers : RecoverStep(r)
    \/ \E j \in Jobs : Crash(j)
    \/ UNCHANGED vars

\* Between its moves a backup still knows what it has moved aside.
Remembers ==
    \A k \in Backups : pc'[k] = "publish" => pc[k] = "publish" /\ from'[k] = from[k]

LEMMA QuietStep ==
    ASSUME TypeOK, Quiet
    PROVE  UNCHANGED <<store, clock, stamp, newest>> /\ GoesOn /\ Remembers
<1> USE JobsAssumption DEF TypeOK, GoesOn, Remembers, Jobs, Go, Leave, Making, remote, history
<1>1. ASSUME NEW c \in Config, UserSets(c)
      PROVE  UNCHANGED <<store, clock, stamp, newest>> /\ GoesOn /\ Remembers
  BY <1>1 DEF UserSets
<1>2. CASE CheckReads \/ CheckLocks \/ CheckFires
  BY <1>2 DEF CheckReads, CheckLocks, CheckFires
<1>3. ASSUME NEW j \in Backups, Lock(j) \/ LockFails(j) \/ Refused(j)
      PROVE  UNCHANGED <<store, clock, stamp, newest>> /\ GoesOn /\ Remembers
  BY <1>3 DEF Lock, LockFails, Refused
<1>4. ASSUME NEW j \in Backups, NoRoom(j) \/ EnoughRoom(j) \/ RecordsFail(j) \/ Copy(j)
      PROVE  UNCHANGED <<store, clock, stamp, newest>> /\ GoesOn /\ Remembers
  BY <1>4 DEF NoRoom, EnoughRoom, RecordsFail, Copy
<1>5. ASSUME NEW r \in Recovers, RecoverStep(r)
      PROVE  UNCHANGED <<store, clock, stamp, newest>> /\ GoesOn /\ Remembers
  <2>1. UNCHANGED <<store, clock, stamp, newest>>
    BY <1>5 DEF RecoverStep, Loop, RLock, RRefused, RBegin, RCopy, RPermsFail, Recovered, RUnlock
  <2>2. \E l : Go(r, l)
    BY <1>5 DEF RecoverStep, Loop, RLock, RRefused, RBegin, RCopy, RPermsFail, Recovered, RUnlock
  <2>3. \A k \in Backups : pc'[k] = pc[k]
    BY <2>2
  <2>4. \A k \in Backups : from'[k] = from[k]
    BY <1>5 DEF RecoverStep, Loop, RLock, RRefused, RBegin, RCopy, RPermsFail, Recovered, RUnlock
  <2> QED
    BY <2>1, <2>3, <2>4
<1>6. ASSUME NEW j \in Jobs, Crash(j)
      PROVE  UNCHANGED <<store, clock, stamp, newest>> /\ GoesOn /\ Remembers
  BY <1>6 DEF Crash
<1>7. CASE UNCHANGED vars
  BY <1>7 DEF vars
<1> QED
  BY <1>1, <1>2, <1>3, <1>4, <1>5, <1>6, <1>7 DEF Quiet

\* The others: they are of run-backups, and all but Start have the lock.
LEMMA NotQuiet ==
    ASSUME [Next]_vars
    PROVE  \/ Quiet
           \/ \E j \in Backups : \/ Start(j) \/ Begin(j) \/ DeleteOldest(j) \/ CopyFails(j)
                                 \/ MoveAside(j) \/ MoveAsideFails(j) \/ Publish(j)
                                 \/ PublishFails(j)
BY DEF Next, BackupStep, Quiet

Dirs == [Stamps -> {"none", "part", "Latest", "Backup"}]

\* A backup that gives up removes parts, or nothing.
LEMMA GivesUp ==
    ASSUME TypeOK, NEW j \in Backups, NEW d \in Dirs, GiveUp(j, d)
    PROVE  /\ UNCHANGED <<full, clock, stamp, newest, from>>
           /\ pc'[j] = "off" /\ \A k \in Jobs \ {j} : pc'[k] = pc[k]
           /\ \A s \in Stamps : d[s] # "part" => store'[s] = d[s]
           /\ \A s \in Stamps : d[s] = "part" => store'[s] \in {"none", "part"}
<1>1. /\ \A s \in Stamps : d[s] # "part" => store'[s] = d[s]
      /\ \A s \in Stamps : d[s] = "part" => store'[s] \in {"none", "part"}
  BY CleanedIs DEF GiveUp, Dirs
<1> QED
  BY <1>1 DEF TypeOK, GiveUp, Leave, Go, Jobs

\* The directories from which GiveUp starts: those there are, or those with the former
\* Latest put back.
LEMMA Failing ==
    ASSUME TypeOK, NEW j \in Backups, CopyFails(j) \/ MoveAsideFails(j) \/ PublishFails(j)
    PROVE  \E d \in Dirs :
              /\ GiveUp(j, d)
              /\ \/ d = store
                 \/ /\ pc[j] = "publish" /\ from[j] \in Stamps /\ from[j] # None
                    /\ d = [store EXCEPT ![from[j]] = "Latest"]
<1>1. store \in Dirs /\ from[j] \in Stamps \cup {None}
  BY DEF TypeOK, Dirs, Jobs
<1>2. [store EXCEPT ![from[j]] = "Latest"] \in Dirs
  BY <1>1 DEF Dirs
<1> QED
  BY <1>1, <1>2 DEF CopyFails, MoveAsideFails, PublishFails

\* MoveAside, with the backup it sees.
LEMMA MovesAside ==
    ASSUME TypeOK, NEW j \in Backups, MoveAside(j)
    PROVE  /\ pc[j] = "aside" /\ pc'[j] = "publish" /\ \A k \in Jobs \ {j} : pc'[k] = pc[k]
           /\ UNCHANGED <<full, clock, stamp, newest>>
           /\ \A k \in Jobs \ {j} : from'[k] = from[k]
           /\ mishap' = (mishap \/ from'[j] # FirstOf(Named("Latest")))
           /\ \/ from'[j] = None /\ store' = store
              \/ /\ from'[j] \in Stamps /\ from'[j] # None /\ store[from'[j]] = "Latest"
                 /\ store' = [store EXCEPT ![from'[j]] = "Backup"]
<1>1. PICK l \in LatestSeen :
          /\ from' = [from EXCEPT ![j] = l]
          /\ store' = IF l = None THEN store ELSE [store EXCEPT ![l] = "Backup"]
          /\ Overlooks(l)
  BY DEF MoveAside
<1>2. from'[j] = l /\ \A k \in Jobs \ {j} : from'[k] = from[k]
  BY <1>1 DEF TypeOK, Jobs
<1>3. l = None \/ (l \in Stamps /\ l # None /\ store[l] = "Latest")
  BY SeenIs DEF Named
<1>4. /\ pc[j] = "aside" /\ pc'[j] = "publish" /\ \A k \in Jobs \ {j} : pc'[k] = pc[k]
      /\ UNCHANGED <<full, clock, stamp, newest>>
  BY DEF MoveAside, Go, TypeOK, Jobs
<1>5. mishap' = (mishap \/ l # FirstOf(Named("Latest")))
  BY <1>1 DEF Overlooks
<1> QED
  BY <1>1, <1>2, <1>3, <1>4, <1>5

LEMMA NextStamping == TypeOK /\ Owning /\ Stamping /\ [Next]_vars => Stamping'
<1> SUFFICES ASSUME TypeOK, Owning, Stamping, [Next]_vars PROVE Stamping'
  OBVIOUS
<1>0. /\ store \in Dirs /\ Backups \subseteq Jobs
      /\ clock \in Nat /\ Stamps \subseteq Nat
  BY JobsAssumption DEF TypeOK, Dirs, Jobs, Stamps
<1>a. ASSUME NEW j \in Backups, AtWork(j)
      PROVE  \A k \in Backups \ {j} : pc[k] \in {"off", "lock"}
  BY <1>0, <1>a, Alone DEF TypeOK, BackupPlaces
<1>1. CASE Quiet
  <2>1. UNCHANGED <<store, clock, stamp>> /\ GoesOn /\ Remembers
    BY <1>1, QuietStep
  <2>2. \A k \in Backups : pc'[k] \in Making => store'[stamp[k]] = "part"
    BY <2>1 DEF Stamping, GoesOn, Making
  <2>3. \A k \in Backups :
            pc'[k] = "publish" /\ from'[k] # None => store'[from'[k]] = "Backup"
    BY <2>1 DEF Stamping, Remembers
  <2> QED
    BY <2>1, <2>2, <2>3, SameStamps
<1>2. ASSUME NEW j \in Backups, Start(j) PROVE Stamping'
  <2>1. /\ store' = store /\ clock' = clock + 1 /\ clock \in Stamps /\ pc'[j] = "lock"
        /\ \A k \in Backups \ {j} : pc'[k] = pc[k]
        /\ stamp'[j] = clock /\ \A k \in Backups \ {j} : stamp'[k] = stamp[k]
    BY <1>0, <1>2 DEF Start, Go, remote, TypeOK
  <2>2. ASSUME NEW s \in Stamps, s >= clock' PROVE store'[s] = "none"
    <3>1. s >= clock
      BY <1>0, <2>1, <2>2
    <3> QED
      BY <2>1, <3>1 DEF Stamping
  <2>3. ASSUME NEW k \in Backups, pc'[k] # "off"
        PROVE  stamp'[k] \in Stamps /\ stamp'[k] < clock'
    <3>1. CASE k = j
      BY <1>0, <2>1, <3>1
    <3>2. CASE k # j
      <4>1. stamp'[k] = stamp[k] /\ stamp[k] \in Stamps /\ stamp[k] < clock
        BY <2>1, <2>3, <3>2 DEF Stamping
      <4>2. stamp[k] \in Nat /\ clock \in Nat /\ clock' = clock + 1
        BY <1>0, <2>1, <4>1
      <4>3. stamp[k] < clock'
        BY <4>1, <4>2
      <4> QED
        BY <4>1, <4>3
    <3> QED
      BY <3>1, <3>2
  <2>4. \A k \in Backups \ {j} : pc'[k] # "off" => stamp'[k] # clock
    BY <1>0, <2>1 DEF Stamping
  <2>5. \A k, l \in Backups :
            pc'[k] # "off" /\ pc'[l] # "off" /\ k # l => stamp'[k] # stamp'[l]
    BY <2>1, <2>4 DEF Stamping
  <2>6. store'[stamp'[j]] = "none"
    BY <1>0, <2>1 DEF Stamping
  <2>7. \A k \in Backups : /\ pc'[k] \in {"lock", "locked"} => store'[stamp'[k]] = "none"
                           /\ pc'[k] \in Making => store'[stamp'[k]] = "part"
    BY <2>1, <2>6 DEF Stamping, Making
  <2>8. \A k \in Backups :
            pc'[k] = "publish" /\ from'[k] # None => store'[from'[k]] = "Backup"
    BY <1>2, <2>1 DEF Stamping, Start
  <2> QED
    BY <2>2, <2>3, <2>5, <2>7, <2>8 DEF Stamping
<1>3. ASSUME NEW j \in Backups, Begin(j) PROVE Stamping'
  <2>1. \A k \in Backups \ {j} : pc[k] \in {"off", "lock"}
    BY <1>a, <1>3 DEF Begin, AtWork
  <2>2. stamp[j] \in Stamps /\ stamp[j] < clock
    BY <1>3 DEF Begin, Stamping
  <2>3. /\ UNCHANGED <<clock, stamp>> /\ pc[j] = "locked" /\ pc'[j] = "room"
        /\ \A k \in Backups \ {j} : pc'[k] = pc[k]
        /\ store' = [store EXCEPT ![stamp[j]] = "part"]
    BY <1>0, <1>3 DEF Begin, Go, TypeOK
  <2>4. store'[stamp[j]] = "part" /\ \A s \in Stamps \ {stamp[j]} : store'[s] = store[s]
    BY <1>0, <2>2, <2>3 DEF Dirs
  <2>5. ASSUME NEW s \in Stamps, s >= clock' PROVE store'[s] = "none"
    <3>1. s >= clock /\ s # stamp[j]
      BY <1>0, <2>2, <2>3, <2>5
    <3> QED
      BY <2>4, <3>1 DEF Stamping
  <2>6. \A k \in Backups : pc'[k] # "off" => pc[k] # "off"
    BY <2>3
  <2>7. /\ \A k \in Backups : pc'[k] # "off" => stamp'[k] \in Stamps /\ stamp'[k] < clock'
        /\ \A k, l \in Backups :
              pc'[k] # "off" /\ pc'[l] # "off" /\ k # l => stamp'[k] # stamp'[l]
    BY <2>3, <2>6 DEF Stamping
  <2>8. \A k \in Backups \ {j} :
            pc'[k] \in {"lock", "locked"} => store'[stamp'[k]] = "none"
    BY <2>3, <2>4 DEF Stamping
  <2>9. \A k \in Backups : pc'[k] \in Making => k = j
    BY <2>1, <2>3 DEF Making
  <2>10. \A k \in Backups : pc'[k] # "publish"
    BY <2>1, <2>3
  <2> QED
    BY <2>3, <2>4, <2>5, <2>7, <2>8, <2>9, <2>10 DEF Stamping
<1>4. ASSUME NEW j \in Backups, AtWork(j), pc[j] # "locked", UNCHANGED <<clock, stamp>>,
             \A k \in Backups \ {j} : pc'[k] = pc[k],
             pc'[j] = "off" \/ (pc'[j] \in Making /\ store'[stamp[j]] = store[stamp[j]]),
             \A s \in Stamps : store[s] = "none" => store'[s] = "none",
             pc'[j] = "publish" /\ from'[j] # None => store'[from'[j]] = "Backup"
      PROVE  Stamping'
  <2>1. \A k \in Backups \ {j} : pc[k] \in {"off", "lock"}
    BY <1>a, <1>4
  <2>2. pc[j] \in Making
    BY <1>4 DEF TypeOK, BackupPlaces, Making, AtWork
  <2>3. GoesOn
    BY <1>4, <2>1, <2>2 DEF GoesOn, Making
  <2>4. \A k \in Backups : pc'[k] \in Making => store'[stamp[k]] = "part"
    BY <1>4, <2>1, <2>2 DEF Stamping, Making
  <2>5. \A k \in Backups :
            pc'[k] = "publish" /\ from'[k] # None => store'[from'[k]] = "Backup"
    BY <1>4, <2>1
  <2> QED
    BY <1>4, <2>3, <2>4, <2>5, SameStamps
<1>5. ASSUME NEW j \in Backups, DeleteOldest(j) PROVE Stamping'
  <2> DEFINE s == FirstOf(Named("Backup"))
  <2>1. s \in Stamps /\ store[s] = "Backup"
    BY <1>5, AnotherOne DEF DeleteOldest, Named
  <2>2. store[stamp[j]] = "part"
    BY <1>5 DEF DeleteOldest, Stamping, Making
  <2>3. /\ store' = [store EXCEPT ![s] = "none"] /\ pc' = pc /\ pc[j] = "room"
        /\ UNCHANGED <<clock, stamp>>
    BY <1>5 DEF DeleteOldest
  <2> HIDE DEF s
  <2>4. \A t \in Stamps : store[t] = "none" => store'[t] = "none"
    BY <1>0, <2>3 DEF Dirs
  <2>5. store'[stamp[j]] = store[stamp[j]]
    BY <1>0, <2>1, <2>2, <2>3 DEF Dirs
  <2> QED
    BY <1>4, <2>3, <2>4, <2>5 DEF Making, AtWork
<1>6. ASSUME NEW j \in Backups, CopyFails(j) \/ MoveAsideFails(j) \/ PublishFails(j)
      PROVE  Stamping'
  <2>1. PICK d \in Dirs : /\ GiveUp(j, d)
                          /\ \/ d = store
                             \/ /\ pc[j] = "publish" /\ from[j] \in Stamps /\ from[j] # None
                                /\ d = [store EXCEPT ![from[j]] = "Latest"]
    BY <1>6, Failing
  <2>2. \A s \in Stamps : store[s] = "none" => d[s] = "none"
    BY <1>0, <2>1 DEF Dirs, Stamping
  <2>3. \A s \in Stamps : store[s] = "none" => store'[s] = "none"
    BY <2>1, <2>2, GivesUp
  <2>4. AtWork(j) /\ pc[j] # "locked"
    BY <1>6 DEF CopyFails, MoveAsideFails, PublishFails, AtWork
  <2>5. /\ UNCHANGED <<clock, stamp>> /\ pc'[j] = "off"
        /\ \A k \in Backups \ {j} : pc'[k] = pc[k]
    BY <1>0, <2>1, GivesUp
  <2> QED
    BY <1>4, <2>3, <2>4, <2>5
<1>7. ASSUME NEW j \in Backups, MoveAside(j) PROVE Stamping'
  <2>1. store[stamp[j]] = "part"
    BY <1>7 DEF MoveAside, Stamping, Making
  <2>2. store'[stamp[j]] = store[stamp[j]]
    <3>1. \/ store' = store
          \/ /\ store[from'[j]] = "Latest"
             /\ store' = [store EXCEPT ![from'[j]] = "Backup"]
      BY <1>7, MovesAside
    <3>2. stamp[j] \in Stamps
      BY <1>7 DEF MoveAside, Stamping
    <3> QED
      BY <1>0, <2>1, <3>1, <3>2 DEF Dirs
  <2>3. \A s \in Stamps : store[s] = "none" => store'[s] = "none"
    BY <1>0, <1>7, MovesAside DEF Dirs
  <2>4. pc'[j] = "publish" /\ from'[j] # None => store'[from'[j]] = "Backup"
    BY <1>0, <1>7, MovesAside DEF Dirs
  <2> QED
    BY <1>0, <1>4, <1>7, <2>2, <2>3, <2>4, MovesAside DEF Making, AtWork
<1>8. ASSUME NEW j \in Backups, Publish(j) PROVE Stamping'
  <2>1. store[stamp[j]] = "part"
    BY <1>8 DEF Publish, Stamping, Making
  <2>2. \A s \in Stamps : store[s] = "none" => store'[s] = "none"
    BY <1>0, <1>8, <2>1 DEF Publish, Dirs
  <2> QED
    BY <1>0, <1>4, <1>8, <2>2 DEF Publish, Leave, Go, AtWork, TypeOK
<1> QED
  BY <1>1, <1>2, <1>3, <1>5, <1>6, <1>7, <1>8, NotQuiet

-----------------------------------------------------------------------------
(* BackupJobs: what is whole                                               *)

\* Every copy in the set is whole, or a later one is: deleting takes the oldest first,
\* so that what a deletion leaves in pieces is never the last one.
Solid(S, F) == \A s \in S : s \in F \/ \E t \in S : t > s /\ t \in F

\* One more whole copy, or one whole copy more in the set, does no harm.
LEMMA SolidGrows ==
    ASSUME NEW S, NEW F, NEW G, F \subseteq G, Solid(S, F), NEW l \in G
    PROVE  Solid(S, G) /\ Solid(S \cup {l}, G)
BY DEF Solid

\* The oldest of several may be lost, and may be gone.
LEMMA SolidDrops ==
    ASSUME NEW S, S \subseteq Stamps, ~TooFew(S), NEW F, Solid(S, F)
    PROVE  Solid(S, F \ {FirstOf(S)}) /\ Solid(S \ {FirstOf(S)}, F \ {FirstOf(S)})
<1> DEFINE s == FirstOf(S)
<1>1. s \in S /\ \E t \in S : t # s
  BY AnotherOne
<1>0. s = FirstOf(S)
  OBVIOUS
<1> HIDE DEF s
<1>6. \A t \in S : t \in Nat
  BY JobsAssumption DEF Stamps
<1>7. \A t \in S : s <= t
  BY <1>0, <1>1, FirstIs
<1>2. \A t \in S : s <= t /\ t \in Nat
  BY <1>6, <1>7
<1>3. ASSUME NEW t \in S, t # s
      PROVE  t \in F \ {s} \/ \E u \in S \ {s} : u > t /\ u \in F \ {s}
  <2>1. CASE t \in F
    BY <1>3, <2>1
  <2>2. CASE t \notin F
    <3>1. PICK u \in S : u > t /\ u \in F
      BY <2>2 DEF Solid
    <3>2. u # s
      BY <1>1, <1>2, <3>1
    <3> QED
      BY <3>1, <3>2
  <2> QED
    BY <2>1, <2>2
<1>4. \E u \in S \ {s} : u > s /\ u \in F \ {s}
  <2>1. PICK t \in S : t # s
    BY <1>1
  <2>2. t > s
    BY <1>1, <1>2, <2>1
  <2>3. CASE t \in F
    BY <2>1, <2>2, <2>3
  <2>4. CASE t \notin F
    <3>1. PICK u \in S \ {s} : u > t /\ u \in F \ {s}
      BY <1>3, <2>1, <2>4
    <3>2. u > s
      BY <1>1, <1>2, <2>2, <3>1
    <3> QED
      BY <3>1, <3>2
  <2> QED
    BY <2>3, <2>4
<1>5. Solid(S, F \ {s}) /\ Solid(S \ {s}, F \ {s})
  BY <1>3, <1>4 DEF Solid
<1> QED
  BY <1>5 DEF s

\* The latest backups are whole; of the older ones, the last one is; and so it is without
\* the one that has been moved aside and may be put back.
Whole ==
    /\ \A s \in Stamps : store[s] = "Latest" => s \in full
    /\ Solid(Named("Backup"), full)
    /\ \A j \in Backups : pc[j] \in {"aside", "publish"} => stamp[j] \in full
    /\ \A j \in Backups : pc[j] = "publish" /\ from[j] # None =>
          from[j] \in full /\ Solid(Named("Backup") \ {from[j]}, full)
    /\ newest # None => Finished # {}

\* Between its moves a backup has nobody beside it; after them it has ended.
LEMMA WholeAfter ==
    ASSUME TypeOK, Owning, NEW j \in Backups, AtWork(j),
           \A k \in Backups \ {j} : pc'[k] = pc[k],
           pc'[j] \notin {"aside", "publish"},
           \A s \in Stamps : store'[s] = "Latest" => s \in full',
           Solid(Named("Backup")', full'), newest' # None => Finished' # {}
    PROVE  Whole'
<1>1. \A k \in Backups : pc'[k] \notin {"aside", "publish"}
  BY Alone DEF Jobs
<1> QED
  BY <1>1 DEF Whole

LEMMA NextWhole == TypeOK /\ Owning /\ Stamping /\ Whole /\ [Next]_vars => Whole'
<1> SUFFICES ASSUME TypeOK, Owning, Stamping, Whole, [Next]_vars PROVE Whole'
  OBVIOUS
<1>0. store \in Dirs /\ Backups \subseteq Jobs /\ Named("Backup") \subseteq Stamps
  BY DEF TypeOK, Dirs, Jobs, Named
<1>a. ASSUME NEW j \in Backups, AtWork(j)
      PROVE  \A k \in Backups \ {j} : pc[k] \notin {"aside", "publish"}
  BY <1>0, <1>a, Alone
<1>b. ASSUME NEW j \in Backups, ~TooFew(Named("Backup"))
      PROVE  /\ FirstOf(Named("Backup")) \in Stamps
             /\ store[FirstOf(Named("Backup"))] = "Backup"
             /\ Solid(Named("Backup"), full \ {FirstOf(Named("Backup"))})
             /\ Solid(Named("Backup") \ {FirstOf(Named("Backup"))},
                      full \ {FirstOf(Named("Backup"))})
  <2>1. FirstOf(Named("Backup")) \in Named("Backup")
    BY <1>0, <1>b, AnotherOne
  <2>2. Solid(Named("Backup"), full)
    BY DEF Whole
  <2> QED
    BY <1>0, <1>b, <2>1, <2>2, SolidDrops DEF Named
<1>1. ASSUME NEW j \in Backups, NoRoom(j) PROVE Whole'
  <2>1. /\ pc[j] = "room" /\ pc'[j] = "off" /\ \A k \in Backups \ {j} : pc'[k] = pc[k]
        /\ UNCHANGED <<store, newest>>
    BY <1>0, <1>1 DEF NoRoom, Leave, Go, TypeOK, history
  <2>2. \/ full' = full
        \/ ~TooFew(Named("Backup")) /\ full' = full \ {FirstOf(Named("Backup"))}
    BY <1>1 DEF NoRoom
  <2>3. Named("Backup")' = Named("Backup") /\ Finished' = Finished
    BY <2>1 DEF Finished, Named
  <2>4. /\ \A s \in Stamps : store'[s] = "Latest" => s \in full'
        /\ Solid(Named("Backup")', full')
    BY <1>1, <1>b, <2>1, <2>2, <2>3 DEF Whole
  <2> QED
    BY <2>1, <2>3, <2>4, WholeAfter DEF Whole, AtWork
<1>2. ASSUME NEW j \in Backups, Copy(j) PROVE Whole'
  <2>1. /\ pc[j] = "copy" /\ pc'[j] = "aside" /\ \A k \in Backups \ {j} : pc'[k] = pc[k]
        /\ UNCHANGED <<store, newest, stamp>> /\ full' = full \cup {stamp[j]}
    BY <1>0, <1>2 DEF Copy, Go, TypeOK, history
  <2>2. \A k \in Backups \ {j} : pc'[k] \notin {"aside", "publish"}
    BY <1>a, <2>1 DEF AtWork
  <2>3. Named("Backup")' = Named("Backup") /\ Finished' = Finished
    BY <2>1 DEF Finished, Named
  <2>4. Solid(Named("Backup")', full')
    BY <2>1, <2>3, SolidGrows DEF Whole
  <2> QED
    BY <2>1, <2>2, <2>3, <2>4 DEF Whole
<1>3. CASE Quiet /\ full' = full /\ \A k \in Backups : pc'[k] = "aside" => pc[k] = "aside"
  <2>1. UNCHANGED <<store, stamp, newest, full>> /\ Remembers
    BY <1>3, QuietStep
  <2>2. Named("Backup")' = Named("Backup") /\ Finished' = Finished
    BY <2>1 DEF Finished, Named
  <2>3. \A k \in Backups : pc'[k] \in {"aside", "publish"} => pc[k] \in {"aside", "publish"}
    BY <1>3, <2>1 DEF Remembers
  <2> QED
    BY <2>1, <2>2, <2>3 DEF Whole, Remembers
<1>4. ASSUME NEW j \in Backups, Start(j) PROVE Whole'
  <2>1. /\ pc[j] = "off" /\ pc'[j] = "lock" /\ \A k \in Backups \ {j} : pc'[k] = pc[k]
        /\ UNCHANGED <<store, newest, full, from>>
        /\ \A k \in Backups \ {j} : stamp'[k] = stamp[k]
    BY <1>0, <1>4 DEF Start, Go, TypeOK, remote, history
  <2>2. Named("Backup")' = Named("Backup") /\ Finished' = Finished
    BY <2>1 DEF Finished, Named
  <2> QED
    BY <2>1, <2>2 DEF Whole
<1>5. ASSUME NEW j \in Backups, Begin(j) PROVE Whole'
  <2>1. /\ pc[j] = "locked" /\ pc'[j] = "room" /\ \A k \in Backups \ {j} : pc'[k] = pc[k]
        /\ UNCHANGED <<newest, full>> /\ store' = [store EXCEPT ![stamp[j]] = "part"]
    BY <1>0, <1>5 DEF Begin, Go, TypeOK, history
  <2>2. store[stamp[j]] = "none" /\ stamp[j] \in Stamps
    BY <2>1 DEF Stamping
  <2>3. \A n \in {"Latest", "Backup"} : Named(n)' = Named(n)
    BY <1>0, <2>1, <2>2 DEF Named, Dirs
  <2> QED
    BY <1>0, <2>1, <2>2, <2>3, WholeAfter DEF Whole, AtWork, Finished, Dirs
<1>6. ASSUME NEW j \in Backups, DeleteOldest(j) PROVE Whole'
  <2> DEFINE s == FirstOf(Named("Backup"))
  <2>1. /\ pc[j] = "room" /\ pc' = pc /\ newest' = newest /\ ~TooFew(Named("Backup"))
        /\ full' = full \ {s} /\ store' = [store EXCEPT ![s] = "none"]
    BY <1>6 DEF DeleteOldest, history
  <2>2. /\ s \in Stamps /\ store[s] = "Backup"
        /\ Solid(Named("Backup") \ {s}, full \ {s})
    BY <1>b, <2>1
  <2>3. \E t \in Named("Backup") : t # s
    BY <1>0, <2>1, AnotherOne
  <2> HIDE DEF s
  <2>4. Named("Backup")' = Named("Backup") \ {s} /\ Named("Latest")' = Named("Latest")
    BY <1>0, <2>1, <2>2 DEF Named, Dirs
  <2>5. Finished' # {}
    BY <2>3, <2>4 DEF Finished
  <2>6. \A t \in Stamps : store'[t] = "Latest" => t \in full'
    BY <1>0, <2>1, <2>2 DEF Whole, Dirs
  <2> QED
    BY <2>1, <2>2, <2>4, <2>5, <2>6, WholeAfter DEF AtWork
<1>7. ASSUME NEW j \in Backups, CopyFails(j) \/ MoveAsideFails(j) \/ PublishFails(j)
      PROVE  Whole'
  <2>1. PICK d \in Dirs : /\ GiveUp(j, d)
                          /\ \/ d = store
                             \/ /\ pc[j] = "publish" /\ from[j] \in Stamps /\ from[j] # None
                                /\ d = [store EXCEPT ![from[j]] = "Latest"]
    BY <1>7, Failing
  <2>2. /\ UNCHANGED <<full, newest>> /\ pc'[j] = "off"
        /\ \A k \in Backups \ {j} : pc'[k] = pc[k]
        /\ \A n \in {"Latest", "Backup"} : Named(n)' = {s \in Stamps : d[s] = n}
    BY <1>0, <2>1, GivesUp DEF Named
  <2>3. AtWork(j)
    BY <1>7 DEF CopyFails, MoveAsideFails, PublishFails, AtWork
  <2>4. CASE d = store
    <3>1. \A n \in {"Latest", "Backup"} : Named(n)' = Named(n)
      BY <2>2, <2>4 DEF Named
    <3>2. \A s \in Stamps : store'[s] = "Latest" => s \in full'
      BY <2>2, <3>1 DEF Named, Whole
    <3> QED
      BY <2>2, <2>3, <3>1, <3>2, WholeAfter DEF Whole, Finished
  <2>5. CASE /\ pc[j] = "publish" /\ from[j] \in Stamps /\ from[j] # None
             /\ d = [store EXCEPT ![from[j]] = "Latest"]
    <3>1. /\ Named("Latest")' = Named("Latest") \cup {from[j]}
          /\ Named("Backup")' = Named("Backup") \ {from[j]}
      BY <1>0, <2>2, <2>5 DEF Named, Dirs
    <3>2. from[j] \in full /\ Solid(Named("Backup") \ {from[j]}, full)
      BY <2>5 DEF Whole
    <3>3. \A s \in Stamps : store'[s] = "Latest" => s \in full'
      BY <2>2, <3>1, <3>2 DEF Named, Whole
    <3> QED
      BY <2>2, <2>3, <3>1, <3>2, <3>3, WholeAfter DEF Finished
  <2> QED
    BY <2>1, <2>4, <2>5
<1>8. ASSUME NEW j \in Backups, MoveAside(j) PROVE Whole'
  <2> DEFINE l == from'[j]
  <2>1. /\ pc[j] = "aside" /\ pc'[j] = "publish" /\ \A k \in Backups \ {j} : pc'[k] = pc[k]
        /\ UNCHANGED <<full, stamp, newest>>
        /\ \/ l = None /\ store' = store
           \/ /\ l \in Stamps /\ l # None /\ store[l] = "Latest"
              /\ store' = [store EXCEPT ![l] = "Backup"]
    BY <1>0, <1>8, MovesAside
  <2>2. \A k \in Backups \ {j} : pc'[k] \notin {"aside", "publish"}
    BY <1>a, <2>1 DEF AtWork
  <2> HIDE DEF l
  <2>3. CASE l = None /\ store' = store
    <3>1. \A n \in {"Latest", "Backup"} : Named(n)' = Named(n)
      BY <2>3 DEF Named
    <3> QED
      BY <2>1, <2>2, <2>3, <3>1 DEF Whole, Finished, l
  <2>4. CASE /\ l \in Stamps /\ l # None /\ store[l] = "Latest"
             /\ store' = [store EXCEPT ![l] = "Backup"]
    <3>1. /\ Named("Backup")' = Named("Backup") \cup {l} /\ l \notin Named("Backup")
          /\ Named("Latest")' = Named("Latest") \ {l} /\ l \in Named("Latest")
      BY <1>0, <2>4 DEF Named, Dirs
    <3>2. l \in full
      BY <2>4 DEF Whole
    <3>3. /\ Solid(Named("Backup")', full') /\ Named("Backup")' \ {l} = Named("Backup")
          /\ Finished' # {}
      BY <2>1, <3>1, <3>2, SolidGrows DEF Whole, Finished
    <3>4. \A s \in Stamps : store'[s] = "Latest" => s \in full'
      BY <1>0, <2>1, <2>4 DEF Whole, Dirs
    <3> QED
      BY <2>1, <2>2, <3>2, <3>3, <3>4 DEF Whole, l
  <2> QED
    BY <2>1, <2>3, <2>4
<1>9. ASSUME NEW j \in Backups, Publish(j) PROVE Whole'
  <2>1. /\ pc[j] = "publish" /\ pc'[j] = "off" /\ \A k \in Backups \ {j} : pc'[k] = pc[k]
        /\ full' = full /\ store' = [store EXCEPT ![stamp[j]] = "Latest"]
    BY <1>0, <1>9 DEF Publish, Leave, Go, TypeOK
  <2>2. stamp[j] \in full /\ stamp[j] \in Stamps /\ store[stamp[j]] = "part"
    BY <2>1 DEF Whole, Stamping, Making
  <2>3. Named("Backup")' = Named("Backup") /\ stamp[j] \in Named("Latest")'
    BY <1>0, <2>1, <2>2 DEF Named, Dirs
  <2>4. \A s \in Stamps : store'[s] = "Latest" => s \in full'
    BY <1>0, <2>1, <2>2 DEF Whole, Dirs
  <2> QED
    BY <2>1, <2>3, <2>4, WholeAfter DEF Whole, AtWork, Finished
<1>10. Quiet => \/ \E j \in Backups : NoRoom(j) \/ Copy(j)
                \/ full' = full /\ \A k \in Backups : pc'[k] = "aside" => pc[k] = "aside"
  <2>1. ASSUME NEW c \in Config, UserSets(c)
        PROVE  full' = full /\ \A k \in Backups : pc'[k] = "aside" => pc[k] = "aside"
    BY <1>0, <2>1 DEF UserSets, Go, TypeOK, remote
  <2>2. CASE CheckReads \/ CheckLocks \/ CheckFires
    BY <1>0, <2>2 DEF CheckReads, CheckLocks, CheckFires, Go, TypeOK, remote
  <2>3. ASSUME NEW j \in Backups,
               Lock(j) \/ LockFails(j) \/ Refused(j) \/ EnoughRoom(j) \/ RecordsFail(j)
        PROVE  full' = full /\ \A k \in Backups : pc'[k] = "aside" => pc[k] = "aside"
    BY <1>0, <2>3 DEF Lock, LockFails, Refused, EnoughRoom, RecordsFail, Leave, Go, TypeOK, remote
  <2>4. ASSUME NEW r \in Recovers, RecoverStep(r)
        PROVE  full' = full /\ \A k \in Backups : pc'[k] = "aside" => pc[k] = "aside"
    BY <1>0, <2>4, JobsAssumption
       DEF RecoverStep, Loop, RLock, RRefused, RBegin, RCopy, RPermsFail, Recovered, RUnlock,
           Leave, Go, TypeOK, remote
  <2>5. ASSUME NEW j \in Jobs, Crash(j)
        PROVE  full' = full /\ \A k \in Backups : pc'[k] = "aside" => pc[k] = "aside"
    BY <1>0, <2>5 DEF Crash, Go, TypeOK, remote
  <2>6. CASE UNCHANGED vars
    BY <2>6 DEF vars, remote
  <2> QED
    BY <2>1, <2>2, <2>3, <2>4, <2>5, <2>6 DEF Quiet
<1> QED
  BY <1>1, <1>2, <1>3, <1>4, <1>5, <1>6, <1>7, <1>8, <1>9, <1>10, NotQuiet

-----------------------------------------------------------------------------
(* BackupJobs: what a recovery reads                                       *)

Reading(r) == pc[r] \in {"copy", "copied", "broken"}

LEMMA InitSource == Init => SourceStays
BY DEF Init, SourceStays, Jobs

\* A recovery picks a Latest, and has the lock until it has read it.
LEMMA NextSource == TypeOK /\ Owning /\ SourceStays /\ [Next]_vars => SourceStays'
<1> SUFFICES ASSUME TypeOK, Owning, SourceStays, [Next]_vars PROVE SourceStays'
  OBVIOUS
<1>0. Backups \subseteq Jobs /\ Recovers \subseteq Jobs /\ Backups \cap Recovers = {}
  BY JobsAssumption DEF Jobs
<1>1. SUFFICES ASSUME NEW r \in Recovers, Reading(r)'
               PROVE  store'[from'[r]] = "Latest"
  BY DEF SourceStays, Reading
<1>2. CASE Quiet
  <2>1. store' = store
    BY <1>2, QuietStep
  <2>2. SUFFICES store[from'[r]] = "Latest"
    BY <2>1
  <2>3. Reading(r) => store[from[r]] = "Latest"
    BY DEF SourceStays, Reading
  <2>4. SUFFICES ASSUME ~(Reading(r) /\ from'[r] = from[r])
                 PROVE  store[from'[r]] = "Latest"
    BY <2>3
  <2>5. RBegin(r)
    <3> USE <1>0 DEF TypeOK, Reading, Go, Leave
    <3>1. ASSUME NEW c \in Config, UserSets(c) PROVE FALSE
      BY <3>1, <1>1, <2>4 DEF UserSets
    <3>2. CASE CheckReads \/ CheckLocks \/ CheckFires
      BY <3>2, <1>1, <2>4 DEF CheckReads, CheckLocks, CheckFires
    <3>3. ASSUME NEW j \in Backups,
                 \/ Lock(j) \/ LockFails(j) \/ Refused(j) \/ NoRoom(j) \/ EnoughRoom(j)
                 \/ RecordsFail(j) \/ Copy(j)
          PROVE  FALSE
      BY <3>3, <1>1, <2>4
         DEF Lock, LockFails, Refused, NoRoom, EnoughRoom, RecordsFail, Copy
    <3>4. ASSUME NEW q \in Recovers, RecoverStep(q), ~RBegin(q) PROVE FALSE
      BY <3>4, <1>1, <2>4
         DEF RecoverStep, Loop, RLock, RRefused, RCopy, RPermsFail, Recovered, RUnlock
    <3>5. ASSUME NEW q \in Recovers \ {r}, RBegin(q) PROVE FALSE
      BY <3>5, <1>1, <2>4 DEF RBegin
    <3>6. ASSUME NEW j \in Jobs, Crash(j) PROVE FALSE
      BY <3>6, <1>1, <2>4 DEF Crash
    <3>7. CASE UNCHANGED vars
      BY <3>7, <1>1, <2>4 DEF vars
    <3> QED
      BY <1>2, <3>1, <3>2, <3>3, <3>4, <3>5, <3>6, <3>7 DEF Quiet
  <2>6. PICK l \in LatestSeen \ {None} : from' = [from EXCEPT ![r] = l]
    BY <2>5 DEF RBegin
  <2>7. store[l] = "Latest" /\ from'[r] = l
    BY <1>0, <2>6, SeenIs DEF Named, TypeOK
  <2> QED
    BY <2>7
<1>3. ASSUME NEW j \in Backups, Start(j) PROVE store'[from'[r]] = "Latest"
  BY <1>0, <1>1, <1>3 DEF Start, Go, TypeOK, remote, SourceStays, Reading
<1>4. ASSUME NEW j \in Backups, AtWork(j), \E l : Go(j, l) PROVE FALSE
  <2>1. pc[r] \in {"off", "loop", "lock"} /\ pc'[r] = pc[r]
    BY <1>0, <1>4, Alone DEF Go, TypeOK
  <2> QED
    BY <1>1, <2>1 DEF Reading
<1>5. ASSUME NEW j \in Backups, DeleteOldest(j) PROVE FALSE
  <2>1. pc[r] \in {"off", "loop", "lock"} /\ pc'[r] = pc[r]
    BY <1>0, <1>5, Alone DEF DeleteOldest, AtWork
  <2> QED
    BY <1>1, <2>1 DEF Reading
<1>6. ASSUME NEW j \in Backups,
             \/ Begin(j) \/ CopyFails(j) \/ MoveAside(j) \/ MoveAsideFails(j) \/ Publish(j)
             \/ PublishFails(j)
      PROVE  FALSE
  <2>1. AtWork(j) /\ \E l : Go(j, l)
    BY <1>6 DEF Begin, CopyFails, MoveAside, MoveAsideFails, Publish, PublishFails, GiveUp,
                Leave, AtWork
  <2> QED
    BY <1>4, <2>1
<1> QED
  BY <1>2, <1>3, <1>5, <1>6, NotQuiet

-----------------------------------------------------------------------------
(* BackupJobs: the order of the moves                                      *)

\* Until a mishap, one backup at most is called Latest, and none is between the moves.
InOrder ==
    ~mishap => /\ \A s, t \in Named("Latest") : s = t
               /\ \A j \in Backups : pc[j] = "publish" => Named("Latest") = {}

LEMMA MishapStays == TypeOK /\ [Next]_vars => (mishap => mishap')
<1> SUFFICES ASSUME TypeOK, [Next]_vars, mishap PROVE mishap'
  OBVIOUS
<1> USE DEF history, Mishap, Overlooks
<1>1. ASSUME NEW j \in Backups, Start(j) \/ BackupStep(j) PROVE mishap'
  BY <1>1 DEF Start, BackupStep, Lock, LockFails, Refused, Begin, DeleteOldest, NoRoom,
              EnoughRoom, RecordsFail, Copy, CopyFails, MoveAside, MoveAsideFails, Publish,
              PublishFails
<1>2. ASSUME NEW r \in Recovers, RecoverStep(r) PROVE mishap'
  BY <1>2 DEF RecoverStep, Loop, RLock, RRefused, RBegin, RCopy, RPermsFail, Recovered, RUnlock
<1> QED
  BY <1>1, <1>2 DEF Next, vars, UserSets, CheckReads, CheckLocks, CheckFires, Crash

LEMMA InitInOrder == Init => InOrder
BY DEF Init, InOrder, Named, Jobs

LEMMA NextInOrder == TypeOK /\ Owning /\ Stamping /\ InOrder /\ [Next]_vars => InOrder'
<1> SUFFICES ASSUME TypeOK, Owning, Stamping, InOrder, [Next]_vars, ~mishap' PROVE InOrder'
  BY DEF InOrder
<1>0. /\ ~mishap /\ store \in Dirs /\ Backups \subseteq Jobs
      /\ Named("Latest") \subseteq Stamps
  BY MishapStays DEF TypeOK, Dirs, Jobs, Named
<1>1. ASSUME Named("Latest")' = Named("Latest"),
             \A k \in Backups : pc'[k] = "publish" => pc[k] = "publish"
      PROVE  InOrder'
  BY <1>0, <1>1 DEF InOrder
<1>2. CASE Quiet
  BY <1>1, <1>2, QuietStep DEF Remembers, Named
<1>3. ASSUME NEW j \in Backups, Start(j) PROVE InOrder'
  BY <1>0, <1>1, <1>3 DEF Start, Go, TypeOK, remote, Named
<1>4. ASSUME NEW j \in Backups, Begin(j) PROVE InOrder'
  <2>1. store[stamp[j]] = "none"
    BY <1>4 DEF Begin, Stamping
  <2>2. Named("Latest")' = Named("Latest")
    BY <1>0, <1>4, <2>1 DEF Begin, Named, Dirs
  <2> QED
    BY <1>0, <1>1, <1>4, <2>2 DEF Begin, Go, TypeOK
<1>5. ASSUME NEW j \in Backups, DeleteOldest(j) PROVE InOrder'
  <2> DEFINE s == FirstOf(Named("Backup"))
  <2>1. store[s] = "Backup" /\ store' = [store EXCEPT ![s] = "none"] /\ pc' = pc
    BY <1>5, AnotherOne DEF DeleteOldest, Named
  <2> HIDE DEF s
  <2>2. Named("Latest")' = Named("Latest")
    BY <1>0, <2>1 DEF Named, Dirs
  <2> QED
    BY <1>1, <2>1, <2>2
<1>6. ASSUME NEW j \in Backups, CopyFails(j) PROVE InOrder'
  <2>1. GiveUp(j, store)
    BY <1>6 DEF CopyFails
  <2>2. Named("Latest")' = Named("Latest")
    BY <1>0, <2>1, GivesUp DEF Named
  <2> QED
    BY <1>0, <1>1, <2>1, <2>2, GivesUp
<1>7. ASSUME NEW j \in Backups, MoveAsideFails(j) \/ PublishFails(j) PROVE InOrder'
  BY <1>7 DEF MoveAsideFails, PublishFails, Mishap
<1>8. ASSUME NEW j \in Backups, MoveAside(j) PROVE InOrder'
  <2> DEFINE l == from'[j]
  <2>1. l = FirstOf(Named("Latest"))
    BY <1>0, <1>8, MovesAside
  <2> HIDE DEF l
  <2>2. /\ \A s \in Named("Latest") : s = l
        /\ \/ l = None /\ store' = store
           \/ /\ l \in Stamps /\ store[l] = "Latest"
              /\ store' = [store EXCEPT ![l] = "Backup"]
    <3>1. \A s \in Named("Latest") : s = l
      BY <1>0, <2>1, FirstIs DEF InOrder
    <3> QED
      BY <1>8, <3>1, MovesAside DEF l
  <2>3. Named("Latest")' = {}
    <3>1. CASE l = None /\ store' = store
      BY <1>0, <2>1, <3>1, FirstIs DEF Named
    <3>2. CASE /\ l \in Stamps /\ store[l] = "Latest"
               /\ store' = [store EXCEPT ![l] = "Backup"]
      BY <1>0, <2>2, <3>2 DEF Named, Dirs
    <3> QED
      BY <2>2, <3>1, <3>2
  <2> QED
    BY <2>3 DEF InOrder
<1>9. ASSUME NEW j \in Backups, Publish(j) PROVE InOrder'
  <2>1. pc[j] = "publish" /\ pc'[j] = "off" /\ \A k \in Backups \ {j} : pc'[k] = pc[k]
    BY <1>0, <1>9 DEF Publish, Leave, Go, TypeOK
  <2>2. Named("Latest") = {}
    BY <1>0, <2>1 DEF InOrder
  <2>3. \A s \in Named("Latest")' : s = stamp[j]
    BY <1>0, <1>9, <2>2 DEF Publish, Named, Dirs
  <2>4. \A k \in Backups : pc'[k] # "publish"
    BY <1>0, <2>1, Alone DEF AtWork
  <2> QED
    BY <2>3, <2>4 DEF InOrder
<1> QED
  BY <1>2, <1>3, <1>4, <1>5, <1>6, <1>7, <1>8, <1>9, NotQuiet

-----------------------------------------------------------------------------
(* BackupJobs: the theorems                                                *)

JobsInv == TypeOK /\ Owning /\ Stamping /\ Whole /\ SourceStays /\ InOrder

LEMMA InitJobs == Init => JobsInv
<1> SUFFICES ASSUME Init PROVE JobsInv
  OBVIOUS
<1>1. Backups \subseteq Jobs /\ \A j \in Jobs : pc[j] = "off"
  BY DEF Init, Jobs
<1>2. Owning /\ Stamping
  BY <1>1 DEF Init, Owning, AtWork, Stamping, Making
<1>3. Whole
  BY <1>1 DEF Init, Whole, Named, Solid
<1> QED
  BY <1>2, <1>3, InitType, InitSource, InitInOrder DEF JobsInv

LEMMA NextJobs == JobsInv /\ [Next]_vars => JobsInv'
<1>1. Stamping => Stamped
  BY DEF Stamping, Stamped
<1> QED
  BY <1>1, NextType, NextOwning, NextStamping, NextWhole, NextSource, NextInOrder DEF JobsInv

LEMMA JobsInvariant == Spec => []JobsInv
BY InitJobs, NextJobs, PTL DEF Spec

(***************************************************************************)
(* Files, directories and jobs keep their types in every behaviour of the  *)
(* jobs.                                                                   *)
(***************************************************************************)
THEOREM TypeCorrect == Spec => []TypeOK
<1>1. JobsInv => TypeOK
  BY DEF JobsInv
<1> QED
  BY <1>1, JobsInvariant, PTL

\* A backup that has been finished, if there is one, is whole or older than a whole one.
LEMMA WholeKeeps == Whole => KeepsACopy
<1> SUFFICES ASSUME Whole, newest # None PROVE Finished \cap full # {}
  BY DEF KeepsACopy
<1>1. PICK s : s \in Finished
  BY DEF Whole
<1>2. CASE s \in Named("Latest")
  BY <1>2 DEF Whole, Named, Finished
<1>3. CASE s \in Named("Backup")
  BY <1>3 DEF Whole, Solid, Finished
<1> QED
  BY <1>1, <1>2, <1>3 DEF Finished

(***************************************************************************)
(* Once a backup has been finished, a whole one is on the server under a   *)
(* name that recoveries know, whatever fails and whoever is killed.        *)
(***************************************************************************)
THEOREM KeepsACopyHolds == Spec => []KeepsACopy
<1>1. JobsInv => KeepsACopy
  BY WholeKeeps DEF JobsInv
<1> QED
  BY <1>1, JobsInvariant, PTL

(***************************************************************************)
(* The backup that a recovery reads stays where it is while it is read.    *)
(***************************************************************************)
THEOREM SourceStaysHolds == Spec => []SourceStays
<1>1. JobsInv => SourceStays
  BY DEF JobsInv
<1> QED
  BY <1>1, JobsInvariant, PTL

-----------------------------------------------------------------------------
(* BackupJobs: the shelf                                                   *)

\* The smallest of one stamp is that stamp.
LEMMA MinOfOne == ASSUME NEW s \in Stamps PROVE Min({s}) = s
<1>1. s \in Nat /\ {s} \subseteq 0..s
  BY JobsAssumption DEF Stamps
<1> QED
  BY <1>1, MinIs

\* While a backup works, what it has moved aside is all there is.
LEMMA AsideIs ==
    ASSUME TypeOK, Owning, NEW j \in Backups, AtWork(j)
    PROVE  Aside = IF pc[j] = "publish" /\ from[j] # None THEN {from[j]} ELSE {}
<1>1. \A k \in Backups : pc[k] = "publish" => k = j
  BY Alone DEF Jobs
<1> QED
  BY <1>1 DEF Aside

LEMMA InitShelf == Init => Shelf!Init
<1> SUFFICES ASSUME Init PROVE Shelf!Init
  OBVIOUS
<1>1. Aside = {} /\ Named("Latest") = {} /\ Named("Backup") = {}
  BY DEF Init, Aside, Named, Jobs
<1> QED
  BY <1>1 DEF Shelf!Init, FirstOf, None

\* A step that changes neither what is aside nor what is under its final name.
LEMMA SameShelf ==
    ASSUME Aside' = Aside, Named("Latest")' = Named("Latest"), Named("Backup")' = Named("Backup")
    PROVE  UNCHANGED Shelf!shelf
BY DEF Shelf!shelf, FirstOf

\* Nobody leaves the place between the moves quietly, unless he is killed.
LEMMA QuietAside == ASSUME TypeOK, Quiet, ~mishap' PROVE Aside' = Aside
<1> USE JobsAssumption DEF TypeOK, Jobs, Go, Leave
<1> SUFFICES \A k \in Backups : /\ pc'[k] = "publish" <=> pc[k] = "publish"
                                /\ pc[k] = "publish" => from'[k] = from[k]
  BY DEF Aside
<1>1. \A k \in Backups : pc'[k] = "publish" => pc[k] = "publish" /\ from'[k] = from[k]
  BY QuietStep DEF Remembers
<1> SUFFICES ASSUME NEW k \in Backups, pc[k] = "publish" PROVE pc'[k] = "publish"
  BY <1>1
<1>2. ASSUME NEW c \in Config, UserSets(c) PROVE pc'[k] = "publish"
  BY <1>2 DEF UserSets
<1>3. CASE CheckReads \/ CheckLocks \/ CheckFires
  BY <1>3 DEF CheckReads, CheckLocks, CheckFires
<1>4. ASSUME NEW j \in Backups,
             \/ Lock(j) \/ LockFails(j) \/ Refused(j) \/ NoRoom(j) \/ EnoughRoom(j)
             \/ RecordsFail(j) \/ Copy(j)
      PROVE  pc'[k] = "publish"
  BY <1>4 DEF Lock, LockFails, Refused, NoRoom, EnoughRoom, RecordsFail, Copy
<1>5. ASSUME NEW r \in Recovers, RecoverStep(r) PROVE pc'[k] = "publish"
  BY <1>5
     DEF RecoverStep, Loop, RLock, RRefused, RBegin, RCopy, RPermsFail, Recovered, RUnlock
<1>6. ASSUME NEW j \in Jobs, Crash(j) PROVE pc'[k] = "publish"
  BY <1>6 DEF Crash
<1>7. CASE UNCHANGED vars
  BY <1>7 DEF vars
<1> QED
  BY <1>2, <1>3, <1>4, <1>5, <1>6, <1>7 DEF Quiet

LEMMA NextShelf ==
    JobsInv /\ [Next]_vars => (~mishap' => Shelf!Next \/ UNCHANGED Shelf!shelf)
<1> SUFFICES ASSUME JobsInv, JobsInv', [Next]_vars, ~mishap'
             PROVE  Shelf!Next \/ UNCHANGED Shelf!shelf
  BY NextJobs
<1>0. /\ TypeOK /\ Owning /\ Stamping /\ InOrder /\ ~mishap
      /\ store \in Dirs /\ Backups \subseteq Jobs
  BY MishapStays DEF JobsInv, TypeOK, Dirs, Jobs
<1>1. CASE Quiet
  BY <1>0, <1>1, QuietStep, QuietAside, SameShelf DEF Named
<1>2. ASSUME NEW j \in Backups, Start(j) PROVE UNCHANGED Shelf!shelf
  <2>1. Aside' = Aside
    BY <1>0, <1>2 DEF Start, Go, TypeOK, Aside
  <2> QED
    BY <1>2, <2>1, SameShelf DEF Start, remote, Named
<1>3. ASSUME NEW j \in Backups, Begin(j) PROVE UNCHANGED Shelf!shelf
  <2>1. store[stamp[j]] = "none" /\ store' = [store EXCEPT ![stamp[j]] = "part"]
    BY <1>0, <1>3 DEF Begin, Stamping
  <2>2. \A n \in {"Latest", "Backup"} : Named(n)' = Named(n)
    BY <1>0, <2>1 DEF Named, Dirs
  <2>3. Aside' = Aside
    BY <1>0, <1>3 DEF Begin, Go, TypeOK, Aside
  <2> QED
    BY <2>2, <2>3, SameShelf
<1>4. ASSUME NEW j \in Backups, CopyFails(j) PROVE UNCHANGED Shelf!shelf
  <2>1. GiveUp(j, store) /\ pc[j] = "copy"
    BY <1>4 DEF CopyFails
  <2>2. \A n \in {"Latest", "Backup"} : Named(n)' = Named(n)
    BY <1>0, <2>1, GivesUp DEF Named
  <2>3. Aside' = Aside
    <3>1. /\ pc'[j] = "off" /\ \A k \in Backups \ {j} : pc'[k] = pc[k]
          /\ UNCHANGED from
      BY <1>0, <2>1, GivesUp
    <3>2. \A k \in Backups : pc'[k] = "publish" <=> pc[k] = "publish"
      BY <2>1, <3>1
    <3> QED
      BY <3>1, <3>2 DEF Aside
  <2> QED
    BY <2>2, <2>3, SameShelf
<1>5. ASSUME NEW j \in Backups, MoveAsideFails(j) \/ PublishFails(j) PROVE FALSE
  BY <1>5 DEF MoveAsideFails, PublishFails, Mishap
<1>6. ASSUME NEW j \in Backups, DeleteOldest(j) PROVE Shelf!Next
  <2> DEFINE s == FirstOf(Named("Backup"))
  <2>1. /\ pc[j] = "room" /\ UNCHANGED <<pc, from>>
        /\ store' = [store EXCEPT ![s] = "none"] /\ ~TooFew(Named("Backup"))
    BY <1>6 DEF DeleteOldest
  <2>2. s \in Stamps /\ store[s] = "Backup" /\ \E t \in Named("Backup") : t # s
    BY <2>1, AnotherOne DEF Named
  <2>3. Aside = {}
    BY <1>0, <2>1, AsideIs DEF AtWork
  <2>4. Aside' = {}
    BY <2>1, <2>3 DEF Aside
  <2> HIDE DEF s
  <2>5. Named("Backup")' = Named("Backup") \ {s} /\ Named("Latest")' = Named("Latest")
    BY <1>0, <2>1, <2>2 DEF Named, Dirs
  <2>6. Shelf!Expire(s)
    BY <2>2, <2>3, <2>4, <2>5 DEF Shelf!Expire, Named, FirstOf
  <2> QED
    BY <2>2, <2>6 DEF Shelf!Next
<1>7. ASSUME NEW j \in Backups, MoveAside(j) PROVE UNCHANGED Shelf!shelf
  <2> DEFINE l == from'[j]
  <2>1. /\ pc[j] = "aside" /\ pc'[j] = "publish" /\ l = FirstOf(Named("Latest"))
        /\ \/ l = None /\ store' = store
           \/ /\ l \in Stamps /\ l # None /\ store[l] = "Latest"
              /\ store' = [store EXCEPT ![l] = "Backup"]
    BY <1>0, <1>7, MovesAside
  <2>2. Aside = {}
    BY <1>0, <2>1, AsideIs DEF AtWork
  <2>3. Aside' = IF l # None THEN {l} ELSE {}
    <3>1. \A k \in Backups : pc'[k] = "publish" <=> k = j
      <4>1. \A k \in Backups \ {j} : pc'[k] = pc[k] /\ pc[k] \in {"off", "loop", "lock"}
        BY <1>0, <1>7, <2>1, Alone, MovesAside DEF AtWork
      <4> QED
        BY <2>1, <4>1
    <3> QED
      BY <3>1 DEF Aside
  <2> HIDE DEF l
  <2>4. CASE l = None /\ store' = store
    BY <2>2, <2>3, <2>4, SameShelf DEF Named
  <2>5. CASE /\ l \in Stamps /\ l # None /\ store[l] = "Latest"
             /\ store' = [store EXCEPT ![l] = "Backup"]
    <3>1. Named("Backup")' \ {l} = Named("Backup")
      BY <1>0, <2>5 DEF Named, Dirs
    <3>2. Min({l}) = l
      BY <2>5, MinOfOne
    <3> QED
      BY <2>1, <2>2, <2>3, <2>5, <3>1, <3>2 DEF Shelf!shelf
  <2> QED
    BY <2>1, <2>4, <2>5
<1>8. ASSUME NEW j \in Backups, Publish(j) PROVE Shelf!Next
  <2> DEFINE s == stamp[j]
             a == from[j]
  <2>1. /\ pc[j] = "publish" /\ pc'[j] = "off" /\ \A k \in Backups \ {j} : pc'[k] = pc[k]
        /\ store' = [store EXCEPT ![s] = "Latest"]
    BY <1>0, <1>8 DEF Publish, Leave, Go, TypeOK
  <2>2. /\ s \in Stamps /\ s # None /\ store[s] = "part"
        /\ Named("Latest") = {}
        /\ (a # None => a \in Named("Backup"))
    <3>1. s \in Stamps /\ store[s] = "part" /\ Named("Latest") = {}
      BY <1>0, <2>1 DEF Stamping, Making, InOrder
    <3>2. s # None
      BY <3>1 DEF Stamps, None
    <3>3. ASSUME a # None PROVE a \in Named("Backup")
      BY <1>0, <2>1, <3>3 DEF Stamping, Named, TypeOK
    <3> QED
      BY <3>1, <3>2, <3>3
  <2>3. Aside = IF a # None THEN {a} ELSE {}
    BY <1>0, <2>1, AsideIs DEF AtWork
  <2>4. Aside' = {}
    <3>1. \A k \in Backups : pc'[k] # "publish"
      BY <1>0, <2>1, Alone DEF AtWork
    <3> QED
      BY <3>1 DEF Aside
  <2> HIDE DEF s, a
  <2>5. Named("Latest")' = {s} /\ Named("Backup")' = Named("Backup")
    BY <1>0, <2>1, <2>2 DEF Named, Dirs
  <2>6. FirstOf({s}) = s /\ FirstOf({}) = None
    BY <2>2, MinOfOne DEF FirstOf
  <2>7. CASE a # None
    <3>1. Min(Aside) = a /\ Aside # {} /\ a # s
      BY <2>2, <2>3, <2>7, MinOfOne DEF Named
    <3>2. Shelf!Publish(s)
      BY <2>2, <2>3, <2>4, <2>5, <2>6, <2>7, <3>1 DEF Shelf!Publish, Named, None
    <3> QED
      BY <2>2, <3>2 DEF Shelf!Next
  <2>8. CASE a = None
    <3>1. Shelf!Publish(s)
      BY <2>2, <2>3, <2>4, <2>5, <2>6, <2>8 DEF Shelf!Publish, Named, None
    <3> QED
      BY <2>2, <3>1 DEF Shelf!Next
  <2> QED
    BY <2>7, <2>8
<1> QED
  BY <1>1, <1>2, <1>3, <1>4, <1>5, <1>6, <1>7, <1>8, NotQuiet

(***************************************************************************)
(* Until a mishap the directories implement the shelf: one latest backup,  *)
(* whose place a new one takes, and older ones that are given up while     *)
(* another one remains.                                                    *)
(***************************************************************************)
THEOREM ShelfImplemented == Spec => ImplementsShelf
BY InitShelf, NextShelf, JobsInvariant, PTL DEF Spec, ImplementsShelf
=============================================================================
