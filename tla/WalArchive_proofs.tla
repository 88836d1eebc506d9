-------------------------- MODULE WalArchive_proofs --------------------------
(***************************************************************************)
(* Proofs about the archiver, for every limit, every number of segments    *)
(* and backups, and whatever of Faults may happen.                         *)
(*                                                                         *)
(* The invariant has five parts.  Walk: where the processes are.  Sending: *)
(* what the archiver knows while it has the lock.  Ordered: nothing in the *)
(* directory is older than what was sent.  Kept: what was written is here  *)
(* or sent, the segment at hand included.  Needed: what the next backup    *)
(* will need has stayed here since it started.                             *)
(***************************************************************************)
EXTENDS WalArchive, FiniteSetTheorems, WellFoundedInduction, TLAPS

-----------------------------------------------------------------------------
(* The files in their order                                                *)

\* A set of natural numbers that has a bound has a smallest element, which is what
\* Min chooses.
LEMMA MinIs ==
    ASSUME NEW n \in Nat, NEW S, S \subseteq 0..n, S # {}
    PROVE  Min(S) \in S /\ \A s \in S : Min(S) <= s
<1> DEFINE Down == {0..s : s \in S}
<1>1. IsWellFoundedOn(StrictSubsetOrdering(0..n), FiniteSubsetsOf(0..n))
  BY FS_StrictSubsetOrderingWellFounded, Zenon
<1>2. Down \subseteq FiniteSubsetsOf(0..n) /\ Down # {}
  <2>1. \A s \in S : s \in Int /\ 0..s \subseteq 0..n
    OBVIOUS
  <2>2. \A s \in S : IsFiniteSet(0..s)
    BY <2>1, FS_Interval
  <2> QED
    BY <2>1, <2>2, Zenon DEF FiniteSubsetsOf
<1>3. PICK d \in Down : \A e \in Down : <<e, d>> \notin StrictSubsetOrdering(0..n)
  <2> HIDE DEF Down
  <2> QED
    BY <1>1, <1>2, WFMin
<1>4. PICK x \in S : d = 0..x
  BY <1>3
<1>5. ASSUME NEW y \in S PROVE x <= y
  <2>1. <<0..y, 0..x>> \notin StrictSubsetOrdering(0..n)
    BY <1>3, <1>4
  <2>2. 0..y \subseteq 0..n /\ 0..x \subseteq 0..n /\ x \in Nat /\ y \in Nat
    BY <1>4
  <2>3. ~ (0..y \subseteq 0..x /\ 0..y # 0..x)
    BY <2>1, <2>2 DEF StrictSubsetOrdering
  <2>4. CASE y < x
    <3>1. 0..y \subseteq 0..x
      BY <2>2, <2>4
    <3>2. x \in 0..x /\ x \notin 0..y
      BY <2>2, <2>4
    <3> QED
      BY <2>3, <3>1, <3>2
  <2> QED
    BY <2>2, <2>4
<1> QED
  BY <1>4, <1>5 DEF Min

\* The file that is sent next is in the directory, and no other one is older.
LEMMA FirstIs ==
    ASSUME local \subseteq Segments, local # {}
    PROVE  First \in local /\ First \in Segments /\ \A s \in local : First <= s
<1>1. local \subseteq 0..MaxWal /\ MaxWal \in Nat
  BY WalAssumption DEF Segments
<1> QED
  BY <1>1, MinIs DEF First

-----------------------------------------------------------------------------
(* Types                                                                   *)

\* A process that runs has a segment at hand, and a backup that runs is one more.
Walk ==
    /\ TypeOK
    /\ pc # "idle" => seg \in Segments
    /\ lock = "backup" => latest < MaxBackups

LEMMA InitWalk == Init => Walk
<1> SUFFICES ASSUME Init PROVE Walk
  OBVIOUS
<1>1. /\ 1 \in 1..(MaxWal + 1) /\ 0 \in 0..MaxBackups /\ 0 \in 0..MaxToggles
      /\ 0 \in 0..MaxWal
  BY WalAssumption
<1> QED
  BY <1>1 DEF Init, Walk, TypeOK, NoBackup

\* Every step keeps the types, and the lock with the process that has it.
LEMMA NextWalk == Walk /\ [Next]_vars => Walk'
<1> SUFFICES ASSUME Walk, [Next]_vars PROVE Walk'
  OBVIOUS
<1> USE WalAssumption DEF Walk, TypeOK, Segments, NoBackup, archiver, store, backup, user,
                          Exit, Failed, Unlock
<1>1. CASE Call
  <2>1. seg' \in 1..(MaxWal + 1) /\ pc' \in {"idle", "called"} /\ (pc' # "idle" => seg' \in 1..MaxWal)
    BY <1>1 DEF Call
  <2>2. whole' \subseteq Segments /\ triggered' \in BOOLEAN
    BY <1>1 DEF Call
  <2>4. tStamp' \in 0..MaxBackups
    BY <1>1 DEF Call
  <2>3. UNCHANGED <<local, sent, lock, latest, base, started, asked, enabled, toggles>> /\ pc = "idle"
    BY <1>1 DEF Call
  <2> QED
    BY <2>1, <2>2, <2>3, <2>4
<1>2. CASE LeaveOut
  BY <1>2 DEF LeaveOut
<1>b. CASE Store
  BY <1>b DEF Store
<1>c. CASE StoreFails
  <2>1. local' \subseteq Segments /\ whole' \subseteq Segments
    BY <1>c DEF StoreFails
  <2>2. /\ seg' = seg + 1 /\ seg \in Segments /\ pc' = "idle" /\ pc = "called"
        /\ UNCHANGED <<triggered, tStamp, sent, lock, latest, base, started, asked, enabled,
                      toggles>>
    BY <1>c DEF StoreFails
  <2> QED
    BY <2>1, <2>2
<1>3. CASE Lock
  BY <1>3 DEF Lock
<1>d. CASE Setup
  BY <1>d DEF Setup
<1>e. CASE SetupFails
  BY <1>e DEF SetupFails
<1>4. CASE Send \/ Unlink
  BY <1>4, FirstIs DEF Send, Unlink
<1>5. CASE SendFails
  BY <1>5 DEF SendFails
<1>a. CASE Finish
  <2>1. asked' \in BOOLEAN
    BY <1>a DEF Finish
  <2> QED
    BY <1>a, <2>1 DEF Finish
<1>6. CASE Crash
  BY <1>6 DEF Crash
<1>7. CASE BackupStarts
  <2>1. started' \in 0..MaxWal
    BY <1>7 DEF BackupStarts
  <2>2. pc \notin {"setup", "send", "unlink"} /\ lock' = "backup" /\ latest < MaxBackups
    BY <1>7 DEF BackupStarts
  <2>3. asked' = FALSE /\ UNCHANGED <<seg, pc, triggered, tStamp, local, whole, sent, latest, base, enabled, toggles>>
    BY <1>7 DEF BackupStarts
  <2> QED
    BY <2>1, <2>2, <2>3
<1>8. CASE BackupEnds
  BY <1>8 DEF BackupEnds
<1>9. CASE Toggle
  <2>1. enabled' \in BOOLEAN /\ toggles' \in 0..MaxToggles
    BY <1>9 DEF Toggle
  <2> QED
    BY <1>9, <2>1 DEF Toggle
<1>10. CASE UNCHANGED vars
  BY <1>10 DEF vars
<1> QED
  BY <1>1, <1>2, <1>b, <1>c, <1>3, <1>d, <1>e, <1>4, <1>5, <1>a, <1>6, <1>7, <1>8, <1>9, <1>10 DEF Next, Archiver

(***************************************************************************)
(* The directory, the process and the lock keep their types, and the       *)
(* archiver holds the lock exactly while it sends.                         *)
(***************************************************************************)
THEOREM TypeCorrect == Spec => []TypeOK
<1>1. Walk => TypeOK
  BY DEF Walk
<1> QED
  BY InitWalk, NextWalk, <1>1, PTL DEF Spec

-----------------------------------------------------------------------------
(* What the archiver knows while it has the lock                           *)

\* It sends to the latest backup, and no backup becomes the latest meanwhile; the file it
\* is about to remove has been sent.
Sending ==
    /\ pc \in {"send", "unlink"} => tStamp = latest /\ tStamp # NoBackup
    /\ pc = "unlink" => local # {} /\ sent[First] = tStamp

LEMMA NextSending == Walk /\ Sending /\ [Next]_vars => Sending'
<1> SUFFICES ASSUME Walk, Sending, [Next]_vars PROVE Sending'
  OBVIOUS
<1>0. /\ sent \in [Segments -> 0..MaxBackups] /\ local \subseteq Segments
      /\ (lock = "archiver") <=> (pc \in {"setup", "send", "unlink"})
  BY DEF Walk, TypeOK
<1>1. CASE Call \/ LeaveOut \/ Store \/ StoreFails \/ Lock \/ SetupFails \/ SendFails
           \/ Finish \/ Crash
  <2>1. pc' \notin {"send", "unlink"}
    BY <1>1 DEF Call, LeaveOut, Store, StoreFails, Lock, SetupFails, SendFails, Finish, Crash,
                Exit, Failed
  <2> QED
    BY <2>1 DEF Sending
<1>2. CASE Setup
  BY <1>2 DEF Setup, Exit, Sending, NoBackup, backup
<1>3. CASE Send
  <2>1. First \in Segments /\ UNCHANGED local /\ local # {}
    BY <1>0, <1>3, FirstIs DEF Send
  <2>2. sent'[First] = tStamp /\ First' = First
    BY <1>0, <1>3, <2>1 DEF Send, First
  <2> QED
    BY <1>3, <2>1, <2>2 DEF Send, Sending, backup
<1>4. CASE Unlink
  BY <1>4 DEF Unlink, Sending, backup
<1>5. CASE BackupStarts \/ BackupEnds
  <2>1. pc \notin {"send", "unlink"} /\ UNCHANGED pc
    BY <1>0, <1>5 DEF BackupStarts, BackupEnds, archiver
  <2> QED
    BY <2>1 DEF Sending
<1>6. CASE Toggle \/ UNCHANGED vars
  <2>1. UNCHANGED <<pc, tStamp, latest, local, sent>>
    BY <1>6 DEF Toggle, vars, archiver, store, backup
  <2>2. First' = First
    BY <2>1 DEF First
  <2> QED
    BY <2>1, <2>2 DEF Sending
<1> QED
  BY <1>1, <1>2, <1>3, <1>4, <1>5, <1>6 DEF Next, Archiver

-----------------------------------------------------------------------------
(* The order of the files                                                  *)

\* Neither here nor there is a segment that the database has not handed over, and
\* nothing here is older than what is there.
Ordered ==
    /\ \A s \in local \cup whole : s <= seg
    /\ \A t \in Segments : IsSent(t) => t <= seg /\ \A s \in local : t <= s

LEMMA NextOrdered == Walk /\ Sending /\ Ordered /\ [Next]_vars => Ordered'
<1> SUFFICES ASSUME Walk, Sending, Ordered, [Next]_vars PROVE Ordered'
  OBVIOUS
<1>0. /\ seg \in Nat /\ sent \in [Segments -> 0..MaxBackups] /\ Segments \subseteq Nat
      /\ local \subseteq Segments /\ whole \subseteq Segments
  BY WalAssumption DEF Walk, TypeOK, Segments
<1>1. seg' = seg \/ seg' = seg + 1
  BY DEF Next, Archiver, Call, LeaveOut, Store, StoreFails, Lock, Setup, SetupFails, Send,
         Unlink, SendFails, Finish, Crash, BackupStarts, BackupEnds, Toggle, Exit, Failed, vars
<1>2. ASSUME sent' = sent, local' \subseteq local \cup {seg},
             whole' \subseteq whole \cup {seg}
      PROVE  Ordered'
  <2>1. \A s \in local' \cup whole' : s \in Nat /\ s <= seg
    BY <1>0, <1>2 DEF Ordered
  <2>2. \A s \in local' \cup whole' : s <= seg'
    BY <1>0, <1>1, <2>1
  <2>3. ASSUME NEW t \in Segments, IsSent(t)'
        PROVE  t <= seg /\ \A s \in local' : t <= s
    BY <1>0, <1>2, <2>3 DEF Ordered, IsSent
  <2>4. \A t \in Segments : IsSent(t)' => t <= seg'
    BY <1>0, <1>1, <2>3
  <2> QED
    BY <2>2, <2>3, <2>4 DEF Ordered
<1>3. CASE Send
  <2>0. local # {}
    BY <1>3 DEF Send
  <2>1. First \in local /\ First \in Segments /\ \A s \in local : First <= s
    BY <1>0, <2>0, FirstIs
  <2>2. /\ UNCHANGED <<seg, local, whole>>
        /\ \A t \in Segments \ {First} : sent'[t] = sent[t]
    BY <1>0, <1>3 DEF Send
  <2> QED
    BY <1>0, <2>1, <2>2 DEF Ordered, IsSent
<1>4. CASE Call \/ LeaveOut \/ Store \/ StoreFails \/ Lock \/ Setup \/ SetupFails \/ Unlink
           \/ SendFails \/ Finish \/ Crash \/ BackupStarts \/ BackupEnds \/ Toggle
           \/ UNCHANGED vars
  <2>1. sent' = sent /\ local' \subseteq local \cup {seg} /\ whole' \subseteq whole \cup {seg}
    BY <1>4 DEF Call, LeaveOut, Store, StoreFails, Lock, Setup, SetupFails, Unlink, SendFails,
                Finish, Crash, BackupStarts, BackupEnds, Toggle, store, vars
  <2> QED
    BY <1>2, <2>1
<1> QED
  BY <1>3, <1>4 DEF Next, Archiver

-----------------------------------------------------------------------------
(* What was written                                                        *)

\* The segment at hand, once it is written, waits here or has been sent to the latest
\* backup.
AtHand ==
    pc # "idle" /\ seg \in whole =>
        seg \in local \/ (pc \in {"send", "unlink"} /\ sent[seg] = latest)

Kept == StoredStays /\ AtHand

\* The steps that change neither the directory nor what was sent.
LEMMA SameFiles ==
    ASSUME Kept, UNCHANGED <<local, sent>>, whole' \subseteq whole, AtHand'
    PROVE  Kept'
BY DEF Kept, StoredStays, IsSent

LEMMA NextKept == Walk /\ Sending /\ Kept /\ [Next]_vars => Kept'
<1> SUFFICES ASSUME Walk, Sending, Kept, [Next]_vars PROVE Kept'
  OBVIOUS
<1>0. /\ sent \in [Segments -> 0..MaxBackups] /\ whole \subseteq Segments
      /\ local \subseteq Segments
      /\ (lock = "archiver") <=> (pc \in {"setup", "send", "unlink"})
  BY DEF Walk, TypeOK
<1>1. CASE Call \/ SendFails \/ Finish \/ SetupFails \/ Lock \/ Setup
  <2>1. UNCHANGED <<local, sent>> /\ whole' \subseteq whole
    BY <1>1 DEF Call, SendFails, Finish, SetupFails, Lock, Setup, store
  <2>2. CASE Call
    BY <1>0, <2>2, <2>1, SameFiles DEF Call, Exit, AtHand
  <2>3. CASE SendFails \/ Finish \/ SetupFails
    BY <1>0, <2>3, <2>1, SameFiles DEF SendFails, Finish, SetupFails, Exit, Failed, AtHand
  <2>4. CASE Lock \/ Setup
    <3>1. pc' # "idle" => seg' = seg /\ pc # "idle" /\ pc \notin {"send", "unlink"}
      BY <2>4 DEF Lock, Setup, Exit
    <3>2. UNCHANGED whole
      BY <2>4 DEF Lock, Setup, store
    <3>3. AtHand'
      BY <2>1, <3>1, <3>2 DEF Kept, AtHand
    <3> QED
      BY <2>1, <3>3, SameFiles
  <2> QED
    BY <1>1, <2>2, <2>3, <2>4
<1>2. CASE LeaveOut
  BY <1>0, <1>2 DEF LeaveOut, Kept, AtHand, StoredStays, IsSent, store
<1>3. CASE Store
  BY <1>0, <1>3 DEF Store, Kept, AtHand, StoredStays, IsSent
<1>4. CASE StoreFails
  BY <1>0, <1>4 DEF StoreFails, Exit, Kept, AtHand, StoredStays, IsSent
<1>5. CASE Crash
  BY <1>0, <1>5 DEF Crash, Failed, Kept, AtHand, StoredStays, IsSent
<1>6. CASE Send
  <2>1. First \in local /\ First \in Segments
    <3>1. local # {}
      BY <1>6 DEF Send
    <3> QED
      BY <1>0, <3>1, FirstIs
  <2>2. tStamp = latest /\ tStamp # NoBackup
    BY <1>6 DEF Send, Sending
  <2>3. /\ UNCHANGED <<seg, local, whole, latest>> /\ pc = "send" /\ pc' = "unlink"
        /\ \A s \in Segments : sent'[s] = IF s = First THEN latest ELSE sent[s]
    BY <1>0, <1>6, <2>2 DEF Send, backup
  <2> QED
    BY <1>0, <2>1, <2>2, <2>3 DEF Kept, AtHand, StoredStays, IsSent
<1>7. CASE Unlink
  <2>1. sent[First] = latest /\ latest # NoBackup
    BY <1>7 DEF Unlink, Sending
  <2>2. /\ UNCHANGED <<seg, whole, sent, latest>> /\ pc' = "send" /\ pc = "unlink"
        /\ local' = local \ {First}
    BY <1>7 DEF Unlink, backup
  <2> QED
    BY <2>1, <2>2 DEF Kept, AtHand, StoredStays, IsSent
<1>8. CASE BackupStarts \/ BackupEnds
  <2>1. UNCHANGED <<local, sent, whole, pc, seg>> /\ pc \notin {"send", "unlink"}
    BY <1>0, <1>8 DEF BackupStarts, BackupEnds, store, archiver
  <2> QED
    BY <2>1, SameFiles DEF Kept, AtHand
<1>9. CASE Toggle \/ UNCHANGED vars
  <2>1. UNCHANGED <<local, sent, whole, pc, seg, latest>>
    BY <1>9 DEF Toggle, vars, store, archiver, backup
  <2> QED
    BY <2>1, SameFiles DEF Kept, AtHand
<1> QED
  BY <1>1, <1>2, <1>3, <1>4, <1>5, <1>6, <1>7, <1>8, <1>9 DEF Next, Archiver

-----------------------------------------------------------------------------
(* What a backup needs                                                     *)

\* What has been written since the backup that runs has started waits here: nothing is sent
\* while it runs.
Needed ==
    lock = "backup" =>
        \A s \in whole : s > started /\ (s < seg \/ pc # "idle") => s \in local

LEMMA NextNeeded ==
    Walk /\ Ordered /\ Kept /\ Needed /\ [Next]_vars => Needed'
<1> SUFFICES ASSUME Walk, Ordered, Kept, Needed, [Next]_vars, lock' = "backup"
             PROVE  \A s \in whole' : s > started' /\ (s < seg' \/ pc' # "idle") => s \in local'
  BY DEF Needed
<1>0. /\ whole \subseteq Nat /\ seg \in Nat
      /\ (lock = "archiver") <=> (pc \in {"setup", "send", "unlink"})
  BY WalAssumption DEF Walk, TypeOK, Segments
<1>1. CASE Call
  <2>1. /\ lock = "backup" /\ started' = started /\ local' = local
        /\ whole' = whole \ {seg}
        /\ seg' = seg \/ seg' = seg + 1
    BY <1>1 DEF Call, Exit, backup
  <2>2. \A s \in whole' : s < seg' \/ pc' # "idle" => s < seg
    BY <1>0, <2>1, <1>1 DEF Ordered
  <2> QED
    BY <2>1, <2>2 DEF Needed
<1>2. CASE LeaveOut \/ Store \/ StoreFails \/ Lock \/ Crash
  <2>1. /\ lock = "backup" /\ pc # "idle" /\ started' = started
        /\ local \subseteq local'
        /\ \A s \in whole' : s \in whole \/ s \in local'
    BY <1>0, <1>2 DEF LeaveOut, Store, StoreFails, Lock, Crash, backup, store
  <2> QED
    BY <2>1 DEF Needed
<1>3. CASE BackupStarts
  <2>1. /\ started' = seg - 1 /\ UNCHANGED <<seg, pc, local, whole>>
        /\ pc \notin {"send", "unlink"}
    BY <1>0, <1>3 DEF BackupStarts, archiver, store
  <2>2. \A s \in whole : s > seg - 1 => s = seg
    BY <1>0 DEF Ordered
  <2> QED
    BY <1>0, <2>1, <2>2 DEF Kept, AtHand
<1>4. CASE Toggle \/ UNCHANGED vars
  <2>1. UNCHANGED <<seg, pc, local, whole, lock, started>>
    BY <1>4 DEF Toggle, vars, archiver, store, backup
  <2> QED
    BY <2>1 DEF Needed
<1>5. CASE Setup \/ SetupFails \/ Send \/ Unlink \/ SendFails \/ Finish \/ BackupEnds
  BY <1>0, <1>5 DEF Setup, SetupFails, Send, Unlink, SendFails, Finish, BackupEnds, Unlock
<1> QED
  BY <1>1, <1>2, <1>3, <1>4, <1>5 DEF Next, Archiver

\* A step that sends nothing and ends no backup: the segments it leaves behind were left
\* behind before, except the one at hand, which has been sent to the latest backup.
LEMMA SameLatest ==
    ASSUME SentToLatest, seg \in Nat, whole \subseteq Nat, UNCHANGED <<sent, latest, base>>,
           whole' \ local' \subseteq whole \ local,
           seg' = seg \/ (seg' = seg + 1 /\ (seg \in whole' \ local' => sent[seg] = latest))
    PROVE  SentToLatest'
<1> SUFFICES ASSUME NEW s \in whole' \ local', s \in 1..(seg' - 1), s > base
             PROVE  sent[s] = latest
  BY DEF SentToLatest, Answered
<1>1. s \in whole \ local /\ s \in Nat
  OBVIOUS
<1>2. s \in 1..(seg - 1) \/ (s = seg /\ sent[seg] = latest)
  BY <1>1
<1> QED
  BY <1>1, <1>2 DEF SentToLatest, Answered

WalInv == Walk /\ Sending /\ Ordered /\ Kept /\ Needed

LEMMA NextLatest == WalInv /\ SentToLatest /\ [Next]_vars => SentToLatest'
<1> SUFFICES ASSUME WalInv, SentToLatest, [Next]_vars PROVE SentToLatest'
  OBVIOUS
<1>0. /\ sent \in [Segments -> 0..MaxBackups] /\ seg \in Nat /\ whole \subseteq Nat
      /\ local \subseteq Segments
      /\ (lock = "archiver") <=> (pc \in {"setup", "send", "unlink"})
  BY WalAssumption DEF WalInv, Walk, TypeOK, Segments
<1>h. pc # "idle" /\ seg \in whole \ local => sent[seg] = latest
  BY DEF WalInv, Kept, AtHand
<1>1. CASE Call
  BY <1>0, <1>1, SameLatest DEF Call, Exit, backup
<1>2. CASE LeaveOut \/ Store \/ StoreFails
  BY <1>0, <1>h, <1>2, SameLatest DEF LeaveOut, Store, StoreFails, Exit, store, backup
<1>3. CASE Lock \/ Setup \/ SetupFails \/ SendFails \/ Finish
  BY <1>0, <1>h, <1>3, SameLatest
     DEF Lock, Setup, SetupFails, SendFails, Finish, Exit, Failed, store, backup
<1>4. CASE Crash
  BY <1>0, <1>4, SameLatest DEF Crash, Failed, backup
<1>5. CASE Send
  <2>1. local # {}
    BY <1>5 DEF Send
  <2>2. First \in local
    BY <1>0, <2>1, FirstIs
  <2>3. /\ UNCHANGED <<seg, local, whole, latest, base>>
        /\ sent' = [sent EXCEPT ![First] = tStamp]
    BY <1>5 DEF Send, backup
  <2> QED
    BY <1>0, <2>2, <2>3 DEF SentToLatest, Answered
<1>6. CASE Unlink
  <2>1. sent[First] = latest
    BY <1>6 DEF Unlink, WalInv, Sending
  <2>2. UNCHANGED <<seg, whole, sent, latest, base>> /\ local' = local \ {First}
    BY <1>6 DEF Unlink, backup
  <2> QED
    BY <2>1, <2>2 DEF SentToLatest, Answered
<1>7. CASE BackupEnds
  <2>1. UNCHANGED <<seg, pc, local, whole, sent>>
    BY <1>7 DEF BackupEnds, archiver, store
  <2>2. CASE base' = started
    <3> SUFFICES ASSUME NEW s \in whole \ local, s \in 1..(seg - 1), s > started PROVE FALSE
      BY <2>1, <2>2 DEF SentToLatest, Answered
    <3>1. s < seg
      BY <1>0
    <3> QED
      BY <1>7, <3>1 DEF BackupEnds, WalInv, Needed
  <2>3. CASE UNCHANGED <<latest, base>>
    BY <2>1, <2>3 DEF SentToLatest, Answered
  <2> QED
    BY <1>7, <2>2, <2>3 DEF BackupEnds
<1>8. CASE BackupStarts \/ Toggle \/ UNCHANGED vars
  <2>1. UNCHANGED <<seg, local, whole, sent, latest, base>>
    BY <1>8 DEF BackupStarts, Toggle, vars, store, backup
  <2> QED
    BY <2>1 DEF SentToLatest, Answered
<1> QED
  BY <1>1, <1>2, <1>3, <1>4, <1>5, <1>6, <1>7, <1>8 DEF Next, Archiver

-----------------------------------------------------------------------------
\* All five parts hold from the start.
LEMMA InitInv == Init => WalInv /\ SentToLatest
<1> SUFFICES ASSUME Init PROVE WalInv /\ SentToLatest
  OBVIOUS
<1>1. Walk
  BY InitWalk
<1>2. Sending /\ Ordered
  BY DEF Init, Sending, Ordered, IsSent
<1>3. Kept /\ Needed /\ SentToLatest
  BY DEF Init, Kept, StoredStays, AtHand, Needed, SentToLatest
<1> QED
  BY <1>1, <1>2, <1>3 DEF WalInv

LEMMA NextInv == WalInv /\ SentToLatest /\ [Next]_vars => (WalInv /\ SentToLatest)'
BY NextWalk, NextSending, NextOrdered, NextKept, NextNeeded, NextLatest DEF WalInv

LEMMA WalInvariant == Spec => [](WalInv /\ SentToLatest)
BY InitInv, NextInv, PTL DEF Spec

(***************************************************************************)
(* A segment that the archiver wrote to its end is in its directory or at  *)
(* the backup server, through failing transfers and killed processes.      *)
(***************************************************************************)
THEOREM StoredStaysHolds == Spec => []StoredStays
<1>1. WalInv => StoredStays
  BY DEF WalInv, Kept
<1> QED
  BY WalInvariant, <1>1, PTL

(***************************************************************************)
(* What waits in the directory is never older than what was sent, however  *)
(* often a segment is handed over again.                                   *)
(***************************************************************************)
THEOREM SentInOrderHolds == Spec => []SentInOrder
<1>1. WalInv => SentInOrder
  BY DEF WalInv, Ordered, SentInOrder
<1> QED
  BY WalInvariant, <1>1, PTL

(***************************************************************************)
(* A segment that the latest backup needs and that does not wait here was  *)
(* sent to that backup: none is sent to the one before while the backup    *)
(* that will need it is being made.                                        *)
(***************************************************************************)
THEOREM SentToLatestHolds == Spec => []SentToLatest
BY WalInvariant, PTL

-----------------------------------------------------------------------------
(* The size of the directory                                               *)

\* The directory holds finitely many files, and at most one more after a segment.
LEMMA OneMore ==
    ASSUME TypeOK, NEW S, S \subseteq local \cup {seg},
           seg \in local \/ ~Full \/ S \subseteq local, LocalBounded
    PROVE  Cardinality(S) <= Limit + 1
<1>1. IsFiniteSet(local)
  <2>1. IsFiniteSet(Segments)
    BY WalAssumption, FS_Interval DEF Segments
  <2> QED
    BY <2>1, FS_Subset DEF TypeOK
<1>2. Cardinality(local) \in Nat /\ Limit \in Nat
  BY <1>1, FS_CardinalityType, WalAssumption
<1>3. CASE S \subseteq local
  <2>1. Cardinality(S) <= Cardinality(local) /\ Cardinality(S) \in Nat
    BY <1>1, <1>3, FS_Subset, FS_CardinalityType
  <2> QED
    BY <1>2, <2>1 DEF LocalBounded
<1>4. CASE seg \notin local /\ ~Full
  <2>1. /\ IsFiniteSet(local \cup {seg})
        /\ Cardinality(local \cup {seg}) = Cardinality(local) + 1
    BY <1>1, <1>4, FS_AddElement
  <2>2. Cardinality(S) <= Cardinality(local \cup {seg}) /\ Cardinality(S) \in Nat
    BY <2>1, FS_Subset, FS_CardinalityType
  <2> QED
    BY <1>2, <1>4, <2>1, <2>2 DEF Full
<1> QED
  BY <1>3, <1>4

LEMMA NextBounded == TypeOK /\ LocalBounded /\ [Next]_vars => LocalBounded'
<1> SUFFICES ASSUME TypeOK, LocalBounded, [Next]_vars PROVE LocalBounded'
  OBVIOUS
<1>1. local' \subseteq local \/ (~Full /\ local' \subseteq local \cup {seg})
  BY DEF Next, Archiver, Call, LeaveOut, Store, StoreFails, Lock, Setup, SetupFails, Send,
         Unlink, SendFails, Finish, Crash, BackupStarts, BackupEnds, Toggle, store, vars
<1> QED
  BY <1>1, OneMore DEF LocalBounded

(***************************************************************************)
(* A backup server that is away does not fill the disk: the directory      *)
(* never holds more files than the limit and the one being written.        *)
(***************************************************************************)
THEOREM LocalBoundedHolds == Spec => []LocalBounded
<1>1. Init => TypeOK /\ LocalBounded
  BY InitWalk, FS_EmptySet, WalAssumption DEF Init, Walk, LocalBounded
<1>2. TypeOK /\ LocalBounded /\ [Next]_vars => LocalBounded'
  BY NextBounded
<1> QED
  BY <1>1, <1>2, TypeCorrect, PTL DEF Spec
=============================================================================
