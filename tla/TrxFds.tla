-------------------------------- MODULE TrxFds --------------------------------
(***************************************************************************)
(* The table of open descriptors that trxlib.c keeps next to the kernel's, *)
(* and the report that the connection's thread makes of it: the entries    *)
(* are counted under the lock, a shared memory segment of that many slots  *)
(* is made, the memory entries are copied under the lock, and the          *)
(* descriptors after it has been released.  The manager shows every slot   *)
(* of the segment and removes it.                                          *)
(*                                                                         *)
(* The key of the segment is the program's: one that the manager never     *)
(* removed is there for the next report.                                   *)
(***************************************************************************)
EXTENDS Integers, FiniteSets

CONSTANTS
    Threads,    \* the program's threads
    NFds,       \* descriptors, 1..NFds (MAXFDS)
    MaxMem      \* tracked blocks of the tag that a report is asked for (bound)

Fds   == 1..NFds
Empty == 0
Mem   == -1
Slots == 1..(NFds + MaxMem)

\* what the theorems assume of the constants
FdsAssumption == NFds \in Nat \ {0} /\ MaxMem \in Nat

VARIABLES
    open,       \* the kernel's descriptors
    inUse,      \* fds[fd]: free, or in use, by the tag asked for or another
    pc, fd,     \* where a thread is, with which descriptor
    mem,        \* entries in the list of the tag
    rep,        \* the report: idle, locked, add, send
    total,      \* the slots counted
    seg, size,  \* the segment: what is in each slot, and how many there are
    pos, next,  \* the slots written, the next descriptor to look at
    steady,     \* (history) in use, by the tag, ever since the count
    seen        \* (history) in use, by the tag, at some time since the count

segment == <<seg, size>>
history == <<steady, seen>>
report  == <<rep, total, segment, pos, next>>
vars    == <<open, inUse, pc, fd, mem, report, history>>

Blank == [s \in Slots |-> Empty]

Init ==
    /\ open = {} /\ inUse = [f \in Fds |-> "free"]
    /\ pc = [t \in Threads |-> "idle"] /\ fd = [t \in Threads |-> Empty]
    /\ mem = 0
    /\ rep = "idle" /\ total = 0 /\ seg = Blank /\ size = 0 /\ pos = 0 /\ next = 1
    /\ steady = {} /\ seen = {}

Go(t, l) == pc' = [pc EXCEPT ![t] = l]

Asked == {f \in Fds : inUse[f] = "asked"}

-----------------------------------------------------------------------------
(* open, creat, pipe, socket, accept; close                                *)

Open(t) ==
    /\ pc[t] = "idle"
    /\ \E f \in Fds \ open : open' = open \cup {f} /\ fd' = [fd EXCEPT ![t] = f]
    /\ Go(t, "opened")
    /\ UNCHANGED <<inUse, mem, report, history>>

\* one that is in use already keeps its tag: "We lost track of allocation"
NewFd(t) ==
    /\ pc[t] = "opened"
    /\ inUse' \in {[inUse EXCEPT ![fd[t]] = IF @ = "free" THEN u ELSE @] :
                      u \in {"asked", "other"}}
    /\ seen' = IF inUse'[fd[t]] = "asked" /\ rep # "idle" THEN seen \cup {fd[t]} ELSE seen
    /\ Go(t, "idle") /\ fd' = [fd EXCEPT ![t] = Empty]
    /\ UNCHANGED <<open, mem, report, steady>>

Close(t) ==
    /\ pc[t] = "idle"
    /\ \E f \in open : open' = open \ {f} /\ fd' = [fd EXCEPT ![t] = f]
    /\ Go(t, "closed")
    /\ UNCHANGED <<inUse, mem, report, history>>

CloseFd(t) ==
    /\ pc[t] = "closed"
    /\ inUse' = [inUse EXCEPT ![fd[t]] = "free"]
    /\ steady' = steady \ {fd[t]}
    /\ Go(t, "idle") /\ fd' = [fd EXCEPT ![t] = Empty]
    /\ UNCHANGED <<open, mem, report, seen>>

\* the program allocates and frees, under the lock
Allocate ==
    /\ rep # "locked"
    /\ mem' \in 0..MaxMem \ {mem}
    /\ UNCHANGED <<open, inUse, pc, fd, report, history>>

-----------------------------------------------------------------------------
(* libSendReport                                                           *)

\* LOCK; the entries of the list, and countFds
Count ==
    /\ rep = "idle" /\ mem + Cardinality(Asked) > 0
    /\ total' = mem + Cardinality(Asked)
    /\ steady' = Asked /\ seen' = Asked
    /\ rep' = "locked"
    /\ UNCHANGED <<open, inUse, pc, fd, mem, segment, pos, next>>

\* shmget gives a new segment, or the one there is when that is large enough;
\* the memory entries are copied; UNLOCK
Copy ==
    /\ rep = "locked" /\ (size = 0 \/ size >= total)
    /\ size' = IF size = 0 THEN total ELSE size
    /\ seg' = [s \in Slots |-> IF s <= mem THEN Mem ELSE seg[s]]
    /\ pos' = mem /\ next' = 1
    /\ rep' = "add"
    /\ UNCHANGED <<open, inUse, pc, fd, mem, total, history>>

\* shmget fails, or shmat (which removes the segment): a report of nothing
NoSegment ==
    /\ rep = "locked"
    /\ \/ size # 0 /\ size < total /\ UNCHANGED segment
       \/ size' = 0 /\ seg' = Blank
    /\ rep' = "idle" /\ total' = 0
    /\ steady' = {} /\ seen' = {}
    /\ UNCHANGED <<open, inUse, pc, fd, mem, pos, next>>

Going == next <= NFds /\ pos < total

\* addFds, one descriptor
AddFd ==
    /\ rep = "add" /\ Going
    /\ IF inUse[next] = "asked"
       THEN seg' = [seg EXCEPT ![pos + 1] = next] /\ pos' = pos + 1
       ELSE UNCHANGED <<seg, pos>>
    /\ next' = next + 1
    /\ UNCHANGED <<open, inUse, pc, fd, mem, rep, total, size, history>>

Added ==
    /\ rep = "add" /\ ~Going
    /\ rep' = "send"
    /\ UNCHANGED <<open, inUse, pc, fd, mem, total, segment, pos, next, history>>

\* the manager shows the segment and removes it; or it is gone
Send ==
    /\ rep = "send"
    /\ \/ seg' = Blank /\ size' = 0
       \/ UNCHANGED segment
    /\ rep' = "idle" /\ total' = 0 /\ pos' = 0 /\ next' = 1
    /\ steady' = {} /\ seen' = {}
    /\ UNCHANGED <<open, inUse, pc, fd, mem>>

Next ==
    \/ \E t \in Threads : Open(t) \/ NewFd(t) \/ Close(t) \/ CloseFd(t)
    \/ Allocate \/ Count \/ Copy \/ NoSegment \/ AddFd \/ Added \/ Send

Spec == Init /\ [][Next]_vars

-----------------------------------------------------------------------------
(* Properties                                                              *)

\* Type invariant: the tables and the segment keep their types.
TypeOK ==
    /\ open \subseteq Fds /\ inUse \in [Fds -> {"free", "asked", "other"}]
    /\ pc \in [Threads -> {"idle", "opened", "closed"}]
    /\ fd \in [Threads -> Fds \cup {Empty}]
    /\ mem \in 0..MaxMem
    /\ rep \in {"idle", "locked", "add", "send"}
    /\ total \in 0..(NFds + MaxMem)
    /\ seg \in [Slots -> Fds \cup {Empty, Mem}] /\ size \in 0..(NFds + MaxMem)
    /\ pos \in 0..total /\ next \in 1..(NFds + 1)
    /\ steady \subseteq Fds /\ seen \subseteq Fds

(***************************************************************************)
(* No slot beyond the segment is written, whatever the program opens       *)
(* between the count and the copy, and whichever segment shmget gives.     *)
(***************************************************************************)
ReportFits == \A s \in Slots : seg[s] # Empty => s <= size

-----------------------------------------------------------------------------
(***************************************************************************)
(* "send a full report to the manager" (trxlib.c:140): what was in use     *)
(* during the whole of the report is in it, and what is in it was in use   *)
(* during the report.                                                      *)
(***************************************************************************)
FullReport ==
    rep = "send" => /\ steady \subseteq {seg[s] : s \in 1..size}
                    /\ \A s \in 1..size : seg[s] \in seen \cup {Mem}
=============================================================================
