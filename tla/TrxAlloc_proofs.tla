--------------------------- MODULE TrxAlloc_proofs ---------------------------
(***************************************************************************)
(* Proofs about the allocation functions, for any number of threads and    *)
(* blocks, whatever the manager sets and whenever it does.                 *)
(*                                                                         *)
(* A block that libc has given has one owner: the program, which may pass  *)
(* it to free, or the call of one thread, as the block it works on or as   *)
(* the one that realloc frees after (Owned).  Since nobody else touches    *)
(* it, the lists can be told from the places where the threads are: a      *)
(* tracked block is in the list of its tag, but for the part of a call     *)
(* before it is linked and the part after it is unlinked (Lists).  A tag   *)
(* that alist has no list of is the end of what is specified; up to there  *)
(* every linked block has a tag of alist.                                  *)
(***************************************************************************)
EXTENDS TrxAlloc, FiniteSetTheorems, TLAPS

-----------------------------------------------------------------------------
(* Types                                                                   *)

\* An unsigned integer stays one.
LEMMA WordIs == ASSUME NEW i \in Int PROVE i % Word \in 0..(Word - 1)
BY AllocAssumption

LEMMA InitType == Init => TypeOK
BY AllocAssumption DEF Init, TypeOK, Tags, Places

\* A call works on a block from when libc has given it.
Starting == {"idle", "room", "fill"}

Working == \A t \in Threads : blk[t] = None <=> pc[t] \in Starting

LEMMA NextType == TypeOK /\ Working /\ [Next]_vars => TypeOK'
<1> SUFFICES ASSUME TypeOK, Working, [Next]_vars PROVE TypeOK'
  OBVIOUS
<1> USE DEF TypeOK, Places, Go, Return, flags, heap, local, other
<1>1. ASSUME NEW t \in Threads, Malloc(t) PROVE TypeOK'
  BY <1>1 DEF Malloc, Available
<1>2. ASSUME NEW t \in Threads, Free(t) PROVE TypeOK'
  <2>1. blk' \in [Threads -> Blocks \cup {None}] /\ held' \subseteq Blocks
    BY <1>2 DEF Free
  <2>2. pc' \in [Threads -> Places]
    BY <1>2 DEF Free
  <2> QED
    BY <1>2, <2>1, <2>2 DEF Free
<1>14. ASSUME NEW t \in Threads, Realloc(t) PROVE TypeOK'
  <2>1. old' \in [Threads -> Blocks \cup {None}]
    BY <1>14 DEF Realloc
  <2>2. held' \subseteq Blocks /\ sane' \in BOOLEAN
    BY <1>14 DEF Realloc
  <2>3. pc' \in [Threads -> Places]
    BY <1>14 DEF Realloc
  <2> QED
    BY <1>14, <2>1, <2>2, <2>3 DEF Realloc
<1>3. ASSUME NEW t \in Threads, Fork(t) PROVE TypeOK'
  BY <1>3 DEF Fork
<1>4. ASSUME NEW t \in Threads, Room(t) \/ Lock(t) \/ CountRead(t) PROVE TypeOK'
  BY <1>4 DEF Room, Lock, CountRead
<1>12. ASSUME NEW t \in Threads, NoMemory(t) PROVE TypeOK'
  <2>1. held' \subseteq Blocks
    BY <1>12 DEF NoMemory
  <2> QED
    BY <1>12, <2>1 DEF NoMemory
<1>13. ASSUME NEW t \in Threads, Release(t) PROVE TypeOK'
  <2>1. kind' \in [Blocks -> {"none", "plain", "counted", "tracked"}]
    BY <1>13 DEF Release
  <2>2. blk' \in [Threads -> Blocks \cup {None}]
    BY <1>13 DEF Release
  <2>3. pc' \in [Threads -> Places]
    BY <1>13 DEF Release
  <2> QED
    BY <1>13, <2>1, <2>2, <2>3 DEF Release
<1>5. ASSUME NEW t \in Threads, Fill(t) PROVE TypeOK'
  <2>1. kind' \in [Blocks -> {"none", "plain", "counted", "tracked"}]
    BY <1>5 DEF Fill
  <2>2. tag' \in [Blocks -> Tags]
    BY <1>5 DEF Fill
  <2>3. pc' \in [Threads -> Places] /\ fits' \in BOOLEAN
    BY <1>5 DEF Fill
  <2> QED
    BY <1>5, <2>1, <2>2, <2>3 DEF Fill, Available
<1>6. ASSUME NEW t \in Threads, FreeBlock(t) PROVE TypeOK'
  BY <1>6 DEF FreeBlock
<1>7. ASSUME NEW t \in Threads, Insert(t) \/ Remove(t) PROVE TypeOK'
  <2>1. list' \in [ListTags -> SUBSET Blocks] /\ within' \in BOOLEAN
    <3>2. CASE Insert(t)
      <4>1. blk[t] \in Blocks
        BY <3>2 DEF Insert, Working, Starting
      <4> QED
        BY <3>2, <4>1 DEF Insert
    <3>3. CASE Remove(t)
      BY <3>3 DEF Remove
    <3> QED
      BY <1>7, <3>2, <3>3
  <2> QED
    BY <1>7, <2>1 DEF Insert, Remove
<1>8. ASSUME NEW t \in Threads,
             Inserted(t) \/ Counted(t) \/ Removed(t) \/ Discounted(t)
      PROVE  TypeOK'
  <2>1. cur[t] + 1 \in Int /\ cur[t] - 1 \in Int /\ 0 \in 0..(Word - 1)
    BY AllocAssumption
  <2>2. curalloc' \in 0..(Word - 1)
    BY <1>8, <2>1, WordIs DEF Inserted, Counted, Removed, Discounted
  <2> QED
    BY <1>8, <2>1, <2>2 DEF Inserted, Counted, Removed, Discounted
<1>9. CASE SetTracking \/ SetTag \/ Push \/ Pop \/ Reconfigure
  <2>1. ncmds' \in 0..MaxCmds
    BY <1>9, AllocAssumption DEF SetTracking, SetTag, Push, Pop, Reconfigure, Cmd
  <2>2. alloctag' \in Tags
    <3>1. CASE Push
      BY <3>1, WordIs DEF Push, Tags
    <3>2. CASE Pop
      BY <3>2, AllocAssumption DEF Pop, Tags
    <3> QED
      BY <1>9, <3>1, <3>2, AllocAssumption DEF SetTracking, SetTag, Reconfigure
  <2>3. enable' \in BOOLEAN /\ tracking' \in BOOLEAN
    <3>1. CASE SetTracking
      BY <3>1 DEF SetTracking
    <3>2. CASE Reconfigure
      BY <3>2 DEF Reconfigure
    <3> QED
      BY <1>9, <3>1, <3>2 DEF SetTag, Push, Pop
  <2>4. UNCHANGED <<lock, heap, local, other>>
    BY <1>9 DEF SetTracking, SetTag, Push, Pop, Reconfigure
  <2> QED
    BY <2>1, <2>2, <2>3, <2>4
<1>10. CASE ReportAsked \/ ReportLock \/ ReportSent \/ ChildInit
  BY <1>10 DEF ReportAsked, ReportLock, ReportSent, ChildInit
<1>11. CASE UNCHANGED vars
  BY <1>11 DEF vars
<1> QED
  BY <1>1, <1>2, <1>3, <1>4, <1>5, <1>6, <1>7, <1>8, <1>9, <1>10, <1>11,
     <1>12, <1>13, <1>14 DEF Next, CallStep


-----------------------------------------------------------------------------
(* The owner of a block                                                    *)

\* Where a call of realloc has the block that it frees after.
Keeping == {"room", "fill", "insert", "inserting", "inserted", "count", "counted"}

\* What the program may free, what a call works on and what realloc frees after are
\* blocks that libc has given, and different ones.
Owned ==
    /\ \A b \in held : kind[b] # "none"
    /\ \A t \in Threads : blk[t] # None => kind[blk[t]] # "none" /\ blk[t] \notin held
    /\ \A t \in Threads : old[t] # None => kind[old[t]] # "none" /\ old[t] \notin held
    /\ \A t, u \in Threads : blk[t] # None => (t # u => blk[t] # blk[u]) /\ blk[t] # old[u]
    /\ \A t, u \in Threads : old[t] # None /\ t # u => old[t] # old[u]
    /\ \A t \in Threads : old[t] # None => pc[t] \in Keeping

LEMMA NextOwned == TypeOK /\ Working /\ Owned /\ [Next]_vars => (Working /\ Owned)'
<1> SUFFICES ASSUME TypeOK, Working, Owned, [Next]_vars PROVE (Working /\ Owned)'
  OBVIOUS
<1> USE DEF TypeOK, Working, Starting, Owned, Keeping, Go, flags, heap, local, other
<1>0. None \notin Blocks
  BY AllocAssumption
<1>1. ASSUME NEW t \in Threads, Malloc(t) PROVE (Working /\ Owned)'
  BY <1>0, <1>1 DEF Malloc, Available
<1>2. ASSUME NEW t \in Threads, Free(t) PROVE (Working /\ Owned)'
  BY <1>0, <1>2 DEF Free
<1>3. ASSUME NEW t \in Threads, Realloc(t) PROVE (Working /\ Owned)'
  BY <1>0, <1>3 DEF Realloc
<1>4. ASSUME NEW t \in Threads, Room(t) \/ Lock(t) \/ CountRead(t) PROVE (Working /\ Owned)'
  BY <1>4 DEF Room, Lock, CountRead
<1>5. ASSUME NEW t \in Threads, Fill(t) PROVE (Working /\ Owned)'
  BY <1>0, <1>5 DEF Fill, Available
<1>6. ASSUME NEW t \in Threads, NoMemory(t) PROVE (Working /\ Owned)'
  BY <1>0, <1>6 DEF NoMemory
<1>7. ASSUME NEW t \in Threads, Insert(t) \/ Remove(t) \/ Removed(t) \/ Discounted(t)
      PROVE  (Working /\ Owned)'
  BY <1>7 DEF Insert, Remove, Removed, Discounted
<1>8. ASSUME NEW t \in Threads, Inserted(t) \/ Counted(t) PROVE (Working /\ Owned)'
  <2>1. pc[t] \in {"inserted", "counted"} /\ Return(t) /\ kind' = kind
    BY <1>8 DEF Inserted, Counted
  <2>2. CASE old[t] = None
    BY <1>0, <2>1, <2>2 DEF Return
  <2>3. CASE old[t] # None
    BY <1>0, <2>1, <2>3 DEF Return
  <2> QED
    BY <2>2, <2>3
<1>9. ASSUME NEW t \in Threads, FreeBlock(t) PROVE (Working /\ Owned)'
  BY <1>0, <1>9 DEF FreeBlock
<1>10. ASSUME NEW t \in Threads, Release(t) PROVE (Working /\ Owned)'
  BY <1>0, <1>10 DEF Release
<1>11. UNCHANGED <<kind, held, local>> => (Working /\ Owned)'
  OBVIOUS
<1> QED
  BY <1>1, <1>2, <1>3, <1>4, <1>5, <1>6, <1>7, <1>8, <1>9, <1>10, <1>11
     DEF Next, CallStep, Fork, SetTracking, SetTag, Push, Pop, Reconfigure, ReportAsked,
         ReportLock, ReportSent, ChildInit, vars

-----------------------------------------------------------------------------
(* The lists                                                               *)

\* The places where a call has not linked its block yet, or has unlinked it.
Unlinking == {"insert", "inserting", "removed", "release"}

Linked(b) == kind[b] = "tracked" /\ \A t \in Threads : blk[t] = b => pc[t] \notin Unlinking

\* What is linked is in the list of its tag, as long as there was one; and what is there is linked, until libc has
\* freed a tracked block.  The list is changed for tracked blocks, and for each of them.
Lists ==
    /\ within => \A b \in Blocks : Linked(b) => tag[b] \in ListTags /\ b \in list[tag[b]]
    /\ sane => \A g \in ListTags : \A b \in list[g] : Linked(b) /\ tag[b] = g
    /\ \A t \in Threads : pc[t] \in {"insert", "inserting", "inserted", "remove", "removing",
                                     "removed"} => kind[blk[t]] = "tracked"
    /\ \A t \in Threads : pc[t] \in {"discount", "discounted"} => kind[blk[t]] # "tracked"

LEMMA NextLists ==
    TypeOK /\ Working /\ Owned /\ Lists /\ [Next]_vars => Lists'
<1> SUFFICES ASSUME TypeOK, Working, Owned, Lists, [Next]_vars PROVE Lists'
  OBVIOUS
<1> USE DEF TypeOK, Working, Starting, Owned, Lists, Linked, Unlinking, Go, heap, local
<1>0. None \notin Blocks
  BY AllocAssumption
<1>1. ASSUME NEW t \in Threads, Malloc(t) PROVE Lists'
  BY <1>0, <1>1 DEF Malloc, Available
<1>2. ASSUME NEW t \in Threads, Free(t) PROVE Lists'
  BY <1>0, <1>2 DEF Free
<1>3. ASSUME NEW t \in Threads, Realloc(t) PROVE Lists'
  BY <1>0, <1>3 DEF Realloc
<1>4. ASSUME NEW t \in Threads, Room(t) \/ Lock(t) \/ CountRead(t) PROVE Lists'
  BY <1>0, <1>4 DEF Room, Lock, CountRead
<1>5. ASSUME NEW t \in Threads, Fill(t) PROVE Lists'
  BY <1>0, <1>5 DEF Fill, Available
<1>6. ASSUME NEW t \in Threads, NoMemory(t) PROVE Lists'
  BY <1>0, <1>6 DEF NoMemory
<1>7. ASSUME NEW t \in Threads, Insert(t) PROVE Lists'
  <2> DEFINE b == blk[t]
             g == tag[b]
  <2>1. /\ b \in Blocks /\ blk[t] = b /\ pc[t] = "inserting" /\ kind[b] = "tracked"
        /\ g = tag[b]
    BY <1>0, <1>7 DEF Insert
  <2>2. /\ UNCHANGED <<kind, tag, blk, sane>> /\ pc' = [pc EXCEPT ![t] = "inserted"]
        /\ within' = (within /\ g \in ListTags)
        /\ list' = IF g \in ListTags THEN [list EXCEPT ![g] = @ \cup {b}] ELSE list
    BY <1>7 DEF Insert
  <2> HIDE DEF b, g
  <2>3. \A c \in Blocks : Linked(c)' <=> Linked(c) \/ c = b
    <3>1. \A u \in Threads : blk[u] = b => u = t
      BY <1>0, <2>1
    <3>2. pc'[t] = "inserted" /\ \A u \in Threads \ {t} : pc'[u] = pc[u]
      BY <2>2
    <3> QED
      BY <2>1, <2>2, <3>1, <3>2
  <2>4. \A f \in ListTags : /\ list[f] \subseteq list'[f]
                           /\ list'[f] \subseteq list[f] \cup (IF f = g THEN {b} ELSE {})
    BY <2>2
  <2>5. within' => \A c \in Blocks : Linked(c)' => tag'[c] \in ListTags /\ c \in list'[tag'[c]]
    <3> SUFFICES ASSUME within', NEW c \in Blocks, Linked(c)'
                 PROVE  tag[c] \in ListTags /\ c \in list'[tag[c]]
      BY <2>2
    <3>0. within /\ g \in ListTags
      BY <2>2 DEF TypeOK
    <3>1. within /\ g \in ListTags /\ b \in list'[g]
      <4>1. list \in [ListTags -> SUBSET Blocks]
        OBVIOUS
      <4>2. list' = [list EXCEPT ![g] = @ \cup {b}]
        BY <2>2, <3>0
      <4> QED
        BY <3>0, <4>1, <4>2
    <3>2. CASE c = b
      BY <2>1, <3>1, <3>2
    <3>3. CASE c # b
      <4>1. Linked(c)
        BY <2>3, <3>3
      <4>2. tag[c] \in ListTags /\ c \in list[tag[c]]
        BY <3>1, <4>1
      <4> QED
        BY <2>4, <4>2
    <3> QED
      BY <3>2, <3>3
  <2>6. sane' => \A f \in ListTags : \A c \in list'[f] : Linked(c)' /\ tag'[c] = f
    BY <2>1, <2>2, <2>3, <2>4
  <2>7. \A u \in Threads : pc'[u] = IF u = t THEN "inserted" ELSE pc[u]
    BY <2>2
  <2> QED
    BY <2>1, <2>2, <2>5, <2>6, <2>7
<1>8. ASSUME NEW t \in Threads, Remove(t) PROVE Lists'
  BY <1>0, <1>8 DEF Remove
<1>9. ASSUME NEW t \in Threads, Removed(t) \/ Discounted(t) PROVE Lists'
  BY <1>0, <1>9 DEF Removed, Discounted
<1>10. ASSUME NEW t \in Threads, Inserted(t) \/ Counted(t) PROVE Lists'
  <2>1. /\ pc[t] \in {"inserted", "counted"} /\ Return(t)
        /\ UNCHANGED <<kind, list, tag, sane, within>>
    BY <1>10 DEF Inserted, Counted
  <2>2. /\ pc'[t] \in {"idle", "free"} /\ blk'[t] \in {None, old[t]}
        /\ \A u \in Threads \ {t} : pc'[u] = pc[u] /\ blk'[u] = blk[u]
    BY <2>1 DEF Return
  <2>3. \A b \in Blocks : Linked(b)' <=> Linked(b)
    BY <1>0, <2>1, <2>2
  <2> QED
    BY <2>1, <2>2, <2>3
<1>11. ASSUME NEW t \in Threads, FreeBlock(t) PROVE Lists'
  <2>1. CASE enable
    BY <1>11, <2>1 DEF FreeBlock
  <2>2. CASE ~enable
    <3> DEFINE b == blk[t]
    <3>1. /\ b \in Blocks /\ blk[t] = b /\ pc'[t] = "idle"
          /\ kind' = [kind EXCEPT ![b] = "none"]
          /\ blk' = [blk EXCEPT ![t] = None]
          /\ \A u \in Threads \ {t} : pc'[u] = pc[u] /\ blk'[u] = blk[u] /\ blk[u] # b
          /\ UNCHANGED <<list, tag, within>>
      BY <1>0, <1>11, <2>2 DEF FreeBlock
    <3>2. sane' => sane /\ kind[b] = "plain"
      BY <1>11, <2>2 DEF FreeBlock
    <3> HIDE DEF b
    <3>3. \A c \in Blocks : Linked(c)' <=> Linked(c) /\ c # b
      BY <1>0, <3>1
    <3> QED
      BY <3>1, <3>2, <3>3
  <2> QED
    BY <2>1, <2>2
<1>12. ASSUME NEW t \in Threads, Release(t) PROVE Lists'
  BY <1>0, <1>12 DEF Release
<1>13. UNCHANGED <<heap, local>> => Lists'
  OBVIOUS
<1>14. CASE ReportLock
  BY <1>14 DEF ReportLock
<1> QED
  BY <1>1, <1>2, <1>3, <1>4, <1>5, <1>6, <1>7, <1>8, <1>9, <1>10, <1>11, <1>12, <1>13, <1>14
     DEF Next, CallStep, Fork, SetTracking, SetTag, Push, Pop, Reconfigure, ReportAsked,
         ReportSent, ChildInit, vars

\* What the program holds is in a list; the step that meets a tag without one changes nothing
\* of that.
LEMMA HeldIsLinked == TypeOK /\ Owned /\ Lists /\ within => NothingLost
<1> SUFFICES ASSUME TypeOK, Owned, Lists, within, NEW b \in held, kind[b] = "tracked"
             PROVE  b \in Listed
  BY DEF NothingLost
<1>1. b \in Blocks /\ b # None
  BY AllocAssumption DEF TypeOK
<1>2. \A t \in Threads : blk[t] # b
  BY <1>1 DEF Owned
<1>3. b \in list[tag[b]] /\ tag[b] \in ListTags
  BY <1>1, <1>2 DEF Lists, Linked
<1> QED
  BY <1>3 DEF Listed

LEMMA NextHeld ==
    TypeOK /\ NothingLost /\ [Next]_vars /\ (TypeOK /\ Owned /\ Lists)' => NothingLost'
<1> SUFFICES ASSUME TypeOK, NothingLost, [Next]_vars, (TypeOK /\ Owned /\ Lists)'
             PROVE  NothingLost'
  OBVIOUS
<1>1. CASE within'
  <2>1. (TypeOK /\ Owned /\ Lists /\ within => NothingLost)'
    BY HeldIsLinked, PTL
  <2> QED
    BY <1>1, <2>1
<1>2. CASE ~within'
  <2>1. held' = held /\ kind' = kind /\ \A g \in ListTags : list[g] \subseteq list'[g]
    BY <1>2 DEF TypeOK, Next, CallStep, Malloc, Free, Realloc, Fork, Room, Fill, NoMemory,
         Lock, Insert, Inserted, CountRead, Counted, FreeBlock, Remove, Removed, Discounted,
         Release, SetTracking, SetTag, Push, Pop, Reconfigure, ReportAsked, ReportLock,
         ReportSent, ChildInit, vars, flags, heap, local, other
  <2> QED
    BY <2>1 DEF NothingLost, Listed
<1> QED
  BY <1>1, <1>2

-----------------------------------------------------------------------------
(* The theorems                                                            *)

AllocInv == TypeOK /\ Working /\ Owned /\ Lists /\ NothingLost

LEMMA AllocInvariant == Spec => []AllocInv
<1>1. Init => AllocInv
  BY InitType DEF Init, AllocInv, Working, Starting, Owned, Lists, Linked, NothingLost
<1>2. AllocInv /\ [Next]_vars => AllocInv'
  BY NextType, NextOwned, NextLists, NextHeld DEF AllocInv
<1> QED
  BY <1>1, <1>2, PTL DEF Spec

(***************************************************************************)
(* The library's variables and the threads' keep their types: curalloc     *)
(* wraps round when two threads' counts meet, and stays an unsigned        *)
(* integer; the tag stays one too.                                         *)
(***************************************************************************)
THEOREM TypeCorrect == Spec => []TypeOK
<1>1. AllocInv => TypeOK
  BY DEF AllocInv
<1> QED
  BY <1>1, AllocInvariant, PTL

(***************************************************************************)
(* A block that is in a list is a tracked one that libc does not have, in  *)
(* the list of its own tag.                                                *)
(***************************************************************************)
THEOREM ListedIsLiveHolds == Spec => []ListedIsLive
<1>1. AllocInv => ListedIsLive
  BY DEF AllocInv, Lists, Linked, ListedIsLive
<1> QED
  BY <1>1, AllocInvariant, PTL

(***************************************************************************)
(* What the program holds and the library tracks is in a list, whatever    *)
(* changes between malloc and free.                                        *)
(***************************************************************************)
THEOREM NothingLostHolds == Spec => []NothingLost
<1>1. AllocInv => NothingLost
  BY DEF AllocInv
<1> QED
  BY <1>1, AllocInvariant, PTL

-----------------------------------------------------------------------------
(***************************************************************************)
(* The report of the library (TrxFds).  Whatever the program opens,        *)
(* closes, allocates and frees between the count and the copy, and         *)
(* whichever segment shmget gives, no slot outside the segment is written: *)
(* for any number of threads and descriptors and any bound on the blocks.  *)
(*                                                                         *)
(* ReportFits is not inductive: the writes stop at total, the slots that   *)
(* were counted, and it takes that the segment has that many slots from    *)
(* the copy on (SegmentHolds), that the list was copied whole              *)
(* (ListCounted), and, for the types, that a thread under way has a        *)
(* descriptor and a report that has copied nothing no place.               *)
(***************************************************************************)
CONSTANTS NFds, MaxMem
VARIABLES open, inUse, at, fd, mem, rep, total, seg, size, pos, next, steady, seen

Table == INSTANCE TrxFds WITH pc <- at

\* the segment that is written to has the slots that were counted
SegmentHolds == rep \in {"add", "send"} => total <= size

\* the blocks of the list are in the count, which the lock keeps true until they
\* are copied
ListCounted == rep = "locked" => mem <= total

\* a thread between the kernel's table and the library's has a descriptor
HasDescriptor == \A t \in Threads : at[t] # "idle" => fd[t] \in Table!Fds

\* and a report that has copied nothing has no place yet
NothingCopied == rep \in {"idle", "locked"} => pos = 0

FdsInv ==
    /\ Table!TypeOK /\ HasDescriptor /\ NothingCopied /\ SegmentHolds /\ ListCounted
    /\ Table!ReportFits

\* The instance counts as this module does.
LEMMA SameCount == \A S : Table!Cardinality(S) = Cardinality(S)
BY DEF Table!Cardinality, Cardinality

\* The number of descriptors in use by a tag is a number, at most MAXFDS.
LEMMA AskedBound ==
  ASSUME Table!FdsAssumption
  PROVE  Cardinality(Table!Asked) \in 0..NFds
<1>1. IsFiniteSet(Table!Fds) /\ Cardinality(Table!Fds) = NFds
  <2>1. IsFiniteSet(1..NFds) /\ Cardinality(1..NFds) = IF 1 > NFds THEN 0 ELSE NFds - 1 + 1
    BY FS_Interval DEF Table!FdsAssumption
  <2> QED BY <2>1 DEF Table!Fds, Table!FdsAssumption
<1>2. Table!Asked \subseteq Table!Fds
  BY DEF Table!Asked
<1>3. IsFiniteSet(Table!Asked) /\ Cardinality(Table!Asked) <= Cardinality(Table!Fds)
  BY <1>1, <1>2, FS_Subset
<1>4. Cardinality(Table!Asked) \in Nat
  BY <1>3, FS_CardinalityType
<1> QED BY <1>1, <1>3, <1>4 DEF Table!FdsAssumption

LEMMA InitFds ==
  ASSUME Table!FdsAssumption, Table!Init
  PROVE  FdsInv
BY DEF Table!FdsAssumption, Table!Init, FdsInv, Table!TypeOK, HasDescriptor, NothingCopied, SegmentHolds, ListCounted, Table!ReportFits, Table!Blank, Table!Slots, Table!Fds, Table!Empty, Table!Mem


\* What a program's thread does leaves the report alone.
LEMMA ThreadStep ==
  ASSUME Table!FdsAssumption, FdsInv, NEW t \in Threads,
         Table!Open(t) \/ Table!NewFd(t) \/ Table!Close(t) \/ Table!CloseFd(t)
  PROVE  FdsInv'
<1> USE DEF FdsInv
<1>1. Table!TypeOK'
  <2>1. CASE Table!Open(t)
    BY <2>1 DEF Table!TypeOK, Table!Open, Table!Go, Table!report, Table!segment, Table!history
  <2>2. CASE Table!NewFd(t)
    <3>1. fd[t] \in Table!Fds
      BY <2>2 DEF Table!NewFd, HasDescriptor
    <3>2. seen' \subseteq Table!Fds
      BY <2>2, <3>1 DEF Table!NewFd, Table!TypeOK
    <3>3. inUse' \in [Table!Fds -> {"free", "asked", "other"}]
      BY <2>2, <3>1 DEF Table!NewFd, Table!TypeOK
    <3> QED BY <2>2, <3>2, <3>3 DEF Table!TypeOK, Table!NewFd, Table!Go, Table!report, Table!segment
  <2>3. CASE Table!Close(t)
    BY <2>3 DEF Table!TypeOK, Table!Close, Table!Go, Table!report, Table!segment, Table!history
  <2>4. CASE Table!CloseFd(t)
    BY <2>4 DEF Table!TypeOK, Table!CloseFd, Table!Go, Table!report, Table!segment, Table!history
  <2> QED BY <2>1, <2>2, <2>3, <2>4
<1>2. HasDescriptor'
  <2>1. CASE Table!Open(t)
    BY <2>1 DEF Table!TypeOK, HasDescriptor, Table!Open, Table!Go
  <2>2. CASE Table!NewFd(t) \/ Table!CloseFd(t)
    BY <2>2 DEF Table!TypeOK, HasDescriptor, Table!NewFd, Table!CloseFd, Table!Go
  <2>3. CASE Table!Close(t)
    BY <2>3 DEF Table!TypeOK, HasDescriptor, Table!Close, Table!Go
  <2> QED BY <2>1, <2>2, <2>3
<1>3. UNCHANGED <<mem, rep, total, pos, seg, size>>
  BY DEF Table!Open, Table!NewFd, Table!Close, Table!CloseFd, Table!report, Table!segment
<1> QED BY <1>1, <1>2, <1>3 DEF NothingCopied, SegmentHolds, ListCounted, Table!ReportFits

\* LOCK holds Allocate off between the count and the copy of the list.
LEMMA CountStep ==
  ASSUME Table!FdsAssumption, FdsInv, Table!Allocate \/ Table!Count
  PROVE  FdsInv'
<1> USE DEF FdsInv
<1>1. CASE Table!Allocate
  BY <1>1 DEF Table!Allocate, Table!TypeOK, HasDescriptor, NothingCopied, SegmentHolds, ListCounted, Table!ReportFits, Table!report, Table!segment, Table!history
<1>2. CASE Table!Count
  <2>1. Cardinality(Table!Asked) \in 0..NFds
    BY AskedBound
  <2>2. total' \in 0..(NFds + MaxMem) /\ mem <= total'
    <3>1. total' = mem + Table!Cardinality(Table!Asked) /\ mem \in 0..MaxMem
      BY <1>2 DEF Table!Count, Table!TypeOK
    <3>2. Table!Cardinality(Table!Asked) = Cardinality(Table!Asked)
      BY SameCount
    <3> QED BY <2>1, <3>1, <3>2 DEF Table!FdsAssumption
  <2>3. Table!Asked \subseteq Table!Fds
    BY DEF Table!Asked
  <2>4. pos \in 0..total'
    BY <1>2, <2>2 DEF Table!Count, NothingCopied
  <2> QED BY <1>2, <2>2, <2>3, <2>4
          DEF Table!Count, Table!TypeOK, HasDescriptor, NothingCopied, SegmentHolds, ListCounted, Table!ReportFits, Table!segment
<1> QED BY <1>1, <1>2

\* The segment that shmget gives has the slots that were counted, be it new or old.
LEMMA CopyStep ==
  ASSUME Table!FdsAssumption, FdsInv, Table!Copy
  PROVE  FdsInv'
<1> USE DEF FdsInv
<1>1. /\ size' \in 0..(NFds + MaxMem) /\ total <= size' /\ size <= size'
      /\ mem <= total /\ mem \in 0..MaxMem /\ total \in 0..(NFds + MaxMem)
  BY DEF Table!Copy, Table!TypeOK, ListCounted, Table!FdsAssumption
<1>2. seg' = [s \in Table!Slots |-> IF s <= mem THEN Table!Mem ELSE seg[s]]
  BY DEF Table!Copy
<1>3. seg' \in [Table!Slots -> Table!Fds \cup {Table!Empty, Table!Mem}]
  BY <1>2 DEF Table!TypeOK
<1>4. Table!ReportFits'
  <2> SUFFICES ASSUME NEW s \in Table!Slots, seg'[s] # Table!Empty PROVE s <= size'
    BY DEF Table!ReportFits
  <2>1. s \in Nat /\ size \in Nat /\ size' \in Nat
    BY <1>1 DEF Table!Slots, Table!TypeOK, Table!FdsAssumption
  <2>2. CASE s <= mem
    BY <1>1, <2>1, <2>2
  <2>3. CASE ~(s <= mem)
    BY <1>1, <1>2, <2>1, <2>3 DEF Table!ReportFits, Table!TypeOK
  <2> QED BY <2>2, <2>3
<1>5. pos' \in 0..total' /\ next' \in 1..(NFds + 1)
  BY <1>1 DEF Table!Copy, Table!FdsAssumption
<1> QED BY <1>1, <1>3, <1>4, <1>5 DEF Table!Copy, Table!TypeOK, HasDescriptor, NothingCopied, SegmentHolds, ListCounted, Table!history

\* A slot is written below the total, and the total is below the size.
LEMMA AddStep ==
  ASSUME Table!FdsAssumption, FdsInv, Table!AddFd
  PROVE  FdsInv'
<1> USE DEF FdsInv
<1>1. /\ rep = "add" /\ total <= size /\ pos < total /\ next \in Table!Fds
      /\ pos \in Nat /\ total \in 0..(NFds + MaxMem) /\ size \in 0..(NFds + MaxMem)
  BY DEF Table!AddFd, Table!Going, Table!TypeOK, SegmentHolds, Table!Fds, Table!FdsAssumption
<1>2. pos + 1 \in Table!Slots /\ pos + 1 <= size
  BY <1>1 DEF Table!Slots, Table!FdsAssumption
<1>3. UNCHANGED <<open, inUse, at, fd, mem, rep, total, size, steady, seen>>
  BY DEF Table!AddFd, Table!history
<1>4. CASE inUse[next] = "asked"
  <2>1. seg' = [seg EXCEPT ![pos + 1] = next] /\ pos' = pos + 1
    BY <1>4 DEF Table!AddFd
  <2>2. seg' \in [Table!Slots -> Table!Fds \cup {Table!Empty, Table!Mem}]
    BY <1>1, <2>1 DEF Table!TypeOK
  <2>3. Table!ReportFits'
    BY <1>2, <1>3, <2>1 DEF Table!ReportFits, Table!TypeOK
  <2>4. pos' \in 0..total' /\ next' \in 1..(NFds + 1)
    BY <1>1, <1>3, <2>1 DEF Table!AddFd, Table!Fds, Table!FdsAssumption
  <2> QED BY <1>1, <1>3, <2>2, <2>3, <2>4 DEF Table!TypeOK, HasDescriptor, NothingCopied, SegmentHolds, ListCounted
<1>5. CASE inUse[next] # "asked"
  <2>1. UNCHANGED <<seg, pos>> /\ next' \in 1..(NFds + 1)
    BY <1>1, <1>5 DEF Table!AddFd, Table!Fds, Table!FdsAssumption
  <2> QED BY <1>3, <2>1 DEF Table!TypeOK, HasDescriptor, NothingCopied, SegmentHolds, ListCounted, Table!ReportFits
<1> QED BY <1>4, <1>5

\* The report ends, with a segment that is removed or left behind.
LEMMA EndStep ==
  ASSUME Table!FdsAssumption, FdsInv, Table!NoSegment \/ Table!Added \/ Table!Send
  PROVE  FdsInv'
<1> USE DEF FdsInv
<1>1. Table!Blank \in [Table!Slots -> Table!Fds \cup {Table!Empty, Table!Mem}] /\ \A s \in Table!Slots : Table!Blank[s] = Table!Empty
  BY DEF Table!Blank
<1>2. 0 \in 0..(NFds + MaxMem) /\ 1 \in 1..(NFds + 1) /\ 0 \in 0..0
  BY DEF Table!FdsAssumption
<1>3. CASE Table!Added
  BY <1>3 DEF Table!Added, Table!TypeOK, HasDescriptor, NothingCopied, SegmentHolds, ListCounted, Table!ReportFits, Table!segment, Table!history
<1>4. CASE Table!NoSegment
  <2>1. Table!ReportFits'
    BY <1>1, <1>4 DEF Table!NoSegment, Table!ReportFits, Table!segment
  <2> QED BY <1>1, <1>2, <1>4, <2>1 DEF Table!NoSegment, Table!TypeOK, HasDescriptor, NothingCopied, SegmentHolds, ListCounted, Table!segment
<1>5. CASE Table!Send
  <2>1. Table!ReportFits'
    BY <1>1, <1>5 DEF Table!Send, Table!ReportFits, Table!segment
  <2> QED BY <1>1, <1>2, <1>5, <2>1 DEF Table!Send, Table!TypeOK, HasDescriptor, NothingCopied, SegmentHolds, ListCounted, Table!segment
<1> QED BY <1>3, <1>4, <1>5

LEMMA NextFds ==
  ASSUME Table!FdsAssumption, FdsInv, [Table!Next]_(Table!vars)
  PROVE  FdsInv'
<1>1. CASE \E t \in Threads : Table!Open(t) \/ Table!NewFd(t) \/ Table!Close(t) \/ Table!CloseFd(t)
  BY <1>1, ThreadStep
<1>2. CASE Table!Allocate \/ Table!Count
  BY <1>2, CountStep
<1>3. CASE Table!Copy
  BY <1>3, CopyStep
<1>4. CASE Table!AddFd
  BY <1>4, AddStep
<1>5. CASE Table!NoSegment \/ Table!Added \/ Table!Send
  BY <1>5, EndStep
<1>6. CASE UNCHANGED Table!vars
  BY <1>6 DEF Table!vars, Table!report, Table!segment, Table!history, FdsInv, Table!TypeOK, HasDescriptor, NothingCopied, SegmentHolds, ListCounted, Table!ReportFits
<1> QED BY <1>1, <1>2, <1>3, <1>4, <1>5, <1>6 DEF Table!Next

(***************************************************************************)
(* libSendReport writes no slot outside the segment (trxlib.c:181-245), on *)
(* any number of threads, descriptors and blocks.                          *)
(***************************************************************************)
THEOREM Fits == Table!FdsAssumption /\ Table!Spec => []Table!ReportFits
<1> SUFFICES ASSUME Table!FdsAssumption PROVE Table!Spec => []Table!ReportFits
  OBVIOUS
<1>1. Table!Init => FdsInv
  BY InitFds
<1>2. FdsInv /\ [Table!Next]_(Table!vars) => FdsInv'
  BY NextFds
<1>3. FdsInv => Table!ReportFits
  BY DEF FdsInv
<1> QED BY <1>1, <1>2, <1>3, PTL DEF Table!Spec

\* The tables and the segment keep their types.
THEOREM TableTypeCorrect == Table!FdsAssumption /\ Table!Spec => []Table!TypeOK
<1> SUFFICES ASSUME Table!FdsAssumption PROVE Table!Spec => []Table!TypeOK
  OBVIOUS
<1>1. Table!Init => FdsInv
  BY InitFds
<1>2. FdsInv /\ [Table!Next]_(Table!vars) => FdsInv'
  BY NextFds
<1>3. FdsInv => Table!TypeOK
  BY DEF FdsInv
<1> QED BY <1>1, <1>2, <1>3, PTL DEF Table!Spec
=============================================================================
