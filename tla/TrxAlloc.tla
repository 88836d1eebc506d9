------------------------------- MODULE TrxAlloc -------------------------------
(***************************************************************************)
(* The allocation functions that trxlib.c puts in front of libc's, in a    *)
(* program with several threads.  A block that libc gives carries a header *)
(* that says what was done with it:                                        *)
(*                                                                         *)
(*     plain      none: the program got what libc gave (enable is off)     *)
(*     counted    a small one, MAGIC1: its size is in curalloc             *)
(*     tracked    a trxblk_t, MAGIC2: in curalloc, and in the list of its  *)
(*                tag                                                      *)
(*                                                                         *)
(* The variables enable, tracking and alloctag are read wherever the code  *)
(* reads them; the connection's thread sets them when the manager says so. *)
(* curalloc += size is a read and a write.  Every block has size 1.        *)
(***************************************************************************)
EXTENDS Integers, FiniteSets

CONSTANTS
    Threads,     \* the program's threads
    Blocks,      \* the addresses libc may give
    Tracked,     \* what the configuration may say of tracking at the start
    MAXTAGS,     \* the size of alist, whose last tag is the one before, and the last
                 \* tag that push reaches
    TagValues,   \* the values a user sets the tag to
    Cmds,        \* what the manager may set: "track", "tag", "push", "pop",
                 \* "config" (at a reconnection)
    MaxCmds,     \* commands in all (bound)
    Word         \* curalloc and alloctag are unsigned integers modulo Word (2^32 there)

None   == 0
Client == -1            \* the connection's thread
Tags   == 0..(Word - 1)
ListTags  == 0..(MAXTAGS - 1)     \* alist

ASSUME AllocAssumption ==
    /\ None \notin Threads /\ Client \notin Threads /\ None \notin Blocks
    /\ Tracked \subseteq BOOLEAN /\ MAXTAGS \in Nat \ {0} /\ MaxCmds \in Nat
    /\ Word \in Nat /\ Word > MAXTAGS /\ Word > Cardinality(Blocks) /\ TagValues \subseteq Tags
    /\ Cmds \subseteq {"track", "tag", "push", "pop", "config"}

VARIABLES
    enable, tracking, alloctag,
    lock,        \* the owner of trxm
    kind,        \* what is at each address: "none" when libc has it
    tag,         \* tp->tag
    list,        \* alist[tag].list, of the tags that alist has
    curalloc,
    held,        \* the blocks the program may pass to free
    pc, cur,     \* where a thread is, and curalloc as it has read it
    room,        \* the thread's overhead is that of a trxblk_t
    blk, old,    \* the block it works on; the one realloc frees after
    report,      \* the connection's thread: idle, asked, counting
    child,       \* none, a child that was forked, one that has its own thread
    chlock,      \* the owner of trxm in the child, if it needs the lock
    fits,        \* (history) every header was written inside its block
    sane,        \* (history) libc and verify got only the pointers they know
    within,      \* (history) every list that was read or written is one of alist
    ncmds

flags == <<enable, tracking, alloctag, ncmds>>
heap  == <<kind, tag, list, curalloc, held, fits, sane, within>>
local == <<pc, cur, room, blk, old>>
other == <<report, child, chlock>>
vars  == <<flags, lock, heap, local, other>>

Init ==
    /\ enable = TRUE /\ tracking \in Tracked /\ alloctag = 0 /\ ncmds = 0
    /\ lock = None
    /\ kind = [b \in Blocks |-> "none"] /\ tag = [b \in Blocks |-> 0]
    /\ list = [g \in ListTags |-> {}] /\ curalloc = 0 /\ held = {}
    /\ fits = TRUE /\ sane = TRUE /\ within = TRUE
    /\ pc = [t \in Threads |-> "idle"] /\ cur = [t \in Threads |-> 0]
    /\ room = [t \in Threads |-> FALSE]
    /\ blk = [t \in Threads |-> None] /\ old = [t \in Threads |-> None]
    /\ report = "idle" /\ child = "none" /\ chlock = None

Go(t, l) == pc' = [pc EXCEPT ![t] = l]

Available == {b \in Blocks : kind[b] = "none"}

\* a call that has its block returns; realloc goes on to free the old one
Return(t) ==
    /\ held' = IF blk[t] = None THEN held ELSE held \cup {blk[t]}
    /\ IF old[t] = None
       THEN Go(t, "idle") /\ blk' = [blk EXCEPT ![t] = None] /\ UNCHANGED old
       ELSE /\ Go(t, "free")
            /\ blk' = [blk EXCEPT ![t] = old[t]]
            /\ old' = [old EXCEPT ![t] = None]

-----------------------------------------------------------------------------
(* malloc, calloc, memalign, valloc                                        *)

\* enable is read: libc's malloc, or tp_alloc
Malloc(t) ==
    /\ pc[t] = "idle"
    /\ IF enable
       THEN Go(t, "room") /\ UNCHANGED <<kind, held>>
       ELSE /\ \E b \in Available : kind' = [kind EXCEPT ![b] = "plain"] /\ held' = held \cup {b}
            /\ UNCHANGED pc
    /\ UNCHANGED <<flags, lock, tag, list, curalloc, fits, sane, within, cur, room, blk,
                   old, other>>

\* tp_alloc reads tracking to compute the overhead
Room(t) ==
    /\ pc[t] = "room"
    /\ room' = [room EXCEPT ![t] = tracking]
    /\ Go(t, "fill")
    /\ UNCHANGED <<flags, lock, heap, cur, blk, old, other>>

\* libc gives a block; tracking is read again, and the header written
Fill(t) ==
    /\ pc[t] = "fill"
    /\ \E b \in Available :
          /\ blk' = [blk EXCEPT ![t] = b]
          /\ kind' = [kind EXCEPT ![b] = IF tracking THEN "tracked" ELSE "counted"]
          /\ tag' = IF tracking THEN [tag EXCEPT ![b] = alloctag] ELSE tag
    /\ room' = [room EXCEPT ![t] = FALSE]
    /\ fits' = (fits /\ (tracking => room[t]))
    /\ Go(t, IF tracking THEN "insert" ELSE "count")
    /\ UNCHANGED <<flags, lock, list, curalloc, held, sane, within, cur, old, other>>

\* libc has no block: the call returns NULL, and realloc frees nothing
NoMemory(t) ==
    /\ pc[t] = "fill" /\ Available = {}
    /\ Go(t, "idle")
    /\ held' = IF old[t] = None THEN held ELSE held \cup {old[t]}
    /\ old' = [old EXCEPT ![t] = None]
    /\ room' = [room EXCEPT ![t] = FALSE]
    /\ UNCHANGED <<flags, lock, kind, tag, list, curalloc, fits, sane, within, cur, blk, other>>

\* LOCK, before the list is changed
Lock(t) ==
    /\ pc[t] \in {"insert", "remove"} /\ lock = None
    /\ lock' = t
    /\ Go(t, IF pc[t] = "insert" THEN "inserting" ELSE "removing")
    /\ UNCHANGED <<flags, heap, cur, room, blk, old, other>>

\* the new block is not linked to the former head (no part of the
\* specification)
InsertAlone(t) ==
    LET g == tag[blk[t]] IN
    /\ pc[t] = "inserting"
    /\ within' = (within /\ g \in ListTags)
    /\ list' = IF g \in ListTags THEN [list EXCEPT ![g] = {blk[t]}] ELSE list
    /\ cur' = [cur EXCEPT ![t] = curalloc]
    /\ Go(t, "inserted")
    /\ UNCHANGED <<flags, lock, kind, tag, curalloc, held, fits, sane, room, blk, old, other>>

\* LIST_INSERT_HEAD, for which alist must have a list of that tag, and the read of curalloc
Insert(t) ==
    LET g == tag[blk[t]] IN
    /\ pc[t] = "inserting"
    /\ within' = (within /\ g \in ListTags)
    /\ list' = IF g \in ListTags THEN [list EXCEPT ![g] = @ \cup {blk[t]}] ELSE list
    /\ cur' = [cur EXCEPT ![t] = curalloc]
    /\ Go(t, "inserted")
    /\ UNCHANGED <<flags, lock, kind, tag, curalloc, held, fits, sane, room, blk, old, other>>

\* curalloc is written; UNLOCK
Inserted(t) ==
    /\ pc[t] = "inserted"
    /\ curalloc' = (cur[t] + 1) % Word
    /\ lock' = None
    /\ Return(t)
    /\ cur' = [cur EXCEPT ![t] = 0]
    /\ UNCHANGED <<flags, kind, tag, list, fits, sane, within, room, other>>

\* without tracking: curalloc is read, and written
CountRead(t) ==
    /\ pc[t] \in {"count", "discount"}
    /\ cur' = [cur EXCEPT ![t] = curalloc]
    /\ Go(t, IF pc[t] = "count" THEN "counted" ELSE "discounted")
    /\ UNCHANGED <<flags, lock, heap, room, blk, old, other>>

Counted(t) ==
    /\ pc[t] = "counted"
    /\ curalloc' = (cur[t] + 1) % Word
    /\ Return(t)
    /\ cur' = [cur EXCEPT ![t] = 0]
    /\ UNCHANGED <<flags, lock, kind, tag, list, fits, sane, within, room, other>>

-----------------------------------------------------------------------------
(* free and realloc                                                        *)

Free(t) ==
    /\ pc[t] = "idle"
    /\ \E b \in held : blk' = [blk EXCEPT ![t] = b] /\ held' = held \ {b}
    /\ Go(t, "free")
    /\ UNCHANGED <<flags, lock, kind, tag, list, curalloc, fits, sane, within, cur, room,
                   old, other>>

\* enable is read: libc's realloc, or verify and tp_alloc
Realloc(t) ==
    /\ pc[t] = "idle"
    /\ \E b \in held :
          /\ sane' = (sane /\ (enable <=> kind[b] # "plain"))
          /\ IF enable
             THEN held' = held \ {b} /\ old' = [old EXCEPT ![t] = b] /\ Go(t, "room")
             ELSE UNCHANGED <<held, old, pc>>
    /\ UNCHANGED <<flags, lock, kind, tag, list, curalloc, fits, within, cur, room, blk, other>>

\* enable is read: libc's free of what the program has, or verify
FreeBlock(t) ==
    /\ pc[t] = "free"
    /\ sane' = (sane /\ (enable <=> kind[blk[t]] # "plain"))
    /\ IF enable
       THEN /\ Go(t, IF kind[blk[t]] = "tracked" THEN "remove" ELSE "discount")
            /\ UNCHANGED <<kind, blk>>
       ELSE /\ kind' = [kind EXCEPT ![blk[t]] = "none"]
            /\ blk' = [blk EXCEPT ![t] = None]
            /\ Go(t, "idle")
    /\ UNCHANGED <<flags, lock, tag, list, curalloc, held, fits, within, cur, room, old, other>>

\* the block is counted out and stays in its list (no part of the
\* specification)
RemoveNot(t) ==
    /\ pc[t] = "removing"
    /\ cur' = [cur EXCEPT ![t] = curalloc]
    /\ Go(t, "removed")
    /\ UNCHANGED <<flags, lock, kind, tag, list, curalloc, held, fits, sane, within, room,
                   blk, old, other>>

\* the read of curalloc, and LIST_REMOVE: the block was linked, in a list of alist (another
\* one was the end, see Next)
Remove(t) ==
    /\ pc[t] = "removing"
    /\ list' = [list EXCEPT ![tag[blk[t]]] = @ \ {blk[t]}]
    /\ cur' = [cur EXCEPT ![t] = curalloc]
    /\ Go(t, "removed")
    /\ UNCHANGED <<flags, lock, kind, tag, curalloc, held, fits, sane, within, room, blk,
                   old, other>>

Removed(t) ==
    /\ pc[t] = "removed"
    /\ curalloc' = (cur[t] - 1) % Word
    /\ lock' = None
    /\ Go(t, "release")
    /\ cur' = [cur EXCEPT ![t] = 0]
    /\ UNCHANGED <<flags, kind, tag, list, held, fits, sane, within, room, blk, old, other>>

Discounted(t) ==
    /\ pc[t] = "discounted"
    /\ curalloc' = (cur[t] - 1) % Word
    /\ Go(t, "release")
    /\ cur' = [cur EXCEPT ![t] = 0]
    /\ UNCHANGED <<flags, lock, kind, tag, list, held, fits, sane, within, room, blk, old,
                   other>>

\* the magic number is spoilt, the block poisoned and given to libc
Release(t) ==
    /\ pc[t] = "release"
    /\ kind' = [kind EXCEPT ![blk[t]] = "none"]
    /\ blk' = [blk EXCEPT ![t] = None]
    /\ Go(t, "idle")
    /\ UNCHANGED <<flags, lock, tag, list, curalloc, held, fits, sane, within, cur, room,
                   old, other>>

-----------------------------------------------------------------------------
(* fork                                                                    *)

\* the child has the memory of the parent, and this thread alone
Fork(t) ==
    /\ pc[t] = "idle" /\ child = "none" /\ enable
    /\ child' = "forked"
    /\ chlock' = IF tracking THEN lock ELSE None
    /\ UNCHANGED <<flags, lock, heap, local, report>>

\* clientInit connects and makes a thread, for which libc allocates memory
ChildInit ==
    /\ child = "forked" /\ chlock = None
    /\ child' = "talks"
    /\ UNCHANGED <<flags, lock, heap, local, report, chlock>>

-----------------------------------------------------------------------------
(* The connection's thread                                                 *)

Cmd(c) == c \in Cmds /\ report = "idle" /\ ncmds < MaxCmds /\ ncmds' = ncmds + 1

\* clientSet and changeTag, on a command of a CLI
SetTracking ==
    /\ Cmd("track") /\ tracking' = ~tracking
    /\ UNCHANGED <<enable, alloctag, lock, heap, local, other>>

SetTag ==
    /\ Cmd("tag") /\ alloctag' \in TagValues
    /\ UNCHANGED <<enable, tracking, lock, heap, local, other>>

Push ==
    /\ Cmd("push") /\ alloctag # MAXTAGS /\ alloctag' = (alloctag + 1) % Word
    /\ UNCHANGED <<enable, tracking, lock, heap, local, other>>

Pop ==
    /\ Cmd("pop") /\ alloctag # 0 /\ alloctag' = alloctag - 1
    /\ UNCHANGED <<enable, tracking, lock, heap, local, other>>

\* the manager was started again: its configuration comes, a variable at a time
Reconfigure ==
    /\ Cmd("config")
    /\ \/ enable' = ~enable /\ UNCHANGED tracking
       \/ tracking' = ~tracking /\ UNCHANGED enable
    /\ UNCHANGED <<alloctag, lock, heap, local, other>>

\* libSendReport: LOCK; the list of the tag that was asked for, whatever that is, or of
\* the current one is counted and copied, or there is nothing to send; UNLOCK
ReportAsked ==
    /\ report = "idle" /\ report' = "asked"
    /\ UNCHANGED <<flags, lock, heap, local, child, chlock>>

ReportLock ==
    /\ report = "asked" /\ lock = None
    /\ lock' = Client /\ report' = "counting"
    /\ \E g \in TagValues \cup {alloctag} : within' = (within /\ g \in ListTags)
    /\ UNCHANGED <<flags, kind, tag, list, curalloc, held, fits, sane, local, child, chlock>>

ReportSent ==
    /\ report = "counting"
    /\ lock' = None /\ report' = "idle"
    /\ UNCHANGED <<flags, heap, local, child, chlock>>

-----------------------------------------------------------------------------
CallStep(t) ==
    \/ Room(t) \/ Fill(t) \/ NoMemory(t) \/ Lock(t) \/ Insert(t) \/ Inserted(t)
    \/ CountRead(t) \/ Counted(t) \/ FreeBlock(t) \/ Remove(t) \/ Removed(t)
    \/ Discounted(t) \/ Release(t)

\* a header written outside its block, a list outside alist, or a pointer that libc or
\* verify does not know, is the end: nothing is specified of what follows
Next ==
    /\ fits /\ sane /\ within
    /\ \/ \E t \in Threads : Malloc(t) \/ Free(t) \/ Realloc(t) \/ Fork(t) \/ CallStep(t)
       \/ SetTracking \/ SetTag \/ Push \/ Pop \/ Reconfigure
       \/ ReportAsked \/ ReportLock \/ ReportSent
       \/ ChildInit

Spec == Init /\ [][Next]_vars

\* a thread that is in a call goes on, and so does the report; the child runs
FairSpec ==
    /\ Spec
    /\ \A t \in Threads : WF_vars(CallStep(t))
    /\ WF_vars(ReportLock) /\ WF_vars(ReportSent) /\ WF_vars(ChildInit)

-----------------------------------------------------------------------------
(* Properties                                                              *)

Places == {"idle", "room", "fill", "insert", "inserting", "inserted", "count", "counted",
           "free", "remove", "removing", "removed", "discount", "discounted", "release"}

\* Type invariant: the library's variables and the threads' keep their types.
TypeOK ==
    /\ enable \in BOOLEAN /\ tracking \in BOOLEAN /\ alloctag \in Tags
    /\ ncmds \in 0..MaxCmds
    /\ lock \in Threads \cup {None, Client}
    /\ kind \in [Blocks -> {"none", "plain", "counted", "tracked"}]
    /\ tag \in [Blocks -> Tags] /\ list \in [ListTags -> SUBSET Blocks]
    /\ curalloc \in 0..(Word - 1) /\ held \subseteq Blocks
    /\ {fits, sane, within} \subseteq BOOLEAN
    /\ pc \in [Threads -> Places] /\ cur \in [Threads -> 0..(Word - 1)]
    /\ room \in [Threads -> BOOLEAN]
    /\ blk \in [Threads -> Blocks \cup {None}] /\ old \in [Threads -> Blocks \cup {None}]
    /\ report \in {"idle", "asked", "counting"}
    /\ child \in {"none", "forked", "talks"} /\ chlock \in Threads \cup {None, Client}

Listed == UNION {list[g] : g \in ListTags}

(***************************************************************************)
(* A block that is in a list is a tracked one that libc does not have, in  *)
(* the list of its own tag: free unlinks a block before it gives it back,  *)
(* and whoever walks a list under the lock meets only live blocks, even    *)
(* when tracking and the tag change between malloc and free.  (Until a     *)
(* switch of enable hands libc a tracked block: see PointersMatch.)        *)
(***************************************************************************)
ListedIsLive ==
    sane => \A g \in ListTags : \A b \in list[g] : kind[b] = "tracked" /\ tag[b] = g

(***************************************************************************)
(* What the program holds and the library tracks is in a list: no block is *)
(* lost to the reports, whatever changes between malloc and free.          *)
(***************************************************************************)
NothingLost == \A b \in held : kind[b] = "tracked" => b \in Listed

-----------------------------------------------------------------------------
(* What the comments say, and the code does not do                         *)

(***************************************************************************)
(* curalloc, when no call and no report is under way, is what the program  *)
(* has allocated through the library ("lock for mp support", trxlib.c:50). *)
(***************************************************************************)
TotalExact ==
    (\A t \in Threads : pc[t] = "idle")
        => curalloc = Cardinality({b \in Blocks : kind[b] \in {"counted", "tracked"}})

(***************************************************************************)
(* "given the fact that we have a header and footer to install"            *)
(* (trxlib.c:437): the overhead that is computed is that of the header     *)
(* which is written.                                                       *)
(***************************************************************************)
HeaderFits == fits

(***************************************************************************)
(* "Use CLI to enable tracking (requires application restart)"             *)
(* (trxmgr.c:51): no pointer that the library gave goes to libc as it is,  *)
(* and none of libc's goes to verify, since a program that runs is not     *)
(* switched.                                                               *)
(***************************************************************************)
PointersMatch == sane

(***************************************************************************)
(* "Change the tag value associated with each allocations"                 *)
(* (trxmgrCli.c:295): a tag that can be set, or is reached by push, is one *)
(* that allocations can have: no list outside alist is written or read.    *)
(***************************************************************************)
TagsHaveLists == within

(***************************************************************************)
(* "if that worked, then lets close and re-register with mgr"              *)
(* (trxlib.c:809): a forked child comes to talk with the manager.          *)
(***************************************************************************)
ChildTalks == child = "forked" ~> child = "talks"
=============================================================================
