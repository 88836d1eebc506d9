--------------------------- MODULE Transports_proofs ---------------------------
(***************************************************************************)
(* Proofs about the transports, for any number of jobs, pages,             *)
(* installations and parameters, whatever fails.                           *)
(*                                                                         *)
(* A process that has seen an empty mount point may mount there, however   *)
(* late: what bounds a stack is that it and the processes on their way to  *)
(* mount are no more than the processes (MountsLeft).  What RightShare     *)
(* needs is that nobody else can unmount what a job works on.  As long as  *)
(* nothing strange was met, who is about to unmount a share is alone with  *)
(* it, for what is mounted is not what it asked for (UnmountsOther), while *)
(* it is when there are two (Together); and a setup of iscsi has nothing   *)
(* to unmount at all (IscsiInv).                                           *)
(***************************************************************************)
EXTENDS Transports, FiniteSetTheorems, SequenceTheorems, TLAPS

Targets == {q.target : q \in Params}
Users   == {q.user : q \in Params}

Places ==
    {"off", "save", "ready", "running", "look", "unmount", "stop", "look2", "mount",
     "daemon", "devices", "found", "login", "label", "format",
     "keys", "connect", "append", "again", "mkdir"}

ProcRecords == [pc : Places, my : Params, pass : 0..2, dev : Targets \cup {0}, at : Nat]

\* The variables keep their types.
Types ==
    /\ choice \in Choices /\ cfg \in choice.params
    /\ proc \in [Procs -> ProcRecords]
    /\ stack \in [{"nas", "iscsi"} -> Seq([target : Targets, user : Users])]
    /\ sessions \subseteq Targets /\ raced \subseteq {"nas", "iscsi"}

\* Each transport has its own places, and what a process has was entered here.
OwnPlaces ==
    \A p \in Procs :
        /\ pc(p) # "off" => proc[p].my \in choice.params
        /\ pc(p) \in {"stop", "daemon", "devices", "found", "login", "label", "format"}
              => Type(p) = "iscsi"
        /\ pc(p) \in {"keys", "connect", "append", "again", "mkdir"} => Type(p) = "ssh"
        /\ pc(p) \in {"look", "unmount", "look2", "mount"} => Type(p) # "ssh"

\* A job works at a place that there is.
WorksThere ==
    \A p \in Procs : proc[p].at > 0 =>
        pc(p) = "running" /\ Type(p) # "ssh" /\ proc[p].at <= Len(Mounted(p))

TypeInv == Types /\ OwnPlaces /\ WorksThere

-----------------------------------------------------------------------------
(* Sequences                                                               *)

\* One that is not empty has a first element.
LEMMA FirstIs ==
    ASSUME NEW S, NEW s \in Seq(S), s # <<>>
    PROVE  1 \in DOMAIN s /\ s[1] \in S /\ Len(s) \in Nat \ {0}
<1>1. Len(s) \in Nat \ {0} /\ DOMAIN s = 1..Len(s)
  BY EmptySeq, LenProperties
<1>2. 1 \in 1..Len(s)
  BY <1>1
<1> QED
  BY <1>1, <1>2, ElementOfSeq

\* Without its last element it is as it was.
LEMMA CutIs ==
    ASSUME NEW S, NEW s \in Seq(S), s # <<>>
    PROVE  LET c == SubSeq(s, 1, Len(s) - 1)
           IN  c \in Seq(S) /\ Len(c) = Len(s) - 1 /\ \A i \in DOMAIN c : i \in DOMAIN s /\ c[i] = s[i]
OBVIOUS

\* With one more element it is as it was, but for that.
LEMMA PushIs ==
    ASSUME NEW S, NEW s \in Seq(S), NEW e \in S
    PROVE  /\ Append(s, e) \in Seq(S) /\ Append(s, e) # <<>> /\ Len(Append(s, e)) = Len(s) + 1
           /\ \A i \in DOMAIN Append(s, e) :
                 Append(s, e)[i] = e \/ (i \in DOMAIN s /\ Append(s, e)[i] = s[i])
OBVIOUS

-----------------------------------------------------------------------------
(* Where the processes go                                                  *)

\* a process that is under way
Under(p) == pc(p) # "off"

\* the others stay where they are
OthersStay(p) == \A r \in Procs \ {p} : proc'[r] = proc[r]

\* p goes to l, with what it has
Goes(p, l) ==
    /\ OthersStay(p)
    /\ proc'[p].pc = l /\ proc'[p].my = proc[p].my /\ proc'[p].at = proc[p].at
SameDev(p) == proc'[p].dev = proc[p].dev

\* p ends
Ends(p) == OthersStay(p) /\ proc'[p] = Off

LEMMA OffIs == Off \in ProcRecords /\ Off.pc = "off" /\ Off.at = 0
<1>1. (CHOOSE q \in Params : TRUE) \in Params
  <2>1. PICK c \in Choices : c.params # {}
    BY TransportsAssumption
  <2>2. \E q \in c.params : q \in Params
    BY <2>1 DEF Params
  <2> QED
    BY <2>2
<1> QED
  BY <1>1 DEF Off, ProcRecords, Places

LEMMA GoIs ==
    ASSUME Types, NEW p \in Procs, NEW l \in Places, Go(p, l)
    PROVE  proc' \in [Procs -> ProcRecords] /\ Goes(p, l) /\ SameDev(p)
<1>1. proc' = [proc EXCEPT ![p] = [proc[p] EXCEPT !.pc = l]]
  BY DEF Go, Types, ProcRecords
<1>2. proc[p] \in ProcRecords
  BY DEF Types
<1>3. [proc[p] EXCEPT !.pc = l] \in ProcRecords
  BY <1>2 DEF ProcRecords
<1> QED
  BY <1>1, <1>2, <1>3 DEF Types, Goes, SameDev, OthersStay, ProcRecords

\* Where a process is after Returns, when it does not end.
After(p) ==
    IF p \in Pages THEN "save" ELSE IF proc[p].pass = 1 THEN First(proc[p].my, 2) ELSE "ready"

LEMMA ReturnsIs ==
    ASSUME Types, NEW p \in Procs, NEW ok \in BOOLEAN, Returns(p, ok)
    PROVE  /\ proc' \in [Procs -> ProcRecords] /\ After(p) \in Places
           /\ Ends(p) \/ (ok /\ Goes(p, After(p)) /\ SameDev(p))
<1>1. After(p) \in Places
  BY DEF After, First, Places
<1>2. ASSUME proc' = [proc EXCEPT ![p] = Off]
      PROVE  proc' \in [Procs -> ProcRecords] /\ Ends(p)
  BY <1>2, OffIs DEF Types, Ends, OthersStay
<1>3. CASE ok /\ p \in Pages
  BY <1>1, <1>2, <1>3, GoIs DEF Returns, After
<1>4. CASE ok /\ p \notin Pages
  <2>1. proc' = [proc EXCEPT ![p] = [proc[p] EXCEPT !.pc = After(p), !.pass = 2]]
    BY <1>4 DEF Returns, After, Types, ProcRecords
  <2>2. proc[p] \in ProcRecords
    BY DEF Types
  <2>3. [proc[p] EXCEPT !.pc = After(p), !.pass = 2] \in ProcRecords
    <3>1. 2 \in 0..2
      OBVIOUS
    <3> QED
      BY <1>1, <2>2, <3>1 DEF ProcRecords
  <2> QED
    BY <1>1, <1>4, <2>1, <2>2, <2>3 DEF Types, Goes, SameDev, OthersStay, ProcRecords
<1>5. CASE ~ok
  BY <1>1, <1>2, <1>5 DEF Returns
<1> QED
  BY <1>3, <1>4, <1>5

\* the places of a process that found the mount point empty and has not mounted yet
Pushers == {"mount", "daemon", "devices", "found", "login", "label", "format"}

Shares   == stack["nas"]
Disks    == stack["iscsi"]
Nas(p)   == Type(p) = "nas"
Iscsi(p) == Type(p) = "iscsi"

\* l is no place where it begins to matter to p what is mounted
Harmless(p, l) ==
    /\ l \in Places \ {"off", "running", "unmount"}
    /\ l \in Pushers => pc(p) \in Pushers
    /\ l \in {"label", "format", "mount"} => pc(p) \in {"label", "format", "mount"}
    /\ l = "stop" => pc(p) = "unmount"
    /\ Nas(p) => l \notin {"mount", "ready"}
    /\ Iscsi(p) /\ l = "ready" => Disks # <<>>
    /\ l \in {"stop", "daemon", "devices", "found", "login", "label", "format"} => Iscsi(p)
    /\ l \in {"keys", "connect", "append", "again", "mkdir"} => Type(p) = "ssh"
    /\ l \in {"look", "look2", "mount"} => Type(p) # "ssh"

\* p ends or goes to such a place, and nothing else happens but to the sessions
Quiet(p) ==
    /\ Under(p) /\ proc' \in [Procs -> ProcRecords]
    /\ \/ Ends(p)
       \/ /\ pc(p) # "running"
          /\ \E l \in Places : Goes(p, l) /\ SameDev(p) /\ Harmless(p, l)
    /\ UNCHANGED <<choice, stack, raced>> /\ cfg' \in choice.params /\ sessions' \subseteq Targets

LEMMA QuietGo ==
    ASSUME Types, NEW p \in Procs, NEW l \in Places, Go(p, l), Harmless(p, l), Under(p),
           pc(p) # "running", UNCHANGED <<choice, cfg, stack, sessions, raced>>
    PROVE  Quiet(p)
BY GoIs DEF Quiet, Types

LEMMA QuietReturn ==
    ASSUME TypeInv, NEW p \in Procs, NEW ok \in BOOLEAN, Returns(p, ok), Under(p), pc(p) # "running",
           ok => Type(p) = "ssh" \/ (Iscsi(p) /\ Disks # <<>>),
           UNCHANGED <<choice, cfg, stack, sessions, raced>>
    PROVE  Quiet(p)
<1>1. CASE Ends(p)
  BY <1>1, ReturnsIs DEF Quiet, TypeInv, Types
<1>2. CASE ok /\ Goes(p, After(p)) /\ SameDev(p)
  <2>1. After(p) \in Places /\ proc' \in [Procs -> ProcRecords]
    BY ReturnsIs DEF TypeInv
  <2>2. Type(p) \in {"nas", "iscsi", "ssh"}
    BY TransportsAssumption DEF TypeInv, Types, ProcRecords, Type
  <2>3. Harmless(p, After(p))
    BY <1>2, <2>1, <2>2 DEF Harmless, After, First, Pushers, Places, Type, Nas, Iscsi
  <2> QED
    BY <1>2, <2>1, <2>3 DEF Quiet, TypeInv, Types
<1> QED
  BY <1>1, <1>2, ReturnsIs DEF TypeInv

\* The steps that only move a process on, or set the configuration.
LEMMA QuietActions ==
    ASSUME TypeInv, NEW p \in Procs,
           \/ EndJob(p) \/ Save(p) \/ UmountFails(p) \/ MountFails(p) \/ StartDaemon(p) \/ Label(p)
           \/ Format(p) \/ Keys(p) \/ Connect(p) \/ AddKey(p) \/ Reconnect(p) \/ MakeDir(p)
    PROVE  Quiet(p) /\ sessions' = sessions
<1>0. sessions' = sessions
  BY DEF EndJob, Save, UmountFails, MountFails, StartDaemon, Label, Format, Keys, Connect, AddKey,
         Reconnect, MakeDir, Moves, iscsi, ssh
<1> USE DEF Under, Moves, iscsi, ssh
<1>1. CASE EndJob(p) \/ Save(p)
  <2>1. /\ proc' = [proc EXCEPT ![p] = Off] /\ Under(p) /\ cfg' \in choice.params
        /\ UNCHANGED <<choice, stack, raced>>
    BY <1>1 DEF EndJob, Save, TypeInv, Types, OwnPlaces
  <2> QED
    BY <1>0, <2>1, OffIs DEF Quiet, Ends, OthersStay, TypeInv, Types
<1>2. CASE UmountFails(p)
  <2>1. PICK l \in {"stop", "look2"} : Go(p, l) /\ (l = "stop" => Type(p) = "iscsi")
    BY <1>2 DEF UmountFails
  <2>2. Harmless(p, l) /\ l \in Places
    BY <1>2, <2>1 DEF UmountFails, Harmless, Places, Pushers, Nas, Iscsi, TypeInv, OwnPlaces
  <2> QED
    BY <1>2, <2>1, <2>2, QuietGo DEF UmountFails, TypeInv
<1>3. CASE MountFails(p)
  BY <1>3, QuietReturn DEF MountFails, Fails
<1>4. CASE StartDaemon(p)
  <2>1. CASE Go(p, "devices")
    <3>1. Harmless(p, "devices") /\ "devices" \in Places
      BY <1>4 DEF StartDaemon, Harmless, Places, Pushers, Nas, Iscsi, TypeInv, OwnPlaces
    <3> QED
      BY <1>4, <2>1, <3>1, QuietGo DEF StartDaemon, TypeInv
  <2>2. CASE Fails(p)
    BY <1>4, <2>2, QuietReturn DEF StartDaemon, Fails
  <2> QED
    BY <1>4, <2>1, <2>2 DEF StartDaemon
<1>5. CASE Label(p) \/ Format(p)
  <2>1. ASSUME NEW l \in {"mount", "format"}, Go(p, l) PROVE Quiet(p)
    <3>1. Harmless(p, l) /\ l \in Places
      BY <1>5, <2>1 DEF Label, Format, Harmless, Places, Pushers, Nas, Iscsi, TypeInv, OwnPlaces
    <3> QED
      BY <1>5, <2>1, <3>1, QuietGo DEF Label, Format, TypeInv
  <2>2. CASE Fails(p)
    BY <1>5, <2>2, QuietReturn DEF Label, Format, Fails
  <2> QED
    BY <1>5, <2>1, <2>2 DEF Label, Format
<1>6. CASE Keys(p) \/ Connect(p) \/ AddKey(p) \/ Reconnect(p) \/ MakeDir(p)
  <2>1. /\ pc(p) \in {"keys", "connect", "append", "again", "mkdir"} /\ Type(p) = "ssh"
        /\ UNCHANGED <<choice, cfg, stack, sessions, raced>>
    BY <1>6 DEF Keys, Connect, AddKey, Reconnect, MakeDir, TypeInv, OwnPlaces
  <2>2. ASSUME NEW l \in {"connect", "append", "again"}, Go(p, l) PROVE Quiet(p)
    <3>1. Harmless(p, l) /\ l \in Places
      BY <2>1 DEF Harmless, Places, Pushers, Nas, Iscsi
    <3> QED
      BY <2>1, <2>2, <3>1, QuietGo DEF TypeInv
  <2>3. ASSUME NEW ok \in BOOLEAN, Returns(p, ok) PROVE Quiet(p)
    BY <2>1, <2>3, QuietReturn
  <2> QED
    BY <1>6, <2>2, <2>3 DEF Keys, Connect, AddKey, Reconnect, MakeDir, Fails
<1> QED
  BY <1>0, <1>1, <1>2, <1>3, <1>4, <1>5, <1>6

-----------------------------------------------------------------------------
(* The invariant                                                           *)

\* What is mounted, and those that may still mount on it, are no more than the processes.
Pushing(t) == {p \in Procs : pc(p) \in Pushers /\ Type(p) = t}
MountsLeft ==
    \A t \in {"nas", "iscsi"} : Len(stack[t]) + Cardinality(Pushing(t)) <= Cardinality(Procs)

AllAre(q)  == \A i \in DOMAIN Shares : Shares[i] = Line(q)

\* All that is mounted for nas is the same.
EqualMounts == \A i, j \in DOMAIN Shares : Shares[i] = Shares[j]

\* When there are two they want the same, and it is what is mounted.
Together ==
    \A p, r \in Procs : p # r /\ Under(p) /\ Under(r) /\ Nas(p) /\ Nas(r) =>
        proc[p].my = proc[r].my /\ AllAre(proc[p].my)

\* It is what one asked for who is about to mount too, or has mounted it.
AsAsked ==
    \A p \in Procs : Nas(p) =>
        /\ pc(p) \in {"mount", "ready", "running"} => AllAre(proc[p].my)
        /\ pc(p) \in {"ready", "running"} => Shares # <<>>
        /\ pc(p) = "running" => proc[p].at > 0

\* Who is about to unmount asked for something else.
UnmountsOther == \A p \in Procs : pc(p) = "unmount" /\ Nas(p) => ~AllAre(proc[p].my)

NasInv == "nas" \notin raced => EqualMounts /\ Together /\ AsAsked /\ UnmountsOther

\* Of iscsi nothing is mounted or logged in to that p did not ask for.
OnlyMine(p) ==
    /\ sessions \subseteq {Target(p)}
    /\ \A i \in DOMAIN Disks : Disks[i].target = Target(p)

\* So p unmounts nothing, finds its own device, and works there.
AtHome(p) ==
    /\ pc(p) \notin {"unmount", "stop"}
    /\ pc(p) \in {"label", "format", "mount"} => proc[p].dev = Target(p)
    /\ pc(p) \in {"ready", "running"} => Disks # <<>>
    /\ pc(p) = "running" => proc[p].at > 0

IscsiInv ==
    "iscsi" \notin raced =>
        /\ \A p \in Procs : Under(p) /\ Iscsi(p) => OnlyMine(p) /\ AtHome(p)
        /\ \A p, r \in Procs : Under(p) /\ Under(r) /\ Iscsi(p) /\ Iscsi(r) => proc[p].my = proc[r].my

TransportsInv == TypeInv /\ MountsLeft /\ NasInv /\ IscsiInv

-----------------------------------------------------------------------------
(* What one part of the invariant needs of a step                          *)

LEMMA PushingFinite ==
    \A t : /\ IsFiniteSet(Pushing(t)) /\ Cardinality(Pushing(t)) \in Nat
           /\ Cardinality(Procs) \in Nat /\ Cardinality(Pushing(t)) <= Cardinality(Procs)
<1> SUFFICES ASSUME NEW t
             PROVE  /\ IsFiniteSet(Pushing(t)) /\ Cardinality(Pushing(t)) \in Nat
                    /\ Cardinality(Procs) \in Nat /\ Cardinality(Pushing(t)) <= Cardinality(Procs)
  OBVIOUS
<1>1. Pushing(t) \subseteq Procs
  BY DEF Pushing
<1>2. IsFiniteSet(Procs)
  BY TransportsAssumption
<1> QED
  BY <1>1, <1>2, FS_Subset, FS_CardinalityType

LEMMA MountsKeep ==
    ASSUME Types, Types', MountsLeft, NEW p \in Procs, OthersStay(p),
           pc(p)' \in Pushers => pc(p) \in Pushers /\ proc'[p].my = proc[p].my,
           \A t \in {"nas", "iscsi"} : Len(stack'[t]) <= Len(stack[t])
    PROVE  MountsLeft'
<1> SUFFICES ASSUME NEW t \in {"nas", "iscsi"}
             PROVE  Len(stack'[t]) + Cardinality(Pushing(t)') <= Cardinality(Procs)
  BY DEF MountsLeft
<1>1. Pushing(t)' \subseteq Pushing(t)
  BY DEF Pushing, OthersStay, pc, Type
<1>2. Cardinality(Pushing(t)') <= Cardinality(Pushing(t)) /\ Cardinality(Pushing(t)') \in Nat
  BY <1>1, PushingFinite, FS_Subset, FS_CardinalityType
<1>3. stack[t] \in Seq([target : Targets, user : Users])
  BY DEF Types
<1>4. stack'[t] \in Seq([target : Targets, user : Users])
  BY DEF Types
<1>5. Len(stack[t]) \in Nat /\ Len(stack'[t]) \in Nat
  BY <1>3, <1>4, LenProperties
<1>6. Len(stack[t]) + Cardinality(Pushing(t)) <= Cardinality(Procs)
  BY DEF MountsLeft
<1>7. Len(stack'[t]) <= Len(stack[t])
  OBVIOUS
<1> QED
  BY <1>2, <1>5, <1>6, <1>7, PushingFinite

\* One that goes on beside the same shares, where what is mounted is what it asked for
\* when that begins to matter, or that ends.
LEMMA NasGoes ==
    ASSUME Types, NasInv, NEW p \in Procs, OthersStay(p), Under(p),
           ~Under(p)' \/ proc'[p].my = proc[p].my,
           stack'["nas"] = stack["nas"], raced' = raced,
           Under(p)' /\ Nas(p) /\ "nas" \notin raced =>
              /\ pc(p)' \in {"mount", "ready", "running"} => AllAre(proc[p].my)
              /\ pc(p)' \in {"ready", "running"} => Shares # <<>>
              /\ pc(p)' = "running" => proc'[p].at > 0
              /\ pc(p)' = "unmount" => ~AllAre(proc[p].my)
    PROVE  NasInv'
<1> SUFFICES ASSUME "nas" \notin raced
             PROVE  EqualMounts' /\ Together' /\ AsAsked' /\ UnmountsOther'
  BY DEF NasInv
<1>1. \A r \in Procs : Under(r)' => Under(r) /\ proc'[r].my = proc[r].my /\ (Nas(r)' <=> Nas(r))
  BY DEF OthersStay, Under, pc, Nas, Type
<1>2. Shares' = Shares /\ \A r \in Procs : Under(r)' => (AllAre(proc[r].my)' <=> AllAre(proc[r].my))
  BY <1>1 DEF Shares, AllAre
<1>3. EqualMounts'
  BY <1>2 DEF NasInv, EqualMounts
<1>4. Together'
  BY <1>1, <1>2 DEF NasInv, Together
<1>5. ASSUME NEW r \in Procs, Under(r)', Nas(r)'
      PROVE  /\ pc(r)' \in {"mount", "ready", "running"} => AllAre(proc[r].my)
             /\ pc(r)' \in {"ready", "running"} => Shares # <<>>
             /\ pc(r)' = "running" => proc'[r].at > 0
             /\ pc(r)' = "unmount" => ~AllAre(proc[r].my)
  <2>1. CASE r = p
    BY <1>1, <1>5, <2>1
  <2>2. CASE r # p
    <3>1. pc(r)' = pc(r) /\ proc'[r] = proc[r] /\ Nas(r)
      BY <1>1, <1>5, <2>2 DEF OthersStay, pc
    <3> QED
      BY <3>1 DEF NasInv, AsAsked, UnmountsOther
  <2> QED
    BY <2>1, <2>2
<1>6. AsAsked' /\ UnmountsOther'
  BY <1>2, <1>5 DEF AsAsked, UnmountsOther, Under
<1> QED
  BY <1>3, <1>4, <1>6

\* The same for iscsi.
LEMMA IscsiGoes ==
    ASSUME Types, IscsiInv, NEW p \in Procs, OthersStay(p), Under(p),
           ~Under(p)' \/ proc'[p].my = proc[p].my,
           \A r \in Procs : "iscsi" \notin raced /\ Under(r)' /\ Iscsi(r) /\ OnlyMine(r) => OnlyMine(r)',
           Disks' # <<>> \/ Disks = <<>>, raced' = raced,
           Under(p)' /\ Iscsi(p) /\ "iscsi" \notin raced /\ OnlyMine(p) /\ AtHome(p) => AtHome(p)'
    PROVE  IscsiInv'
<1> SUFFICES ASSUME "iscsi" \notin raced
             PROVE  /\ \A r \in Procs : Under(r)' /\ Iscsi(r)' => OnlyMine(r)' /\ AtHome(r)'
                    /\ \A q, r \in Procs : Under(q)' /\ Under(r)' /\ Iscsi(q)' /\ Iscsi(r)'
                          => proc'[q].my = proc'[r].my
  BY DEF IscsiInv
<1>1. \A r \in Procs : Under(r)' => Under(r) /\ proc'[r].my = proc[r].my /\ (Iscsi(r)' <=> Iscsi(r))
  BY DEF OthersStay, Under, pc, Iscsi, Type
<1>2. ASSUME NEW r \in Procs, Under(r)', Iscsi(r)' PROVE OnlyMine(r)' /\ AtHome(r)'
  <2>1. Under(r) /\ Iscsi(r) /\ OnlyMine(r) /\ AtHome(r)
    BY <1>1, <1>2 DEF IscsiInv
  <2>2. OnlyMine(r)'
    BY <1>2, <2>1
  <2>3. CASE r = p
    BY <1>2, <2>1, <2>2, <2>3
  <2>4. CASE r # p
    <3>1. pc(r)' = pc(r) /\ proc'[r] = proc[r]
      BY <2>4 DEF OthersStay, pc
    <3> QED
      BY <2>1, <2>2, <3>1 DEF AtHome, Target
  <2> QED
    BY <2>3, <2>4
<1>3. ASSUME NEW q \in Procs, NEW r \in Procs, Under(q)', Under(r)', Iscsi(q)', Iscsi(r)'
      PROVE  proc'[q].my = proc'[r].my
  BY <1>1, <1>3 DEF IscsiInv
<1> QED
  BY <1>2, <1>3

\* p is at one of its transport's places.
Own(p) ==
    /\ pc(p) # "off" => proc[p].my \in choice.params
    /\ pc(p) \in {"stop", "daemon", "devices", "found", "login", "label", "format"}
          => Type(p) = "iscsi"
    /\ pc(p) \in {"keys", "connect", "append", "again", "mkdir"} => Type(p) = "ssh"
    /\ pc(p) \in {"look", "unmount", "look2", "mount"} => Type(p) # "ssh"

\* A process that does not work anywhere is at none of the places of a mount point.
LEMMA TypeKeeps ==
    ASSUME TypeInv, NEW p \in Procs, OthersStay(p), Types', Own(p)', proc'[p].at = 0,
           choice' = choice,
           \A t \in {"nas", "iscsi"} : Len(stack[t]) <= Len(stack'[t])
    PROVE  TypeInv'
<1>1. OwnPlaces'
  BY DEF TypeInv, OwnPlaces, OthersStay, Own, pc, Type
<1>2. WorksThere'
  <2> SUFFICES ASSUME NEW r \in Procs, proc'[r].at > 0
               PROVE  /\ pc(r)' = "running" /\ Type(r)' # "ssh"
                      /\ proc'[r].at <= Len(Mounted(r)')
    BY DEF WorksThere
  <2>1. r # p /\ proc'[r] = proc[r]
    BY DEF OthersStay
  <2>2. /\ pc(r) = "running" /\ Type(r) # "ssh" /\ proc[r].at <= Len(Mounted(r))
        /\ proc[r].at \in Nat
    BY <2>1 DEF TypeInv, Types, WorksThere, ProcRecords
  <2>3. Type(r) \in {"nas", "iscsi"}
    BY <2>2, TransportsAssumption DEF TypeInv, Types, ProcRecords, Type
  <2>4. /\ stack[Type(r)] \in Seq([target : Targets, user : Users])
        /\ stack'[Type(r)] \in Seq([target : Targets, user : Users])
    BY <2>3 DEF TypeInv, Types
  <2>5. Len(Mounted(r)) \in Nat /\ Len(Mounted(r)') \in Nat /\ Len(Mounted(r)) <= Len(Mounted(r)')
    BY <2>1, <2>3, <2>4, LenProperties DEF Mounted, Type
  <2> QED
    BY <2>1, <2>2, <2>5 DEF pc, Type
<1> QED
  BY <1>1, <1>2 DEF TypeInv

LEMMA NowhereElse ==
    ASSUME TypeInv, NEW p \in Procs, pc(p) # "running" PROVE proc[p].at = 0
BY DEF TypeInv, Types, WorksThere, ProcRecords

LEMMA EndsType ==
    ASSUME Types, NEW p \in Procs, Ends(p)
    PROVE  proc' \in [Procs -> ProcRecords] => Own(p)' /\ proc'[p].at = 0 /\ ~Under(p)'
BY OffIs DEF Ends, Own, Under, pc

LEMMA QuietKeeps ==
    ASSUME TransportsInv, NEW p \in Procs, Quiet(p), sessions' = sessions \/ IscsiInv'
    PROVE  TransportsInv'
<1> USE DEF TransportsInv
<1>1. /\ Types /\ OthersStay(p) /\ Under(p)
      /\ UNCHANGED <<choice, stack, raced>> /\ sessions' \subseteq Targets
      /\ Ends(p) \/ \E l \in Places : Goes(p, l) /\ SameDev(p) /\ Harmless(p, l) /\ pc(p) # "running"
      /\ proc' \in [Procs -> ProcRecords]
  BY DEF Quiet, Ends, Goes, TypeInv
<1>2. Types'
  BY <1>1 DEF Types, Quiet
<1>3. /\ Own(p)' /\ proc'[p].at = 0
      /\ \/ ~Under(p)' /\ pc(p)' = "off"
         \/ proc'[p].my = proc[p].my /\ SameDev(p) /\ Harmless(p, pc(p)') /\ pc(p)' \in Places
  <2>1. CASE Ends(p)
    BY <1>1, <2>1, EndsType DEF Under
  <2>2. ASSUME NEW l \in Places, Goes(p, l), SameDev(p), Harmless(p, l), pc(p) # "running"
        PROVE  /\ Own(p)' /\ proc'[p].at = 0
               /\ proc'[p].my = proc[p].my /\ SameDev(p) /\ Harmless(p, pc(p)') /\ pc(p)' \in Places
    <3>1. proc'[p].at = 0
      BY <2>2, NowhereElse DEF Goes
    <3>2. pc(p)' = l /\ Type(p)' = Type(p) /\ proc'[p].my \in choice'.params /\ proc'[p].my = proc[p].my
      BY <1>1, <2>2 DEF Goes, pc, Type, TypeInv, OwnPlaces, Under
    <3>3. Own(p)'
      BY <2>2, <3>2 DEF Harmless, Own, Iscsi
    <3> QED
      BY <2>2, <3>1, <3>2, <3>3
  <2> QED
    BY <1>1, <2>1, <2>2
<1>4. TypeInv'
  <2>1. \A t \in {"nas", "iscsi"} : Len(stack[t]) <= Len(stack'[t])
    BY <1>1, LenProperties DEF Types
  <2> QED
    BY <1>1, <1>2, <1>3, <2>1, TypeKeeps
<1>5. MountsLeft'
  <2>1. pc(p)' \in Pushers => pc(p) \in Pushers /\ proc'[p].my = proc[p].my
    BY <1>3 DEF Harmless, Pushers
  <2>2. \A t \in {"nas", "iscsi"} : Len(stack'[t]) <= Len(stack[t])
    BY <1>1, LenProperties DEF Types
  <2> QED
    BY <1>1, <1>2, <2>1, <2>2, MountsKeep
<1>6. NasInv'
  <2>1. Under(p)' /\ Nas(p) => pc(p)' \notin {"mount", "ready", "running", "unmount"}
    BY <1>3 DEF Harmless
  <2> QED
    BY <1>1, <1>3, <2>1, NasGoes
<1>7. IscsiInv'
  <2> SUFFICES ASSUME sessions' = sessions PROVE IscsiInv'
    OBVIOUS
  <2>1. Disks' = Disks
    BY <1>1 DEF Disks
  <2>2. \A r \in Procs : Under(r)' /\ OnlyMine(r) => OnlyMine(r)'
    BY <1>1, <1>3, <2>1 DEF OthersStay, OnlyMine, Target
  <2>3. Under(p)' /\ Iscsi(p) /\ AtHome(p) => AtHome(p)'
    BY <1>3, <2>1 DEF Harmless, AtHome, SameDev, Target
  <2> QED
    BY <1>1, <1>3, <2>1, <2>2, <2>3, IscsiGoes
<1> QED
  BY <1>4, <1>5, <1>6, <1>7

-----------------------------------------------------------------------------
(* The steps that matter                                                   *)

\* The configuration and what can be entered are parameters.
LEMMA ParamsAre == Types => cfg \in Params /\ choice.params \subseteq Params
BY DEF Types, Params

\* Who begins is at no place where it matters what is mounted; with nothing strange,
\* all is right for the others too.
LEMMA BeginKeeps ==
    ASSUME TransportsInv, NEW p \in Procs, NEW q \in choice.params, NEW n \in {1, 2}, Begins(p, q, n)
    PROVE  TransportsInv'
<1> USE DEF TransportsInv
<1>1. /\ pc(p) = "off" /\ q \in Params /\ UNCHANGED <<choice, cfg, stack, sessions>> /\ Types
      /\ proc' = [proc EXCEPT ![p] = [Off EXCEPT !.pc = First(q, n), !.my = q, !.pass = n]]
      /\ q.type \in {"nas", "iscsi", "ssh"}
  BY ParamsAre, TransportsAssumption DEF Begins, iscsi, TypeInv
<1>2. First(q, n) \in {"look", "keys", "mkdir"}
      /\ (q.type = "ssh" => First(q, n) # "look") /\ (q.type # "ssh" => First(q, n) = "look")
  BY DEF First
<1>3. /\ [Off EXCEPT !.pc = First(q, n), !.my = q, !.pass = n] \in ProcRecords
      /\ OthersStay(p) /\ proc'[p].pc = First(q, n) /\ proc'[p].my = q /\ proc'[p].at = 0
  <2>1. First(q, n) \in Places /\ n \in 0..2
    BY <1>2 DEF Places
  <2> QED
    BY <1>1, <2>1, OffIs DEF ProcRecords, OthersStay, Types
<1>4. Types'
  <2>1. raced' \subseteq {"nas", "iscsi"}
    BY <1>1 DEF Begins, Types
  <2> QED
    BY <1>1, <1>3, <2>1 DEF Types
<1>5. TypeInv'
  <2>1. Own(p)'
    BY <1>1, <1>2, <1>3 DEF Own, pc, Type
  <2>2. \A t \in {"nas", "iscsi"} : Len(stack[t]) <= Len(stack'[t])
    BY <1>1, LenProperties DEF Types
  <2> QED
    BY <1>1, <1>3, <1>4, <2>1, <2>2, TypeKeeps
<1>6. /\ \A r \in Procs \ {p} : proc'[r] = proc[r] /\ (Under(r)' <=> Under(r))
                               /\ pc(r)' = pc(r) /\ (Nas(r)' <=> Nas(r)) /\ (Iscsi(r)' <=> Iscsi(r))
      /\ (Nas(p)' <=> q.type = "nas") /\ (Iscsi(p)' <=> q.type = "iscsi")
      /\ pc(p)' \in {"look", "keys", "mkdir"} /\ Shares' = Shares /\ Disks' = Disks
  BY <1>1, <1>2, <1>3 DEF OthersStay, Under, pc, Nas, Iscsi, Type, Shares, Disks
<1>7. MountsLeft'
  <2>1. pc(p)' \notin Pushers
    BY <1>2, <1>3 DEF Pushers, pc
  <2>2. \A t \in {"nas", "iscsi"} : Len(stack'[t]) <= Len(stack[t])
    BY <1>1, LenProperties DEF Types
  <2> QED
    BY <1>1, <1>3, <1>4, <2>1, <2>2, MountsKeep
<1>8. /\ q.type # "nas" => ("nas" \in raced' <=> "nas" \in raced)
      /\ q.type # "iscsi" => ("iscsi" \in raced' <=> "iscsi" \in raced)
      /\ q.type \in {"nas", "iscsi"} /\ q.type \notin raced' =>
            ~Strange(p, q) /\ (Beside(p, q) = {} \/ q.type \notin raced)
  BY <1>1 DEF Begins
<1>9. NasInv'
  <2> SUFFICES ASSUME "nas" \notin raced' PROVE EqualMounts' /\ Together' /\ AsAsked' /\ UnmountsOther'
    BY DEF NasInv
  <2>1. CASE q.type # "nas"
    <3>1. /\ EqualMounts /\ Together /\ AsAsked /\ UnmountsOther
          /\ \A r \in Procs : Nas(r)' => r # p /\ Nas(r) /\ proc'[r] = proc[r] /\ pc(r)' = pc(r)
                                       /\ (Under(r)' <=> Under(r))
      BY <1>6, <1>8, <2>1 DEF NasInv
    <3>2. \A r \in Procs : Nas(r)' => (AllAre(proc[r].my)' <=> AllAre(proc[r].my))
      BY <1>6, <3>1 DEF AllAre
    <3>3. EqualMounts'
      BY <1>6, <3>1 DEF EqualMounts
    <3>4. Together'
      BY <3>1, <3>2 DEF Together
    <3>5. AsAsked' /\ UnmountsOther'
      BY <1>6, <3>1, <3>2 DEF AsAsked, UnmountsOther
    <3> QED
      BY <3>3, <3>4, <3>5
  <2>2. CASE q.type = "nas" /\ Beside(p, q) = {}
    <3>1. \A r \in Procs \ {p} : Nas(r)' => ~Under(r)'
      BY <1>6, <2>2 DEF Beside, Nas, Under
    <3>2. EqualMounts
      BY <1>8, <2>2 DEF Strange, EqualMounts, Shares
    <3>3. EqualMounts'
      BY <1>6, <3>2 DEF EqualMounts
    <3>4. Together' /\ AsAsked' /\ UnmountsOther'
      BY <1>6, <3>1 DEF Together, AsAsked, UnmountsOther, Under
    <3> QED
      BY <3>3, <3>4
  <2>3. CASE q.type = "nas" /\ Beside(p, q) # {}
    <3>1. /\ \A r \in Procs \ {p} : Under(r) /\ Nas(r) => proc[r].my = q
          /\ AllAre(q) /\ EqualMounts /\ AsAsked /\ UnmountsOther
      BY <1>8, <2>3 DEF Strange, Beside, NasInv, Under, Nas, AllAre, Shares
    <3>2. \A r \in Procs : Under(r)' /\ Nas(r)' => proc'[r].my = q
      BY <1>3, <1>6, <3>1
    <3>3. AllAre(q)'
      BY <1>6, <3>1 DEF AllAre
    <3>4. EqualMounts'
      BY <1>6, <3>1 DEF EqualMounts
    <3>5. Together'
      BY <3>2, <3>3 DEF Together, AllAre
    <3>6. AsAsked'
      <4> SUFFICES ASSUME NEW r \in Procs, Nas(r)', pc(r)' \in {"mount", "ready", "running"}
                   PROVE  /\ AllAre(proc[r].my)'
                          /\ pc(r)' \in {"ready", "running"} => Shares' # <<>>
                          /\ pc(r)' = "running" => proc'[r].at > 0
        BY DEF AsAsked
      <4>1. r # p /\ Nas(r) /\ pc(r)' = pc(r) /\ proc'[r] = proc[r] /\ Under(r)'
        BY <1>6 DEF Under
      <4>2. AllAre(proc[r].my)'
        BY <3>2, <3>3, <4>1 DEF AllAre
      <4> QED
        BY <1>6, <3>1, <4>1, <4>2 DEF AsAsked
    <3>7. UnmountsOther'
      <4> SUFFICES ASSUME NEW r \in Procs, pc(r)' = "unmount", Nas(r)' PROVE FALSE
        BY DEF UnmountsOther
      <4>1. r # p /\ Nas(r) /\ pc(r) = "unmount" /\ Under(r)
        BY <1>6 DEF Under
      <4>2. proc[r].my = q
        BY <3>1, <4>1
      <4> QED
        BY <3>1, <4>1, <4>2 DEF UnmountsOther
    <3> QED
      BY <3>4, <3>5, <3>6, <3>7
  <2> QED
    BY <2>1, <2>2, <2>3
<1>10. IscsiInv'
  <2> SUFFICES ASSUME "iscsi" \notin raced'
               PROVE  /\ \A r \in Procs : Under(r)' /\ Iscsi(r)' => OnlyMine(r)' /\ AtHome(r)'
                      /\ \A v, r \in Procs : Under(v)' /\ Under(r)' /\ Iscsi(v)' /\ Iscsi(r)'
                            => proc'[v].my = proc'[r].my
    BY DEF IscsiInv
  <2>1. \A r \in Procs \ {p} : (OnlyMine(r)' <=> OnlyMine(r)) /\ (AtHome(r)' <=> AtHome(r))
    BY <1>1, <1>6 DEF OnlyMine, AtHome, Target
  <2>2. CASE q.type # "iscsi"
    <3>1. \A r \in Procs : Iscsi(r)' => r # p /\ Iscsi(r) /\ proc'[r] = proc[r] /\ (Under(r)' <=> Under(r))
      BY <1>6, <2>2
    <3> QED
      BY <1>8, <2>1, <2>2, <3>1 DEF IscsiInv
  <2>3. CASE q.type = "iscsi"
    <3>1. \A r \in Procs \ {p} : Under(r) /\ Iscsi(r) => proc[r].my = q
      BY <1>8, <2>3 DEF Strange, Beside, Under, Iscsi
    <3>2. \A r \in Procs : Under(r)' /\ Iscsi(r)' => proc'[r].my = q
      BY <1>3, <1>6, <3>1
    <3>3. OnlyMine(p)' /\ AtHome(p)'
      <4>1. sessions \subseteq {q.target} /\ \A i \in DOMAIN Disks : Disks[i].target = q.target
        BY <1>8, <2>3 DEF Strange, Disks
      <4> QED
        BY <1>1, <1>3, <1>6, <4>1 DEF OnlyMine, AtHome, Target
    <3>4. ASSUME NEW r \in Procs \ {p}, Under(r)', Iscsi(r)' PROVE OnlyMine(r) /\ AtHome(r)
      <4>1. Under(r) /\ Iscsi(r)
        BY <1>6, <3>4
      <4>2. r \in Beside(p, q)
        BY <2>3, <4>1 DEF Beside, Under, Iscsi
      <4> QED
        BY <1>8, <2>3, <4>1, <4>2 DEF IscsiInv
    <3> QED
      BY <2>1, <3>2, <3>3, <3>4
  <2> QED
    BY <2>2, <2>3
<1> QED
  BY <1>5, <1>7, <1>9, <1>10

\* Nobody goes anywhere: the configuration is set.
LEMMA StillKeeps ==
    ASSUME TransportsInv, UNCHANGED <<choice, proc, stack, sessions, raced>>, cfg' \in choice.params
    PROVE  TransportsInv'
BY DEF TransportsInv, TypeInv, Types, OwnPlaces, WorksThere, MountsLeft, Pushing, NasInv, IscsiInv,
   EqualMounts, Together, AsAsked, UnmountsOther, AllAre, OnlyMine, AtHome, Under, Shares, Disks,
   Nas, Iscsi, pc, Type, Target, Mounted

\* Going on to a place that is no job's work, with the mounts and the sessions as they are.
LEMMA GoingKeeps ==
    ASSUME TransportsInv, NEW p \in Procs, NEW l \in Places \ {"off", "running"}, Goes(p, l),
           Under(p), pc(p) # "running", proc' \in [Procs -> ProcRecords], Own(p)',
           l \in Pushers => pc(p) \in Pushers \/ Mounted(p) = <<>>,
           Nas(p) /\ "nas" \notin raced =>
              /\ l \in {"mount", "ready"} => AllAre(proc[p].my)
              /\ l = "ready" => Shares # <<>>
              /\ l = "unmount" => ~AllAre(proc[p].my),
           Iscsi(p) /\ "iscsi" \notin raced /\ OnlyMine(p) /\ AtHome(p) =>
              /\ l \notin {"unmount", "stop"}
              /\ l \in {"label", "format", "mount"} => proc'[p].dev = Target(p)
              /\ l = "ready" => Disks # <<>>,
           UNCHANGED <<choice, cfg, stack, sessions, raced>>
    PROVE  TransportsInv'
<1> USE DEF TransportsInv
<1>1. /\ Types' /\ Types /\ OthersStay(p) /\ proc'[p].at = 0 /\ pc(p)' = l
      /\ proc'[p].my = proc[p].my /\ Under(p)'
  BY NowhereElse DEF Types, TypeInv, Goes, pc, Under
<1>2. \A t \in {"nas", "iscsi"} : Len(stack[t]) \in Nat /\ stack'[t] = stack[t]
  BY LenProperties DEF TypeInv, Types
<1>3. TypeInv'
  BY <1>1, <1>2, TypeKeeps
<1>5. MountsLeft'
  <2>1. CASE l \in Pushers => pc(p) \in Pushers
    BY <1>1, <1>2, <2>1, MountsKeep
  <2>2. CASE Mounted(p) = <<>>
    <3> SUFFICES ASSUME NEW t \in {"nas", "iscsi"}
                 PROVE  Len(stack'[t]) + Cardinality(Pushing(t)') <= Cardinality(Procs)
      BY DEF MountsLeft
    <3>1. Pushing(t)' \subseteq Procs /\ IsFiniteSet(Procs)
      BY TransportsAssumption DEF Pushing
    <3>2. Cardinality(Pushing(t)') <= Cardinality(Procs) /\ Cardinality(Pushing(t)') \in Nat
      BY <3>1, FS_Subset, FS_CardinalityType
    <3>3. CASE t = Type(p)
      <4>1. Len(stack'[t]) = 0
        BY <1>2, <2>2, <3>3, LenProperties DEF Mounted
      <4> QED
        BY <3>2, <4>1, PushingFinite
    <3>4. CASE t # Type(p)
      <4>1. Pushing(t)' \subseteq Pushing(t)
        BY <1>1, <3>4 DEF Pushing, OthersStay, pc, Type
      <4>2. Cardinality(Pushing(t)') <= Cardinality(Pushing(t))
        BY <4>1, PushingFinite, FS_Subset
      <4>3. Len(stack[t]) + Cardinality(Pushing(t)) <= Cardinality(Procs)
        BY DEF MountsLeft
      <4> QED
        BY <1>2, <3>2, <4>2, <4>3, PushingFinite
    <3> QED
      BY <3>3, <3>4
  <2> QED
    BY <2>1, <2>2
<1>6. NasInv'
  BY <1>1, NasGoes
<1>7. IscsiInv'
  <2>1. Disks' = Disks
    BY <1>2 DEF Disks
  <2>2. \A r \in Procs : Under(r)' /\ OnlyMine(r) => OnlyMine(r)'
    BY <1>1, <2>1 DEF OthersStay, OnlyMine, Target
  <2>3. Iscsi(p) /\ "iscsi" \notin raced /\ OnlyMine(p) /\ AtHome(p) => AtHome(p)'
    BY <1>1, <2>1 DEF AtHome, Target
  <2> QED
    BY <1>1, <2>1, <2>2, <2>3, IscsiGoes
<1> QED
  BY <1>3, <1>5, <1>6, <1>7

\* A share that has changed is not what was asked for; one that is the same is so from
\* bottom to top; a device has not changed as long as nothing strange was met.
LEMMA LookKeeps ==
    ASSUME TransportsInv, NEW p \in Procs, Look(p) PROVE TransportsInv'
<1> USE DEF TransportsInv
<1> DEFINE v == IF Mounted(p) = <<>> THEN "none" ELSE Verdict(proc[p].my, Mounted(p)[1])
<1>1. /\ pc(p) = "look" /\ Types /\ Under(p) /\ Type(p) \in {"nas", "iscsi"} /\ proc[p].my \in choice.params
      /\ UNCHANGED <<choice, cfg, stack, sessions, raced>>
      /\ Type(p) = proc[p].my.type /\ Target(p) = proc[p].my.target
  BY TransportsAssumption DEF Look, Moves, iscsi, Under, TypeInv, Types, OwnPlaces, ProcRecords, Type, Target
<1>2. /\ v \in {"none", "nameless"} => Go(p, "look2")
      /\ v = "changed" => Go(p, "unmount")
      /\ v \in {"same", "gone"} => Returns(p, v = "same")
  BY DEF Look
<1>3. v \in {"none", "gone", "nameless", "same", "changed"}
  BY DEF Verdict
<1>4. /\ v # "none" => Mounted(p) # <<>> /\ v = Verdict(proc[p].my, Mounted(p)[1])
      /\ Nas(p) => Mounted(p) = Shares
      /\ Iscsi(p) => Mounted(p) = Disks
  BY DEF Nas, Iscsi, Mounted, Shares, Disks
<1>5. Mounted(p) # <<>> => 1 \in DOMAIN Mounted(p) /\ Mounted(p)[1] \in [target : Targets, user : Users]
  <2>1. Mounted(p) \in Seq([target : Targets, user : Users])
    BY <1>1 DEF Types, Mounted
  <2> QED
    BY <2>1, FirstIs
<1> HIDE DEF v
<1>6. ASSUME v \in {"none", "nameless"} PROVE TransportsInv'
  <2>1. Harmless(p, "look2") /\ "look2" \in Places
    BY <1>1 DEF Harmless, Places, Pushers, Nas, Iscsi
  <2> QED
    BY <1>1, <1>2, <1>6, <2>1, QuietGo, QuietKeeps
<1>7. ASSUME v = "changed" PROVE TransportsInv'
  <2>1. Goes(p, "unmount") /\ "unmount" \in Places /\ proc' \in [Procs -> ProcRecords]
    BY <1>1, <1>2, <1>7, GoIs DEF Places
  <2>2. Own(p)'
    BY <1>1, <2>1 DEF Own, Goes, pc, Type
  <2>3. /\ Mounted(p) # <<>> /\ ~Same(Mounted(p)[1], proc[p].my)
        /\ 1 \in DOMAIN Mounted(p) /\ Mounted(p)[1] \in [target : Targets, user : Users]
    BY <1>4, <1>5, <1>7 DEF Verdict
  <2>4. Nas(p) => ~AllAre(proc[p].my)
    BY <1>4, <2>3 DEF AllAre, Line, Same
  <2>5. Iscsi(p) => ~OnlyMine(p)
    BY <1>1, <1>4, <2>3 DEF OnlyMine, Same, Iscsi
  <2> HIDE DEF TransportsInv
  <2> QED
    BY <1>1, <2>1, <2>2, <2>4, <2>5, GoingKeeps DEF Pushers
<1>8. ASSUME v = "gone" PROVE TransportsInv'
  BY <1>1, <1>2, <1>8, QuietReturn, QuietKeeps
<1>9. ASSUME v = "same" PROVE TransportsInv'
  <2>1. Returns(p, TRUE) /\ Mounted(p) # <<>> /\ Same(Mounted(p)[1], proc[p].my)
    BY <1>2, <1>4, <1>9 DEF Verdict
  <2>2. CASE ~Nas(p)
    <3>1. Iscsi(p) /\ Disks # <<>>
      BY <1>1, <1>4, <2>1, <2>2 DEF Nas, Iscsi
    <3> QED
      BY <1>1, <2>1, <3>1, QuietReturn, QuietKeeps
  <2>3. CASE Nas(p) /\ Ends(p)
    <3>1. Quiet(p)
      BY <1>1, <2>1, <2>3, ReturnsIs DEF Quiet, Types
    <3> QED
      BY <1>1, <3>1, QuietKeeps
  <2>4. CASE Nas(p) /\ Goes(p, After(p))
    <3>1. After(p) \in Places /\ proc' \in [Procs -> ProcRecords]
      BY <1>1, <2>1, ReturnsIs
    <3>2. After(p) \in {"save", "ready", "look"}
      BY <1>1, <2>4 DEF After, First, Nas
    <3>3. Own(p)'
      BY <1>1, <2>4, <3>2 DEF Own, Goes, pc, Type, Nas
    <3>4. Shares # <<>> /\ Shares[1] = Line(proc[p].my)
      BY <1>1, <1>4, <1>5, <2>1, <2>4 DEF Same, Line, Nas
    <3>5. "nas" \notin raced => AllAre(proc[p].my)
      BY <1>4, <1>5, <2>4, <3>4 DEF NasInv, EqualMounts, AllAre
    <3>6. ~Iscsi(p)
      BY <2>4 DEF Nas, Iscsi
    <3> HIDE DEF TransportsInv
    <3> QED
      BY <1>1, <2>4, <3>1, <3>2, <3>3, <3>4, <3>5, <3>6, GoingKeeps DEF Pushers
  <2> QED
    BY <1>1, <2>1, <2>2, <2>3, <2>4, ReturnsIs
<1> QED
  BY <1>3, <1>6, <1>7, <1>8, <1>9

\* Who finds the mount point empty goes to mount: nothing is there that is not asked for.
LEMMA Look2Keeps ==
    ASSUME TransportsInv, NEW p \in Procs, Look2(p) PROVE TransportsInv'
<1> USE DEF TransportsInv
<1>1. /\ pc(p) = "look2" /\ Types /\ Under(p) /\ Type(p) \in {"nas", "iscsi"} /\ proc[p].my \in choice.params
      /\ UNCHANGED <<choice, cfg, stack, sessions, raced>>
  BY TransportsAssumption DEF Look2, Moves, iscsi, Under, TypeInv, Types, OwnPlaces, ProcRecords, Type
<1>2. CASE Mounted(p) = <<>>
  <2>1. PICK l \in {"mount", "daemon"} : Go(p, l) /\ (l = "daemon" <=> ~Nas(p))
    BY <1>2 DEF Look2, Nas
  <2>2. Goes(p, l) /\ l \in Places \ {"off", "running"} /\ proc' \in [Procs -> ProcRecords]
    BY <1>1, <2>1, GoIs DEF Places
  <2>3. Own(p)'
    BY <1>1, <2>1, <2>2 DEF Own, Goes, pc, Type, Nas
  <2>4. Nas(p) => AllAre(proc[p].my)
    BY <1>2 DEF Nas, AllAre, Mounted, Shares
  <2>5. Iscsi(p) => l = "daemon"
    BY <2>1 DEF Iscsi, Nas
  <2> HIDE DEF TransportsInv
  <2> QED
    BY <1>1, <1>2, <2>1, <2>2, <2>3, <2>4, <2>5, GoingKeeps
<1>3. CASE Mounted(p) # <<>>
  <2>1. Type(p) = "iscsi" => Iscsi(p) /\ Disks # <<>>
    BY <1>3 DEF Iscsi, Disks, Mounted
  <2>2. Returns(p, Type(p) = "iscsi")
    BY <1>3 DEF Look2
  <2> QED
    BY <1>1, <2>1, <2>2, QuietReturn, QuietKeeps
<1> QED
  BY <1>2, <1>3

\* The device that is found is that of a session.
LEMMA DevicesKeeps ==
    ASSUME TransportsInv, NEW p \in Procs, Devices(p) PROVE TransportsInv'
<1> USE DEF TransportsInv
<1>1. /\ pc(p) \in {"devices", "found"} /\ Types /\ Under(p) /\ Type(p) = "iscsi"
      /\ proc[p].my \in choice.params
      /\ UNCHANGED <<choice, cfg, stack, sessions, raced>>
  BY DEF Devices, Moves, iscsi, Under, TypeInv, OwnPlaces
<1>2. ASSUME NEW d \in sessions, proc' = [proc EXCEPT ![p].dev = d, ![p].pc = "label"]
      PROVE  TransportsInv'
  <2>1. d \in Targets \cup {0} /\ "label" \in Places
    BY <1>1 DEF Types, Places
  <2>2. proc' = [proc EXCEPT ![p] = [proc[p] EXCEPT !.dev = d, !.pc = "label"]] /\ proc[p] \in ProcRecords
    BY <1>1, <1>2 DEF Types, ProcRecords
  <2>3. [proc[p] EXCEPT !.dev = d, !.pc = "label"] \in ProcRecords
    BY <2>1, <2>2 DEF ProcRecords
  <2>4. Goes(p, "label") /\ proc' \in [Procs -> ProcRecords] /\ proc'[p].dev = d
    BY <1>1, <2>2, <2>3 DEF Goes, OthersStay, Types, ProcRecords
  <2>5. Own(p)'
    BY <1>1, <2>4 DEF Own, Goes, pc, Type
  <2>6. ~Nas(p) /\ (OnlyMine(p) => d = Target(p))
    BY <1>1 DEF Nas, OnlyMine
  <2> HIDE DEF TransportsInv
  <2> QED
    BY <1>1, <2>1, <2>4, <2>5, <2>6, GoingKeeps DEF Pushers
<1>3. ASSUME Go(p, "login") PROVE TransportsInv'
  <2>1. Harmless(p, "login") /\ "login" \in Places
    BY <1>1 DEF Harmless, Places, Pushers, Nas, Iscsi
  <2> QED
    BY <1>1, <1>3, <2>1, QuietGo, QuietKeeps
<1>4. ASSUME Fails(p) PROVE TransportsInv'
  BY <1>1, <1>4, QuietReturn, QuietKeeps DEF Fails
<1> QED
  BY <1>2, <1>3, <1>4 DEF Devices

\* The init script ends sessions and makes none.
LEMMA StopDaemonKeeps ==
    ASSUME TransportsInv, NEW p \in Procs, StopDaemon(p) PROVE TransportsInv'
<1> USE DEF TransportsInv
<1>1. /\ pc(p) = "stop" /\ Types /\ Under(p) /\ Type(p) = "iscsi" /\ Go(p, "look2")
      /\ UNCHANGED <<choice, cfg, stack, raced>> /\ sessions' \subseteq sessions
  BY DEF StopDaemon, Under, TypeInv, OwnPlaces
<1>2. Goes(p, "look2") /\ SameDev(p) /\ "look2" \in Places /\ proc' \in [Procs -> ProcRecords]
  BY <1>1, GoIs DEF Places
<1>3. Harmless(p, "look2")
  BY <1>1, <1>2 DEF Harmless, Pushers, Nas, Iscsi
<1>4. Quiet(p)
  BY <1>1, <1>2, <1>3 DEF Quiet, Types
<1>5. IscsiInv'
  <2>1. "iscsi" \in raced
    BY <1>1 DEF IscsiInv, AtHome, Iscsi
  <2> QED
    BY <1>1, <2>1 DEF IscsiInv
<1> QED
  BY <1>4, <1>5, QuietKeeps

\* Who logs in beside others logs in to their target.
LEMMA LoginKeeps ==
    ASSUME TransportsInv, NEW p \in Procs, Login(p) PROVE TransportsInv'
<1> USE DEF TransportsInv
<1>1. /\ pc(p) = "login" /\ Types /\ Under(p) /\ Type(p) = "iscsi"
      /\ Target(p) \in Targets /\ UNCHANGED <<choice, cfg, stack, raced>>
      /\ sessions' \in {sessions, sessions \cup {Target(p)}}
      /\ Go(p, "found") \/ Fails(p)
  BY DEF Login, Under, TypeInv, OwnPlaces, Types, ProcRecords, Target, Targets
<1>2. /\ Ends(p) \/ (Goes(p, "found") /\ SameDev(p))
      /\ "found" \in Places /\ proc' \in [Procs -> ProcRecords]
  BY <1>1, GoIs, ReturnsIs DEF Fails, Places
<1>3. Harmless(p, "found")
  BY <1>1, <1>2 DEF Harmless, Pushers, Nas, Iscsi
<1>4. Quiet(p)
  BY <1>1, <1>2, <1>3 DEF Quiet, Types
<1>5. IscsiInv'
  <2>1. /\ OthersStay(p) /\ Disks' = Disks
        /\ ~Under(p)' \/ (proc'[p].my = proc[p].my /\ pc(p)' = "found")
    BY <1>1, <1>2, OffIs DEF Ends, Goes, Under, pc, Disks
  <2>2. ASSUME NEW r \in Procs, "iscsi" \notin raced, Under(r)', Iscsi(r), OnlyMine(r) PROVE OnlyMine(r)'
    <3>1. Under(r) /\ Target(r)' = Target(r)
      BY <1>1, <2>1, <2>2 DEF OthersStay, Under, Target, pc
    <3>2. Target(r) = Target(p)
      BY <1>1, <2>2, <3>1 DEF IscsiInv, Iscsi, Target
    <3> QED
      BY <1>1, <2>1, <2>2, <3>1, <3>2 DEF OnlyMine
  <2>3. Under(p)' => AtHome(p)'
    BY <2>1 DEF AtHome
  <2> QED
    BY <1>1, <2>1, <2>2, <2>3, IscsiGoes
<1> QED
  BY <1>4, <1>5, QuietKeeps

\* A command works at the top of what is mounted.
LEMMA CommandKeeps ==
    ASSUME TransportsInv, NEW p \in Procs, Command(p) \/ Done(p) PROVE TransportsInv'
<1> USE DEF TransportsInv
<1>1. /\ pc(p) \in {"ready", "running"} /\ Types /\ Under(p) /\ proc[p] \in ProcRecords
      /\ UNCHANGED <<choice, cfg, stack, sessions, raced>>
      /\ \A t \in {"nas", "iscsi"} : Len(stack[t]) \in Nat /\ stack'[t] = stack[t]
  BY LenProperties DEF Command, Done, Moves, iscsi, Under, TypeInv, Types
<1>2. PICK l \in {"ready", "running"}, a \in Nat :
         /\ proc' = [proc EXCEPT ![p] = [proc[p] EXCEPT !.pc = l, !.at = a]]
         /\ a > 0 => l = "running" /\ Type(p) # "ssh" /\ a = Len(Mounted(p))
         /\ l = "running" /\ Type(p) # "ssh" => a = Len(Mounted(p))
  <2>1. Type(p) # "ssh" => Len(Mounted(p)) \in Nat
    BY <1>1, TransportsAssumption DEF Mounted, Type, ProcRecords
  <2>2. CASE Command(p)
    <3> DEFINE a == IF Type(p) = "ssh" THEN 0 ELSE Len(Mounted(p))
    <3>1. proc' = [proc EXCEPT ![p] = [proc[p] EXCEPT !.pc = "running", !.at = a]]
      BY <1>1, <2>2 DEF Command, ProcRecords, Types
    <3>2. a \in Nat /\ (a > 0 => Type(p) # "ssh") /\ (Type(p) # "ssh" => a = Len(Mounted(p)))
      BY <2>1
    <3> HIDE DEF a
    <3> QED
      BY <3>1, <3>2
  <2>3. CASE Done(p)
    <3>1. proc' = [proc EXCEPT ![p] = [proc[p] EXCEPT !.pc = "ready", !.at = 0]]
      BY <1>1, <2>3 DEF Done, ProcRecords, Types
    <3>2. 0 \in Nat /\ ~(0 > 0) /\ "ready" # "running"
      OBVIOUS
    <3> QED
      BY <3>1, <3>2, Zenon
  <2> QED
    BY <2>2, <2>3
<1>3. /\ proc' \in [Procs -> ProcRecords] /\ OthersStay(p)
      /\ proc'[p].pc = l /\ proc'[p].my = proc[p].my /\ proc'[p].at = a
  <2>1. l \in Places
    BY DEF Places
  <2>2. [proc[p] EXCEPT !.pc = l, !.at = a] \in ProcRecords
    BY <1>1, <2>1 DEF ProcRecords
  <2> QED
    BY <1>1, <1>2, <2>2 DEF Types, OthersStay, ProcRecords
<1>4. Types'
  BY <1>1, <1>3 DEF Types
<1>5. OwnPlaces'
  BY <1>1, <1>3 DEF TypeInv, OwnPlaces, OthersStay, pc, Type, Under
<1>6. WorksThere'
  <2> SUFFICES ASSUME NEW r \in Procs, proc'[r].at > 0
               PROVE  /\ pc(r)' = "running" /\ Type(r)' # "ssh"
                      /\ proc'[r].at <= Len(Mounted(r)')
    BY DEF WorksThere
  <2>1. CASE r = p
    <3>1. a > 0 /\ Type(p) # "ssh" /\ a = Len(Mounted(p)) /\ l = "running"
      BY <1>2, <1>3, <2>1
    <3>2. Type(p)' = Type(p) /\ Mounted(p)' = Mounted(p)
      BY <1>1, <1>3 DEF Type, Mounted
    <3> QED
      BY <1>3, <2>1, <3>1, <3>2 DEF pc
  <2>2. CASE r # p
    <3>1. proc'[r] = proc[r] /\ Mounted(r)' = Mounted(r)
      BY <1>1, <1>3, <2>2 DEF OthersStay, Mounted, Type
    <3> QED
      BY <3>1 DEF TypeInv, WorksThere, pc, Type
  <2> QED
    BY <2>1, <2>2
<1>8. MountsLeft'
  BY <1>1, <1>3, <1>4, MountsKeep DEF Pushers, pc
<1>9. /\ Under(p)' /\ pc(p)' = l /\ stack'["nas"] = stack["nas"] /\ Disks' = Disks
      /\ pc(p) = "ready" \/ pc(p) = "running"
  BY <1>1, <1>3 DEF Under, pc, Disks
<1>10. NasInv'
  <2>1. "nas" \notin raced /\ Nas(p) => AllAre(proc[p].my) /\ Shares # <<>>
    BY <1>9 DEF NasInv, AsAsked
  <2>2. "nas" \notin raced /\ Nas(p) /\ l = "running" => a > 0
    <3> SUFFICES ASSUME "nas" \notin raced, Nas(p), l = "running" PROVE a > 0
      OBVIOUS
    <3>1. a = Len(Shares) /\ Shares \in Seq([target : Targets, user : Users])
      BY <1>1, <1>2 DEF Nas, Mounted, Shares, Types
    <3> QED
      BY <2>1, <3>1, FirstIs
  <2> QED
    BY <1>1, <1>3, <1>9, <2>1, <2>2, NasGoes
<1>11. IscsiInv'
  <2>1. \A r \in Procs : OnlyMine(r) => OnlyMine(r)'
    BY <1>1, <1>3, <1>9 DEF OthersStay, OnlyMine, Target
  <2>2. Iscsi(p) /\ l = "running" /\ Disks # <<>> => a > 0
    <3> SUFFICES ASSUME Iscsi(p), l = "running", Disks # <<>> PROVE a > 0
      OBVIOUS
    <3>1. a = Len(Disks) /\ Disks \in Seq([target : Targets, user : Users])
      BY <1>1, <1>2 DEF Iscsi, Mounted, Disks, Types
    <3> QED
      BY <3>1, FirstIs
  <2>3. Iscsi(p) /\ AtHome(p) => AtHome(p)'
    BY <1>3, <1>9, <2>2 DEF AtHome
  <2> QED
    BY <1>1, <1>3, <1>9, <2>1, <2>3, IscsiGoes
<1> QED
  BY <1>4, <1>5, <1>6, <1>8, <1>10, <1>11 DEF TypeInv

\* Who unmounts a share is alone.
LEMMA UmountKeeps ==
    ASSUME TransportsInv, NEW p \in Procs, UmountOk(p) PROVE TransportsInv'
<1> USE DEF TransportsInv
<1> DEFINE t == Type(p)
           s == stack[t]
           c == SubSeq(s, 1, Len(s) - 1)
<1>1. /\ pc(p) = "unmount" /\ Types /\ Under(p) /\ t \in {"nas", "iscsi"}
      /\ UNCHANGED <<choice, cfg, sessions, raced>> /\ s # <<>> /\ ~InUse(t, Len(s))
      /\ stack' = [stack EXCEPT ![t] = c]
      /\ Go(p, IF t = "nas" THEN "look2" ELSE "stop")
  BY TransportsAssumption DEF UmountOk, iscsi, Under, TypeInv, Types, OwnPlaces, ProcRecords, Type, Mounted
<1>2. PICK l \in {"look2", "stop"} : Goes(p, l) /\ (l = "stop" <=> t = "iscsi")
      /\ proc' \in [Procs -> ProcRecords]
  <2>1. CASE t = "nas"
    BY <1>1, <2>1, GoIs DEF Places
  <2>2. CASE t = "iscsi"
    BY <1>1, <2>2, GoIs DEF Places
  <2> QED
    BY <1>1, <2>1, <2>2
<1>3. /\ s \in Seq([target : Targets, user : Users]) /\ c \in Seq([target : Targets, user : Users])
      /\ Len(s) \in Nat \ {0} /\ Len(c) = Len(s) - 1
      /\ \A i \in DOMAIN c : i \in DOMAIN s /\ c[i] = s[i]
  <2>1. s \in Seq([target : Targets, user : Users])
    BY <1>1 DEF Types
  <2> HIDE DEF s
  <2> QED
    BY <1>1, <2>1, CutIs, FirstIs
<1>4. /\ stack'[t] = c /\ \A u \in {"nas", "iscsi"} \ {t} : stack'[u] = stack[u]
      /\ stack' \in [{"nas", "iscsi"} -> Seq([target : Targets, user : Users])]
  <2> HIDE DEF c
  <2> QED
    BY <1>1, <1>3 DEF Types
<1> HIDE DEF s, c
<1>5. Types' /\ OthersStay(p) /\ pc(p)' = l /\ proc'[p].my = proc[p].my
  BY <1>1, <1>2, <1>4 DEF Types, Goes, pc
<1>6. proc'[p].at = 0
  BY <1>1, <1>2, NowhereElse DEF Goes
<1>7. \A u \in {"nas", "iscsi"} : Len(stack[u]) \in Nat /\ Len(stack'[u]) \in Nat /\ Len(stack'[u]) <= Len(stack[u])
  <2>1. \A u \in {"nas", "iscsi"} : Len(stack[u]) \in Nat
    BY <1>1, LenProperties DEF Types
  <2> QED
    BY <1>3, <1>4, <2>1 DEF s
<1>8. TypeInv'
  <2>1. OwnPlaces'
    BY <1>1, <1>2, <1>5 DEF TypeInv, OwnPlaces, OthersStay, pc, Type, Under
  <2>2. WorksThere'
    <3> SUFFICES ASSUME NEW r \in Procs, proc'[r].at > 0
                 PROVE  /\ pc(r)' = "running" /\ Type(r)' # "ssh"
                        /\ proc'[r].at <= Len(Mounted(r)')
      BY DEF WorksThere
    <3>1. r # p /\ proc'[r] = proc[r]
      BY <1>5, <1>6 DEF OthersStay
    <3>2. /\ pc(r) = "running" /\ Type(r) # "ssh" /\ proc[r].at <= Len(Mounted(r))
          /\ proc[r].at \in Nat /\ Type(r) \in {"nas", "iscsi"}
      BY <3>1, TransportsAssumption DEF TypeInv, Types, WorksThere, ProcRecords, Type
    <3>3. CASE Type(r) = t
      <4>1. Mounted(r) = s /\ Mounted(r)' = c
        BY <1>4, <3>1, <3>3 DEF Mounted, Type, s
      <4>2. proc[r].at # Len(s)
        BY <1>1, <3>2, <3>3 DEF InUse
      <4>3. proc[r].at <= Len(c)
        BY <1>3, <3>2, <4>1, <4>2
      <4> QED
        BY <3>1, <3>2, <4>1, <4>3 DEF pc, Type
    <3>4. CASE Type(r) # t
      <4>1. Mounted(r)' = Mounted(r)
        BY <1>4, <3>1, <3>2, <3>4 DEF Mounted, Type
      <4> QED
        BY <3>1, <3>2, <4>1 DEF pc, Type
    <3> QED
      BY <3>3, <3>4
  <2> QED
    BY <1>5, <2>1, <2>2 DEF TypeInv
<1>10. MountsLeft'
  BY <1>1, <1>5, <1>7, MountsKeep DEF Pushers
<1>9. Under(p)' /\ pc(p)' = l
  BY <1>5 DEF Under
<1>11. NasInv'
  <2>1. CASE t = "iscsi"
    <3>1. stack'["nas"] = stack["nas"] /\ ~Nas(p)
      BY <1>4, <2>1 DEF Nas
    <3> QED
      BY <1>1, <1>5, <3>1, NasGoes
  <2>2. CASE t = "nas"
    <3> SUFFICES ASSUME "nas" \notin raced
                 PROVE  EqualMounts' /\ Together' /\ AsAsked' /\ UnmountsOther'
      BY <1>1 DEF NasInv
    <3>1. Nas(p) /\ Shares = s /\ Shares' = c /\ l = "look2"
      BY <1>2, <1>4, <2>2 DEF Nas, Shares, s
    <3>2. ~AllAre(proc[p].my)
      BY <1>1, <3>1 DEF NasInv, UnmountsOther
    <3>3. \A r \in Procs \ {p} : Nas(r) => ~Under(r)
      BY <1>1, <3>1, <3>2 DEF NasInv, Together
    <3>4. \A r \in Procs \ {p} : Nas(r)' => ~Under(r)'
      BY <1>5, <3>3 DEF OthersStay, Under, pc, Nas, Type
    <3>5. Together' /\ AsAsked' /\ UnmountsOther'
      BY <1>9, <3>1, <3>4 DEF Together, UnmountsOther, AsAsked, Under
    <3>6. EqualMounts'
      BY <1>3, <3>1 DEF EqualMounts, NasInv
    <3> QED
      BY <3>5, <3>6
  <2> QED
    BY <1>1, <2>1, <2>2
<1>12. IscsiInv'
  <2>1. CASE t = "iscsi"
    <3>1. "iscsi" \in raced
      BY <1>1, <2>1 DEF IscsiInv, AtHome, Iscsi
    <3> QED
      BY <1>1, <3>1 DEF IscsiInv
  <2>2. CASE t = "nas"
    <3>1. Disks' = Disks /\ ~Iscsi(p)
      BY <1>4, <2>2 DEF Disks, Iscsi
    <3>2. \A r \in Procs : OnlyMine(r) => OnlyMine(r)'
      BY <1>1, <1>5, <3>1 DEF OthersStay, OnlyMine, Target
    <3> QED
      BY <1>1, <1>5, <3>1, <3>2, IscsiGoes
  <2> QED
    BY <1>1, <2>1, <2>2
<1> QED
  BY <1>8, <1>10, <1>11, <1>12

\* Who mounts is one less of those that may still mount.
LEMMA MountKeeps ==
    ASSUME TransportsInv, NEW p \in Procs, MountOk(p) PROVE TransportsInv'
<1> USE DEF TransportsInv
<1> DEFINE t == Type(p)
           s == stack[t]
           e == [target |-> IF t = "nas" THEN Target(p) ELSE proc[p].dev, user |-> proc[p].my.user]
           n == Append(s, e)
<1>1. /\ pc(p) = "mount" /\ Types /\ Under(p) /\ t \in {"nas", "iscsi"}
      /\ UNCHANGED <<choice, cfg, sessions, raced>> /\ proc[p] \in ProcRecords
      /\ t = "iscsi" => proc[p].dev \in Targets
      /\ stack' = [stack EXCEPT ![t] = n] /\ Returns(p, TRUE)
      /\ proc[p].my \in choice.params
  BY TransportsAssumption DEF MountOk, iscsi, Under, TypeInv, Types, OwnPlaces, ProcRecords, Type
<1>2. e \in [target : Targets, user : Users] /\ (t = "nas" => e = Line(proc[p].my))
  BY <1>1 DEF ProcRecords, Target, Targets, Users, Line
<1> HIDE DEF e
<1>3. /\ s \in Seq([target : Targets, user : Users]) /\ n \in Seq([target : Targets, user : Users])
      /\ n # <<>> /\ Len(s) \in Nat /\ Len(n) = Len(s) + 1
      /\ \A i \in DOMAIN n : n[i] = e \/ (i \in DOMAIN s /\ n[i] = s[i])
  <2>1. s \in Seq([target : Targets, user : Users])
    BY <1>1 DEF Types
  <2> HIDE DEF s
  <2> QED
    BY <1>2, <2>1, PushIs, LenProperties
<1>4. /\ stack'[t] = n /\ \A u \in {"nas", "iscsi"} \ {t} : stack'[u] = stack[u]
      /\ stack' \in [{"nas", "iscsi"} -> Seq([target : Targets, user : Users])]
  <2> HIDE DEF n
  <2> QED
    BY <1>1, <1>3 DEF Types
<1> HIDE DEF n, s
<1>5. /\ Ends(p) \/ (Goes(p, After(p)) /\ After(p) \in {"save", "ready", "look"})
      /\ proc' \in [Procs -> ProcRecords] /\ After(p) \in Places
  BY <1>1, ReturnsIs DEF After, First, Type
<1>6. /\ Types' /\ OthersStay(p) /\ proc'[p].at = 0 /\ pc(p)' \in {"off", "save", "ready", "look"}
      /\ ~Under(p)' \/ proc'[p].my = proc[p].my
  BY <1>1, <1>4, <1>5, NowhereElse, OffIs DEF Types, Ends, Goes, Under, pc
<1>7. \A u \in {"nas", "iscsi"} : Len(stack[u]) \in Nat /\ Len(stack'[u]) \in Nat /\ Len(stack[u]) <= Len(stack'[u])
  <2>1. \A u \in {"nas", "iscsi"} : Len(stack[u]) \in Nat
    BY <1>1, LenProperties DEF Types
  <2> QED
    BY <1>3, <1>4, <2>1 DEF s
<1>8. TypeInv'
  <2>1. Own(p)'
    BY <1>1, <1>6 DEF Own, Type, pc, Under
  <2> QED
    BY <1>1, <1>6, <1>7, <2>1, TypeKeeps
<1>10. MountsLeft'
  <2> SUFFICES ASSUME NEW u \in {"nas", "iscsi"}
               PROVE  Len(stack'[u]) + Cardinality(Pushing(u)') <= Cardinality(Procs)
    BY DEF MountsLeft
  <2>1. Len(stack[u]) + Cardinality(Pushing(u)) <= Cardinality(Procs)
    BY DEF MountsLeft
  <2>2. Pushing(u)' \subseteq Pushing(u) /\ p \notin Pushing(u)'
    BY <1>6 DEF Pushing, OthersStay, pc, Type, Pushers
  <2>3. CASE u = t
    <3>1. p \in Pushing(u) /\ Pushing(u)' \subseteq Pushing(u) \ {p}
      BY <1>1, <2>2, <2>3 DEF Pushing, Pushers
    <3>2. /\ IsFiniteSet(Pushing(u) \ {p})
          /\ Cardinality(Pushing(u) \ {p}) = Cardinality(Pushing(u)) - 1
      BY <3>1, PushingFinite, FS_RemoveElement
    <3>3. Cardinality(Pushing(u)') <= Cardinality(Pushing(u) \ {p}) /\ Cardinality(Pushing(u)') \in Nat
      BY <3>1, <3>2, FS_Subset, FS_CardinalityType
    <3>4. Len(stack'[u]) = Len(stack[u]) + 1
      BY <1>3, <1>4, <2>3 DEF s
    <3> QED
      BY <1>7, <2>1, <3>2, <3>3, <3>4, PushingFinite
  <2>4. CASE u # t
    <3>1. Cardinality(Pushing(u)') <= Cardinality(Pushing(u)) /\ Cardinality(Pushing(u)') \in Nat
      BY <2>2, PushingFinite, FS_Subset, FS_CardinalityType
    <3> QED
      BY <1>4, <1>7, <2>1, <2>4, <3>1, PushingFinite
  <2> QED
    BY <2>3, <2>4
<1>11. NasInv'
  <2>1. CASE t = "iscsi"
    <3>1. stack'["nas"] = stack["nas"] /\ ~Nas(p)
      BY <1>4, <2>1 DEF Nas
    <3> QED
      BY <1>1, <1>6, <3>1, NasGoes
  <2>2. CASE t = "nas"
    <3> SUFFICES ASSUME "nas" \notin raced
                 PROVE  EqualMounts' /\ Together' /\ AsAsked' /\ UnmountsOther'
      BY <1>1 DEF NasInv
    <3>1. Nas(p) /\ Shares = s /\ Shares' = n /\ e = Line(proc[p].my)
      BY <1>2, <1>4, <2>2 DEF Nas, Shares, s
    <3>2. AllAre(proc[p].my)
      BY <1>1, <3>1 DEF NasInv, AsAsked
    <3>3. \A i \in DOMAIN Shares' : Shares'[i] = Line(proc[p].my)
      BY <1>3, <3>1, <3>2 DEF AllAre
    <3>4. \A r \in Procs : Under(r) /\ Nas(r) => proc[r].my = proc[p].my
      BY <1>1, <3>1 DEF NasInv, Together
    <3>5. \A r \in Procs : Under(r)' /\ Nas(r)' => proc'[r].my = proc[p].my
      BY <1>6, <3>4 DEF OthersStay, Under, pc, Nas, Type
    <3>6. EqualMounts'
      BY <3>3 DEF EqualMounts
    <3>7. \A r \in Procs : Under(r)' /\ Nas(r)' => AllAre(proc[r].my)'
      BY <3>3, <3>5 DEF AllAre
    <3>8. Together'
      BY <3>5, <3>7 DEF Together
    <3>9. \A r \in Procs : pc(r)' \in {"running", "unmount"} => r # p /\ pc(r) = pc(r)' /\ proc'[r] = proc[r]
      BY <1>6 DEF OthersStay, pc
    <3>10. AsAsked'
      <4>1. \A r \in Procs : pc(r)' = "running" /\ Nas(r)' => proc'[r].at > 0
        BY <3>9 DEF NasInv, AsAsked, Nas, Type
      <4> QED
        BY <1>3, <3>1, <3>7, <4>1 DEF AsAsked, Under
    <3>11. UnmountsOther'
      <4> SUFFICES ASSUME NEW r \in Procs, pc(r)' = "unmount", Nas(r)' PROVE FALSE
        BY DEF UnmountsOther
      <4>1. r # p /\ pc(r) = "unmount" /\ Nas(r) /\ Under(r)
        BY <3>9 DEF Nas, Type, Under
      <4>2. ~AllAre(proc[r].my)
        BY <4>1 DEF NasInv, UnmountsOther
      <4> QED
        BY <3>2, <3>4, <4>1, <4>2
    <3> QED
      BY <3>6, <3>8, <3>10, <3>11
  <2> QED
    BY <1>1, <2>1, <2>2
<1>12. IscsiInv'
  <2>1. CASE t = "nas"
    <3>1. Disks' = Disks /\ ~Iscsi(p)
      BY <1>4, <2>1 DEF Disks, Iscsi
    <3>2. \A r \in Procs : Under(r)' /\ OnlyMine(r) => OnlyMine(r)'
      BY <1>1, <1>6, <3>1 DEF OthersStay, OnlyMine, Target
    <3> QED
      BY <1>1, <1>6, <3>1, <3>2, IscsiGoes
  <2>2. CASE t = "iscsi"
    <3>1. Disks = s /\ Disks' = n /\ Disks' # <<>>
      BY <1>3, <1>4, <2>2 DEF Disks, s
    <3>2. "iscsi" \notin raced => e.target = Target(p) /\ Iscsi(p)
      BY <1>1, <2>2 DEF IscsiInv, AtHome, Iscsi, e
    <3>3. ASSUME NEW r \in Procs, "iscsi" \notin raced, Under(r)', Iscsi(r), OnlyMine(r) PROVE OnlyMine(r)'
      <4>1. Under(r) /\ Target(r)' = Target(r)
        BY <1>1, <1>6, <3>3 DEF OthersStay, Under, Target, pc
      <4>2. Target(r) = Target(p)
        BY <1>1, <3>2, <3>3, <4>1 DEF IscsiInv, Target
      <4> QED
        BY <1>1, <1>3, <3>1, <3>2, <3>3, <4>1, <4>2 DEF OnlyMine
    <3>4. Under(p)' => AtHome(p)'
      BY <1>6, <3>1 DEF AtHome, Under
    <3> QED
      BY <1>1, <1>6, <3>1, <3>3, <3>4, IscsiGoes
  <2> QED
    BY <1>1, <2>1, <2>2
<1> QED
  BY <1>8, <1>10, <1>11, <1>12

-----------------------------------------------------------------------------
(* The theorems                                                            *)

LEMMA InitKeeps == Init => TransportsInv
<1> SUFFICES ASSUME Init PROVE TransportsInv
  OBVIOUS
<1>1. /\ \A p \in Procs : proc[p] = Off /\ pc(p) = "off" /\ proc[p].at = 0
      /\ \A t \in {"nas", "iscsi"} : stack[t] = <<>> /\ Len(stack[t]) = 0
      /\ sessions = {} /\ Shares = <<>>
  BY OffIs DEF Init, pc, Shares
<1>2. Types
  BY OffIs, EmptySeq DEF Init, Types
<1>3. TypeInv
  BY <1>1, <1>2 DEF TypeInv, OwnPlaces, WorksThere
<1>4. MountsLeft
  BY <1>1, PushingFinite DEF MountsLeft
<1>5. NasInv /\ IscsiInv
  BY <1>1 DEF NasInv, EqualMounts, Together, AsAsked, UnmountsOther, IscsiInv, Under
<1> QED
  BY <1>3, <1>4, <1>5 DEF TransportsInv

LEMMA NextKeeps == TransportsInv /\ [Next]_vars => TransportsInv'
<1> SUFFICES ASSUME TransportsInv, [Next]_vars PROVE TransportsInv'
  OBVIOUS
<1>1. ASSUME NEW p \in Jobs, BeginJob(p) PROVE TransportsInv'
  <2>1. p \in Procs /\ cfg \in choice.params
    BY DEF Procs, TransportsInv, TypeInv, Types
  <2> QED
    BY <1>1, <2>1, BeginKeeps DEF BeginJob
<1>2. ASSUME NEW p \in Pages, BeginPage(p) PROVE TransportsInv'
  <2>1. p \in Procs /\ p \notin Jobs
    BY TransportsAssumption DEF Procs
  <2> QED
    BY <1>2, <2>1, BeginKeeps DEF BeginPage
<1>3. ASSUME NEW p \in Jobs, Command(p) \/ Done(p) PROVE TransportsInv'
  BY <1>3, CommandKeeps DEF Procs
<1>4. ASSUME NEW p \in Jobs \cup Pages, EndJob(p) \/ Save(p) PROVE TransportsInv'
  BY <1>4, QuietActions, QuietKeeps DEF Procs, TransportsInv
<1>5. ASSUME NEW p \in Pages, SaveDisabled(p) PROVE TransportsInv'
  <2>1. UNCHANGED <<choice, proc, stack, sessions, raced>> /\ cfg' \in choice.params
    BY <1>5 DEF SaveDisabled, iscsi, TransportsInv, TypeInv, Types
  <2> QED
    BY <2>1, StillKeeps
<1>6. CASE Recover
  <2>1. UNCHANGED <<choice, proc, stack, sessions, raced>> /\ cfg' \in choice.params
    BY <1>6 DEF Recover, iscsi, TransportsInv, TypeInv, Types
  <2> QED
    BY <2>1, StillKeeps
<1>7. ASSUME NEW p \in Procs, Setup(p) PROVE TransportsInv'
  <2>1. CASE \/ UmountFails(p) \/ MountFails(p) \/ StartDaemon(p) \/ Label(p) \/ Format(p)
             \/ Keys(p) \/ Connect(p) \/ AddKey(p) \/ Reconnect(p) \/ MakeDir(p)
    BY <2>1, QuietActions, QuietKeeps DEF TransportsInv
  <2> QED
    BY <1>7, <2>1, LookKeeps, Look2Keeps, UmountKeeps, StopDaemonKeeps, MountKeeps,
       DevicesKeeps, LoginKeeps DEF Setup
<1>8. CASE UNCHANGED vars
  <2>1. UNCHANGED <<choice, proc, stack, sessions, raced>> /\ cfg' \in choice.params
    BY <1>8 DEF vars, iscsi, TransportsInv, TypeInv, Types
  <2> QED
    BY <2>1, StillKeeps
<1> QED
  BY <1>1, <1>2, <1>3, <1>4, <1>5, <1>6, <1>7, <1>8 DEF Next

LEMMA Invariant == Spec => []TransportsInv
BY InitKeeps, NextKeeps, PTL DEF Spec

(***************************************************************************)
(* What is mounted keeps its type, and a job works at a place of its mount *)
(* point that there is (transports/nas.py, iscsi.py).                      *)
(***************************************************************************)
THEOREM TypeCorrect == Spec => []TypeOK
<1>1. TransportsInv => TypeOK
  BY DEF TransportsInv, TypeInv, Types, WorksThere, TypeOK, Targets, Users
<1> QED
  BY <1>1, Invariant, PTL

(***************************************************************************)
(* However many setups find nothing mounted at the same time, no more      *)
(* mounts are stacked than there are processes.                            *)
(***************************************************************************)
THEOREM StackBoundedHolds == Spec => []StackBounded
<1>1. TransportsInv => StackBounded
  <2> SUFFICES ASSUME TransportsInv, NEW t \in DOMAIN stack PROVE Len(stack[t]) <= Cardinality(Procs)
    BY DEF StackBounded
  <2>1. t \in {"nas", "iscsi"} /\ Len(stack[t]) \in Nat
    BY LenProperties DEF TransportsInv, TypeInv, Types
  <2>2. Len(stack[t]) + Cardinality(Pushing(t)) <= Cardinality(Procs)
    BY <2>1 DEF TransportsInv, MountsLeft
  <2> QED
    BY <2>1, <2>2, PushingFinite
<1> QED
  BY <1>1, Invariant, PTL

(***************************************************************************)
(* A job's command runs on the share or the device the job was configured  *)
(* for, as long as those that are under way together have the same         *)
(* parameters and find nothing else mounted.                               *)
(***************************************************************************)
THEOREM RightShareHolds == Spec => []RightShare
<1>1. TransportsInv => RightShare
  <2> SUFFICES ASSUME TransportsInv, NEW p \in Procs, pc(p) = "running", Type(p) \in {"nas", "iscsi"} \ raced
               PROVE  Right(p)
    BY DEF RightShare
  <2>1. /\ proc[p].at \in Nat /\ (proc[p].at > 0 => proc[p].at <= Len(Mounted(p)))
        /\ Mounted(p) \in Seq([target : Targets, user : Users]) /\ Under(p)
    BY DEF TransportsInv, TypeInv, Types, ProcRecords, WorksThere, Mounted, Under
  <2>2. proc[p].at > 0 => proc[p].at \in DOMAIN Mounted(p)
    BY <2>1, LenProperties
  <2>3. CASE Type(p) = "nas"
    <3>1. proc[p].at > 0 /\ AllAre(proc[p].my)
      BY <2>3 DEF TransportsInv, NasInv, AsAsked, Nas
    <3> QED
      BY <2>2, <2>3, <3>1 DEF AllAre, Line, Right, Share, Shares, Mounted, Target
  <2>4. CASE Type(p) = "iscsi"
    <3>1. proc[p].at > 0 /\ \A i \in DOMAIN Disks : Disks[i].target = Target(p)
      BY <2>1, <2>4 DEF TransportsInv, IscsiInv, AtHome, OnlyMine, Iscsi
    <3> QED
      BY <2>2, <2>4, <3>1 DEF Right, Share, Disks, Mounted
  <2> QED
    BY <2>3, <2>4
<1> QED
  BY <1>1, Invariant, PTL
================================================================================
