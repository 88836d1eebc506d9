---------------------------- MODULE TrxMgr_proofs ----------------------------
(***************************************************************************)
(* Proofs about the manager: its tables, for every number of client slots  *)
(* and of sessions, and the line editor and the command history of a       *)
(* session, for lines and histories of any length.                         *)
(***************************************************************************)
EXTENDS TrxMgr, LineEditor, FiniteSetTheorems, SequenceTheorems, TLAPS

-----------------------------------------------------------------------------
(* Typing                                                                  *)

\* cliDecWait leaves counters that are natural numbers, none of them larger,
\* and the one it is called for smaller unless it was zero.
LEMMA DecBounds ==
    ASSUME NEW w \in [Clis -> Nat], NEW k \in Clis
    PROVE  /\ Dec(w, k) \in [Clis -> Nat]
           /\ \A l \in Clis : Dec(w, k)[l] <= w[l]
           /\ w[k] > 0 => Dec(w, k)[k] = w[k] - 1
           /\ w[k] = 0 => Dec(w, k)[k] = 0
           /\ \A l \in Clis \ {k} : Dec(w, k)[l] = w[l]
BY DEF Dec

\* Counting one more result keeps the counters' type.
LEMMA IncType ==
    ASSUME NEW w \in [Clis -> Nat], NEW k \in Clis
    PROVE  /\ Inc(w, k) \in [Clis -> Nat]
           /\ Inc(w, k)[k] = w[k] + 1
           /\ \A l \in Clis \ {k} : Inc(w, k)[l] = w[l]
BY DEF Inc

\* The walk that is under way is one of an actual CLI.
LEMMA WalkType ==
    ASSUME TypeOK, walk # NoWalk
    PROVE  /\ walk.cli \in Clis /\ walk.at \in 0..NSlots
           /\ walk.cmd \in SubCmds \cup {"query"}
BY DEF TypeOK

\* Going on to the next slot keeps the type of the walk.
LEMMA StepType ==
    ASSUME TypeOK, NEW i \in Slots, At(i), Step
    PROVE  /\ walk' \in [cli : Clis, at : 0..NSlots, cmd : SubCmds \cup {"query"}]
           /\ walk'.cli = walk.cli /\ walk'.at = i + 1 /\ walk'.cmd = walk.cmd
<1>1. walk \in [cli : Clis, at : 0..NSlots, cmd : SubCmds \cup {"query"}]
  BY DEF TypeOK, At
<1>2. walk.at = i /\ i + 1 \in 0..NSlots
  BY MgrAssumption DEF At, Slots
<1> QED BY <1>1, <1>2 DEF Step

\* The initial tables are typed.
LEMMA InitType == Init => TypeOK
<1> SUFFICES ASSUME Init PROVE TypeOK
  OBVIOUS
<1>1. 0 \in Clis /\ 0 \in Nat
  BY MgrAssumption DEF Clis
<1> QED BY <1>1 DEF Init, TypeOK, LinkStates

\* Every step keeps the tables typed.
LEMMA NextType == TypeOK /\ [Next]_vars => TypeOK'
<1> SUFFICES ASSUME TypeOK, [Next]_vars PROVE TypeOK'
  OBVIOUS
<1> USE MgrAssumption DEF TypeOK, LinkStates
<1>0. \A k, w, v : CloseFiles(w, v) \in [Clis -> BOOLEAN]
  BY DEF CloseFiles
<1>1. ASSUME NEW i \in Slots, ClientStep(i) PROVE TypeOK'
  <2>1. CASE Accept(i)
    BY <2>1 DEF Accept, cliVars
  <2>2. CASE Register(i)
    BY <2>2 DEF Register, cliVars
  <2>3. CASE RegisterFails(i)
    BY <2>3, <1>0, DecBounds DEF RegisterFails, DropLink, cliDecWait
  <2>4. CASE Deliver(i)
    <3>1. waiting' \in [Clis -> Nat]
      BY <2>4, DecBounds DEF Deliver, cliDecWait
    <3>2. ffd' \in [Clis -> BOOLEAN]
      BY <2>4, <1>0 DEF Deliver, cliDecWait
    <3> QED BY <2>4, <3>1, <3>2 DEF Deliver
  <2>5. CASE Eof(i)
    <3>1. Dec(waiting, reportTo[i]) \in [Clis -> Nat]
      BY DecBounds
    <3>2. Dec(Dec(waiting, reportTo[i]), reportTo[i]) \in [Clis -> Nat]
      BY <3>1, DecBounds
    <3> QED BY <2>5, <1>0, <3>2 DEF Eof, DropLink
  <2> QED BY <1>1, <2>1, <2>2, <2>3, <2>4, <2>5 DEF ClientStep
<1>2. ASSUME NEW k \in Clis, CliStep(k) PROVE TypeOK'
  <2>1. CASE NewCli(k)
    BY <2>1 DEF NewCli, slotVars
  <2>2. CASE CloseCli(k)
    BY <2>2 DEF CloseCli, slotVars
  <2>3. CASE SetScope(k)
    BY <2>3 DEF SetScope, slotVars
  <2>4. ASSUME NEW c \in SubCmds \cup {"query"}, StartWalk(k, c)
        PROVE  walk' \in [cli : Clis, at : 0..NSlots, cmd : SubCmds \cup {"query"}]
    BY <2>4 DEF StartWalk
  <2>5. ASSUME NEW c \in SubCmds, NEW d \in Dests, ReportCommand(k, c, d) PROVE TypeOK'
    BY <2>5, <2>4 DEF ReportCommand, StartWalk, slotVars
  <2>6. CASE ReportCommandFails(k)
    BY <2>6 DEF ReportCommandFails, slotVars
  <2>7. CASE QueryCommand(k)
    BY <2>7, <2>4 DEF QueryCommand, StartWalk, slotVars
  <2> QED BY <1>2, <2>1, <2>2, <2>3, <2>5, <2>6, <2>7 DEF CliStep
<1>3. CASE WalkStep
  <2>1. ASSUME NEW i \in Slots, Skip(i) PROVE TypeOK'
    BY <2>1, StepType DEF Skip, slotVars, cliVars
  <2>2. ASSUME NEW i \in Slots, AskOk(i) PROVE TypeOK'
    <3>1. walk.cli \in Clis /\ walk.cmd \in SubCmds
      BY <2>2, WalkType DEF AskOk, Visit, At
    <3>2. waiting' \in [Clis -> Nat]
      BY <2>2, <3>1, IncType DEF AskOk
    <3> QED BY <2>2, <3>1, <3>2, StepType DEF AskOk, Visit
  <2>3. ASSUME NEW i \in Slots, AskFails(i) PROVE TypeOK'
    <3>1. walk.cli \in Clis /\ walk.cmd \in SubCmds
      BY <2>3, WalkType DEF AskFails, Visit, At
    <3>2. Dec(waiting, reportTo[i]) \in [Clis -> Nat]
      BY DecBounds
    <3>3. Inc(Dec(waiting, reportTo[i]), walk.cli) \in [Clis -> Nat]
      BY <3>1, <3>2, IncType
    <3>4. waiting' \in [Clis -> Nat]
      BY <2>3, <3>1, <3>3, DecBounds DEF AskFails
    <3>5. ffd' \in [Clis -> BOOLEAN]
      BY <2>3 DEF AskFails, CloseFiles
    <3> QED BY <2>3, <3>1, <3>4, <3>5, StepType DEF AskFails, Visit, DropLink
  <2>4. ASSUME NEW i \in Slots, QueryOk(i) PROVE TypeOK'
    BY <2>4, StepType DEF QueryOk, Visit, slotVars, cliVars
  <2>5. ASSUME NEW i \in Slots, QueryFails(i) PROVE TypeOK'
    BY <2>5, <1>0, DecBounds, StepType DEF QueryFails, Visit, DropLink, cliDecWait
  <2>6. CASE EndWalk
    BY <2>6 DEF EndWalk, slotVars, cliVars
  <2> QED BY <1>3, <2>1, <2>2, <2>3, <2>4, <2>5, <2>6 DEF WalkStep
<1>4. CASE Die
  <2>1. 0 \in Clis /\ 0 \in Nat
    BY DEF Clis
  <2>2. link' \in [Slots -> LinkStates] /\ open' \in [Clis -> BOOLEAN] /\ ffd' \in [Clis -> BOOLEAN]
    BY <1>4 DEF Die
  <2>3. waiting' \in [Clis -> Nat] /\ reportTo' \in [Slots -> Clis]
    BY <1>4, <2>1 DEF Die
  <2> QED BY <1>4, <2>1, <2>2, <2>3 DEF Die
<1>5. CASE Restart
  BY <1>5 DEF Restart, slotVars, cliVars
<1>6. CASE UNCHANGED vars
  BY <1>6 DEF vars, slotVars, cliVars
<1> QED BY <1>1, <1>2, <1>3, <1>4, <1>5, <1>6 DEF Next

(***************************************************************************)
(* The tables keep their types: in particular a waiting counter never goes *)
(* below zero, because cliDecWait does nothing at zero.                    *)
(***************************************************************************)
THEOREM TypeCorrect == Spec => []TypeOK
BY InitType, NextType, PTL DEF Spec

-----------------------------------------------------------------------------
(* Sets of clients that owe a report                                       *)

\* There are finitely many clients that owe a CLI a report.
LEMMA OwedFinite ==
    ASSUME NEW k \in Clis
    PROVE  IsFiniteSet(Owed(k)) /\ Cardinality(Owed(k)) \in Nat
<1>1. IsFiniteSet(Slots)
  BY MgrAssumption, FS_Interval DEF Slots
<1>2. Owed(k) \in SUBSET Slots
  BY DEF Owed
<1> QED BY <1>1, <1>2, FS_Subset, FS_CardinalityType

\* A slot that stops owing leaves the set of the CLI it reported to, and no
\* other set changes.
LEMMA OwedLoses ==
    ASSUME TypeOK, NEW i \in Slots, NEW x \in LinkStates \ {"owing"},
           link' = [link EXCEPT ![i] = x],
           \A j \in Slots \ {i} : reportTo'[j] = reportTo[j],
           NEW k \in Clis
    PROVE  /\ Cardinality(Owed(k))' = IF i \in Owed(k) THEN Cardinality(Owed(k)) - 1
                                      ELSE Cardinality(Owed(k))
           /\ i \in Owed(k) => k = reportTo[i] /\ Cardinality(Owed(k)) > 0
           /\ Owed(k)' = Owed(k) \ {i}
<1>1. Owed(k)' = Owed(k) \ {i}
  BY DEF TypeOK, Owed
<1>2. Cardinality(Owed(k) \ {i}) = IF i \in Owed(k) THEN Cardinality(Owed(k)) - 1
                                   ELSE Cardinality(Owed(k))
  BY OwedFinite, FS_RemoveElement
<1>3. i \in Owed(k) => k = reportTo[i]
  BY DEF Owed
<1>4. i \in Owed(k) => Cardinality(Owed(k)) > 0
  BY OwedFinite, FS_EmptySet
<1> QED BY <1>1, <1>2, <1>3, <1>4

\* A slot that owed nothing and is asked enters the set of the CLI that asks.
LEMMA OwedGains ==
    ASSUME TypeOK, NEW i \in Slots, link[i] # "owing", NEW c \in Clis,
           link' = [link EXCEPT ![i] = "owing"],
           reportTo' = [reportTo EXCEPT ![i] = c],
           NEW k \in Clis
    PROVE  /\ Cardinality(Owed(k))' = IF k = c THEN Cardinality(Owed(k)) + 1
                                      ELSE Cardinality(Owed(k))
           /\ Owed(k)' = IF k = c THEN Owed(k) \cup {i} ELSE Owed(k)
<1>1. i \notin Owed(k)
  BY DEF Owed
<1>2. CASE k = c
  <2>1. Owed(k)' = Owed(k) \cup {i}
    BY <1>2 DEF TypeOK, Owed
  <2>2. Cardinality(Owed(k) \cup {i}) = Cardinality(Owed(k)) + 1
    BY <1>1, OwedFinite, FS_AddElement
  <2> QED BY <1>2, <2>1, <2>2
<1>3. CASE k # c
  <2>1. Owed(k)' = Owed(k)
    BY <1>1, <1>3 DEF TypeOK, Owed
  <2> QED BY <1>3, <2>1
<1> QED BY <1>2, <1>3

\* A slot that goes between two states in which it owes nothing changes no set.
LEMMA OwedKeeps ==
    ASSUME TypeOK, NEW i \in Slots, NEW x \in LinkStates \ {"owing"},
           link[i] # "owing", link' = [link EXCEPT ![i] = x],
           UNCHANGED reportTo, NEW k \in Clis
    PROVE  Owed(k)' = Owed(k)
BY DEF TypeOK, Owed

-----------------------------------------------------------------------------
(* No session waits for a report nobody owes                               *)

\* A step that releases slot i, and for which the CLI that slot reported to is
\* counted down, keeps every counter within what is owed.
LEMMA ReleaseKeepsBound ==
    ASSUME TypeOK, NoPhantomWait,
           NEW i \in Slots, NEW x \in LinkStates \ {"owing"},
           link' = [link EXCEPT ![i] = x],
           \A j \in Slots \ {i} : reportTo'[j] = reportTo[j],
           waiting' \in [Clis -> Nat],
           \A k \in Clis : waiting'[k] <= waiting[k],
           waiting[reportTo[i]] > 0
               => waiting'[reportTo[i]] <= waiting[reportTo[i]] - 1
    PROVE  NoPhantomWait'
<1> SUFFICES ASSUME NEW k \in Clis
             PROVE  waiting'[k] <= Cardinality(Owed(k))'
  BY DEF NoPhantomWait
<1> DEFINE C == Cardinality(Owed(k))
           D == Cardinality(Owed(k))'
           r == reportTo[i]
<1>1. /\ D = IF i \in Owed(k) THEN C - 1 ELSE C
      /\ i \in Owed(k) => k = r /\ C > 0
  BY OwedLoses
<1>2. waiting[k] <= C /\ C \in Nat
  BY OwedFinite DEF NoPhantomWait
<1>3. waiting[k] \in Nat /\ waiting'[k] \in Nat /\ waiting'[k] <= waiting[k]
  BY DEF TypeOK
<1>4. CASE i \in Owed(k)
  <2>1. k = r /\ C > 0 /\ D = C - 1
    BY <1>1, <1>4
  <2>2. waiting[k] > 0 => waiting'[k] <= waiting[k] - 1
    BY <2>1
  <2>3. waiting'[k] <= D
    <3> HIDE DEF C, D, r
    <3> QED BY <1>2, <1>3, <2>1, <2>2
  <2> QED BY <2>3
<1>5. CASE i \notin Owed(k)
  <2>1. D = C
    BY <1>1, <1>5
  <2>2. waiting'[k] <= D
    <3> HIDE DEF C, D
    <3> QED BY <1>2, <1>3, <2>1
  <2> QED BY <2>2
<1> QED BY <1>4, <1>5

\* A step that leaves the counters and the sets of debtors alone.
LEMMA SameOwedKeepsBound ==
    ASSUME NoPhantomWait, \A k \in Clis : Owed(k)' = Owed(k), UNCHANGED waiting
    PROVE  NoPhantomWait'
BY DEF NoPhantomWait

\* The initial counters are zero.
LEMMA InitBound == Init => NoPhantomWait
<1> SUFFICES ASSUME Init, NEW k \in Clis PROVE waiting[k] <= Cardinality(Owed(k))
  BY DEF NoPhantomWait
<1> QED BY OwedFinite DEF Init

\* Every step keeps every counter within what is owed.
LEMMA NextBound == TypeOK /\ NoPhantomWait /\ [Next]_vars => NoPhantomWait'
<1> SUFFICES ASSUME TypeOK, NoPhantomWait, [Next]_vars PROVE NoPhantomWait'
  OBVIOUS
<1>0. TypeOK'
  BY NextType
<1>a. \A i \in Slots : reportTo[i] \in Clis /\ waiting[reportTo[i]] \in Nat
  BY DEF TypeOK
<1>b. waiting' \in [Clis -> Nat] /\ waiting \in [Clis -> Nat]
  BY <1>0 DEF TypeOK
<1>1. ASSUME NEW i \in Slots, ClientStep(i) PROVE NoPhantomWait'
  <2>1. CASE Accept(i) \/ Register(i)
    <3>1. \A k \in Clis : Owed(k)' = Owed(k)
      BY <2>1, OwedKeeps DEF Accept, Register, LinkStates
    <3> QED BY <2>1, <3>1, SameOwedKeepsBound DEF Accept, Register, cliVars
  <2>2. CASE RegisterFails(i) \/ Deliver(i)
    <3>1. waiting' = Dec(waiting, reportTo[i]) /\ UNCHANGED reportTo
      BY <2>2 DEF RegisterFails, Deliver, cliDecWait
    <3>2. \E x \in LinkStates \ {"owing"} : link' = [link EXCEPT ![i] = x]
      BY <2>2 DEF RegisterFails, Deliver, DropLink, LinkStates
    <3>3. /\ \A k \in Clis : waiting'[k] <= waiting[k]
          /\ waiting[reportTo[i]] > 0 => waiting'[reportTo[i]] <= waiting[reportTo[i]] - 1
      BY <3>1, <1>a, <1>b, DecBounds
    <3> QED BY <3>1, <3>2, <3>3, <1>b, ReleaseKeepsBound
  <2>3. CASE Eof(i)
    <3> DEFINE r == reportTo[i]
               w == Dec(waiting, r)
    <3>1. waiting' = Dec(w, r) /\ UNCHANGED reportTo
          /\ link' = [link EXCEPT ![i] = "closed"]
      BY <2>3 DEF Eof, DropLink
    <3>2. /\ w \in [Clis -> Nat]
          /\ \A k \in Clis : w[k] <= waiting[k]
          /\ waiting[r] > 0 => w[r] = waiting[r] - 1
      BY <1>a, <1>b, DecBounds
    <3>3. \A k \in Clis : waiting'[k] <= w[k]
      BY <3>1, <3>2, <1>a, DecBounds
    <3> HIDE DEF w
    <3>4. /\ \A k \in Clis : waiting'[k] <= waiting[k]
          /\ waiting[r] > 0 => waiting'[r] <= waiting[r] - 1
      BY <3>2, <3>3, <1>a, <1>b
    <3> QED BY <3>1, <3>4, <1>b, ReleaseKeepsBound DEF LinkStates
  <2> QED BY <1>1, <2>1, <2>2, <2>3 DEF ClientStep
<1>2. ASSUME NEW k \in Clis, CliStep(k) PROVE NoPhantomWait'
  <2>1. UNCHANGED <<link, reportTo, waiting>>
    BY <1>2 DEF CliStep, NewCli, CloseCli, SetScope, ReportCommand, StartWalk,
                ReportCommandFails, QueryCommand, slotVars
  <2> QED BY <2>1, SameOwedKeepsBound DEF Owed
<1>3. CASE WalkStep
  <2>1. ASSUME NEW i \in Slots, Skip(i) \/ QueryOk(i) PROVE NoPhantomWait'
    BY <2>1, SameOwedKeepsBound DEF Skip, QueryOk, slotVars, cliVars, Owed
  <2>2. ASSUME NEW i \in Slots, AskOk(i) PROVE NoPhantomWait'
    <3>1. walk.cli \in Clis
      BY <2>2, WalkType DEF AskOk, Visit, At
    <3> SUFFICES ASSUME NEW k \in Clis
                 PROVE  waiting'[k] <= Cardinality(Owed(k))'
      BY DEF NoPhantomWait
    <3> DEFINE C == Cardinality(Owed(k))
               D == Cardinality(Owed(k))'
    <3>2. D = IF k = walk.cli THEN C + 1 ELSE C
      BY <2>2, <3>1, OwedGains DEF AskOk
    <3>3. waiting'[k] = IF k = walk.cli THEN waiting[k] + 1 ELSE waiting[k]
      BY <2>2, <3>1, <1>b, IncType DEF AskOk
    <3>4. waiting[k] <= C /\ C \in Nat /\ waiting[k] \in Nat
      BY OwedFinite, <1>b DEF NoPhantomWait
    <3>5. waiting'[k] <= D
      <4> HIDE DEF C, D
      <4> QED BY <3>2, <3>3, <3>4
    <3> QED BY <3>5
  <2>3. ASSUME NEW i \in Slots, AskFails(i) PROVE NoPhantomWait'
    <3> DEFINE r == reportTo[i]
               c == walk.cli
               w == Dec(waiting, r)
               v == Inc(w, c)
    <3>1. c \in Clis /\ r \in Clis
      BY <2>3, <1>a, WalkType DEF AskFails, Visit, At
    <3>2. /\ w \in [Clis -> Nat]
          /\ \A k \in Clis : w[k] <= waiting[k]
          /\ waiting[r] > 0 => w[r] = waiting[r] - 1
      BY <3>1, <1>b, DecBounds
    <3>3. v \in [Clis -> Nat] /\ v[c] = w[c] + 1 /\ \A k \in Clis \ {c} : v[k] = w[k]
      BY <3>1, <3>2, IncType
    <3>4. /\ waiting' = Dec(v, c)
          /\ link' = [link EXCEPT ![i] = "closed"]
          /\ reportTo' = [reportTo EXCEPT ![i] = c]
      BY <2>3 DEF AskFails, DropLink
    <3>5. \A k \in Clis : waiting'[k] = w[k]
      <4> HIDE DEF v, w
      <4>1. v[c] > 0 => Dec(v, c)[c] = v[c] - 1
        BY <3>1, <3>3, DecBounds
      <4>2. \A k \in Clis \ {c} : Dec(v, c)[k] = v[k]
        BY <3>1, <3>3, DecBounds
      <4> QED BY <3>1, <3>2, <3>3, <3>4, <4>1, <4>2
    <3>6. /\ \A k \in Clis : waiting'[k] <= waiting[k]
          /\ waiting[r] > 0 => waiting'[r] <= waiting[r] - 1
      <4> HIDE DEF w
      <4> QED BY <3>1, <3>2, <3>5, <1>b
    <3>7. \A j \in Slots \ {i} : reportTo'[j] = reportTo[j]
      BY <3>4 DEF TypeOK
    <3> QED BY <3>4, <3>6, <3>7, <1>b, ReleaseKeepsBound DEF LinkStates
  <2>4. ASSUME NEW i \in Slots, QueryFails(i) PROVE NoPhantomWait'
    <3>1. /\ waiting' = Dec(waiting, reportTo[i])
          /\ UNCHANGED reportTo
          /\ link' = [link EXCEPT ![i] = "closed"]
      BY <2>4 DEF QueryFails, DropLink, cliDecWait
    <3>2. /\ \A k \in Clis : waiting'[k] <= waiting[k]
          /\ waiting[reportTo[i]] > 0 => waiting'[reportTo[i]] <= waiting[reportTo[i]] - 1
      BY <3>1, <1>a, <1>b, DecBounds
    <3> QED BY <3>1, <3>2, <1>b, ReleaseKeepsBound DEF LinkStates
  <2>5. CASE EndWalk
    BY <2>5, SameOwedKeepsBound DEF EndWalk, slotVars, cliVars, Owed
  <2> QED BY <1>3, <2>1, <2>2, <2>3, <2>4, <2>5 DEF WalkStep
<1>4. CASE Die
  <2>1. \A k \in Clis : waiting'[k] = 0 /\ Owed(k)' = {}
    BY <1>4 DEF Die, Owed
  <2> QED BY <2>1, FS_EmptySet DEF NoPhantomWait
<1>5. CASE Restart \/ UNCHANGED vars
  BY <1>5, SameOwedKeepsBound DEF Restart, vars, slotVars, cliVars, Owed
<1> QED BY <1>1, <1>2, <1>3, <1>4, <1>5 DEF Next

(***************************************************************************)
(* A session never waits for more reports than clients still owe it,       *)
(* whatever fails, however many clients and sessions there are.            *)
(***************************************************************************)
THEOREM NoPhantomWaitHolds == Spec => []NoPhantomWait
<1>1. Init => TypeOK /\ NoPhantomWait
  BY InitType, InitBound
<1>2. TypeOK /\ NoPhantomWait /\ [Next]_vars => TypeOK' /\ NoPhantomWait'
  BY NextType, NextBound
<1> QED BY <1>1, <1>2, PTL DEF Spec

-----------------------------------------------------------------------------
(* A free session entry waits for nothing                                  *)

\* The session whose command is being carried out is open: only its own
\* command could close it, and the manager does one thing at a time.
WalkerOpen == walk # NoWalk => open[walk.cli]

\* Only an ask by an open session makes a counter larger.
IdleInv == TypeOK /\ ClosedCliIdle /\ WalkerOpen

\* cliDecWait leaves a counter that is zero alone.
LEMMA DecKeepsIdle ==
    ASSUME ClosedCliIdle, NEW k \in Clis, waiting \in [Clis -> Nat],
           waiting' = Dec(waiting, k), UNCHANGED open
    PROVE  ClosedCliIdle'
BY DecBounds DEF ClosedCliIdle, Dec

\* The initial tables hold the invariant.
LEMMA InitIdle == Init => IdleInv
BY InitType DEF Init, IdleInv, ClosedCliIdle, WalkerOpen

\* Every step keeps it.
LEMMA NextIdle == IdleInv /\ [Next]_vars => IdleInv'
<1> SUFFICES ASSUME IdleInv, [Next]_vars PROVE ClosedCliIdle' /\ WalkerOpen'
  BY NextType DEF IdleInv
<1> USE DEF IdleInv
<1>a. /\ waiting \in [Clis -> Nat] /\ open \in [Clis -> BOOLEAN]
      /\ \A i \in Slots : reportTo[i] \in Clis
  BY DEF TypeOK
<1>1. ASSUME NEW i \in Slots, ClientStep(i) PROVE ClosedCliIdle' /\ WalkerOpen'
  <2>1. UNCHANGED <<open, walk>>
    BY <1>1 DEF ClientStep, Accept, Register, RegisterFails, Deliver, Eof, cliVars
  <2>2. CASE Accept(i) \/ Register(i)
    BY <2>1, <2>2 DEF Accept, Register, cliVars, ClosedCliIdle, WalkerOpen
  <2>3. CASE RegisterFails(i) \/ Deliver(i)
    BY <2>1, <2>3, <1>a, DecKeepsIdle DEF RegisterFails, Deliver, cliDecWait, WalkerOpen
  <2>4. CASE Eof(i)
    <3>1. ASSUME NEW k \in Clis, waiting[k] = 0 PROVE waiting'[k] = 0
      <4> DEFINE w == Dec(waiting, reportTo[i])
      <4>1. w \in [Clis -> Nat] /\ w[k] = 0
        BY <3>1, <1>a, DecBounds DEF Dec
      <4>2. waiting' = Dec(w, reportTo[i])
        BY <2>4 DEF Eof
      <4> HIDE DEF w
      <4> QED BY <4>1, <4>2, <1>a DEF Dec
    <3> QED BY <2>1, <3>1 DEF ClosedCliIdle, WalkerOpen
  <2> QED BY <1>1, <2>2, <2>3, <2>4 DEF ClientStep
<1>2. ASSUME NEW k \in Clis, CliStep(k) PROVE ClosedCliIdle' /\ WalkerOpen'
  <2>1. UNCHANGED waiting
    BY <1>2 DEF CliStep, NewCli, CloseCli, SetScope, ReportCommand, StartWalk,
                ReportCommandFails, QueryCommand
  <2>2. CASE NewCli(k)
    BY <2>1, <2>2, <1>a DEF NewCli, Idle, ClosedCliIdle, WalkerOpen
  <2>3. CASE CloseCli(k)
    BY <2>1, <2>3, <1>a DEF CloseCli, Reads, Idle, ClosedCliIdle, WalkerOpen
  <2>4. CASE SetScope(k) \/ ReportCommandFails(k)
    BY <2>1, <2>4 DEF SetScope, ReportCommandFails, ClosedCliIdle, WalkerOpen
  <2>5. ASSUME NEW c \in SubCmds \cup {"query"}, StartWalk(k, c)
        PROVE  ClosedCliIdle' /\ WalkerOpen'
    BY <2>1, <2>5 DEF StartWalk, Reads, ClosedCliIdle, WalkerOpen
  <2> QED BY <1>2, <2>2, <2>3, <2>4, <2>5 DEF CliStep, ReportCommand, QueryCommand
<1>3. CASE WalkStep
  <2>1. ASSUME NEW i \in Slots, Skip(i) \/ QueryOk(i) PROVE ClosedCliIdle' /\ WalkerOpen'
    BY <2>1 DEF Skip, QueryOk, Visit, At, Step, cliVars, ClosedCliIdle, WalkerOpen, TypeOK
  <2>2. ASSUME NEW i \in Slots, AskOk(i) PROVE ClosedCliIdle' /\ WalkerOpen'
    <3>1. walk.cli \in Clis /\ open[walk.cli]
      BY <2>2, WalkType DEF AskOk, Visit, At, WalkerOpen
    <3>2. walk'.cli = walk.cli /\ UNCHANGED open
      BY <2>2, StepType DEF AskOk, Visit
    <3>3. \A k \in Clis \ {walk.cli} : waiting'[k] = waiting[k]
      BY <2>2, <3>1, <1>a, IncType DEF AskOk
    <3> QED BY <3>1, <3>2, <3>3 DEF ClosedCliIdle, WalkerOpen
  <2>3. ASSUME NEW i \in Slots, AskFails(i) PROVE ClosedCliIdle' /\ WalkerOpen'
    <3> DEFINE w == Dec(waiting, reportTo[i])
               v == Inc(w, walk.cli)
    <3>1. walk.cli \in Clis /\ open[walk.cli]
      BY <2>3, WalkType DEF AskFails, Visit, At, WalkerOpen
    <3>2. walk'.cli = walk.cli /\ UNCHANGED open /\ waiting' = Dec(v, walk.cli)
      BY <2>3, StepType DEF AskFails, Visit
    <3>3. w \in [Clis -> Nat] /\ \A k \in Clis : w[k] <= waiting[k]
      BY <1>a, DecBounds
    <3>4. v \in [Clis -> Nat] /\ \A k \in Clis \ {walk.cli} : v[k] = w[k]
      BY <3>1, <3>3, IncType
    <3>5. waiting' \in [Clis -> Nat] /\ \A k \in Clis \ {walk.cli} : waiting'[k] = v[k]
      <4> HIDE DEF v
      <4> QED BY <3>1, <3>2, <3>4, DecBounds
    <3>6. \A k \in Clis \ {walk.cli} : waiting[k] = 0 => waiting'[k] = 0
      <4> HIDE DEF v, w
      <4> QED BY <1>a, <3>3, <3>4, <3>5
    <3> QED BY <3>1, <3>2, <3>6 DEF ClosedCliIdle, WalkerOpen
  <2>4. ASSUME NEW i \in Slots, QueryFails(i) PROVE ClosedCliIdle' /\ WalkerOpen'
    <3>1. walk'.cli = walk.cli /\ UNCHANGED open /\ waiting' = Dec(waiting, reportTo[i])
      BY <2>4, StepType DEF QueryFails, Visit, cliDecWait
    <3> QED BY <2>4, <3>1, <1>a, DecKeepsIdle DEF QueryFails, Visit, At, WalkerOpen
  <2>5. CASE EndWalk
    BY <2>5 DEF EndWalk, cliVars, ClosedCliIdle, WalkerOpen
  <2> QED BY <1>3, <2>1, <2>2, <2>3, <2>4, <2>5 DEF WalkStep
<1>4. CASE Die
  BY <1>4 DEF Die, ClosedCliIdle, WalkerOpen
<1>5. CASE Restart \/ UNCHANGED vars
  BY <1>5 DEF Restart, vars, cliVars, ClosedCliIdle, WalkerOpen
<1> QED BY <1>1, <1>2, <1>3, <1>4, <1>5 DEF Next

(***************************************************************************)
(* A session entry that is free waits for nothing, although closeCli and   *)
(* newCli leave waiting as it is.                                          *)
(***************************************************************************)
THEOREM ClosedCliIdleHolds == Spec => []ClosedCliIdle
<1>1. IdleInv => ClosedCliIdle
  BY DEF IdleInv
<1> QED BY InitIdle, NextIdle, <1>1, PTL DEF Spec

-----------------------------------------------------------------------------
(* Until a client is closed the counter is exact                           *)

ExactInv == TypeOK /\ ExactCount

\* The initial tables hold the invariant.
LEMMA InitExact == Init => ExactInv
<1> SUFFICES ASSUME Init PROVE ExactCount
  BY InitType DEF ExactInv
<1>1. \A k \in Clis : waiting[k] = 0 /\ Owed(k) = {}
  BY DEF Init, Owed
<1> QED BY <1>1, FS_EmptySet DEF Init, ExactCount

\* A step in which a client fails is not one of a manager that is calm.
LEMMA FailsNotCalm ==
    ASSUME NEW i \in Slots, RegisterFails(i) \/ Eof(i) \/ AskFails(i) \/ QueryFails(i)
    PROVE  ~calm'
BY DEF RegisterFails, Eof, AskFails, QueryFails

\* Calm is regained only when the manager is started again.
LEMMA CalmIsNotRegained == [Next]_vars /\ calm' => calm \/ Die
BY DEF Next, ClientStep, CliStep, WalkStep, Accept, Register, RegisterFails, Deliver, Eof,
       NewCli, CloseCli, SetScope, ReportCommand, StartWalk, ReportCommandFails,
       QueryCommand, Skip, AskOk, AskFails, QueryOk, QueryFails, EndWalk, Restart, vars

\* Every step keeps it.
LEMMA NextExact == ExactInv /\ [Next]_vars => ExactInv'
<1> SUFFICES ASSUME ExactInv, [Next]_vars, calm' PROVE ExactCount'
  BY NextType DEF ExactInv, ExactCount
<1> USE DEF ExactInv
<1>a. /\ waiting \in [Clis -> Nat]
      /\ \A i \in Slots : reportTo[i] \in Clis
  BY DEF TypeOK
<1>b. ASSUME calm, UNCHANGED waiting, \A k \in Clis : Owed(k)' = Owed(k) PROVE ExactCount'
  BY <1>b DEF ExactCount
<1>c. ASSUME UNCHANGED <<link, reportTo>> PROVE \A k \in Clis : Owed(k)' = Owed(k)
  BY <1>c DEF Owed
<1>1. ASSUME calm, NEW i \in Slots, ClientStep(i) PROVE ExactCount'
  <2>1. CASE Accept(i) \/ Register(i)
    <3>1. \A k \in Clis : Owed(k)' = Owed(k)
      BY <2>1, OwedKeeps DEF Accept, Register, LinkStates
    <3> QED BY <1>1, <2>1, <3>1, <1>b DEF Accept, Register, cliVars
  <2>2. CASE Deliver(i)
    <3> SUFFICES ASSUME NEW k \in Clis PROVE waiting'[k] = Cardinality(Owed(k))'
      BY DEF ExactCount
    <3> DEFINE C == Cardinality(Owed(k))
               D == Cardinality(Owed(k))'
    <3>1. /\ D = IF i \in Owed(k) THEN C - 1 ELSE C
          /\ i \in Owed(k) => k = reportTo[i] /\ C > 0
      BY <2>2, OwedLoses DEF Deliver, LinkStates
    <3>2. i \in Owed(k) <=> k = reportTo[i]
      BY <2>2 DEF Deliver, Owed
    <3>3. waiting[k] = C /\ C \in Nat
      BY <1>1, OwedFinite DEF ExactCount
    <3>4. waiting' = Dec(waiting, reportTo[i])
      BY <2>2 DEF Deliver, cliDecWait
    <3>5. waiting'[k] = IF k = reportTo[i] /\ waiting[k] > 0 THEN waiting[k] - 1 ELSE waiting[k]
      <4>1. CASE k = reportTo[i]
        BY <3>4, <4>1, <1>a, DecBounds
      <4>2. CASE k # reportTo[i]
        BY <3>4, <4>2, <1>a, DecBounds
      <4> QED BY <4>1, <4>2
    <3>6. waiting'[k] = D
      <4> HIDE DEF C, D
      <4> QED BY <3>1, <3>2, <3>3, <3>5
    <3> QED BY <3>6
  <2> QED BY <1>1, <2>1, <2>2, FailsNotCalm DEF ClientStep
<1>2. ASSUME calm, NEW k \in Clis, CliStep(k) PROVE ExactCount'
  <2>1. UNCHANGED <<link, reportTo, waiting>>
    BY <1>2 DEF CliStep, NewCli, CloseCli, SetScope, ReportCommand, StartWalk,
                ReportCommandFails, QueryCommand, slotVars
  <2> QED BY <1>2, <2>1, <1>b, <1>c
<1>3. ASSUME calm, WalkStep PROVE ExactCount'
  <2>1. ASSUME NEW i \in Slots, Skip(i) \/ QueryOk(i) PROVE ExactCount'
    BY <1>3, <2>1, <1>b, <1>c DEF Skip, QueryOk, slotVars, cliVars
  <2>2. ASSUME NEW i \in Slots, AskOk(i) PROVE ExactCount'
    <3>1. walk.cli \in Clis
      BY <2>2, WalkType DEF AskOk, Visit, At
    <3> SUFFICES ASSUME NEW k \in Clis PROVE waiting'[k] = Cardinality(Owed(k))'
      BY DEF ExactCount
    <3> DEFINE C == Cardinality(Owed(k))
               D == Cardinality(Owed(k))'
    <3>3. D = IF k = walk.cli THEN C + 1 ELSE C
      BY <2>2, <3>1, OwedGains DEF AskOk
    <3>4. waiting'[k] = IF k = walk.cli THEN waiting[k] + 1 ELSE waiting[k]
      BY <2>2, <3>1, <1>a, IncType DEF AskOk
    <3>5. waiting[k] = C
      BY <1>3 DEF ExactCount
    <3>6. waiting'[k] = D
      <4> HIDE DEF C, D
      <4> QED BY <3>3, <3>4, <3>5
    <3> QED BY <3>6
  <2>3. CASE EndWalk
    BY <1>3, <2>3, <1>b, <1>c DEF EndWalk, slotVars, cliVars
  <2> QED BY <1>3, <2>1, <2>2, <2>3, FailsNotCalm DEF WalkStep
<1>4. CASE Die
  <2>1. \A k \in Clis : waiting'[k] = 0 /\ Owed(k)' = {}
    BY <1>4 DEF Die, Owed
  <2> QED BY <2>1, FS_EmptySet DEF ExactCount
<1>5. ASSUME calm, Restart \/ UNCHANGED vars PROVE ExactCount'
  BY <1>5, <1>b, <1>c DEF Restart, vars, slotVars, cliVars
<1> QED BY <1>1, <1>2, <1>3, <1>4, <1>5, CalmIsNotRegained DEF Next

(***************************************************************************)
(* Until a client exits or fails an exchange, a session waits for exactly  *)
(* as many reports as clients owe it, however many sessions give commands  *)
(* at once: its prompt is neither early nor late.                          *)
(***************************************************************************)
THEOREM ExactCountHolds == Spec => []ExactCount
<1>1. ExactInv => ExactCount
  BY DEF ExactInv
<1> QED BY InitExact, NextExact, <1>1, PTL DEF Spec

-----------------------------------------------------------------------------
(* Until a client is closed the tables implement the report desk           *)

\* The initial tables are those of an empty desk.
LEMMA InitDesk == Init => Desk!Init
<1> SUFFICES ASSUME Init PROVE Desk!Init
  OBVIOUS
<1>1. \A k \in Clis : Owed(k) = {}
  BY DEF Init, Owed
<1>2. {k \in Clis : open[k]} = {}
  BY DEF Init
<1> QED BY <1>1, <1>2 DEF Init, NoWalk, Desk!Init

\* Every step of a calm manager that leaves it calm is a step of the desk, or
\* none.
LEMMA NextDesk ==
    ExactInv /\ [Next]_vars => [~calm \/ ~calm' \/ Desk!Next]_(Desk!desk)
<1> SUFFICES ASSUME ExactInv, [Next]_vars, calm, calm' PROVE [Desk!Next]_(Desk!desk)
  OBVIOUS
<1> USE DEF ExactInv
<1> DEFINE Aw == [k \in Clis |-> Owed(k)]
           Op == {k \in Clis : open[k]}
<1>a. ASSUME UNCHANGED <<open, walk>>, \A k \in Clis : Owed(k)' = Owed(k)
      PROVE  UNCHANGED Desk!desk
  BY <1>a DEF Desk!desk
<1>b. ASSUME UNCHANGED <<link, reportTo>> PROVE \A k \in Clis : Owed(k)' = Owed(k)
  BY <1>b DEF Owed
<1>c. ASSUME NEW k \in Clis, Reads(k) PROVE Owed(k) = {} /\ walk.cli = NoCli /\ open[k]
  <2>1. Cardinality(Owed(k)) = 0
    BY <1>c DEF Reads, ExactCount
  <2> QED BY <1>c, <2>1, OwedFinite, FS_EmptySet DEF Reads, Idle, NoWalk
<1>1. ASSUME NEW i \in Slots, ClientStep(i) PROVE [Desk!Next]_(Desk!desk)
  <2>1. CASE Accept(i) \/ Register(i)
    <3>1. \A k \in Clis : Owed(k)' = Owed(k)
      BY <2>1, OwedKeeps DEF Accept, Register, LinkStates
    <3> QED BY <2>1, <3>1, <1>a DEF Accept, Register, cliVars
  <2>2. CASE Deliver(i)
    <3> DEFINE r == reportTo[i]
    <3>1. r \in Clis /\ i \in Owed(r)
      BY <2>2 DEF Deliver, Owed, TypeOK
    <3>2. \A k \in Clis : Owed(k)' = IF k = r THEN Owed(k) \ {i} ELSE Owed(k)
      <4>1. \A k \in Clis : Owed(k)' = Owed(k) \ {i}
        BY <2>2, OwedLoses DEF Deliver, LinkStates
      <4>2. \A k \in Clis \ {r} : i \notin Owed(k)
        BY DEF Owed
      <4> QED BY <4>1, <4>2
    <3>3. Aw' = [Aw EXCEPT ![r] = @ \ {i}]
      BY <3>1, <3>2
    <3>4. UNCHANGED <<open, walk>>
      BY <2>2 DEF Deliver
    <3>5. Desk!Answer(r, i)
      BY <3>1, <3>3, <3>4 DEF Desk!Answer
    <3> QED BY <3>1, <3>5 DEF Desk!Next
  <2> QED BY <1>1, <2>1, <2>2, FailsNotCalm DEF ClientStep
<1>2. ASSUME NEW k \in Clis, CliStep(k) PROVE [Desk!Next]_(Desk!desk)
  <2>1. UNCHANGED <<link, reportTo, waiting>>
    BY <1>2 DEF CliStep, NewCli, CloseCli, SetScope, ReportCommand, StartWalk,
                ReportCommandFails, QueryCommand, slotVars
  <2>2. \A l \in Clis : Owed(l)' = Owed(l)
    BY <2>1, <1>b
  <2>3. Aw' = Aw
    BY <2>2
  <2>4. CASE NewCli(k)
    <3>1. Op' = Op \cup {k} /\ k \notin Op
      BY <2>4 DEF NewCli, TypeOK
    <3>2. Desk!Open(k)
      BY <2>3, <2>4, <3>1 DEF Desk!Open, NewCli
    <3> QED BY <3>2 DEF Desk!Next
  <2>5. CASE CloseCli(k)
    <3>1. Op' = Op \ {k}
      BY <2>5 DEF CloseCli, TypeOK
    <3>2. k \in Op /\ Aw[k] = {} /\ walk.cli = NoCli
      BY <2>5, <1>c DEF CloseCli
    <3>3. Desk!Quit(k)
      BY <2>3, <2>5, <3>1, <3>2 DEF Desk!Quit, CloseCli
    <3> QED BY <3>3 DEF Desk!Next
  <2>6. CASE SetScope(k) \/ ReportCommandFails(k)
    BY <2>2, <2>6, <1>a DEF SetScope, ReportCommandFails
  <2>7. ASSUME NEW c \in SubCmds \cup {"query"}, StartWalk(k, c)
        PROVE  [Desk!Next]_(Desk!desk)
    <3>1. k \in Op /\ Aw[k] = {} /\ walk.cli = NoCli
      BY <2>7, <1>c DEF StartWalk
    <3>2. walk'.cli = k /\ UNCHANGED open
      BY <2>7 DEF StartWalk
    <3>3. Desk!Begin(k)
      BY <2>3, <3>1, <3>2 DEF Desk!Begin
    <3> QED BY <3>3 DEF Desk!Next
  <2> QED BY <1>2, <2>4, <2>5, <2>6, <2>7 DEF CliStep, ReportCommand, QueryCommand
<1>3. CASE WalkStep
  <2>1. ASSUME NEW i \in Slots, Skip(i) \/ QueryOk(i) PROVE UNCHANGED Desk!desk
    <3>1. UNCHANGED <<link, reportTo, open>> /\ walk'.cli = walk.cli
      BY <2>1, StepType DEF Skip, QueryOk, Visit, slotVars, cliVars
    <3> QED BY <3>1, <1>b DEF Desk!desk
  <2>2. ASSUME NEW i \in Slots, AskOk(i) PROVE Desk!Next
    <3> DEFINE c == walk.cli
    <3>1. c \in Clis /\ walk'.cli = c /\ UNCHANGED open
      BY <2>2, WalkType, StepType DEF AskOk, Visit, At
    <3>2. \A k \in Clis : Owed(k)' = IF k = c THEN Owed(k) \cup {i} ELSE Owed(k)
      BY <2>2, <3>1, OwedGains DEF AskOk
    <3>3. Aw' = [Aw EXCEPT ![c] = @ \cup {i}]
      BY <3>1, <3>2
    <3>4. \A l \in Clis : i \notin Aw[l]
      BY <2>2 DEF AskOk, Owed
    <3>5. Desk!Ask(c, i)
      BY <3>1, <3>3, <3>4 DEF Desk!Ask
    <3> QED BY <3>1, <3>5 DEF Desk!Next
  <2>4. CASE EndWalk
    <3>1. walk.cli # NoCli /\ walk'.cli = NoCli /\ UNCHANGED open
      BY <2>4, WalkType, MgrAssumption DEF EndWalk, NoWalk, NoCli, Clis, cliVars
    <3>2. Aw' = Aw
      BY <2>4, <1>b DEF EndWalk, slotVars
    <3>3. Desk!End
      BY <3>1, <3>2 DEF Desk!End
    <3> QED BY <3>3 DEF Desk!Next
  <2> QED BY <1>3, <2>1, <2>2, <2>4, FailsNotCalm DEF WalkStep
<1>4. CASE Die
  <2>1. \A k \in Clis : Owed(k)' = {}
    BY <1>4 DEF Die, Owed
  <2>2. Op' = {} /\ walk'.cli = NoCli
    BY <1>4 DEF Die, NoWalk
  <2>3. Desk!Down
    BY <2>1, <2>2 DEF Desk!Down
  <2> QED BY <2>3 DEF Desk!Next
<1>5. CASE Restart \/ UNCHANGED vars
  BY <1>5, <1>a, <1>b DEF Restart, vars, slotVars, cliVars
<1> QED BY <1>1, <1>2, <1>3, <1>4, <1>5 DEF Next

(***************************************************************************)
(* Until a client exits or fails an exchange, the manager's counters       *)
(* behave as the report desk's sets: a session gets its prompt, and can be *)
(* closed, exactly when all it asked have reported.                        *)
(***************************************************************************)
THEOREM DeskImplemented == Spec => ImplementsDesk
BY InitExact, InitDesk, NextExact, NextDesk, PTL DEF Spec, ImplementsDesk

-----------------------------------------------------------------------------
(* Until a client is closed a report's file stays open                     *)

\* The session whose report command is being carried out has not asked anybody
\* yet, or waits: either way its file must be open.
Reporting(k) == waiting[k] > 0 \/ (walk # NoWalk /\ walk.cli = k /\ walk.cmd # "query")

FileOpen == calm => \A k \in Clis : dest[k] = "file" /\ Reporting(k) => ffd[k]

\* A new session's file is closed, which is harmless because a free entry waits for
\* nothing.
FileInv == IdleInv /\ FileOpen

\* The initial tables hold the invariant.
LEMMA InitFile == Init => FileInv
BY InitIdle DEF Init, FileInv, FileOpen, Reporting, NoWalk

\* Every step keeps it.
LEMMA NextFile == FileInv /\ [Next]_vars => FileInv'
<1> SUFFICES ASSUME FileInv, [Next]_vars, calm' PROVE FileOpen'
  BY NextIdle DEF FileInv, FileOpen
<1> USE DEF FileInv, IdleInv, FileOpen, Reporting
<1>a. /\ waiting \in [Clis -> Nat] /\ ffd \in [Clis -> BOOLEAN]
      /\ open \in [Clis -> BOOLEAN] /\ dest \in [Clis -> {"console", "file"}]
      /\ \A i \in Slots : reportTo[i] \in Clis
  BY DEF TypeOK
<1>b. ASSUME calm, UNCHANGED <<waiting, ffd, dest, walk>> PROVE FileOpen'
  BY <1>b
<1>1. ASSUME calm, NEW i \in Slots, ClientStep(i) PROVE FileOpen'
  <2>1. CASE Accept(i) \/ Register(i)
    BY <1>1, <2>1, <1>b DEF Accept, Register, cliVars
  <2>2. CASE Deliver(i)
    <3>1. \A k \in Clis : waiting'[k] > 0 => waiting[k] > 0
      BY <2>2, <1>a DEF Deliver, cliDecWait, Dec
    <3>2. \A k \in Clis : waiting'[k] > 0 => ffd'[k] = ffd[k]
      BY <2>2, <1>a DEF Deliver, cliDecWait, CloseFiles
    <3> QED BY <1>1, <2>2, <3>1, <3>2 DEF Deliver, Idle
  <2> QED BY <1>1, <2>1, <2>2, FailsNotCalm DEF ClientStep
<1>2. ASSUME calm, NEW k \in Clis, CliStep(k) PROVE FileOpen'
  <2>1. CASE NewCli(k)
    BY <1>2, <2>1, <1>a DEF NewCli, Idle, ClosedCliIdle
  <2>2. CASE CloseCli(k) \/ SetScope(k)
    BY <1>2, <2>2, <1>b DEF CloseCli, SetScope
  <2>3. CASE ReportCommandFails(k)
    BY <1>2, <2>3, <1>a DEF ReportCommandFails, Reads, Idle
  <2>4. ASSUME NEW c \in SubCmds, NEW d \in Dests, ReportCommand(k, c, d)
        PROVE  FileOpen'
    <3>1. walk'.cli = k /\ waiting' = waiting /\ waiting[k] = 0
      BY <2>4 DEF ReportCommand, StartWalk, Reads
    <3>2. \A l \in Clis \ {k} : dest'[l] = dest[l] /\ ffd'[l] = ffd[l]
      BY <2>4, <1>a DEF ReportCommand
    <3>3. dest'[k] = "file" => ffd'[k]
      BY <2>4, <1>a DEF ReportCommand
    <3> QED BY <1>2, <3>1, <3>2, <3>3
  <2>5. CASE QueryCommand(k)
    BY <1>2, <2>5 DEF QueryCommand, StartWalk
  <2> QED BY <1>2, <2>1, <2>2, <2>3, <2>4, <2>5 DEF CliStep
<1>3. ASSUME calm, WalkStep PROVE FileOpen'
  <2>1. ASSUME NEW i \in Slots, Skip(i) \/ QueryOk(i) PROVE FileOpen'
    <3>1. /\ walk # NoWalk /\ walk'.cli = walk.cli /\ walk'.cmd = walk.cmd
          /\ UNCHANGED <<waiting, ffd, dest>>
      BY <2>1, StepType DEF Skip, QueryOk, Visit, At, cliVars
    <3> QED BY <1>3, <3>1
  <2>2. ASSUME NEW i \in Slots, AskOk(i) PROVE FileOpen'
    <3>1. /\ walk # NoWalk /\ walk.cli \in Clis /\ walk.cmd # "query"
          /\ walk'.cli = walk.cli /\ UNCHANGED <<ffd, dest>>
      BY <2>2, WalkType, StepType DEF AskOk, Visit, At
    <3>2. \A k \in Clis \ {walk.cli} : waiting'[k] = waiting[k]
      BY <2>2, <3>1, <1>a, IncType DEF AskOk
    <3> QED BY <1>3, <3>1, <3>2
  <2>3. CASE EndWalk
    BY <1>3, <2>3 DEF EndWalk, cliVars
  <2> QED BY <1>3, <2>1, <2>2, <2>3, FailsNotCalm DEF WalkStep
<1>4. CASE Die
  BY <1>4 DEF Die
<1>5. ASSUME calm, Restart \/ UNCHANGED vars PROVE FileOpen'
  BY <1>5, <1>b DEF Restart, vars, cliVars
<1> QED BY <1>1, <1>2, <1>3, <1>4, <1>5, CalmIsNotRegained DEF Next

(***************************************************************************)
(* Until a client exits or fails an exchange, a report that names a file   *)
(* goes to it until the last client has reported, however many sessions    *)
(* report to files at once.                                                *)
(***************************************************************************)
THEOREM FileStaysOpenHolds == Spec => []FileStaysOpen
<1>1. FileInv => FileStaysOpen
  BY DEF FileInv, FileOpen, Reporting, FileStaysOpen
<1> QED BY InitFile, NextFile, <1>1, PTL DEF Spec

-----------------------------------------------------------------------------
(* The line editor: scans and strings                                      *)

\* Of the numbers from 0 to n that are in S there is a least one.
LEMMA Least ==
    ASSUME NEW n \in Nat, NEW S, S \subseteq 0..n, S # {}
    PROVE  \E x \in S : \A y \in S : x <= y
<1> DEFINE Down == {0..s : s \in S}
<1>1. IsWellFoundedOn(StrictSubsetOrdering(0..n), FiniteSubsetsOf(0..n))
  BY FS_StrictSubsetOrderingWellFounded, Zenon
<1>2. Down \subseteq FiniteSubsetsOf(0..n) /\ Down # {}
  <2>1. \A s \in S : s \in Int /\ 0..s \subseteq 0..n
    OBVIOUS
  <2>2. \A s \in S : IsFiniteSet(0..s)
    BY <2>1, FS_Interval
  <2> QED
    BY <2>1, <2>2, Zenon DEF FiniteSubsetsOf
<1>3. PICK d \in Down : \A e \in Down : <<e, d>> \notin StrictSubsetOrdering(0..n)
  <2> HIDE DEF Down
  <2> QED
    BY <1>1, <1>2, WFMin
<1>4. PICK x \in S : d = 0..x
  BY <1>3
<1>5. ASSUME NEW y \in S PROVE x <= y
  <2>1. <<0..y, 0..x>> \notin StrictSubsetOrdering(0..n)
    BY <1>3, <1>4
  <2>2. 0..y \subseteq 0..n /\ 0..x \subseteq 0..n /\ x \in Nat /\ y \in Nat
    BY <1>4
  <2>3. ~ (0..y \subseteq 0..x /\ 0..y # 0..x)
    BY <2>1, <2>2 DEF StrictSubsetOrdering
  <2>4. CASE y < x
    <3>1. 0..y \subseteq 0..x
      BY <2>2, <2>4
    <3>2. x \in 0..x /\ x \notin 0..y
      BY <2>2, <2>4
    <3> QED
      BY <2>3, <3>1, <3>2
  <2> QED
    BY <2>2, <2>4
<1> QED
  BY <1>4, <1>5

\* And a greatest one.
LEMMA Greatest ==
    ASSUME NEW n \in Nat, NEW S, S \subseteq 0..n, S # {}
    PROVE  \E x \in S : \A y \in S : y <= x
<1> DEFINE M == {n - s : s \in S}
<1>1. M \subseteq 0..n /\ M # {}
  <2>1. \A s \in S : n - s \in 0..n
    OBVIOUS
  <2> QED
    BY <2>1
<1>2. PICK m \in M : \A y \in M : m <= y
  <2> HIDE DEF M
  <2> QED
    BY <1>1, Least
<1>3. PICK x \in S : m = n - x
  BY <1>2
<1>4. ASSUME NEW y \in S PROVE y <= x
  <2>1. n - y \in M /\ x \in 0..n /\ y \in 0..n
    OBVIOUS
  <2>2. n - x <= n - y
    BY <1>2, <1>3, <2>1
  <2> QED
    BY <2>1, <2>2
<1> QED
  BY <1>4

\* Where a scan of lo..hi for what is in C stops, forwards and backwards.
Stops(lo, hi, C) ==
    {i \in lo..hi : (\A j \in lo .. i - 1 : j \notin C) /\ (i < hi => i \in C)}
StopsBack(lo, hi, C) ==
    {i \in lo..hi : (\A j \in i + 1 .. hi : j \notin C) /\ (i > lo => i \in C)}

\* A scan stops somewhere.
LEMMA Scan ==
    ASSUME NEW hi \in Nat, NEW lo \in 0..hi, NEW C
    PROVE  Stops(lo, hi, C) # {}
<1> DEFINE S == {i \in lo..hi : i \in C \/ i = hi}
<1>1. S \subseteq 0..hi /\ hi \in S
  OBVIOUS
<1>2. PICK i \in S : \A j \in S : i <= j
  <2> HIDE DEF S
  <2> QED
    BY <1>1, Least
<1>3. \A j \in lo .. i - 1 : j \notin C
  BY <1>2
<1>4. i \in Stops(lo, hi, C)
  BY <1>2, <1>3 DEF Stops
<1> QED
  BY <1>4

\* A scan backwards stops somewhere.
LEMMA ScanBack ==
    ASSUME NEW hi \in Nat, NEW lo \in 0..hi, NEW C
    PROVE  StopsBack(lo, hi, C) # {}
<1> DEFINE S == {i \in lo..hi : i \in C \/ i = lo}
<1>1. S \subseteq 0..hi /\ lo \in S
  OBVIOUS
<1>2. PICK i \in S : \A j \in S : j <= i
  <2> HIDE DEF S
  <2> QED
    BY <1>1, Greatest
<1>3. \A j \in i + 1 .. hi : j \notin C
  BY <1>2
<1>4. i \in StopsBack(lo, hi, C)
  BY <1>2, <1>3 DEF StopsBack
<1> QED
  BY <1>4

\* Span counts: all characters up to the count are in S, the one after it is not.
LEMMA SpanIs ==
    ASSUME NEW T, NEW s \in Seq(T), NEW S
    PROVE  /\ Span(s, S) \in 0..Len(s)
           /\ \A i \in 1..Span(s, S) : s[i] \in S
           /\ Span(s, S) < Len(s) => s[Span(s, S) + 1] \notin S
<1> DEFINE C == {i \in 0..Len(s) : s[i + 1] \notin S}
<1>1. PICK i \in Stops(0, Len(s), C) : TRUE
  <2>1. Len(s) \in Nat /\ 0 \in 0..Len(s)
    OBVIOUS
  <2> HIDE DEF C
  <2>9. Stops(0, Len(s), C) # {}
    BY <2>1, Scan
  <2> QED
    BY <2>9
<1>8. i \in 0..Len(s)
  BY DEF Stops
<1>2. \A j \in 1..i : s[j] \in S
  <2> TAKE j \in 1..i
  <2>1. j - 1 \in 0..i - 1 /\ j - 1 \in 0..Len(s) /\ (j - 1) + 1 = j
    BY <1>8
  <2> QED
    BY <1>1, <2>1 DEF Stops
<1>3. i < Len(s) => s[i + 1] \notin S
  BY <1>1 DEF Stops
<1> DEFINE Counts(n) == /\ \A j \in 1..n : s[j] \in S
                        /\ n < Len(s) => s[n + 1] \notin S
<1>4. \E n \in 0..Len(s) : Counts(n)
  BY <1>2, <1>3, <1>8
<1>5. Span(s, S) = CHOOSE n \in 0..Len(s) : Counts(n)
  BY DEF Span
<1>6. Span(s, S) \in 0..Len(s) /\ Counts(Span(s, S))
  <2> HIDE DEF Counts
  <2> QED
    BY <1>4, <1>5
<1> QED
  BY <1>6

\* The first n characters of a string.
LEMMA TakeIs ==
    ASSUME NEW T, NEW s \in Seq(T), NEW n \in Nat
    PROVE  /\ Take(s, n) \in Seq(T)
           /\ Len(Take(s, n)) = IF n < Len(s) THEN n ELSE Len(s)
           /\ \A i \in 1..Len(Take(s, n)) : Take(s, n)[i] = s[i]
BY DEF Take

\* What follows the first n characters of a string.
LEMMA DropIs ==
    ASSUME NEW T, NEW s \in Seq(T), NEW n \in 0..Len(s)
    PROVE  /\ Drop(s, n) \in Seq(T)
           /\ Len(Drop(s, n)) = Len(s) - n
           /\ \A i \in 1..Len(s) - n : Drop(s, n)[i] = s[i + n]
<1>1. SubSeq(s, n + 1, Len(s)) \in Seq(T)
  OBVIOUS
<1>2. Len(SubSeq(s, n + 1, Len(s))) = Len(s) - n
  OBVIOUS
<1>3. \A i \in 1..Len(s) - n : SubSeq(s, n + 1, Len(s))[i] = s[i + n]
  OBVIOUS
<1> QED
  BY <1>1, <1>2, <1>3 DEF Drop

\* The first word of a line is the line up to a place, and not empty when the
\* line starts with another character than a blank.
LEMMA WordIs ==
    ASSUME NEW T, NEW s \in Seq(T)
    PROVE  /\ Word(s) \in Seq(T)
           /\ Len(Word(s)) <= Len(s)
           /\ Word(s) # <<>> => Word(s)[1] = s[1]
<1> DEFINE C == {i \in 0..Len(s) : s[i + 1] = Blank}
           Ends(n) == /\ \A j \in 1..n : s[j] # Blank
                      /\ n < Len(s) => s[n + 1] = Blank
<1>1. PICK i \in Stops(0, Len(s), C) : TRUE
  <2>1. Len(s) \in Nat /\ 0 \in 0..Len(s)
    OBVIOUS
  <2> HIDE DEF C
  <2>9. Stops(0, Len(s), C) # {}
    BY <2>1, Scan
  <2> QED
    BY <2>9
<1>8. i \in 0..Len(s)
  BY DEF Stops
<1>2. \A j \in 1..i : s[j] # Blank
  <2> TAKE j \in 1..i
  <2>1. j - 1 \in 0..i - 1 /\ j - 1 \in 0..Len(s) /\ (j - 1) + 1 = j
    BY <1>8
  <2> QED
    BY <1>1, <2>1 DEF Stops
<1>3. \E n \in 0..Len(s) : Ends(n)
  BY <1>1, <1>2 DEF Stops
<1> DEFINE w == CHOOSE n \in 0..Len(s) : Ends(n)
<1>4. w \in 0..Len(s)
  <2> HIDE DEF Ends
  <2> QED
    BY <1>3
<1>5. Word(s) = Take(s, w)
  BY DEF Word
<1> HIDE DEF w
<1>6. w \in Nat
  BY <1>4
<1> QED
  BY <1>5, <1>4, <1>6, TakeIs

-----------------------------------------------------------------------------
(* The line editor: the history is the end of a log                        *)

Histories ==
    {h \in [nbuf : 1..MaxHist, cmds : Seq(Seq(Bytes)), ctag : Seq(Nat), curtag : Nat] :
       Len(h.cmds) = Len(h.ctag) /\ Len(h.cmds) <= h.nbuf}

\* The history is the end of a log of commands (HistoryIsLog).
EndOf(h, log) ==
    /\ Len(h.cmds) <= h.nbuf /\ Len(log) - Len(h.cmds) >= 0
    /\ h.curtag = Len(log)
    /\ \A i \in 1..Len(h.cmds) : /\ h.cmds[i] = log[Len(log) - Len(h.cmds) + i]
                                 /\ h.ctag[i] = Len(log) - Len(h.cmds) + i

\* hist_setmax keeps a history one, and the end of the same log.
LEMMA SetMaxKeeps ==
    ASSUME NEW h \in Histories, NEW n
    PROVE  /\ HistSetMax(h, n) \in Histories
           /\ HistSetMax(h, n).curtag = h.curtag
           /\ \A log \in Seq(Seq(Bytes)) : EndOf(h, log) => EndOf(HistSetMax(h, n), log)
<1> DEFINE start == IF n < Len(h.cmds) THEN Len(h.cmds) - n ELSE 0
           r     == [h EXCEPT !.nbuf = n, !.cmds = Drop(@, start), !.ctag = Drop(@, start)]
<1>1. CASE n \notin 1 .. MaxHist \/ n = h.nbuf
  <2>1. HistSetMax(h, n) = h
    BY <1>1 DEF HistSetMax
  <2> QED
    BY <2>1
<1>2. CASE ~ (n \notin 1 .. MaxHist \/ n = h.nbuf)
  <2>1. HistSetMax(h, n) = r
    BY <1>2 DEF HistSetMax
  <2>2. /\ n \in Nat /\ h.cmds \in Seq(Seq(Bytes)) /\ h.ctag \in Seq(Nat) /\ h.curtag \in Nat
        /\ Len(h.cmds) = Len(h.ctag) /\ start \in 0..Len(h.cmds)
        /\ h \in [nbuf : 1..MaxHist, cmds : Seq(Seq(Bytes)), ctag : Seq(Nat), curtag : Nat]
    BY <1>2, HistAssumption DEF Histories
  <2>3. /\ Drop(h.cmds, start) \in Seq(Seq(Bytes))
        /\ Len(Drop(h.cmds, start)) = Len(h.cmds) - start
        /\ \A i \in 1..Len(h.cmds) - start : Drop(h.cmds, start)[i] = h.cmds[i + start]
    <3> HIDE DEF start
    <3> QED
      BY <2>2, DropIs
  <2>4. /\ Drop(h.ctag, start) \in Seq(Nat)
        /\ Len(Drop(h.ctag, start)) = Len(h.ctag) - start
        /\ \A i \in 1..Len(h.ctag) - start : Drop(h.ctag, start)[i] = h.ctag[i + start]
    <3> HIDE DEF start
    <3> QED
      BY <2>2, DropIs
  <2>5. Len(h.cmds) - start <= n
    BY <2>2
  <2>6. /\ r.nbuf = n /\ r.cmds = Drop(h.cmds, start) /\ r.ctag = Drop(h.ctag, start)
        /\ r.curtag = h.curtag
        /\ r = [nbuf |-> n, cmds |-> Drop(h.cmds, start), ctag |-> Drop(h.ctag, start),
                curtag |-> h.curtag]
    <3> DEFINE newcmds == Drop(h.cmds, start)
               newctag == Drop(h.ctag, start)
    <3>1. r = [h EXCEPT !.nbuf = n, !.cmds = newcmds, !.ctag = newctag]
      OBVIOUS
    <3> HIDE DEF newcmds, newctag, r, start
    <3>2. r = [nbuf |-> n, cmds |-> newcmds, ctag |-> newctag, curtag |-> h.curtag]
      BY <2>2, <3>1
    <3> QED
      BY <3>2 DEF newcmds, newctag
  <2> HIDE DEF start, r
  <2>7. r \in Histories
    BY <2>6, <2>2, <2>3, <2>4, <2>5, <1>2 DEF Histories
  <2>8. ASSUME NEW log \in Seq(Seq(Bytes)), EndOf(h, log)
        PROVE  EndOf(r, log)
    <3>1. Len(r.cmds) = Len(h.cmds) - start /\ Len(r.cmds) <= r.nbuf
      BY <2>3, <2>5, <2>6
    <3>2. Len(log) - Len(r.cmds) >= 0 /\ r.curtag = Len(log)
      BY <2>8, <2>2, <2>6, <3>1 DEF EndOf
    <3>3. ASSUME NEW i \in 1..Len(r.cmds)
          PROVE  /\ r.cmds[i] = log[Len(log) - Len(r.cmds) + i]
                 /\ r.ctag[i] = Len(log) - Len(r.cmds) + i
      <4>1. i + start \in 1..Len(h.cmds) /\ i \in 1..Len(h.cmds) - start
        BY <3>1, <2>2
      <4>2. r.cmds[i] = h.cmds[i + start] /\ r.ctag[i] = h.ctag[i + start]
        BY <4>1, <2>3, <2>4, <2>6, <2>2
      <4>3. Len(log) - Len(h.cmds) + (i + start) = Len(log) - Len(r.cmds) + i
        BY <3>1, <2>2
      <4> QED
        BY <4>1, <4>2, <4>3, <2>8 DEF EndOf
    <3> QED
      BY <3>1, <3>2, <3>3 DEF EndOf
  <2> QED
    BY <2>1, <2>6, <2>7, <2>8
<1> QED
  BY <1>1, <1>2

\* A session begins with an empty history.
LEMMA InitIsHistory ==
    HistInit \in Histories /\ EndOf(HistInit, <<>>) /\ HistInit.cmds = <<>>
<1> DEFINE h0 == [nbuf |-> 0, cmds |-> <<>>, ctag |-> <<>>, curtag |-> 0]
<1>1. DefHist \in 1..MaxHist /\ DefHist # 0 /\ MaxHist \in Nat
  BY HistAssumption
<1>2. h0.nbuf = 0 /\ Len(h0.cmds) = 0 /\ ~ (DefHist < Len(h0.cmds))
  BY <1>1
<1>3. HistInit = [h0 EXCEPT !.nbuf = DefHist, !.cmds = Drop(@, 0), !.ctag = Drop(@, 0)]
  BY <1>1, <1>2 DEF HistInit, HistSetMax
<1>4. Drop(<<>>, 0) = <<>>
  BY DEF Drop
<1>5. HistInit = [nbuf |-> DefHist, cmds |-> <<>>, ctag |-> <<>>, curtag |-> 0]
  BY <1>3, <1>4
<1> QED
  BY <1>5, <1>1 DEF Histories, EndOf

\* An entry of the history is a string of bytes.
LEMMA EntryIs ==
    ASSUME NEW s1 \in Seq(Bytes), NEW s2 \in Seq(Bytes)
    PROVE  Entry(s1, s2) \in Seq(Bytes)
<1>1. s1 \o s2 \in Seq(Bytes) /\ MaxL \in Nat
  BY HistAssumption
<1> QED
  BY <1>1, TakeIs DEF Entry

\* hist_add makes the entry the last of the log, and drops nothing while there is room.
LEMMA AddKeeps ==
    ASSUME NEW h \in Histories, NEW s1 \in Seq(Bytes), NEW s2 \in Seq(Bytes)
    PROVE  /\ HistAdd(h, s1, s2) \in Histories
           /\ HistAdd(h, s1, s2).curtag = h.curtag + 1
           /\ Len(HistAdd(h, s1, s2).cmds) >= Len(h.cmds)
           /\ \A log \in Seq(Seq(Bytes)) :
                EndOf(h, log) => EndOf(HistAdd(h, s1, s2), Append(log, Entry(s1, s2)))
<1> DEFINE Kept(q) == IF Len(h.cmds) = h.nbuf THEN Tail(q) ELSE q
           gone    == IF Len(h.cmds) = h.nbuf THEN 1 ELSE 0
           x       == Entry(s1, s2)
           r       == HistAdd(h, s1, s2)
<1>1. /\ h.cmds \in Seq(Seq(Bytes)) /\ h.ctag \in Seq(Nat) /\ h.curtag \in Nat
      /\ h.nbuf \in 1..MaxHist /\ MaxHist \in Nat
      /\ Len(h.cmds) = Len(h.ctag) /\ Len(h.cmds) <= h.nbuf
      /\ Len(h.cmds) \in Nat
  BY HistAssumption DEF Histories
<1>2. x \in Seq(Bytes)
  BY EntryIs
<1>3. /\ r.nbuf = h.nbuf /\ r.cmds = Append(Kept(h.cmds), x)
      /\ r.ctag = Append(Kept(h.ctag), h.curtag + 1) /\ r.curtag = h.curtag + 1
      /\ r = [nbuf |-> h.nbuf, cmds |-> Append(Kept(h.cmds), x),
              ctag |-> Append(Kept(h.ctag), h.curtag + 1), curtag |-> h.curtag + 1]
  <2>1. r = [h EXCEPT !.cmds = Append(Kept(@), x), !.ctag = Append(Kept(@), h.curtag + 1),
                      !.curtag = @ + 1]
    BY DEF HistAdd
  <2>2. h \in [nbuf : 1..MaxHist, cmds : Seq(Seq(Bytes)), ctag : Seq(Nat), curtag : Nat]
    BY DEF Histories
  <2> HIDE DEF Kept, x, r
  <2> QED
    BY <2>1, <2>2
<1>4. /\ Kept(h.cmds) \in Seq(Seq(Bytes)) /\ Len(Kept(h.cmds)) = Len(h.cmds) - gone
      /\ \A i \in 1..Len(h.cmds) - gone : Kept(h.cmds)[i] = h.cmds[i + gone]
  <2>1. CASE Len(h.cmds) = h.nbuf
    <3>1. /\ Kept(h.cmds) = Tail(h.cmds) /\ gone = 1
          /\ h.cmds \in Seq(Seq(Bytes)) /\ h.cmds # <<>> /\ Len(h.cmds) = Len(h.cmds)
      BY <2>1, <1>1
    <3> HIDE DEF Kept, gone
    <3>2. /\ Tail(h.cmds) \in Seq(Seq(Bytes)) /\ Len(Tail(h.cmds)) = Len(h.cmds) - 1
          /\ \A i \in 1..Len(h.cmds) - 1 : Tail(h.cmds)[i] = h.cmds[i + 1]
      BY <3>1, HeadTailProperties
    <3> QED
      BY <3>1, <3>2
  <2>2. CASE Len(h.cmds) # h.nbuf
    <3>1. Kept(h.cmds) = h.cmds /\ gone = 0
      BY <2>2
    <3> HIDE DEF Kept, gone
    <3> QED
      BY <3>1, <1>1
  <2> QED
    BY <2>1, <2>2
<1>5. /\ Kept(h.ctag) \in Seq(Nat) /\ Len(Kept(h.ctag)) = Len(h.cmds) - gone
      /\ \A i \in 1..Len(h.cmds) - gone : Kept(h.ctag)[i] = h.ctag[i + gone]
  <2>1. CASE Len(h.cmds) = h.nbuf
    <3>1. /\ Kept(h.ctag) = Tail(h.ctag) /\ gone = 1
          /\ h.ctag \in Seq(Nat) /\ h.ctag # <<>> /\ Len(h.ctag) = Len(h.cmds)
      BY <2>1, <1>1
    <3> HIDE DEF Kept, gone
    <3>2. /\ Tail(h.ctag) \in Seq(Nat) /\ Len(Tail(h.ctag)) = Len(h.ctag) - 1
          /\ \A i \in 1..Len(h.ctag) - 1 : Tail(h.ctag)[i] = h.ctag[i + 1]
      BY <3>1, HeadTailProperties
    <3> QED
      BY <3>1, <3>2
  <2>2. CASE Len(h.cmds) # h.nbuf
    <3>1. Kept(h.ctag) = h.ctag /\ gone = 0
      BY <2>2
    <3> HIDE DEF Kept, gone
    <3> QED
      BY <3>1, <1>1
  <2> QED
    BY <2>1, <2>2
<1>6. gone \in 0..1 /\ Len(h.cmds) - gone + 1 <= h.nbuf /\ gone <= Len(h.cmds)
  <2>1. CASE Len(h.cmds) = h.nbuf
    BY <2>1, <1>1
  <2>2. CASE Len(h.cmds) # h.nbuf
    BY <2>2, <1>1
  <2> QED
    BY <2>1, <2>2
<1> HIDE DEF Kept, gone, x, r
<1>11. Len(h.cmds) \in Nat /\ gone \in Nat /\ Len(h.cmds) - gone \in Nat /\ h.curtag + 1 \in Nat
  BY <1>1, <1>6
<1>7. /\ r.cmds \in Seq(Seq(Bytes)) /\ Len(r.cmds) = Len(h.cmds) - gone + 1
      /\ \A i \in 1..Len(h.cmds) - gone : r.cmds[i] = h.cmds[i + gone]
      /\ r.cmds[Len(h.cmds) - gone + 1] = x
  <2> DEFINE q == Kept(h.cmds)
  <2>1. q \in Seq(Seq(Bytes)) /\ Len(q) = Len(h.cmds) - gone /\ r.cmds = Append(q, x)
    BY <1>3, <1>4
  <2> HIDE DEF q
  <2>2. /\ Append(q, x) \in Seq(Seq(Bytes)) /\ Len(Append(q, x)) = Len(q) + 1
        /\ \A i \in 1..Len(q) : Append(q, x)[i] = q[i]
        /\ Append(q, x)[Len(q) + 1] = x
    BY <1>2, <2>1, AppendProperties
  <2>3. \A i \in 1..Len(h.cmds) - gone : q[i] = h.cmds[i + gone]
    BY <1>4 DEF q
  <2> QED
    BY <2>1, <2>2, <2>3
<1>8. /\ r.ctag \in Seq(Nat) /\ Len(r.ctag) = Len(h.cmds) - gone + 1
      /\ \A i \in 1..Len(h.cmds) - gone : r.ctag[i] = h.ctag[i + gone]
      /\ r.ctag[Len(h.cmds) - gone + 1] = h.curtag + 1
  BY <1>1, <1>3, <1>5, <1>6, <1>11
<1>9. r \in Histories
  <2>1. r \in [nbuf : 1..MaxHist, cmds : Seq(Seq(Bytes)), ctag : Seq(Nat), curtag : Nat]
    <3>1. h.curtag + 1 \in Nat
      BY <1>1
    <3> QED
      BY <1>1, <1>3, <1>7, <1>8, <3>1
  <2> QED
    BY <2>1, <1>3, <1>6, <1>7, <1>8 DEF Histories
<1>10. ASSUME NEW log \in Seq(Seq(Bytes)), EndOf(h, log)
       PROVE  EndOf(r, Append(log, x))
  <2> DEFINE new == Append(log, x)
             k   == Len(log) - Len(h.cmds)
  <2>1. Len(new) = Len(log) + 1 /\ new[Len(log) + 1] = x /\ \A i \in 1..Len(log) : new[i] = log[i]
    BY <1>2
  <2>2. k \in Nat /\ h.curtag = Len(log) /\ Len(log) \in Nat
    BY <1>10, <1>1 DEF EndOf
  <2>3. \A i \in 1..Len(h.cmds) : h.cmds[i] = log[k + i] /\ h.ctag[i] = k + i
    BY <1>10 DEF EndOf
  <2>6. Len(log) = k + Len(h.cmds)
    BY <2>2, <1>1
  <2> HIDE DEF new, k
  <2>7. k + gone \in Nat /\ Len(r.cmds) \in Nat
    BY <2>2, <1>11, <1>7
  <2>4. /\ Len(r.cmds) <= r.nbuf /\ Len(new) - Len(r.cmds) = k + gone
        /\ Len(new) - Len(r.cmds) >= 0 /\ r.curtag = Len(new)
    <3>1. Len(r.cmds) <= r.nbuf
      BY <1>1, <1>3, <1>6, <1>7, <1>11
    <3>2. Len(new) - Len(r.cmds) = k + gone
      <4> DEFINE a == Len(h.cmds)
                 b == Len(log)
                 c == Len(new)
                 d == Len(r.cmds)
      <4>1. b = k + a /\ c = b + 1 /\ d = a - gone + 1 /\ a \in Nat /\ k \in Nat /\ gone \in Nat
        BY <2>1, <2>2, <2>6, <1>7, <1>11
      <4> HIDE DEF a, b, c, d
      <4>2. c - d = k + gone
        BY <4>1
      <4> QED
        BY <4>2 DEF c, d
    <3> QED
      BY <3>1, <3>2, <2>1, <2>2, <2>7, <1>3
  <2>5. ASSUME NEW i \in 1..Len(r.cmds)
        PROVE  r.cmds[i] = new[k + gone + i] /\ r.ctag[i] = k + gone + i
    <3>1. CASE i = Len(h.cmds) - gone + 1
      <4>1. k + gone + i = Len(log) + 1
        <5> DEFINE a == Len(h.cmds)
                   b == Len(log)
        <5>1. b = k + a /\ i = a - gone + 1 /\ a \in Nat /\ k \in Nat /\ gone \in Nat
          BY <3>1, <2>2, <2>6, <1>11
        <5> HIDE DEF a, b
        <5>2. k + gone + i = b + 1
          BY <5>1
        <5> QED
          BY <5>2 DEF b
      <4> QED
        BY <4>1, <3>1, <2>1, <2>2, <1>7, <1>8
    <3>2. CASE i # Len(h.cmds) - gone + 1
      <4>1. i \in 1..Len(h.cmds) - gone /\ i + gone \in 1..Len(h.cmds)
        <5> DEFINE a == Len(h.cmds)
        <5>1. /\ a \in Nat /\ gone \in 0..1 /\ gone <= a
              /\ i \in 1..a - gone + 1 /\ i # a - gone + 1
          BY <3>2, <1>7, <1>6, <1>11
        <5> HIDE DEF a
        <5>2. i \in 1..a - gone /\ i + gone \in 1..a
          BY <5>1
        <5> QED
          BY <5>2 DEF a
      <4>2. k + (i + gone) = k + gone + i /\ k + gone + i \in 1..Len(log)
        BY <4>1, <2>2, <2>6, <1>11, <1>6
      <4> QED
        BY <4>1, <4>2, <2>1, <2>3, <1>7, <1>8
    <3> QED
      BY <3>1, <3>2
  <2> QED
    BY <2>4, <2>5 DEF EndOf, new
<1> QED
  <2>1. Len(r.cmds) >= Len(h.cmds)
    BY <1>6, <1>7, <1>11
  <2> QED
    BY <2>1, <1>3, <1>9, <1>10 DEF r, x

-----------------------------------------------------------------------------
(* The line editor: what hist_cmd makes of a line                          *)

\* What hist_cmd may make of a history and a line: a history again, the end of the same log or
\* of the log with the command it returns, which loses nothing with a command it returns.
Sound(h, r) ==
    /\ r.hist \in Histories /\ r.ret \in Seq(Bytes) /\ r.wild \in BOOLEAN
    /\ r.wild \/ r.ret # <<>> => Len(r.hist.cmds) >= Len(h.cmds)
    /\ \A log \in Seq(Seq(Bytes)) :
         EndOf(h, log) => EndOf(r.hist, IF r.hist.curtag = h.curtag THEN log
                                        ELSE Append(log, r.ret))

\* A command that returns nothing leaves the history or makes it shorter.
LEMMA NothingSound ==
    ASSUME NEW h \in Histories
    PROVE  /\ Sound(h, Nothing(h)) /\ Sound(h, Wild(h))
           /\ \A n : Sound(h, Nothing(HistSetMax(h, n)))
<1>1. Sound(h, Nothing(h)) /\ Sound(h, Wild(h))
  BY DEF Nothing, Wild, Sound
<1>2. ASSUME NEW n PROVE Sound(h, Nothing(HistSetMax(h, n)))
  BY SetMaxKeeps DEF Nothing, Sound
<1> QED
  BY <1>1, <1>2

\* A command that is added is sound.
LEMMA AddedSound ==
    ASSUME NEW h \in Histories, NEW s1 \in Seq(Bytes), NEW s2 \in Seq(Bytes)
    PROVE  Sound(h, Added(h, s1, s2))
<1> DEFINE r == Added(h, s1, s2)
<1>1. r.hist = HistAdd(h, s1, s2) /\ r.ret = Entry(s1, s2) /\ r.wild = FALSE
  BY DEF Added
<1>2. h.curtag \in Nat
  BY DEF Histories
<1>3. HistAdd(h, s1, s2).curtag # h.curtag
  BY <1>2, AddKeeps
<1> HIDE DEF r
<1>4. r.hist \in Histories /\ r.ret \in Seq(Bytes) /\ r.wild \in BOOLEAN
  <2>1. HistAdd(h, s1, s2) \in Histories
    BY AddKeeps
  <2>2. Entry(s1, s2) \in Seq(Bytes)
    BY EntryIs
  <2> QED
    BY <1>1, <2>1, <2>2
<1>5. Len(r.hist.cmds) >= Len(h.cmds)
  BY <1>1, AddKeeps
<1>6. ASSUME NEW log \in Seq(Seq(Bytes)), EndOf(h, log)
      PROVE  EndOf(r.hist, Append(log, r.ret))
  <2>1. EndOf(HistAdd(h, s1, s2), Append(log, Entry(s1, s2)))
    BY <1>6, AddKeeps
  <2> QED
    BY <2>1, <1>1
<1>7. r.hist.curtag # h.curtag
  BY <1>1, <1>3
<1>8. Sound(h, r)
  BY <1>4, <1>5, <1>6, <1>7 DEF Sound
<1> QED
  BY <1>8 DEF r

\* So is one that is repeated, or found where nobody wrote.
LEMMA RepeatSound ==
    ASSUME NEW h \in Histories, NEW idx, NEW xtra \in Seq(Bytes)
    PROVE  Sound(h, Repeat(h, idx, xtra))
<1>1. CASE idx \in 0 .. Len(h.cmds) - 1
  <2>1. h.cmds \in Seq(Seq(Bytes))
    BY DEF Histories
  <2>2. h.cmds[idx + 1] \in Seq(Bytes)
    BY <1>1, <2>1
  <2> QED
    BY <1>1, <2>2, AddedSound DEF Repeat
<1>2. CASE idx \notin 0 .. Len(h.cmds) - 1
  BY <1>2, NothingSound DEF Repeat
<1> QED
  BY <1>1, <1>2

\* sscanf finds no number in an empty string.
LEMMA ScanEmpty == ScanInt(<<>>) = <<>>
<1>1. <<>> \in Seq(Bytes) /\ Len(<<>>) = 0
  OBVIOUS
<1>2. ASSUME NEW S PROVE Span(<<>>, S) = 0
  <2>1. Span(<<>>, S) \in 0..Len(<<>>)
    BY <1>1, SpanIs
  <2> QED
    BY <2>1, <1>1
<1>3. Drop(<<>>, 0) = <<>>
  BY DEF Drop
<1> QED
  BY <1>2, <1>3 DEF ScanInt

\* "!n" and "!-n" are sound, whatever n is.
LEMMA RecallNumberSound ==
    ASSUME NEW h \in Histories, NEW tok \in Seq(Bytes), tok # <<>>,
           NEW n, NEW r \in RecallNumber(h, tok, n)
    PROVE  Sound(h, r)
<1> DEFINE rel  == tok[1] = "-"
           rest == Drop(tok, IF rel THEN 1 ELSE 0)
           xtra == Drop(rest, Span(rest, Digits))
<1>1. rest \in Seq(Bytes)
  <2>1. (IF rel THEN 1 ELSE 0) \in 0..Len(tok)
    OBVIOUS
  <2> QED
    BY <2>1, DropIs
<1> HIDE DEF rest
<1>2. xtra \in Seq(Bytes)
  BY <1>1, SpanIs, DropIs
<1> HIDE DEF xtra
<1>3. r \in IF rel
            THEN {IF Len(h.cmds) > -n THEN Repeat(h, Len(h.cmds) + n, xtra) ELSE Nothing(h)}
            ELSE {IF i >= 0 THEN Repeat(h, i, xtra) ELSE Nothing(h) : i \in GetIdx(h, n)}
  BY DEF RecallNumber, xtra, rest
<1>4. r = Nothing(h) \/ \E idx : r = Repeat(h, idx, xtra)
  BY <1>3
<1> QED
  BY <1>2, <1>4, RepeatSound, NothingSound

\* So are all lines with an exclamation mark.
LEMMA RecallSound ==
    ASSUME NEW h \in Histories, NEW line \in Seq(Bytes), line # <<>>,
           NEW r \in Recall(h, line)
    PROVE  Sound(h, r)
<1> DEFINE tok == Tail(line)
<1>1. tok \in Seq(Bytes)
  OBVIOUS
<1> HIDE DEF tok
<1>2. CASE tok # <<>> /\ tok[1] = "!"
  <2>1. Tail(tok) \in Seq(Bytes)
    BY <1>1, <1>2
  <2>2. r = Nothing(h) \/ r = Repeat(h, Len(h.cmds) - 1, Tail(tok))
    BY <1>2 DEF Recall, tok
  <2> QED
    BY <2>1, <2>2, RepeatSound, NothingSound
<1>3. CASE ~ (tok # <<>> /\ tok[1] = "!") /\ ScanInt(tok) # <<>>
  <2>1. r \in RecallNumber(h, tok, ScanInt(tok)[1])
    BY <1>3 DEF Recall, tok
  <2> QED
    BY <2>1, <1>1, <1>3, ScanEmpty, RecallNumberSound
<1>4. CASE ~ (tok # <<>> /\ tok[1] = "!") /\ ScanInt(tok) = <<>>
  <2>1. r = RecallText(h, tok)
    BY <1>4 DEF Recall, tok
  <2>2. Drop(tok, Len(Word(tok))) \in Seq(Bytes)
    <3>1. Len(Word(tok)) \in 0..Len(tok)
      BY <1>1, WordIs
    <3> QED
      BY <1>1, <3>1, DropIs
  <2>3. r = Nothing(h) \/ \E idx : r = Repeat(h, idx, Drop(tok, Len(Word(tok))))
    BY <2>1 DEF RecallText
  <2> QED
    BY <2>2, <2>3, RepeatSound, NothingSound
<1> QED
  BY <1>2, <1>3, <1>4

\* Every line is.
LEMMA HistCmdSound ==
    ASSUME NEW h \in Histories, NEW line \in Seq(Bytes),
           NEW r \in HistCmd(h, line)
    PROVE  Sound(h, r)
<1> DEFINE cmd == Drop(line, Span(line, {Blank}))
<1>1. cmd \in Seq(Bytes) /\ (line = <<>> => cmd = <<>>)
  <2>1. Span(line, {Blank}) \in 0..Len(line)
    BY SpanIs
  <2>2. cmd \in Seq(Bytes) /\ Len(cmd) = Len(line) - Span(line, {Blank})
    BY <2>1, DropIs
  <2> HIDE DEF cmd
  <2> QED
    BY <2>1, <2>2
<1> HIDE DEF cmd
<1>2. \/ r = Nothing(h)
      \/ r = HistoryCmd(h, cmd)
      \/ line # <<>> /\ r \in Recall(h, line)
      \/ r = Added(h, cmd, <<>>)
  BY <1>1 DEF HistCmd, cmd
<1>3. r = HistoryCmd(h, cmd) => r = Nothing(h) \/ \E n : r = Nothing(HistSetMax(h, n))
  BY DEF HistoryCmd
<1>4. <<>> \in Seq(Bytes)
  OBVIOUS
<1> QED
  BY <1>1, <1>2, <1>3, <1>4, NothingSound, AddedSound, RecallSound

\* "!n" of a number n that is listed returns the command that has it in the log, with what
\* follows the number added, or uses memory that nobody wrote.
LEMMA NumberRecalled ==
    ASSUME NEW h \in Histories, NEW log \in Seq(Seq(Bytes)),
           EndOf(h, log), NEW line \in Seq(Bytes), Len(line) > 1, line[1] = "!",
           line[2] \in Digits, ScanInt(Tail(line))[1] \in {h.ctag[i] : i \in DOMAIN h.ctag},
           NEW r \in HistCmd(h, line)
    PROVE  r.wild \/ r.ret = Entry(log[ScanInt(Tail(line))[1]],
                                   Drop(line, 1 + Span(Tail(line), Digits)))
<1> DEFINE tok == Tail(line)
           n   == ScanInt(tok)[1]
           m   == Span(tok, Digits)
<1>1. tok \in Seq(Bytes) /\ Len(tok) = Len(line) - 1 /\ tok # <<>> /\ tok[1] = line[2]
  <2>1. line # <<>> /\ Len(line) \in Nat
    OBVIOUS
  <2>2. /\ tok \in Seq(Bytes) /\ Len(tok) = Len(line) - 1
        /\ \A i \in 1..Len(line) - 1 : tok[i] = line[i + 1]
    BY <2>1, HeadTailProperties
  <2>3. 1 \in 1..Len(line) - 1
    BY <2>1
  <2> HIDE DEF tok
  <2> QED
    BY <2>1, <2>2, <2>3
<1>2. tok[1] \in Digits /\ tok[1] \notin {Blank, "!", "-", "+"}
  BY <1>1, DigitsAssumption
<1> HIDE DEF tok
<1>3. \A S, s : s \in Seq(Bytes) /\ s # <<>> /\ s[1] \notin S => Span(s, S) = 0
  <2> TAKE S, s
  <2> HAVE s \in Seq(Bytes) /\ s # <<>> /\ s[1] \notin S
  <2>1. Span(s, S) \in 0..Len(s) /\ \A i \in 1..Span(s, S) : s[i] \in S
    BY SpanIs
  <2> QED
    BY <2>1
<1>4. \A s \in Seq(Bytes) : Drop(s, 0) = s
  BY DEF Drop
<1>5. m \in 1..Len(tok)
  <2>1. m \in 0..Len(tok) /\ (m < Len(tok) => tok[m + 1] \notin Digits)
    BY <1>1, SpanIs
  <2> HIDE DEF m
  <2> QED
    BY <2>1, <1>1, <1>2
<1>6. ScanInt(tok) # <<>>
  <2>1. Span(tok, {Blank}) = 0 /\ Drop(tok, 0) = tok
    BY <1>1, <1>2, <1>3, <1>4
  <2> HIDE DEF m
  <2>2. Span(tok, Digits) # 0
    BY <1>5 DEF m
  <2> QED
    BY <2>1, <2>2, <1>2 DEF ScanInt
<1> HIDE DEF n, m
<1>7. r \in RecallNumber(h, tok, n)
  <2>4. line # <<>> /\ line[1] \notin {Blank}
    <3>1. "!" # " "
      OBVIOUS
    <3>2. line # <<>>
      OBVIOUS
    <3> QED
      BY <3>1, <3>2 DEF Blank
  <2>1. Span(line, {Blank}) = 0 /\ Drop(line, 0) = line
    BY <2>4, <1>3, <1>4
  <2>2. Word(line) \notin HistoryWords
    <3>1. \A w \in HistoryWords : w # <<>> /\ w[1] = "h"
      BY DEF HistoryWords
    <3>2. Word(line) # <<>> => Word(line)[1] = "!"
      BY WordIs
    <3> QED
      BY <3>1, <3>2
  <2>3. r \in Recall(h, line)
    BY <2>1, <2>2, <2>4 DEF HistCmd
  <2> QED
    BY <2>3, <1>2, <1>6 DEF Recall, tok, n
<1>8. PICK i \in GetIdx(h, n) :
         r = IF i >= 0 THEN Repeat(h, i, Drop(tok, m)) ELSE Nothing(h)
  BY <1>1, <1>2, <1>4, <1>7 DEF RecallNumber, m
<1> DEFINE k == Len(log) - Len(h.cmds)
<1>9. /\ h.cmds \in Seq(Seq(Bytes)) /\ h.ctag \in Seq(Nat) /\ Len(h.ctag) = Len(h.cmds)
      /\ k \in Nat
      /\ \A j \in 1..Len(h.cmds) : h.cmds[j] = log[k + j] /\ h.ctag[j] = k + j
  <2>1. h.cmds \in Seq(Seq(Bytes)) /\ h.ctag \in Seq(Nat) /\ Len(h.ctag) = Len(h.cmds)
    BY DEF Histories
  <2>2. k >= 0 /\ Len(log) \in Nat /\ Len(h.cmds) \in Nat
    BY <2>1 DEF EndOf
  <2>3. \A j \in 1..Len(h.cmds) : h.cmds[j] = log[k + j] /\ h.ctag[j] = k + j
    BY DEF EndOf
  <2>4. k \in Nat
    BY <2>2
  <2> HIDE DEF k
  <2> QED
    BY <2>1, <2>3, <2>4
<1> HIDE DEF k
<1>14. Len(h.cmds) \in Nat /\ DOMAIN h.ctag = 1..Len(h.cmds)
  BY <1>9
<1>10. PICK j \in 1..Len(h.cmds) : n = h.ctag[j]
  BY <1>14 DEF n, tok
<1>11. i = j - 1 \/ i = Len(h.cmds)
  <2> DEFINE hits == {l \in 0 .. Len(h.cmds) - 1 : h.ctag[l + 1] = n}
  <2>1. hits = {j - 1}
    <3>1. \A l \in 0 .. Len(h.cmds) - 1 : l + 1 \in 1..Len(h.cmds) /\ h.ctag[l + 1] = k + (l + 1)
      BY <1>9, <1>14
    <3>2. n = k + j /\ j - 1 \in 0 .. Len(h.cmds) - 1
      BY <1>9, <1>10, <1>14
    <3>3. ASSUME NEW l \in 0 .. Len(h.cmds) - 1
          PROVE  h.ctag[l + 1] = n <=> l = j - 1
      <4>1. k + (l + 1) = k + j <=> l = j - 1
        <5>1. k \in Nat /\ j \in Nat /\ l \in Nat
          BY <1>9, <1>14
        <5> QED
          BY <5>1
      <4> QED
        BY <4>1, <3>1, <3>2
    <3> QED
      BY <3>2, <3>3
  <2> HIDE DEF hits
  <2>2. (CHOOSE l \in hits : \A q \in hits : q <= l) = j - 1
    BY <2>1
  <2> QED
    BY <2>1, <2>2 DEF GetIdx, hits
<1>12. CASE i = Len(h.cmds)
  <2>1. i >= 0 /\ i \notin 0 .. Len(h.cmds) - 1
    BY <1>12, <1>9
  <2> QED
    BY <2>1, <1>8 DEF Repeat, Wild
<1>13. CASE i = j - 1
  <2>1. i >= 0 /\ i \in 0 .. Len(h.cmds) - 1 /\ i + 1 = j /\ n = k + j
    BY <1>13, <1>9, <1>10, <1>14
  <2>2. r.ret = Entry(log[n], Drop(tok, m))
    BY <2>1, <1>8, <1>9 DEF Repeat, Added
  <2>3. Drop(tok, m) = Drop(line, 1 + m)
    <3>1. 1 + m \in 0..Len(line) /\ m \in 0..Len(tok)
      BY <1>1, <1>5
    <3>6. m \in 0..Len(tok)
      BY <1>5
    <3> HIDE DEF m
    <3>2. /\ Drop(tok, m) \in Seq(Bytes) /\ Len(Drop(tok, m)) = Len(tok) - m
          /\ \A l \in 1..Len(tok) - m : Drop(tok, m)[l] = tok[l + m]
      <4>1. tok \in Seq(Bytes)
        BY <1>1
      <4> QED
        BY <3>6, <4>1, DropIs, Zenon
    <3>3. /\ Drop(line, 1 + m) \in Seq(Bytes) /\ Len(Drop(line, 1 + m)) = Len(line) - (1 + m)
          /\ \A l \in 1..Len(line) - (1 + m) : Drop(line, 1 + m)[l] = line[l + (1 + m)]
      BY <3>1, DropIs
    <3>4. \A l \in 1..Len(tok) - m : l + m \in 1..Len(tok) /\ tok[l + m] = line[l + (1 + m)]
      <4> TAKE l \in 1..Len(tok) - m
      <4>1. l + m \in 1..Len(tok) /\ (l + m) + 1 = l + (1 + m)
        BY <1>5, <1>1
      <4>2. \A q \in 1..Len(line) - 1 : Tail(line)[q] = line[q + 1]
        OBVIOUS
      <4> QED
        BY <4>1, <4>2, <1>1 DEF tok
    <3>5. Len(tok) - m = Len(line) - (1 + m)
      BY <1>1, <1>5
    <3>7. \A l \in 1..Len(Drop(tok, m)) : Drop(tok, m)[l] = Drop(line, 1 + m)[l]
      BY <3>2, <3>3, <3>4, <3>5
    <3>8. Len(Drop(tok, m)) = Len(Drop(line, 1 + m))
      BY <3>2, <3>3, <3>5
    <3> HIDE DEF tok
    <3> QED
      BY <3>2, <3>3, <3>7, <3>8, SeqEqual
  <2> QED
    BY <2>2, <2>3 DEF n, m, tok
<1> QED
  BY <1>11, <1>12, <1>13

-----------------------------------------------------------------------------
(* The line editor: the buffer                                             *)

Char == Bytes \cup {NUL}

\* A buffer whose first cell is the prompt.
Line(b) ==
    /\ b \in [Index -> Char \cup {">"}] /\ b[0] = ">"
    /\ \A i \in PLen .. MaxL - 1 : b[i] \in Char

\* The text of length m in b has its end, or nothing after it has.
Whole(b, m) ==
    /\ \A i \in 0 .. m - 1 : b[i] # NUL
    /\ m < MaxL => b[m] = NUL \/ \A i \in m .. MaxL - 1 : b[i] # NUL

\* Where a string that starts in the buffer ends.
LEMMA StrEndIs ==
    ASSUME NEW b, NEW p \in 0..MaxL
    PROVE  /\ StrEnd(b, p) \in p..MaxL
           /\ \A j \in p .. StrEnd(b, p) - 1 : b[j] # NUL
           /\ StrEnd(b, p) < MaxL => b[StrEnd(b, p)] = NUL
<1> DEFINE Ends(i) == b[i] = NUL /\ \A j \in p .. i - 1 : b[j] # NUL
<1>1. MaxL \in Nat
  BY HistAssumption
<1>2. CASE \E i \in p .. MaxL - 1 : b[i] = NUL
  <2> DEFINE C == {i \in p .. MaxL - 1 : b[i] = NUL}
  <2>1. PICK i \in Stops(p, MaxL, C) : TRUE
    <3> HIDE DEF C
    <3>9. Stops(p, MaxL, C) # {}
      BY <1>1, Scan
    <3> QED
      BY <3>9
  <2>2. i \in p .. MaxL - 1 /\ Ends(i)
    BY <1>1, <1>2, <2>1 DEF Stops
  <2>3. StrEnd(b, p) = CHOOSE l \in p .. MaxL - 1 : Ends(l)
    BY <1>2 DEF StrEnd
  <2>4. StrEnd(b, p) \in p .. MaxL - 1 /\ Ends(StrEnd(b, p))
    <3> HIDE DEF Ends
    <3> QED
      BY <2>2, <2>3
  <2> QED
    BY <2>4, <1>1
<1>3. CASE ~ \E i \in p .. MaxL - 1 : b[i] = NUL
  <2>1. StrEnd(b, p) = MaxL
    BY <1>3 DEF StrEnd
  <2> QED
    BY <2>1, <1>1, <1>3
<1> QED
  BY <1>2, <1>3

\* The end of a text is the first NUL, and there is one first.
LEMMA StrEndAt ==
    ASSUME NEW b, NEW p \in 0..MaxL, NEW e \in p..MaxL,
           \A j \in p .. e - 1 : b[j] # NUL, e < MaxL => b[e] = NUL
    PROVE  StrEnd(b, p) = e
<1> DEFINE f == StrEnd(b, p)
<1>1. /\ f \in p..MaxL /\ \A j \in p .. f - 1 : b[j] # NUL
      /\ f < MaxL => b[f] = NUL
  BY StrEndIs
<1> HIDE DEF f
<1>2. MaxL \in Nat
  BY HistAssumption
<1>3. ~ (f < e)
  BY <1>1, <1>2
<1>4. ~ (e < f)
  BY <1>1, <1>2
<1>5. f = e
  BY <1>1, <1>2, <1>3, <1>4
<1> QED
  BY <1>5 DEF f

\* What strlen makes of a buffer is as long as any text without a NUL at its start.
LEMMA MeasureIs ==
    ASSUME NEW b, Line(b)
    PROVE  /\ StrEnd(b, 0) \in PLen..MaxL
           /\ Whole(b, StrEnd(b, 0))
           /\ \A c \in 0..MaxL : (\A j \in 0 .. c - 1 : b[j] # NUL) => c <= StrEnd(b, 0)
<1> DEFINE f == StrEnd(b, 0)
<1>1. MaxL \in Nat \ {0, 1}
  BY HistAssumption
<1>2. /\ f \in 0..MaxL /\ \A j \in 0 .. f - 1 : b[j] # NUL
      /\ f < MaxL => b[f] = NUL
  BY <1>1, StrEndIs
<1> HIDE DEF f
<1>3. \A c \in 0..MaxL : (\A j \in 0 .. c - 1 : b[j] # NUL) => c <= f
  BY <1>1, <1>2
<1>4. 1 \in 0..MaxL /\ \A j \in 0 .. 1 - 1 : b[j] # NUL
  BY <1>1 DEF Line, NUL
<1>5. 1 <= f
  BY <1>3, <1>4
<1>6. f \in PLen..MaxL
  BY <1>1, <1>2, <1>5 DEF PLen
<1>7. Whole(b, f)
  BY <1>2 DEF Whole
<1> QED
  BY <1>3, <1>6, <1>7 DEF f

\* memmove within the line leaves a line, and moves what it says.
LEMMA MoveIs ==
    ASSUME NEW b, Line(b), NEW dst \in PLen..MaxL, NEW src \in PLen..MaxL,
           NEW n \in 0 .. MaxL - src
    PROVE  /\ Line(MemMove(b, dst, src, n))
           /\ \A i \in Index : MemMove(b, dst, src, n)[i] =
                                 IF i \in dst .. dst + n - 1 THEN b[i - dst + src] ELSE b[i]
<1> DEFINE m == MemMove(b, dst, src, n)
<1>1. MaxL \in Nat \ {0, 1} /\ Index = 0 .. MaxL - 1 /\ PLen = 1
  BY HistAssumption DEF Index, PLen
<1>2. \A i \in Index : m[i] = IF i \in dst .. dst + n - 1 THEN b[i - dst + src] ELSE b[i]
  BY DEF MemMove
<1>3. ASSUME NEW i \in Index, i \in dst .. dst + n - 1
      PROVE  i - dst + src \in PLen .. MaxL - 1
  BY <1>1, <1>3
<1>4. m = [i \in Index |-> m[i]]
  BY DEF MemMove
<1> HIDE DEF m
<1>5. 0 \in Index /\ 0 \notin dst .. dst + n - 1
  BY <1>1
<1>6. m[0] = ">"
  BY <1>2, <1>5 DEF Line
<1>7. \A i \in PLen .. MaxL - 1 : i \in Index /\ m[i] \in Char
  BY <1>1, <1>2, <1>3 DEF Line
<1>8. \A i \in Index : m[i] \in Char \cup {">"}
  <2> TAKE i \in Index
  <2>1. i = 0 \/ i \in PLen .. MaxL - 1
    BY <1>1
  <2> QED
    BY <2>1, <1>6, <1>7
<1>9. m \in [Index -> Char \cup {">"}]
  BY <1>4, <1>8
<1> QED
  BY <1>2, <1>6, <1>7, <1>9 DEF Line, m

\* A string that fits with its end becomes the text.
LEMMA CopyIs ==
    ASSUME NEW b, Line(b), NEW s \in Seq(Bytes),
           PLen + Len(s) < MaxL
    PROVE  Line(StrCpy(b, s)) /\ StrEnd(StrCpy(b, s), 0) = PLen + Len(s)
<1> DEFINE c == StrCpy(b, s)
<1>1. MaxL \in Nat \ {0, 1} /\ Index = 0 .. MaxL - 1 /\ PLen = 1 /\ Len(s) \in Nat
  BY HistAssumption DEF Index, PLen
<1>2. \A i \in Index : c[i] = IF i \in PLen .. PLen + Len(s) - 1 THEN s[i - PLen + 1]
                              ELSE IF i = PLen + Len(s) THEN NUL ELSE b[i]
  BY DEF StrCpy
<1>3. c = [i \in Index |-> c[i]]
  BY DEF StrCpy
<1> HIDE DEF c
<1>4. ASSUME NEW i \in PLen .. PLen + Len(s) - 1
      PROVE  i \in Index /\ c[i] \in Bytes
  <2>1. i - PLen + 1 \in 1..Len(s) /\ i \in Index
    BY <1>1
  <2>2. s[i - PLen + 1] \in Bytes
    BY <2>1
  <2> QED
    BY <2>1, <2>2, <1>2
<1>5. ASSUME NEW i \in PLen + Len(s) .. MaxL - 1
      PROVE  i \in Index /\ c[i] = IF i = PLen + Len(s) THEN NUL ELSE b[i]
  BY <1>1, <1>2
<1>6. c[0] = ">"
  <2>1. 0 \in Index /\ 0 \notin PLen .. PLen + Len(s) - 1 /\ 0 # PLen + Len(s)
    BY <1>1
  <2> QED
    BY <2>1, <1>2 DEF Line
<1>7. \A i \in PLen .. MaxL - 1 : c[i] \in Char
  <2> TAKE i \in PLen .. MaxL - 1
  <2>1. CASE i \in PLen .. PLen + Len(s) - 1
    BY <2>1, <1>4 DEF Char
  <2>2. CASE i \in PLen + Len(s) .. MaxL - 1
    BY <2>2, <1>5 DEF Char, Line
  <2> QED
    BY <2>1, <2>2, <1>1
<1>8. \A i \in Index : c[i] \in Char \cup {">"}
  <2> TAKE i \in Index
  <2>1. i = 0 \/ i \in PLen .. MaxL - 1
    BY <1>1
  <2> QED
    BY <2>1, <1>6, <1>7
<1>9. Line(c)
  BY <1>3, <1>6, <1>7, <1>8 DEF Line
<1>10. \A j \in 0 .. PLen + Len(s) - 1 : c[j] # NUL
  <2> TAKE j \in 0 .. PLen + Len(s) - 1
  <2>1. CASE j = 0
    BY <2>1, <1>6 DEF NUL
  <2>2. CASE j \in PLen .. PLen + Len(s) - 1
    BY <2>2, <1>4, EditorAssumption DEF NUL
  <2> QED
    BY <2>1, <2>2, <1>1
<1>11. c[PLen + Len(s)] = NUL /\ PLen + Len(s) \in 0..MaxL
  BY <1>1, <1>5
<1>12. StrEnd(c, 0) = PLen + Len(s)
  BY <1>1, <1>10, <1>11, StrEndAt
<1> QED
  BY <1>9, <1>12 DEF c

\* A line that ends in the buffer is a command of bytes.
LEMMA TextIs ==
    ASSUME NEW b, Line(b), StrEnd(b, PLen) # MaxL
    PROVE  Text(b) \in Seq(Bytes)
<1> DEFINE e == StrEnd(b, PLen)
<1>1. MaxL \in Nat \ {0, 1} /\ PLen = 1 /\ PLen \in 0..MaxL
  BY HistAssumption DEF PLen
<1>2. e \in PLen..MaxL /\ \A j \in PLen .. e - 1 : b[j] # NUL
  BY <1>1, StrEndIs
<1>3. Text(b) = [i \in 1 .. e - PLen |-> b[PLen + i - 1]]
  BY DEF Text
<1> HIDE DEF e
<1>4. ASSUME NEW i \in 1 .. e - PLen
      PROVE  b[PLen + i - 1] \in Bytes
  <2>1. PLen + i - 1 \in PLen .. e - 1 /\ PLen + i - 1 \in PLen .. MaxL - 1
    BY <1>1, <1>2
  <2> QED
    BY <2>1, <1>2 DEF Line, Char
<1>5. e - PLen \in Nat
  BY <1>1, <1>2
<1> QED
  BY <1>3, <1>4, <1>5

-----------------------------------------------------------------------------
(* The line editor: keys and words                                         *)

Session ==
    /\ online \in BOOLEAN /\ busy \in BOOLEAN /\ wild \in BOOLEAN
    /\ iac \in 0..2 /\ seq \in Seq(Bytes)
    /\ hist \in Histories
    /\ entered \in Seq(Seq(Bytes)) /\ sent \in Seq(Bytes)

Cursor ==
    /\ Line(cells) /\ maxpos \in PLen..MaxL /\ curpos \in PLen..maxpos
    /\ histoff \in 0..Len(hist.cmds)

Shown == ~wild => Whole(cells, maxpos)

EditorInv == Session /\ Cursor /\ Shown /\ HistoryIsLog

\* An input is one of a session that is read, and inserts a byte when it inserts.
LEMMA InputIs ==
    ASSUME Session, NEW in \in Inputs
    PROVE  /\ online /\ ~busy /\ ~wild
           /\ in.iac \in 0..2 /\ in.seq \in Seq(Bytes)
           /\ in.key = "INSERT" => in.char \in Bytes
<1>1. online /\ ~busy /\ ~wild /\ \E b \in Bytes : in = Input(b)
  BY DEF Inputs
<1>2. PICK b \in Bytes : in = Input(b)
  BY <1>1
<1> DEFINE s == Append(seq, b)
           In(key, q) == [key |-> key, char |-> NUL, iac |-> Negotiated(b), seq |-> q]
           first == CHOOSE i \in Completed(s) : \A j \in Completed(s) : i <= j
<1>3. Negotiated(b) \in 0..2
  BY DEF Negotiated, Session
<1>4. s \in Seq(Bytes) /\ seq \in Seq(Bytes) /\ <<>> \in Seq(Bytes)
  BY DEF Session
<1> HIDE DEF s
<1>5. \A c \in DOMAIN Control : Control[c] # "INSERT"
  BY DEF Control
<1>6. Completed(s) # {} => Codes[first] # "INSERT"
  <2> SUFFICES ASSUME Completed(s) # {} PROVE Codes[first] # "INSERT"
    OBVIOUS
  <2>1. DOMAIN Strings = 1..16
    BY DEF Strings
  <2>2. Completed(s) \subseteq 0..16 /\ Completed(s) \subseteq 1..16
    <3>1. Completed(s) \subseteq DOMAIN Strings
      BY DEF Completed
    <3>2. 1..16 \subseteq 0..16
      OBVIOUS
    <3> QED
      BY <2>1, <3>1, <3>2
  <2>3. \E i \in Completed(s) : \A j \in Completed(s) : i <= j
    BY <2>2, Least
  <2>4. first \in 1..16
    BY <2>2, <2>3
  <2> HIDE DEF first
  <2>5. \A i \in 1..16 : Codes[i] # "INSERT"
    BY DEF Codes
  <2> QED
    BY <2>4, <2>5
<1>7. \/ \E key, q : in = In(key, q) /\ key # "INSERT" /\ q \in Seq(Bytes)
      \/ in = [In("INSERT", <<>>) EXCEPT !.char = b]
  <2>1. CASE iac > 0 \/ b = "IAC"
    <3>1. ~ (iac = 0 /\ b \in DOMAIN Control)
      BY <2>1 DEF Control, Session
    <3>2. in = In("none", seq)
      BY <2>1, <3>1, <1>2 DEF Input
    <3> QED
      BY <3>2, <1>4
  <2>2. CASE ~ (iac > 0 \/ b = "IAC") /\ iac = 0 /\ b \in DOMAIN Control
    <3>1. in = In(Control[b], seq)
      BY <2>2, <1>2 DEF Input
    <3> QED
      BY <3>1, <2>2, <1>4, <1>5
  <2>3. CASE ~ (iac > 0 \/ b = "IAC") /\ ~ (iac = 0 /\ b \in DOMAIN Control)
    <3>1. in = IF Completed(s) # {} THEN In(Codes[first], <<>>)
               ELSE IF Matching(s) # {} THEN In("none", s)
               ELSE [In("INSERT", <<>>) EXCEPT !.char = b]
      BY <2>3, <1>2 DEF Input, s
    <3> HIDE DEF first
    <3> QED
      BY <3>1, <1>4, <1>6
  <2> QED
    BY <2>1, <2>2, <2>3
<1>8. CASE in = [In("INSERT", <<>>) EXCEPT !.char = b]
  <2>1. in = [key |-> "INSERT", char |-> b, iac |-> Negotiated(b), seq |-> <<>>]
    BY <1>8
  <2> QED
    BY <2>1, <1>1, <1>3, <1>4
<1>9. ASSUME NEW key, NEW q, in = In(key, q), key # "INSERT", q \in Seq(Bytes)
      PROVE  in.iac \in 0..2 /\ in.seq \in Seq(Bytes) /\ in.key # "INSERT"
  BY <1>9, <1>3
<1> HIDE DEF In
<1> QED
  BY <1>1, <1>7, <1>8, <1>9

\* Where the scans of the words stop.
LEMMA NextWordIs ==
    ASSUME NEW hi \in Nat, maxpos = hi, NEW p \in 0..hi
    PROVE  NextWord(p) \in p..maxpos
<1> DEFINE C == {i \in 0..hi : cells[i] \in Alnum}
           Stop(i) == /\ \A j \in p .. i - 1 : cells[j] \notin Alnum
                      /\ i < maxpos => cells[i] \in Alnum
<1>1. PICK i \in Stops(p, hi, C) : TRUE
  <2> HIDE DEF C
  <2>9. Stops(p, hi, C) # {}
    BY Scan
  <2> QED
    BY <2>9
<1>2. i \in p..maxpos /\ Stop(i)
  BY <1>1 DEF Stops
<1>3. NextWord(p) = CHOOSE l \in p..maxpos : Stop(l)
  BY DEF NextWord
<1> HIDE DEF Stop
<1> QED
  BY <1>2, <1>3

\* The scan over a word stops behind its start, unless the text ends there.
LEMMA WordEndIs ==
    ASSUME NEW hi \in Nat, maxpos = hi, NEW p \in 0..hi
    PROVE  WordEnd(p) \in p..maxpos /\ (p < maxpos => WordEnd(p) > p)
<1> DEFINE word == NextWord(p)
           C == {i \in 0..hi : cells[i] \notin Alnum}
           Stop(i) == /\ \A j \in word .. i - 1 : cells[j] \in Alnum
                      /\ i < maxpos => cells[i] \notin Alnum
           Start(i) == /\ \A j \in p .. i - 1 : cells[j] \notin Alnum
                       /\ i < maxpos => cells[i] \in Alnum
<1>1. word \in p..hi /\ word \in 0..hi
  BY NextWordIs
<1>2. Start(word)
  <2> DEFINE B == {i \in 0..hi : cells[i] \in Alnum}
  <2>1. PICK i \in Stops(p, hi, B) : TRUE
    <3> HIDE DEF B
    <3>9. Stops(p, hi, B) # {}
      BY Scan
    <3> QED
      BY <3>9
  <2>2. i \in p..maxpos /\ Start(i)
    BY <2>1 DEF Stops
  <2>3. word = CHOOSE l \in p..maxpos : Start(l)
    BY DEF NextWord
  <2> HIDE DEF Start, word
  <2> QED
    BY <2>2, <2>3
<1>3. WordEnd(p) = CHOOSE l \in word..maxpos : Stop(l)
  BY DEF WordEnd
<1> HIDE DEF word
<1>4. PICK i \in Stops(word, hi, C) : TRUE
  <2> HIDE DEF C
  <2>9. Stops(word, hi, C) # {}
    BY <1>1, Scan
  <2> QED
    BY <2>9
<1>5. i \in word..maxpos /\ Stop(i)
  BY <1>1, <1>4 DEF Stops
<1>6. WordEnd(p) \in word..maxpos /\ Stop(WordEnd(p))
  <2> HIDE DEF Stop
  <2> QED
    BY <1>3, <1>5
<1>7. p < maxpos => WordEnd(p) > p
  <2> SUFFICES ASSUME p < maxpos, WordEnd(p) = p PROVE FALSE
    BY <1>1, <1>6
  <2>1. word = p
    BY <1>1, <1>6
  <2> QED
    BY <2>1, <1>2, <1>6
<1> QED
  BY <1>1, <1>6, <1>7

\* The scan back over a word stops between the prompt and where it began.
LEMMA BeforeWordIs ==
    ASSUME NEW p \in Nat, p >= PLen
    PROVE  BeforeWord(p) \in PLen..p
<1> DEFINE C == {i \in 0..p : cells[i] \in Alnum}
           D == {i \in 0..p : cells[i] \notin Alnum}
           Start(i) == /\ \A j \in i + 1 .. p : cells[j] \notin Alnum
                       /\ i > PLen => cells[i] \in Alnum
           word == CHOOSE i \in PLen..p : Start(i)
           Stop(i) == /\ \A j \in i + 1 .. word : cells[j] \in Alnum
                      /\ i > PLen => cells[i] \notin Alnum
<1>1. PLen = 1 /\ PLen \in 0..p
  BY DEF PLen
<1>2. PICK i \in StopsBack(PLen, p, C) : TRUE
  <2> HIDE DEF C
  <2>9. StopsBack(PLen, p, C) # {}
    BY <1>1, ScanBack
  <2> QED
    BY <2>9
<1>3. i \in PLen..p /\ Start(i)
  BY <1>1, <1>2 DEF StopsBack
<1>4. word \in PLen..p
  <2> HIDE DEF Start
  <2> QED
    BY <1>3
<1>5. BeforeWord(p) = CHOOSE l \in PLen..word : Stop(l)
  BY DEF BeforeWord
<1> HIDE DEF word
<1>6. PICK l \in StopsBack(PLen, word, D) : TRUE
  <2>1. word \in Nat /\ PLen \in 0..word
    BY <1>1, <1>4
  <2> HIDE DEF D
  <2>9. StopsBack(PLen, word, D) # {}
    BY <2>1, ScanBack
  <2> QED
    BY <2>9
<1>7. l \in PLen..word /\ Stop(l)
  BY <1>1, <1>4, <1>6 DEF StopsBack
<1>8. BeforeWord(p) \in PLen..word
  <2> HIDE DEF Stop
  <2> QED
    BY <1>5, <1>7
<1> QED
  BY <1>1, <1>4, <1>8

-----------------------------------------------------------------------------
(* The line editor: keys that edit the line                                *)

\* The history is the end of the log.
LEMMA LogIs == HistoryIsLog <=> EndOf(hist, entered)
BY DEF HistoryIsLog, EndOf

\* A key that edits the line leaves the session and its history alone.
LEMMA EditKeeps ==
    ASSUME EditorInv, NEW in \in Inputs, NEW k, Key(in, k), Editing, wild' \in BOOLEAN
    PROVE  Session' /\ HistoryIsLog' /\ hist' = hist
<1>1. in.iac \in 0..2 /\ in.seq \in Seq(Bytes)
  BY InputIs DEF EditorInv
<1>2. hist' = hist /\ entered' = entered /\ online' = online /\ busy' = busy /\ sent' = <<>>
  BY DEF Editing
<1>3. iac' = in.iac /\ seq' = in.seq
  BY DEF Key
<1>4. Session'
  BY <1>1, <1>2, <1>3 DEF EditorInv, Session
<1>5. HistoryIsLog'
  BY <1>2 DEF EditorInv, HistoryIsLog
<1> QED
  BY <1>2, <1>4, <1>5

\* What a state is whose inputs the editor reads.
LEMMA ReadState ==
    ASSUME EditorInv, NEW in \in Inputs
    PROVE  /\ MaxL \in Nat \ {0, 1} /\ PLen = 1 /\ Index = 0 .. MaxL - 1
           /\ ~wild /\ Line(cells) /\ Whole(cells, maxpos)
           /\ maxpos \in PLen..MaxL /\ curpos \in PLen..maxpos
           /\ maxpos \in Nat /\ curpos \in Nat
           /\ histoff \in 0..Len(hist.cmds) /\ hist \in Histories
           /\ \A i \in 0 .. maxpos - 1 : cells[i] # NUL
<1>1. MaxL \in Nat \ {0, 1} /\ PLen = 1 /\ Index = 0 .. MaxL - 1
  BY HistAssumption DEF PLen, Index
<1>2. ~wild
  BY InputIs DEF EditorInv
<1>3. /\ Line(cells) /\ Whole(cells, maxpos) /\ maxpos \in PLen..MaxL /\ curpos \in PLen..maxpos
      /\ histoff \in 0..Len(hist.cmds) /\ hist \in Histories
  BY <1>2 DEF EditorInv, Cursor, Shown, Session
<1>4. maxpos \in Nat /\ curpos \in Nat
  BY <1>1, <1>3
<1> QED
  BY <1>1, <1>2, <1>3, <1>4 DEF Whole

\* A length that the C library found is that of the line.
LEMMA MeasuredKeeps ==
    ASSUME NEW b, Line(b), Measured(b), NEW c \in PLen..MaxL,
           \A j \in 0 .. c - 1 : b[j] # NUL
    PROVE  /\ Line(cells') /\ maxpos' \in PLen..MaxL /\ c \in PLen..maxpos'
           /\ Whole(cells', maxpos') /\ wild' \in BOOLEAN
<1>1. cells' = b /\ maxpos' = StrEnd(b, 0) /\ wild' \in BOOLEAN
  BY DEF Measured
<1>2. MaxL \in Nat /\ PLen = 1
  BY HistAssumption DEF PLen
<1>3. c \in 0..MaxL
  BY <1>2
<1>4. c <= StrEnd(b, 0) /\ StrEnd(b, 0) \in PLen..MaxL /\ Whole(b, StrEnd(b, 0))
  BY <1>3, MeasureIs
<1>5. c \in PLen..StrEnd(b, 0)
  BY <1>2, <1>4
<1> QED
  BY <1>1, <1>4, <1>5

\* The invariant after an edit, from what the edit does to the line.
LEMMA LineKeeps ==
    ASSUME EditorInv, NEW in \in Inputs, NEW k, Key(in, k), Editing, wild' \in BOOLEAN,
           Line(cells'), maxpos' \in PLen..MaxL, curpos' \in PLen..maxpos',
           histoff' \in 0..Len(hist.cmds), ~wild' => Whole(cells', maxpos')
    PROVE  EditorInv'
<1>1. Session' /\ HistoryIsLog' /\ hist' = hist
  BY EditKeeps
<1>2. Cursor'
  BY <1>1 DEF Cursor, Line
<1>3. Shown'
  BY DEF Shown, Whole
<1> QED
  BY <1>1, <1>2, <1>3 DEF EditorInv

\* A part of a sequence keeps the invariant.
LEMMA SwallowedKeeps ==
    ASSUME EditorInv, NEW in \in Inputs, Swallowed(in)
    PROVE  EditorInv'
<1>1. Key(in, "none") /\ Editing
  BY DEF Swallowed
<1>2. cells' = cells /\ maxpos' = maxpos /\ curpos' = curpos /\ histoff' = histoff /\ wild' = wild
  BY DEF Swallowed
<1>3. wild' \in BOOLEAN
  BY <1>2 DEF EditorInv, Session
<1> QED
  BY <1>1, <1>2, <1>3, ReadState, LineKeeps

\* A command of the history that takes the place of the line keeps it.
LEMMA BrowseKeeps ==
    ASSUME EditorInv, NEW in \in Inputs, Browse(in)
    PROVE  EditorInv'
<1>1. PICK inc \in {1, -1} :
        /\ Key(in, IF inc = 1 THEN "UP" ELSE "DOWN")
        /\ IF HistHas(hist, histoff + inc)
           THEN LET p == HistGet(hist, histoff + inc) IN
                /\ histoff' = histoff + inc
                /\ IF PLen + Len(p) < MaxL
                   THEN Measured(StrCpy(cells, p)) /\ curpos' = PLen + Len(p)
                   ELSE wild' = TRUE /\ UNCHANGED <<cells, curpos, maxpos>>
           ELSE UNCHANGED <<cells, curpos, maxpos, histoff, wild>>
        /\ Editing
  BY DEF Browse
<1> DEFINE p == HistGet(hist, histoff + inc)
           b == StrCpy(cells, p)
<1>2. CASE ~ HistHas(hist, histoff + inc)
  <2>1. cells' = cells /\ maxpos' = maxpos /\ curpos' = curpos /\ histoff' = histoff /\ wild' = wild
    BY <1>1, <1>2
  <2>2. wild' \in BOOLEAN
    BY <2>1 DEF EditorInv, Session
  <2> QED
    BY <1>1, <2>1, <2>2, ReadState, LineKeeps
<1>3. CASE HistHas(hist, histoff + inc)
  <2>1. histoff' = histoff + inc /\ histoff' \in 0..Len(hist.cmds)
    BY <1>1, <1>3 DEF HistHas
  <2>2. p \in Seq(Bytes)
    <3>1. histoff + inc \in 0..Len(hist.cmds) /\ hist.cmds \in Seq(Seq(Bytes))
      BY <1>3, ReadState DEF HistHas, Histories
    <3>2. histoff + inc # 0 => Len(hist.cmds) + 1 - (histoff + inc) \in 1..Len(hist.cmds)
      BY <3>1
    <3> QED
      BY <3>1, <3>2 DEF HistGet
  <2>3. CASE PLen + Len(p) < MaxL
    <3>1. Measured(b) /\ curpos' = PLen + Len(p)
      BY <1>1, <1>3, <2>3
    <3> HIDE DEF p
    <3>2. Line(b) /\ StrEnd(b, 0) = PLen + Len(p)
      BY <2>2, <2>3, ReadState, CopyIs
    <3>3. PLen + Len(p) \in PLen..MaxL /\ PLen + Len(p) \in 0..MaxL /\ 0 \in 0..MaxL
      BY <2>2, <2>3, ReadState
    <3> HIDE DEF b
    <3> DEFINE c == PLen + Len(p)
    <3>6. c \in PLen..MaxL /\ c = StrEnd(b, 0)
      BY <3>2, <3>3
    <3>7. \A j \in 0 .. StrEnd(b, 0) - 1 : b[j] # NUL
      BY <3>3, StrEndIs
    <3> HIDE DEF c
    <3>4. \A j \in 0 .. c - 1 : b[j] # NUL
      BY <3>6, <3>7
    <3>5. /\ Line(cells') /\ maxpos' \in PLen..MaxL /\ c \in PLen..maxpos'
          /\ Whole(cells', maxpos') /\ wild' \in BOOLEAN
      BY <3>1, <3>2, <3>4, <3>6, MeasuredKeeps
    <3>8. curpos' \in PLen..maxpos'
      BY <3>1, <3>5 DEF c
    <3> QED
      BY <1>1, <2>1, <3>5, <3>8, LineKeeps
  <2>4. CASE ~ (PLen + Len(p) < MaxL)
    <3>1. wild' = TRUE /\ cells' = cells /\ curpos' = curpos /\ maxpos' = maxpos
      BY <1>1, <1>3, <2>4
    <3> QED
      BY <1>1, <2>1, <3>1, ReadState, LineKeeps
  <2> QED
    BY <2>3, <2>4
<1> QED
  BY <1>2, <1>3

\* A character that goes closes the text up, its end included.
LEMMA EraseKeeps ==
    ASSUME EditorInv, NEW in \in Inputs, NEW k, Key(in, k), Editing,
           UNCHANGED <<histoff, wild>>, NEW at \in PLen .. maxpos - 1, Erase(at)
    PROVE  EditorInv'
<1> DEFINE n == MaxL - at - 1
           src == at + 1
           b == MemMove(cells, at, src, n)
<1>1. cells' = b /\ maxpos' = maxpos - 1 /\ curpos' = at
  BY DEF Erase
<1>2. /\ MaxL \in Nat \ {0, 1} /\ PLen = 1 /\ Index = 0 .. MaxL - 1
      /\ ~wild /\ Line(cells) /\ maxpos \in PLen..MaxL /\ maxpos \in Nat
      /\ histoff \in 0..Len(hist.cmds)
      /\ \A i \in 0 .. maxpos - 1 : cells[i] # NUL
      /\ maxpos < MaxL => cells[maxpos] = NUL \/ \A i \in maxpos .. MaxL - 1 : cells[i] # NUL
  BY ReadState DEF Whole
<1>3. at \in PLen..MaxL /\ src \in PLen..MaxL /\ n \in 0 .. MaxL - src /\ at \in Nat
      /\ at + n - 1 = MaxL - 2
  BY <1>2
<1>4. /\ Line(b)
      /\ \A i \in Index : b[i] = IF i \in at .. at + n - 1 THEN cells[i - at + src] ELSE cells[i]
  <2>1. Line(cells) /\ at \in PLen..MaxL /\ src \in PLen..MaxL /\ n \in 0 .. MaxL - src
    BY <1>2, <1>3
  <2> HIDE DEF n, src
  <2>2. Line(b)
    BY <2>1, MoveIs
  <2>3. \A i \in Index : b[i] = IF i \in at .. at + n - 1 THEN cells[i - at + src] ELSE cells[i]
    BY <2>1, MoveIs
  <2> QED
    BY <2>2, <2>3
<1> HIDE DEF b
<1>5. \A i \in Index : b[i] = IF i >= at /\ i <= MaxL - 2 THEN cells[i + 1] ELSE cells[i]
  <2> TAKE i \in Index
  <2>1. i \in at .. at + n - 1 <=> i >= at /\ i <= MaxL - 2
    BY <1>2, <1>3
  <2>2. i - at + src = i + 1
    BY <1>2, <1>3
  <2> QED
    BY <1>4, <2>1, <2>2
<1> HIDE DEF n
<1>6. \A i \in 0 .. maxpos' - 1 : b[i] # NUL
  <2> TAKE i \in 0 .. maxpos' - 1
  <2>1. i \in Index /\ i \in 0 .. maxpos - 1 /\ i + 1 \in 0 .. maxpos - 1
    BY <1>1, <1>2
  <2> QED
    BY <2>1, <1>2, <1>5
<1>7. ASSUME maxpos < MaxL, cells[maxpos] = NUL PROVE b[maxpos'] = NUL
  <2>1. maxpos' \in Index /\ maxpos' >= at /\ maxpos' <= MaxL - 2 /\ maxpos' + 1 = maxpos
    BY <1>1, <1>2, <1>7
  <2> QED
    BY <2>1, <1>5, <1>7
<1>8. ASSUME \A i \in maxpos .. MaxL - 1 : cells[i] # NUL, NEW i \in maxpos' .. MaxL - 1
      PROVE  b[i] # NUL
  <2>1. \A j \in 0 .. MaxL - 1 : cells[j] # NUL
    BY <1>2, <1>8
  <2>2. i \in Index /\ (i <= MaxL - 2 => i + 1 \in 0 .. MaxL - 1)
    BY <1>1, <1>2
  <2> QED
    BY <2>1, <2>2, <1>2, <1>5
<1>9. maxpos = MaxL => \A i \in maxpos .. MaxL - 1 : cells[i] # NUL
  BY <1>2
<1>10. Whole(b, maxpos')
  BY <1>2, <1>6, <1>7, <1>8, <1>9 DEF Whole
<1>11. maxpos' \in PLen..MaxL /\ curpos' \in PLen..maxpos'
  BY <1>1, <1>2
<1>12. wild' = FALSE /\ histoff' = histoff
  BY <1>2 DEF EditorInv, Session
<1> QED
  BY <1>1, <1>2, <1>4, <1>10, <1>11, <1>12, LineKeeps

\* A key that moves nothing.
LEMMA StillKeeps ==
    ASSUME EditorInv, NEW in \in Inputs, NEW k, Key(in, k), Editing,
           UNCHANGED <<histoff, wild, cells, maxpos>>, curpos' \in PLen..maxpos
    PROVE  EditorInv'
<1>1. cells' = cells /\ maxpos' = maxpos /\ histoff' = histoff /\ wild' = wild
  OBVIOUS
<1>2. wild' \in BOOLEAN
  BY <1>1 DEF EditorInv, Session
<1> QED
  BY <1>1, <1>2, ReadState, LineKeeps

\* BACKSPACE keeps the invariant.
LEMMA BackspaceKeeps ==
    ASSUME EditorInv, NEW in \in Inputs, Backspace(in)
    PROVE  EditorInv'
<1>1. Key(in, "BACKSPACE") /\ Editing /\ UNCHANGED <<histoff, wild>>
  BY DEF Backspace
<1>2. CASE curpos = PLen
  BY <1>1, <1>2, ReadState, StillKeeps DEF Backspace
<1>3. CASE curpos # PLen
  <2>1. Erase(curpos - 1) /\ curpos - 1 \in PLen .. maxpos - 1
    BY <1>3, ReadState DEF Backspace
  <2> QED
    BY <1>1, <2>1, EraseKeeps
<1> QED
  BY <1>2, <1>3

\* DELETE keeps the invariant.
LEMMA DeleteKeeps ==
    ASSUME EditorInv, NEW in \in Inputs, Delete(in)
    PROVE  EditorInv'
<1>1. Key(in, "DELETE") /\ Editing /\ UNCHANGED <<histoff, wild>>
  BY DEF Delete
<1>2. CASE curpos = maxpos
  BY <1>1, <1>2, ReadState, StillKeeps DEF Delete
<1>3. CASE curpos # maxpos
  <2>1. Erase(curpos) /\ curpos \in PLen .. maxpos - 1
    BY <1>3, ReadState DEF Delete
  <2> QED
    BY <1>1, <2>1, EraseKeeps
<1> QED
  BY <1>2, <1>3

\* A key that moves the cursor keeps it on the line.
LEMMA MoveKeeps ==
    ASSUME EditorInv, NEW in \in Inputs, Move(in)
    PROVE  EditorInv'
<1>1. PICK k \in MoveKeys :
        /\ Key(in, k)
        /\ curpos' =
             CASE k = "LEFT"     -> IF curpos = PLen THEN PLen ELSE curpos - 1
               [] k = "RIGHT"    -> IF curpos = maxpos THEN curpos ELSE curpos + 1
               [] k = "GOTOBOL"  -> PLen
               [] k = "GOTOEOL"  -> maxpos
               [] k = "WORDFWD"  -> WordEnd(curpos)
               [] k = "WORDBACK" -> IF curpos = PLen THEN PLen
                                    ELSE LET i == BeforeWord(curpos - 1)
                                         IN  IF i > PLen THEN i + 1 ELSE i
               [] OTHER          -> curpos
        /\ Editing /\ UNCHANGED <<cells, maxpos, histoff, wild>>
  BY DEF Move
<1>2. MaxL \in Nat /\ PLen = 1 /\ maxpos \in PLen..MaxL /\ curpos \in PLen..maxpos
      /\ maxpos \in Nat /\ curpos \in Nat
  BY ReadState
<1>3. WordEnd(curpos) \in PLen..maxpos
  <2>1. curpos \in 0..maxpos
    BY <1>2
  <2>2. WordEnd(curpos) \in curpos..maxpos
    BY <1>2, <2>1, WordEndIs
  <2> QED
    BY <1>2, <2>2
<1>4. curpos # PLen => BeforeWord(curpos - 1) \in PLen .. curpos - 1
  <2> SUFFICES ASSUME curpos # PLen PROVE BeforeWord(curpos - 1) \in PLen .. curpos - 1
    OBVIOUS
  <2> DEFINE p == curpos - 1
  <2>1. p \in Nat /\ p >= PLen
    BY <1>2
  <2> HIDE DEF p
  <2>2. BeforeWord(p) \in PLen..p
    BY <2>1, BeforeWordIs
  <2> QED
    BY <2>2 DEF p
<1>5. curpos' \in PLen..maxpos
  <2>1. CASE k = "WORDBACK"
    <3>1. curpos' = IF curpos = PLen THEN PLen
                    ELSE IF BeforeWord(curpos - 1) > PLen THEN BeforeWord(curpos - 1) + 1
                    ELSE BeforeWord(curpos - 1)
      BY <1>1, <2>1
    <3> QED
      BY <3>1, <1>2, <1>4
  <2>2. CASE k # "WORDBACK"
    BY <2>2, <1>1, <1>2, <1>3 DEF MoveKeys
  <2> QED
    BY <2>1, <2>2
<1> QED
  BY <1>1, <1>5, StillKeeps

\* What a killed part leaves: the text before it, what follows it, and the length that the C
\* library finds.
LEMMA CutKeeps ==
    ASSUME EditorInv, NEW in \in Inputs, NEW k, Key(in, k), Editing,
           UNCHANGED histoff, NEW at \in PLen..maxpos, NEW src \in PLen..MaxL,
           curpos' = at, Measured(MemMove(cells, at, src, MaxL - src))
    PROVE  EditorInv'
<1> DEFINE n == MaxL - src
           b == MemMove(cells, at, src, n)
<1>1. /\ MaxL \in Nat \ {0, 1} /\ PLen = 1 /\ Index = 0 .. MaxL - 1 /\ Line(cells)
      /\ maxpos \in PLen..MaxL /\ histoff \in 0..Len(hist.cmds)
      /\ \A i \in 0 .. maxpos - 1 : cells[i] # NUL
  BY ReadState
<1>2. at \in PLen..MaxL /\ n \in 0 .. MaxL - src
  BY <1>1
<1>3. Measured(b)
  OBVIOUS
<1> HIDE DEF n
<1>4. Line(b)
  BY <1>1, <1>2, MoveIs
<1>5. \A i \in Index : b[i] = IF i \in at .. at + n - 1 THEN cells[i - at + src] ELSE cells[i]
  BY <1>1, <1>2, MoveIs
<1> HIDE DEF b
<1>6. \A j \in 0 .. at - 1 : b[j] # NUL
  <2> TAKE j \in 0 .. at - 1
  <2>1. j \in Index /\ j \in 0 .. maxpos - 1 /\ j \notin at .. at + n - 1
    BY <1>1, <1>2
  <2> QED
    BY <2>1, <1>1, <1>5
<1>7. /\ Line(cells') /\ maxpos' \in PLen..MaxL /\ at \in PLen..maxpos'
      /\ Whole(cells', maxpos') /\ wild' \in BOOLEAN
  BY <1>2, <1>3, <1>4, <1>6, MeasuredKeeps
<1>8. histoff' \in 0..Len(hist.cmds)
  BY <1>1
<1> QED
  BY <1>7, <1>8, LineKeeps

\* KILLWORD keeps the invariant.
LEMMA KillWordKeeps ==
    ASSUME EditorInv, NEW in \in Inputs, KillWord(in)
    PROVE  EditorInv'
<1>1. Key(in, "KILLWORD") /\ Editing /\ UNCHANGED histoff
  BY DEF KillWord
<1>2. MaxL \in Nat /\ PLen = 1 /\ maxpos \in PLen..MaxL /\ curpos \in PLen..maxpos
      /\ maxpos \in Nat /\ curpos \in Nat
  BY ReadState
<1>3. CASE curpos = PLen
  BY <1>1, <1>2, <1>3, StillKeeps DEF KillWord
<1>4. CASE curpos # PLen
  <2> DEFINE p == curpos - 1
             stop == BeforeWord(p)
             i == IF stop < maxpos /\ cells[stop] \notin Alnum THEN stop + 1 ELSE stop
  <2>1. curpos' = i /\ Measured(MemMove(cells, i, curpos, MaxL - curpos))
    BY <1>4 DEF KillWord
  <2>2. p \in Nat /\ p >= PLen
    BY <1>2, <1>4
  <2>3. stop \in PLen..p
    <3> HIDE DEF p
    <3> QED
      BY <2>2, BeforeWordIs
  <2> HIDE DEF stop
  <2>4. i \in PLen..maxpos /\ curpos \in PLen..MaxL
    BY <1>2, <2>3
  <2> HIDE DEF i
  <2> QED
    BY <1>1, <2>1, <2>4, CutKeeps
<1> QED
  BY <1>3, <1>4

\* KILLTOBOL keeps the invariant.
LEMMA KillToBolKeeps ==
    ASSUME EditorInv, NEW in \in Inputs, KillToBol(in)
    PROVE  EditorInv'
<1>1. /\ Key(in, "KILLTOBOL") /\ Editing /\ UNCHANGED histoff
      /\ curpos' = PLen /\ Measured(MemMove(cells, PLen, curpos, MaxL - curpos))
  BY DEF KillToBol
<1>2. PLen \in PLen..maxpos /\ curpos \in PLen..MaxL
  BY ReadState
<1> QED
  BY <1>1, <1>2, CutKeeps

\* KILLWORDFWD keeps the invariant.
LEMMA KillWordForwardKeeps ==
    ASSUME EditorInv, NEW in \in Inputs, KillWordForward(in)
    PROVE  EditorInv'
<1>1. Key(in, "KILLWORDFWD") /\ Editing /\ UNCHANGED <<curpos, histoff>>
  BY DEF KillWordForward
<1>2. MaxL \in Nat /\ PLen = 1 /\ maxpos \in PLen..MaxL /\ curpos \in PLen..maxpos
      /\ maxpos \in Nat /\ curpos \in Nat
  BY ReadState
<1>3. CASE curpos = maxpos
  BY <1>1, <1>2, <1>3, StillKeeps DEF KillWordForward
<1>4. CASE curpos # maxpos
  <2> DEFINE end  == WordEnd(curpos)
             next == NextWord(end)
             i    == IF next < maxpos THEN next - 1 ELSE next
  <2>1. Measured(MemMove(cells, curpos, i, MaxL - i))
    BY <1>4 DEF KillWordForward
  <2>2. end \in curpos..maxpos /\ end > curpos
    <3>1. curpos \in 0..maxpos /\ curpos < maxpos
      BY <1>2, <1>4
    <3> QED
      BY <1>2, <3>1, WordEndIs
  <2> HIDE DEF end
  <2>3. next \in end..maxpos
    <3>1. end \in 0..maxpos
      BY <1>2, <2>2
    <3> QED
      BY <1>2, <3>1, NextWordIs
  <2> HIDE DEF next
  <2>4. i \in PLen..MaxL
    BY <1>2, <2>2, <2>3
  <2> HIDE DEF i
  <2>5. curpos' = curpos
    BY <1>1
  <2> QED
    BY <1>1, <1>2, <2>1, <2>4, <2>5, CutKeeps
<1> QED
  BY <1>3, <1>4

\* KILLTOEOL keeps the invariant.
LEMMA KillToEolKeeps ==
    ASSUME EditorInv, NEW in \in Inputs, KillToEol(in)
    PROVE  EditorInv'
<1>1. Key(in, "KILLTOEOL") /\ Editing /\ curpos' = curpos /\ histoff' = histoff
  BY DEF KillToEol
<1>2. /\ MaxL \in Nat \ {0, 1} /\ PLen = 1 /\ Index = 0 .. MaxL - 1 /\ Line(cells)
      /\ maxpos \in PLen..MaxL /\ curpos \in PLen..maxpos /\ histoff \in 0..Len(hist.cmds)
      /\ \A i \in 0 .. maxpos - 1 : cells[i] # NUL
  BY ReadState
<1>3. CASE curpos < MaxL
  <2> DEFINE b == [cells EXCEPT ![curpos] = NUL]
  <2>1. Measured(b)
    BY <1>3 DEF KillToEol
  <2>2. Line(b)
    BY <1>2, <1>3 DEF Line, Char
  <2>3. curpos \in PLen..MaxL /\ \A j \in 0 .. curpos - 1 : b[j] # NUL
    <3>1. \A j \in 0 .. curpos - 1 : j \in 0 .. maxpos - 1 /\ j # curpos
      BY <1>2
    <3> QED
      BY <3>1, <1>2, <1>3 DEF Line
  <2> HIDE DEF b
  <2>4. /\ Line(cells') /\ maxpos' \in PLen..MaxL /\ curpos \in PLen..maxpos'
        /\ Whole(cells', maxpos') /\ wild' \in BOOLEAN
    BY <2>1, <2>2, <2>3, MeasuredKeeps
  <2> QED
    BY <1>1, <1>2, <2>4, LineKeeps
<1>4. CASE ~ (curpos < MaxL)
  <2>1. wild' = TRUE /\ cells' = cells /\ maxpos' = maxpos
    BY <1>4 DEF KillToEol
  <2> QED
    BY <1>1, <1>2, <2>1, LineKeeps
<1> QED
  BY <1>3, <1>4

\* A character that is inserted moves the text and its end on.
LEMMA InsertKeeps ==
    ASSUME EditorInv, NEW in \in Inputs, Insert(in)
    PROVE  EditorInv'
<1>1. Key(in, "INSERT") /\ Editing /\ UNCHANGED <<histoff, wild>>
  BY DEF Insert
<1>2. /\ MaxL \in Nat \ {0, 1} /\ PLen = 1 /\ Index = 0 .. MaxL - 1 /\ Line(cells)
      /\ ~wild /\ maxpos \in PLen..MaxL /\ curpos \in PLen..maxpos
      /\ histoff \in 0..Len(hist.cmds)
      /\ \A i \in 0 .. maxpos - 1 : cells[i] # NUL
      /\ maxpos < MaxL => cells[maxpos] = NUL \/ \A i \in maxpos .. MaxL - 1 : cells[i] # NUL
  BY ReadState DEF Whole
<1>3. CASE maxpos = MaxL
  BY <1>1, <1>2, <1>3, StillKeeps DEF Insert
<1>4. CASE maxpos # MaxL
  <2> DEFINE dst == curpos + 1
             n   == MaxL - curpos - 1
             m   == MemMove(cells, dst, curpos, n)
             b   == [m EXCEPT ![curpos] = in.char]
  <2>1. cells' = b /\ maxpos' = maxpos + 1 /\ curpos' = curpos + 1
    BY <1>4 DEF Insert
  <2>2. in.char \in Bytes /\ in.char # NUL
    BY <1>1, InputIs, EditorAssumption DEF Key, EditorInv, NUL
  <2>3. dst \in PLen..MaxL /\ curpos \in PLen..MaxL /\ n \in 0 .. MaxL - curpos
        /\ dst + n - 1 = MaxL - 1 /\ curpos \in Index /\ maxpos < MaxL
    BY <1>2, <1>4
  <2>4. \A i \in Index : i \in dst .. dst + n - 1 <=> i > curpos
    BY <1>2, <2>3
  <2>5. \A i \in Index : i - dst + curpos = i - 1
    BY <1>2, <2>3
  <2>6. Line(m) /\ \A i \in Index : m[i] = IF i \in dst .. dst + n - 1
                                           THEN cells[i - dst + curpos] ELSE cells[i]
    <3> HIDE DEF dst, n
    <3>1. Line(m)
      BY <1>2, <2>3, MoveIs
    <3>2. \A i \in Index : m[i] = IF i \in dst .. dst + n - 1
                                  THEN cells[i - dst + curpos] ELSE cells[i]
      BY <1>2, <2>3, MoveIs
    <3> QED
      BY <3>1, <3>2
  <2> HIDE DEF m, dst, n
  <2>7. Line(b)
    BY <1>2, <2>2, <2>3, <2>6 DEF Line, Char
  <2>8. \A i \in Index : b[i] = IF i = curpos THEN in.char
                                ELSE IF i > curpos THEN cells[i - 1] ELSE cells[i]
    BY <2>4, <2>5, <2>6 DEF Line
  <2> HIDE DEF b
  <2>9. ASSUME NEW i \in 0 .. maxpos' - 1 PROVE b[i] # NUL
    <3>1. i \in Index /\ (i > curpos => i - 1 \in 0 .. maxpos - 1)
          /\ (i < curpos => i \in 0 .. maxpos - 1)
      BY <1>2, <2>1, <2>3
    <3> QED
      BY <3>1, <1>2, <2>2, <2>8
  <2>10. ASSUME maxpos' < MaxL
         PROVE  b[maxpos'] = NUL \/ \A i \in maxpos' .. MaxL - 1 : b[i] # NUL
    <3>1. CASE cells[maxpos] = NUL
      <4>1. maxpos' \in Index /\ maxpos' > curpos /\ maxpos' - 1 = maxpos
        BY <1>2, <2>1, <2>10
      <4> QED
        BY <4>1, <3>1, <1>2, <2>3, <2>8
    <3>2. CASE \A i \in maxpos .. MaxL - 1 : cells[i] # NUL
      <4>1. ASSUME NEW i \in maxpos' .. MaxL - 1 PROVE b[i] # NUL
        <5>1. i \in Index /\ i > curpos /\ i - 1 \in maxpos .. MaxL - 1
          BY <1>2, <2>1
        <5> QED
          BY <5>1, <3>2, <2>8
      <4> QED
        BY <4>1
    <3> QED
      BY <3>1, <3>2, <1>2, <2>3
  <2>11. Whole(b, maxpos')
    BY <2>9, <2>10 DEF Whole
  <2>12. maxpos' \in PLen..MaxL /\ curpos' \in PLen..maxpos'
    BY <1>2, <2>1, <2>3
  <2>13. wild' = FALSE /\ histoff' = histoff
    BY <1>1, <1>2 DEF EditorInv, Session
  <2> QED
    BY <1>1, <1>2, <2>1, <2>7, <2>11, <2>12, <2>13, LineKeeps
<1> QED
  BY <1>3, <1>4

-----------------------------------------------------------------------------
(* The line editor: finished lines, sessions, and the theorems             *)

\* Nothing but the prompt is a line, and a whole one.
LEMMA PromptIs ==
    ASSUME NEW b, b = [i \in Index |-> IF i = 0 THEN ">" ELSE NUL]
    PROVE  Line(b) /\ Whole(b, 1)
<1>1. MaxL \in Nat \ {0, 1} /\ PLen = 1 /\ Index = 0 .. MaxL - 1
  BY HistAssumption DEF PLen, Index
<1>2. Line(b)
  <2>1. \A i \in Index : b[i] \in Char \cup {">"}
    BY DEF Char
  <2>2. b \in [Index -> Char \cup {">"}]
    BY <2>1
  <2>3. b[0] = ">" /\ \A i \in PLen .. MaxL - 1 : b[i] = NUL
    <3>1. 0 \in Index /\ \A i \in PLen .. MaxL - 1 : i \in Index /\ i # 0
      BY <1>1
    <3> QED
      BY <3>1
  <2> QED
    BY <2>2, <2>3 DEF Line, Char
<1>3. b[0] # NUL /\ b[1] = NUL
  BY <1>1 DEF NUL
<1>4. \A i \in 0 .. 1 - 1 : i = 0
  OBVIOUS
<1> QED
  BY <1>2, <1>3, <1>4 DEF Whole

\* No command is a string, no commands are a log.
LEMMA NoCommand == <<>> \in Seq(Bytes) /\ <<>> \in Seq(Seq(Bytes))
OBVIOUS

\* rl_resetState makes the line the prompt.
LEMMA ResetIs ==
    ASSUME ResetState
    PROVE  /\ Line(cells') /\ maxpos' \in PLen..MaxL /\ curpos' \in PLen..maxpos'
           /\ Whole(cells', maxpos') /\ histoff' = 0
<1>1. MaxL \in Nat \ {0, 1} /\ PLen = 1 /\ Index = 0 .. MaxL - 1
  BY HistAssumption DEF PLen, Index
<1>2. /\ cells' = [i \in Index |-> IF i = 0 THEN ">" ELSE NUL]
      /\ histoff' = 0 /\ curpos' = 1 /\ maxpos' = 1
  BY <1>1 DEF ResetState
<1>3. Line(cells')
  BY <1>2, PromptIs
<1>4. Whole(cells', maxpos')
  BY <1>2, PromptIs
<1> QED
  BY <1>1, <1>2, <1>3, <1>4

\* The invariant of a session whose line was reset.
LEMMA ResetKeeps ==
    ASSUME ResetState, Session', EndOf(hist', entered')
    PROVE  EditorInv'
<1>1. hist' \in Histories /\ histoff' = 0
  BY ResetIs DEF Session
<1>2. 0 \in 0..Len(hist'.cmds)
  BY <1>1 DEF Histories
<1>3. Cursor' /\ Shown'
  BY <1>1, <1>2, ResetIs DEF Cursor, Shown, Line, Whole
<1>4. HistoryIsLog'
  BY DEF HistoryIsLog, EndOf
<1> QED
  BY <1>3, <1>4 DEF EditorInv

\* A session that begins or ends has nothing but its invariant.
LEMMA NewSessionKeeps ==
    ASSUME NEW c \in BOOLEAN, NewSession(c)
    PROVE  EditorInv'
<1>1. /\ online' = c /\ busy' = FALSE /\ iac' = 0 /\ seq' = <<>>
      /\ hist' = HistInit /\ wild' = FALSE /\ entered' = <<>> /\ sent' = <<>>
      /\ ResetState
  BY DEF NewSession
<1>2. HistInit \in Histories /\ EndOf(HistInit, <<>>)
  BY InitIsHistory
<1>3. Session'
  <2>1. online' \in BOOLEAN /\ busy' \in BOOLEAN /\ wild' \in BOOLEAN
    BY <1>1
  <2>2. iac' \in 0..2 /\ seq' \in Seq(Bytes) /\ entered' \in Seq(Seq(Bytes)) /\ sent' \in Seq(Bytes)
    BY <1>1, NoCommand
  <2>3. hist' \in Histories
    BY <1>1, <1>2
  <2> QED
    BY <2>1, <2>2, <2>3 DEF Session
<1> QED
  BY <1>1, <1>2, <1>3, ResetKeeps

\* A report that is complete resets the line and no more.
LEMMA ReportDoneKeeps ==
    ASSUME EditorInv, ReportDone
    PROVE  EditorInv'
<1>1. /\ busy' = FALSE /\ sent' = <<>> /\ online' = online /\ iac' = iac /\ seq' = seq
      /\ hist' = hist /\ wild' = wild /\ entered' = entered /\ ResetState
  BY DEF ReportDone
<1>2. Session'
  BY <1>1, NoCommand DEF Session, EditorInv
<1>3. EndOf(hist', entered')
  BY <1>1, LogIs DEF EditorInv
<1> QED
  BY <1>1, <1>2, <1>3, ResetKeeps

\* What a finished line that ends in the buffer does, for an outcome of its command.
LEMMA LineDoneIs ==
    ASSUME EditorInv, NEW in \in Inputs, LineDone(in),
           StrEnd(cells, PLen) # MaxL
    PROVE  /\ Text(cells) \in Seq(Bytes) /\ UNCHANGED online /\ Key(in, "LINEDONE")
           /\ \E r \in HistCmd(hist, Text(cells)) :
                /\ Sound(hist, r)
                /\ hist' = r.hist
                /\ entered' = IF r.hist.curtag = hist.curtag THEN entered
                              ELSE Append(entered, r.ret)
                /\ wild' = (r.wild \/ PLen + Len(r.ret) >= MaxL)
                /\ sent' = IF wild' THEN <<>> ELSE r.ret
                /\ busy' \in BOOLEAN
                /\ IF wild' THEN UNCHANGED <<cells, maxpos, curpos, histoff>> ELSE ResetState
<1>1. Text(cells) \in Seq(Bytes) /\ hist \in Histories
  BY ReadState, TextIs
<1>2. UNCHANGED online /\ Key(in, "LINEDONE")
  BY DEF LineDone
<1>3. PICK r \in HistCmd(hist, Text(cells)) :
            /\ hist' = r.hist
            /\ entered' = IF r.hist.curtag = hist.curtag THEN entered
                          ELSE Append(entered, r.ret)
            /\ wild' = (r.wild \/ PLen + Len(r.ret) >= MaxL)
            /\ sent' = IF wild' THEN <<>> ELSE r.ret
            /\ busy' \in IF sent' = <<>> THEN {FALSE} ELSE BOOLEAN
            /\ IF wild' THEN UNCHANGED <<cells, maxpos, curpos, histoff>> ELSE ResetState
  BY DEF LineDone
<1>4. busy' \in BOOLEAN
  BY <1>3
<1>5. Sound(hist, r)
  BY <1>1, HistCmdSound
<1> QED
  BY <1>1, <1>2, <1>3, <1>4, <1>5

\* A finished line keeps the invariant: its command joins the log, the line is reset.
LEMMA LineDoneKeeps ==
    ASSUME EditorInv, NEW in \in Inputs, LineDone(in)
    PROVE  EditorInv'
<1>1. /\ MaxL \in Nat \ {0, 1} /\ PLen = 1 /\ Line(cells)
      /\ maxpos \in PLen..MaxL /\ curpos \in PLen..maxpos
      /\ histoff \in 0..Len(hist.cmds) /\ hist \in Histories
  BY ReadState
<1>2. CASE StrEnd(cells, PLen) = MaxL
  <2>1. /\ Key(in, "LINEDONE") /\ wild' = TRUE /\ Editing
        /\ cells' = cells /\ maxpos' = maxpos /\ curpos' = curpos /\ histoff' = histoff
    BY <1>2 DEF LineDone
  <2> QED
    BY <1>1, <2>1, LineKeeps
<1>3. CASE StrEnd(cells, PLen) # MaxL
  <2>1. PICK r \in HistCmd(hist, Text(cells)) :
            /\ Sound(hist, r)
            /\ hist' = r.hist
            /\ entered' = IF r.hist.curtag = hist.curtag THEN entered
                          ELSE Append(entered, r.ret)
            /\ wild' = (r.wild \/ PLen + Len(r.ret) >= MaxL)
            /\ sent' = IF wild' THEN <<>> ELSE r.ret
            /\ busy' \in BOOLEAN
            /\ IF wild' THEN UNCHANGED <<cells, maxpos, curpos, histoff>> ELSE ResetState
    BY <1>3, LineDoneIs
  <2>2. /\ r.hist \in Histories /\ r.ret \in Seq(Bytes) /\ r.wild \in BOOLEAN
        /\ r.wild \/ r.ret # <<>> => Len(r.hist.cmds) >= Len(hist.cmds)
    BY <2>1 DEF Sound
  <2>3. entered \in Seq(Seq(Bytes)) /\ EndOf(hist, entered) /\ online \in BOOLEAN
    BY LogIs DEF EditorInv, Session
  <2>4. entered' \in Seq(Seq(Bytes)) /\ EndOf(hist', entered')
    BY <2>1, <2>2, <2>3 DEF Sound
  <2>5. wild' \in BOOLEAN /\ sent' \in Seq(Bytes)
    BY <2>1, <2>2
  <2>6. iac' \in 0..2 /\ seq' \in Seq(Bytes) /\ online' = online
    BY <1>3, LineDoneIs, InputIs DEF Key, EditorInv
  <2>7. Session'
    BY <2>1, <2>2, <2>3, <2>4, <2>5, <2>6 DEF Session
  <2>8. CASE ~ wild'
    BY <2>1, <2>4, <2>7, <2>8, ResetKeeps
  <2>9. CASE wild'
    <3>1. cells' = cells /\ maxpos' = maxpos /\ curpos' = curpos /\ histoff' = histoff
      BY <2>1, <2>9
    <3>2. r.wild \/ r.ret # <<>>
      <4>1. Len(<<>>) = 0
        OBVIOUS
      <4> QED
        BY <4>1, <1>1, <2>1, <2>2, <2>9
    <3>3. histoff' \in 0..Len(hist'.cmds)
      <4>1. Len(hist'.cmds) >= Len(hist.cmds) /\ Len(hist'.cmds) \in Nat /\ Len(hist.cmds) \in Nat
        BY <1>1, <2>1, <2>2, <3>2 DEF Histories
      <4> QED
        BY <4>1, <1>1, <3>1
    <3>4. Cursor'
      BY <1>1, <3>1, <3>3 DEF Cursor, Line
    <3>5. Shown' /\ HistoryIsLog'
      BY <2>4, <2>9 DEF Shown, HistoryIsLog, EndOf
    <3> QED
      BY <2>7, <3>4, <3>5 DEF EditorInv
  <2> QED
    BY <2>8, <2>9
<1> QED
  BY <1>2, <1>3

(***************************************************************************)
(* The invariant holds of a server without a session, and every step keeps *)
(* it, whatever is typed, in lines and histories of any length.            *)
(***************************************************************************)
THEOREM EditorInvariant == EditorSpec => []EditorInv
<1>1. EditorInit => EditorInv
  <2> SUFFICES ASSUME EditorInit PROVE EditorInv
    OBVIOUS
  <2>1. MaxL \in Nat \ {0, 1} /\ PLen = 1 /\ Index = 0 .. MaxL - 1
    BY HistAssumption DEF PLen, Index
  <2>2. /\ online = FALSE /\ busy = FALSE /\ iac = 0 /\ seq = <<>>
        /\ hist = HistInit /\ wild = FALSE /\ entered = <<>> /\ sent = <<>>
        /\ cells = [i \in Index |-> IF i = 0 THEN ">" ELSE NUL]
        /\ histoff = 0 /\ curpos = 1 /\ maxpos = 1
    BY <2>1 DEF EditorInit
  <2>3. HistInit \in Histories /\ EndOf(HistInit, <<>>) /\ HistInit.cmds = <<>>
    BY InitIsHistory
  <2>4. Session
    <3>1. online \in BOOLEAN /\ busy \in BOOLEAN /\ wild \in BOOLEAN
      BY <2>2
    <3>2. iac \in 0..2 /\ seq \in Seq(Bytes) /\ entered \in Seq(Seq(Bytes)) /\ sent \in Seq(Bytes)
      BY <2>2, NoCommand
    <3>3. hist \in Histories
      BY <2>2, <2>3
    <3> QED
      BY <3>1, <3>2, <3>3 DEF Session
  <2>5. Line(cells)
    BY <2>2, PromptIs
  <2>6. Cursor
    <3>1. Len(hist.cmds) = 0
      BY <2>2, <2>3
    <3> QED
      BY <3>1, <2>1, <2>2, <2>5 DEF Cursor
  <2>7. Shown
    BY <2>2, PromptIs DEF Shown
  <2>8. HistoryIsLog
    BY <2>2, <2>3, LogIs
  <2> QED
    BY <2>4, <2>6, <2>7, <2>8 DEF EditorInv
<1>2. EditorInv /\ [EditorNext]_editorVars => EditorInv'
  <2> SUFFICES ASSUME EditorInv, [EditorNext]_editorVars PROVE EditorInv'
    OBVIOUS
  <2>1. CASE UNCHANGED editorVars
    <3>1. /\ online' = online /\ busy' = busy /\ iac' = iac /\ seq' = seq
          /\ cells' = cells /\ curpos' = curpos /\ maxpos' = maxpos /\ histoff' = histoff
          /\ hist' = hist /\ wild' = wild /\ entered' = entered /\ sent' = sent
      BY <2>1 DEF editorVars
    <3>2. Session'
      BY <3>1 DEF EditorInv, Session
    <3>3. Cursor'
      BY <3>1 DEF EditorInv, Cursor, Line
    <3>4. Shown'
      BY <3>1 DEF EditorInv, Shown, Whole
    <3>5. HistoryIsLog'
      BY <3>1 DEF EditorInv, HistoryIsLog
    <3> QED
      BY <3>2, <3>3, <3>4, <3>5 DEF EditorInv
  <2>2. CASE Connect
    BY <2>2, NewSessionKeeps DEF Connect
  <2>3. CASE Close
    BY <2>3, NewSessionKeeps DEF Close
  <2>4. CASE ReportDone
    BY <2>4, ReportDoneKeeps
  <2>5. ASSUME NEW in \in Inputs,
               \/ Swallowed(in) \/ Browse(in) \/ Backspace(in) \/ Delete(in) \/ Move(in)
               \/ KillWord(in) \/ KillToBol(in) \/ KillToEol(in) \/ KillWordForward(in)
               \/ Insert(in) \/ LineDone(in)
        PROVE  EditorInv'
    BY <2>5, SwallowedKeeps, BrowseKeeps, BackspaceKeeps, DeleteKeeps, MoveKeeps, KillWordKeeps,
       KillToBolKeeps, KillToEolKeeps, KillWordForwardKeeps, InsertKeeps, LineDoneKeeps
  <2> QED
    BY <2>1, <2>2, <2>3, <2>4, <2>5 DEF EditorNext
<1> QED
  BY <1>1, <1>2, PTL DEF EditorSpec

(***************************************************************************)
(* The cursor is on the line, the line in the buffer, and the place in the *)
(* history one that the history has (EditorTypeOK).                        *)
(***************************************************************************)
THEOREM EditorTypeCorrect == EditorSpec => []EditorTypeOK
<1>1. EditorInv => EditorTypeOK
  <2> SUFFICES ASSUME EditorInv PROVE EditorTypeOK
    OBVIOUS
  <2>1. hist.nbuf \in 1 .. MaxHist
    BY DEF EditorInv, Session, Histories
  <2>2. cells \in [Index -> Bytes \cup {">", NUL}]
    BY DEF EditorInv, Cursor, Line, Char
  <2> QED
    BY <2>1, <2>2 DEF EditorInv, Session, Cursor, EditorTypeOK
<1> QED
  BY <1>1, EditorInvariant, PTL

(***************************************************************************)
(* The length that the editor keeps is the length of the text, whatever keys*)
(* came, as long as the last byte of the buffer is not used.               *)
(***************************************************************************)
THEOREM ShownIsSubmittedHolds == EditorSpec => []ShownIsSubmitted
<1>1. EditorInv => ShownIsSubmitted
  <2> SUFFICES ASSUME EditorInv, ~wild, cells[MaxL - 1] = NUL PROVE StrEnd(cells, 0) = maxpos
    BY DEF ShownIsSubmitted
  <2>1. MaxL \in Nat \ {0, 1} /\ PLen = 1 /\ maxpos \in PLen..MaxL /\ Whole(cells, maxpos)
    BY HistAssumption DEF EditorInv, Cursor, Shown, PLen
  <2>2. maxpos # MaxL
    <3>1. MaxL - 1 \in 0 .. MaxL - 1
      BY <2>1
    <3> QED
      BY <3>1, <2>1 DEF Whole
  <2>3. cells[maxpos] = NUL
    <3>1. maxpos < MaxL /\ MaxL - 1 \in maxpos .. MaxL - 1
      BY <2>1, <2>2
    <3> QED
      BY <3>1, <2>1 DEF Whole
  <2>4. maxpos \in 0..MaxL /\ 0 \in 0..MaxL /\ \A j \in 0 .. maxpos - 1 : cells[j] # NUL
    BY <2>1 DEF Whole
  <2> QED
    BY <2>3, <2>4, StrEndAt
<1> QED
  BY <1>1, EditorInvariant, PTL

(***************************************************************************)
(* The history is the end of the log of all commands of the session, each  *)
(* with its number, whatever was dropped in between.                       *)
(***************************************************************************)
THEOREM HistoryIsLogHolds == EditorSpec => []HistoryIsLog
<1>1. EditorInv => HistoryIsLog
  BY DEF EditorInv
<1> QED
  BY <1>1, EditorInvariant, PTL

(***************************************************************************)
(* "!n" gives the interpreter the command that was entered as number n, with*)
(* what follows the number, as long as the history lists n.                *)
(***************************************************************************)
THEOREM NumberMeansCommandHolds == EditorSpec => NumberMeansCommand
<1> DEFINE line == Text(cells)
           n    == ScanInt(Tail(line))[1]
           A    == /\ ~wild' /\ Len(line) > 1 /\ line[1] = "!" /\ line[2] \in Digits
                   /\ n \in {hist.ctag[i] : i \in DOMAIN hist.ctag}
                   /\ \E in \in Inputs : LineDone(in)
                   => sent' = Entry(entered[n], Drop(line, 1 + Span(Tail(line), Digits)))
<1>1. EditorInv /\ [EditorNext]_editorVars => [A]_editorVars
  <2> SUFFICES ASSUME EditorInv, ~wild', Len(line) > 1, line[1] = "!", line[2] \in Digits,
                      n \in {hist.ctag[i] : i \in DOMAIN hist.ctag},
                      NEW in \in Inputs, LineDone(in)
               PROVE  sent' = Entry(entered[n], Drop(line, 1 + Span(Tail(line), Digits)))
    OBVIOUS
  <2>1. StrEnd(cells, PLen) # MaxL
    BY DEF LineDone
  <2>2. line \in Seq(Bytes)
    BY <2>1, LineDoneIs
  <2>3. PICK r \in HistCmd(hist, line) : ~ r.wild /\ sent' = r.ret
    BY <2>1, LineDoneIs
  <2>4. hist \in Histories /\ entered \in Seq(Seq(Bytes)) /\ EndOf(hist, entered)
    BY LogIs DEF EditorInv, Session
  <2> HIDE DEF line
  <2> QED
    BY <2>2, <2>3, <2>4, NumberRecalled
<1>2. NumberMeansCommand <=> [][A]_editorVars
  BY DEF NumberMeansCommand
<1> HIDE DEF A
<1> QED
  BY <1>1, <1>2, EditorInvariant, PTL DEF EditorSpec
=============================================================================
