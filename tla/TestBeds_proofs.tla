-------------------------- MODULE TestBeds_proofs ---------------------------
(***************************************************************************)
(* Proofs about the two test beds: the load-test containers (Containers),  *)
(* for any number of containers and of scripts, and the consoles of the    *)
(* virtual machines under test (CiConsole, with the script Smoke that      *)
(* starts them), for any machines, processes, users and ports.             *)
(*                                                                         *)
(* ContainersInv says what a script may conclude from the step it has come *)
(* to with a container (Worked), as long as nothing upset it: the settings *)
(* of its root, the flag and what lxc knows are read in other steps than   *)
(* they are written in.                                                    *)
(*                                                                         *)
(* ConsoleInv says how the port of a machine gets from the choice (Chosen) *)
(* by way of the blob of the hypervisor (Described, Distinct) to the       *)
(* console that listens on it (OfBlob), as long as one console at a time   *)
(* chooses.                                                                *)
(***************************************************************************)
EXTENDS Containers, Smoke, FiniteSetTheorems, WellFoundedInduction, TLAPS

-----------------------------------------------------------------------------
(* Containers: the invariant                                               *)

\* Where "containers start" and "containers stop" are with a container.
Starting == {"check", "cache", "mount", "adjust", "create", "start", "wait"}
Stopping == {"telinit", "down", "kill", "remove", "destroy"}

Places == {"off", "shared"} \cup Starting \cup Stopping
\* A script, and what is known of a container.
Scripted == [step : Places, c : 0..Size]

Box == [fs : BOOLEAN, jail : BOOLEAN, root : BOOLEAN, tab : Levels,
        late : Levels \cup {NoLevel}, level : Levels \cup {0, NoLevel}, go : BOOLEAN,
        made : BOOLEAN, run : {"no", "own", "bare"}, goal : Levels \cup {0, NoLevel},
        up : BOOLEAN]

\* The host, its containers and its scripts keep their types; a script that is under
\* way has a container; and from the step "check" on there is a shared cache.
HostTypes ==
    /\ conf \in [enabled : BOOLEAN, prev : Levels, initmode : BOOLEAN]
    /\ inittab \in Levels /\ base \in Levels \cup {NoLevel} /\ shared \in BOOLEAN
    /\ upset \in BOOLEAN
BoxTypes == box \in [Boxes -> Box]

AtABox  == \A s \in Scripts : step(s) # "off" => script[s].c \in Boxes
HasBase == \A s \in Scripts : step(s) \in Starting => base # NoLevel
ScriptsInv == script \in [Scripts -> Scripted] /\ AtABox /\ HasBase

TypeInv == HostTypes /\ BoxTypes /\ ScriptsInv

\* No two scripts overlap.
Alone == \A s, r \in Scripts : step(s) # "off" /\ step(r) # "off" => s = r

\* What has been told to go to level 0 runs.
Told(b) == b.goal = 0 => b.run = "own"
\* A container that runs is one that lxc knows, with its flag, its root and its cache;
\* the level 5 on its file is one it has reached since it was started.
Own(b) == b.run # "no" =>
            b.run = "own" /\ b.made /\ b.go /\ b.root /\ b.jail /\ (b.level = 5 => b.up)
\* The level of an earlier run is not left in the root of a container that is down.
Stopped(b) == b.run = "no" /\ b.root => b.level # 5
Sound == \A c \in Boxes : Told(box[c]) /\ Own(box[c]) /\ Stopped(box[c])

\* What a script may conclude from the step it has come to.
Worked(p, b) ==
    /\ p \in {"cache", "mount", "adjust", "create", "start"} => b.run = "no"
    /\ p \in {"adjust", "create", "start"} => b.root /\ b.jail
    /\ p \in {"create", "start"} => b.go
    /\ p = "start" => b.made
    /\ p = "wait" => b.run = "own" /\ b.goal # 0
    /\ p \in {"down", "kill"} /\ b.run # "no" => b.goal = 0
    /\ p = "kill" => b.level = 0
    /\ p \in {"remove", "destroy"} => b.run = "no"
UnderWay == \A s \in Scripts : step(s) # "off" => Worked(step(s), At(s))

\* What holds as long as nothing failed, died or overlapped unnoticed.
Unharmed == Alone /\ Sound /\ UnderWay
ContainersInv == TypeInv /\ (~upset => Unharmed)

-----------------------------------------------------------------------------
(* Containers: types                                                       *)

\* A step of a script for the same container keeps the types of the scripts.
LEMMA ScriptMoved ==
  ASSUME TypeInv, NEW s \in Scripts, step(s) # "off", NEW l \in Starting \cup Stopping,
         ScriptTo(s, l), l \in Starting => base' # NoLevel, base # NoLevel => base' # NoLevel
  PROVE  ScriptsInv'
<1>1. script' \in [Scripts -> Scripted]
  BY DEF TypeInv, HostTypes, BoxTypes, ScriptsInv, ScriptTo, Scripted, Places, Starting, Stopping
<1>2. AtABox'
  BY DEF TypeInv, HostTypes, BoxTypes, ScriptsInv, AtABox, step, ScriptTo, Scripted, Starting,
     Stopping
<1>3. HasBase'
  BY DEF TypeInv, HostTypes, BoxTypes, ScriptsInv, HasBase, step, ScriptTo, Scripted
<1> QED
  BY <1>1, <1>2, <1>3 DEF ScriptsInv

\* So does the turn to the next container,
LEMMA ScriptMovedOn ==
  ASSUME TypeInv, NEW s \in Scripts, step(s) # "off", NEW l \in {"check", "telinit"},
         NextBox(s, l), l = "check" => base # NoLevel, base' = base
  PROVE  ScriptsInv'
<1>1. script[s].c \in 1..Size /\ Size \in Nat
  BY ContainersAssumption DEF TypeInv, ScriptsInv, AtABox, Boxes
<1>2. [step |-> l, c |-> script[s].c + 1] \in Scripted \/ script[s].c = Size
  BY <1>1 DEF Scripted, Places, Starting, Stopping
<1>3. Off \in Scripted
  BY <1>1 DEF Scripted, Places, Off
<1>4. script' \in [Scripts -> Scripted]
  BY <1>2, <1>3 DEF TypeInv, HostTypes, BoxTypes, ScriptsInv, NextBox, Scripted, Places
<1>5. script[s].c # Size => script[s].c + 1 \in Boxes
  BY <1>1 DEF Boxes
<1>6. AtABox'
  BY <1>5 DEF TypeInv, HostTypes, BoxTypes, ScriptsInv, AtABox, step, NextBox, Off
<1>7. HasBase'
  BY DEF TypeInv, HostTypes, BoxTypes, ScriptsInv, HasBase, step, NextBox, Off, Starting
<1> QED
  BY <1>4, <1>6, <1>7 DEF ScriptsInv

\* and so does the end of the script.
LEMMA ScriptEnded ==
  ASSUME TypeInv, NEW s \in Scripts, script' = [script EXCEPT ![s] = Off],
         base # NoLevel => base' # NoLevel
  PROVE  ScriptsInv'
<1>1. Off \in Scripted
  BY ContainersAssumption DEF Scripted, Places, Off
<1>2. script' \in [Scripts -> Scripted]
  BY <1>1 DEF TypeInv, HostTypes, BoxTypes, ScriptsInv, Scripted, Places
<1> QED
  BY <1>2 DEF TypeInv, HostTypes, BoxTypes, ScriptsInv, AtABox, HasBase, step, Off, Starting,
     ScriptsInv

\* Only the container at hand is changed.
LEMMA BoxSet ==
  ASSUME TypeInv, NEW s \in Scripts, step(s) # "off", NEW b \in Box, Set(s, b)
  PROVE  box' \in [Boxes -> Box]
BY DEF TypeInv, HostTypes, BoxTypes, ScriptsInv, AtABox, Set

\* The container at hand is one of them.
LEMMA BoxHere ==
  ASSUME TypeInv, NEW s \in Scripts, step(s) # "off"
  PROVE  At(s) \in Box /\ script[s].c \in Boxes
BY DEF TypeInv, HostTypes, BoxTypes, ScriptsInv, AtABox, At

\* The host is installed with the containers disabled.
LEMMA InitTypes == BoxesInit => TypeInv
<1> SUFFICES ASSUME BoxesInit PROVE TypeInv
  OBVIOUS
<1>1. Size \in Nat
  BY ContainersAssumption
<1>2. Fresh \in Box
  BY DEF Fresh, Box, Levels, NoLevel
<1>3. Off \in Scripted
  BY <1>1 DEF Off, Scripted, Places
<1>4. conf \in [enabled : BOOLEAN, prev : Levels, initmode : BOOLEAN]
  BY DEF BoxesInit, Levels
<1> QED
  BY <1>2, <1>3, <1>4 DEF BoxesInit, TypeInv, HostTypes, BoxTypes, ScriptsInv, AtABox, HasBase,
     step, Off, Levels, Starting

\* settings.set leaves a level in inittab.
LEMMA DisabledLevel == ASSUME NEW l \in Levels PROVE WhenDisabled(l) \in Levels
BY DEF WhenDisabled, Levels

\* So do the two edits of a container's inittab, whichever comes last.
LEMMA AdjustedLevels ==
  ASSUME NEW l \in Levels, conf.prev \in Levels, NEW o \in Adjusted(l)
  PROVE  o.tab \in Levels /\ o.late \in Levels \cup {NoLevel}
<1>1. \A k \in Levels : Prior(k) \in Levels
  BY DEF Prior
<1>2. Prior(l) \in Levels /\ WhenDisabled(l) \in Levels
  BY <1>1, DisabledLevel
<1>3. Prior(WhenDisabled(l)) \in Levels /\ WhenDisabled(Prior(l)) \in Levels
  BY <1>1, <1>2, DisabledLevel
<1> QED
  BY <1>2, <1>3 DEF Adjusted

\* A step of "containers start" keeps the types,
LEMMA StartTypes ==
  ASSUME TypeInv, NEW s \in Scripts, StartStep(s)
  PROVE  TypeInv'
<1>0. HostTypes /\ BoxTypes /\ ScriptsInv
  BY DEF TypeInv
<1>1. CASE Shared(s)
  <2>1. HostTypes'
    BY <1>0, <1>1 DEF HostTypes, Shared
  <2>2. ScriptsInv'
    <3>1. base' # NoLevel \/ script' = [script EXCEPT ![s] = Off]
      BY <1>0, <1>1 DEF Shared, HostTypes, Levels, NoLevel
    <3>2. base # NoLevel => base' # NoLevel
      BY <1>1 DEF Shared
    <3>3. ScriptTo(s, "check") \/ script' = [script EXCEPT ![s] = Off]
      BY <1>1 DEF Shared
    <3> QED
      BY <1>1, <3>1, <3>2, <3>3, ScriptMoved, ScriptEnded DEF Shared, Starting
  <2>3. BoxTypes'
    BY <1>0, <1>1 DEF Shared, BoxTypes
  <2> QED
    BY <2>1, <2>2, <2>3 DEF TypeInv
<1>2. CASE Check(s)
  <2>1. base # NoLevel
    BY <1>2 DEF TypeInv, ScriptsInv, HasBase, Check, Starting
  <2>2. ScriptsInv'
    BY <1>2, <2>1, ScriptMoved, ScriptMovedOn DEF Check, Starting, host
  <2> QED
    BY <1>0, <1>2, <2>2 DEF TypeInv, Check, host, HostTypes, BoxTypes
<1>3. CASE Cache(s)
  <2>1. base \in Levels /\ base # NoLevel
    BY <1>0, <1>3 DEF TypeInv, HasBase, Cache, Starting, HostTypes, ScriptsInv
  <2>2. ScriptsInv'
    BY <1>3, <2>1, ScriptMoved, ScriptMovedOn DEF Cache, Starting, host
  <2>3. step(s) # "off" /\ At(s) \in Box
    BY <1>3, BoxHere DEF Cache
  <2>4. [At(s) EXCEPT !.fs = TRUE, !.tab = base, !.level = NoLevel] \in Box
    BY <2>1, <2>3 DEF Box
  <2>5. BoxTypes'
    BY <1>0, <1>3, <2>3, <2>4, BoxSet DEF Cache, BoxTypes
  <2>6. HostTypes'
    BY <1>0, <1>3, <2>3 DEF Cache, Upset, HostTypes, host, Box
  <2> QED
    BY <2>2, <2>5, <2>6 DEF TypeInv
<1>4. CASE Mount(s)
  <2>1. base # NoLevel
    BY <1>4 DEF TypeInv, ScriptsInv, HasBase, Mount, Starting
  <2>2. ScriptsInv'
    BY <1>4, <2>1, ScriptMoved DEF Mount, Starting, host
  <2>3. step(s) # "off" /\ At(s) \in Box
    BY <1>4, BoxHere DEF Mount
  <2>4. [At(s) EXCEPT !.jail = TRUE, !.root = TRUE,
                      !.level = IF At(s).root THEN @ ELSE NoLevel] \in Box
    BY <2>3 DEF Box
  <2>5. BoxTypes'
    BY <1>0, <1>4, <2>3, <2>4, BoxSet DEF Mount, BoxTypes
  <2> QED
    BY <1>0, <1>4, <2>2, <2>5 DEF TypeInv, Mount, Upset, HostTypes, host
<1>5. CASE Adjust(s)
  <2>1. base # NoLevel
    BY <1>5 DEF TypeInv, ScriptsInv, HasBase, Adjust, Starting
  <2>2. ScriptsInv'
    BY <1>5, <2>1, ScriptMoved DEF Adjust, Starting, host
  <2>3. step(s) # "off" /\ At(s) \in Box /\ At(s).tab \in Levels
    BY <1>5, BoxHere DEF Adjust, Box
  <2>4. \A o \in Adjusted(At(s).tab) : o.tab \in Levels /\ o.late \in Levels \cup {NoLevel}
    BY <1>0, <2>3, AdjustedLevels DEF HostTypes
  <2>5. /\ [At(s) EXCEPT !.go = TRUE] \in Box
        /\ \A o \in Adjusted(At(s).tab) :
              [At(s) EXCEPT !.go = TRUE, !.tab = o.tab, !.late = o.late] \in Box
    BY <2>3, <2>4 DEF Box
  <2>6. \E b \in Box : Set(s, b)
    BY <1>5, <2>5 DEF Adjust
  <2>7. BoxTypes'
    BY <2>3, <2>6, BoxSet DEF BoxTypes
  <2> QED
    BY <1>0, <1>5, <2>2, <2>7 DEF TypeInv, Adjust, HostTypes, host
<1>6. CASE LxcCreate(s)
  <2>1. base # NoLevel
    BY <1>6 DEF TypeInv, ScriptsInv, HasBase, LxcCreate, Starting
  <2>2. ScriptsInv'
    BY <1>6, <2>1, ScriptMoved DEF LxcCreate, Starting, host
  <2>3. step(s) # "off" /\ At(s) \in Box
    BY <1>6, BoxHere DEF LxcCreate
  <2>4. [At(s) EXCEPT !.made = TRUE] \in Box
    BY <2>3 DEF Box
  <2>5. BoxTypes'
    BY <1>0, <1>6, <2>3, <2>4, BoxSet DEF LxcCreate, BoxTypes
  <2> QED
    BY <1>0, <1>6, <2>2, <2>5 DEF TypeInv, LxcCreate, Upset, HostTypes, host
<1>7. CASE LxcStart(s)
  <2>1. base # NoLevel
    BY <1>7 DEF TypeInv, ScriptsInv, HasBase, LxcStart, Starting
  <2>2. ScriptsInv'
    BY <1>7, <2>1, ScriptMoved DEF LxcStart, Starting, host
  <2>3. step(s) # "off" /\ At(s) \in Box
    BY <1>7, BoxHere DEF LxcStart
  <2>4. [At(s) EXCEPT !.run = IF At(s).made THEN "own" ELSE "bare",
                      !.goal = At(s).tab, !.up = FALSE] \in Box
    BY <2>3 DEF Box
  <2>5. BoxTypes'
    BY <1>0, <1>7, <2>3, <2>4, BoxSet DEF LxcStart, BoxTypes
  <2> QED
    BY <1>0, <1>7, <2>2, <2>5 DEF TypeInv, LxcStart, Upset, HostTypes, host
<1>8. CASE WaitUp(s)
  <2>1. base # NoLevel
    BY <1>8 DEF TypeInv, ScriptsInv, HasBase, WaitUp, Starting
  <2>2. ScriptsInv'
    BY <1>8, <2>1, ScriptMovedOn DEF WaitUp, Starting, host
  <2> QED
    BY <1>0, <1>8, <2>2 DEF TypeInv, WaitUp, host, HostTypes, BoxTypes
<1> QED
  BY <1>1, <1>2, <1>3, <1>4, <1>5, <1>6, <1>7, <1>8 DEF StartStep

\* and a step of "containers stop",
LEMMA StopTypes ==
  ASSUME TypeInv, NEW s \in Scripts, StopStep(s)
  PROVE  TypeInv'
<1>0. HostTypes /\ BoxTypes /\ ScriptsInv
  BY DEF TypeInv
<1>a. step(s) # "off" /\ At(s) \in Box
  BY BoxHere DEF StopStep, Telinit, WaitDown, LxcKill, Remove, Destroy
<1>b. /\ [At(s) EXCEPT !.goal = 0] \in Box
      /\ [At(s) EXCEPT !.run = "no", !.goal = NoLevel] \in Box
      /\ [At(s) EXCEPT !.root = FALSE, !.jail = FALSE, !.go = FALSE] \in Box
      /\ [At(s) EXCEPT !.root = FALSE, !.go = FALSE] \in Box
      /\ [At(s) EXCEPT !.go = FALSE] \in Box
      /\ [At(s) EXCEPT !.made = FALSE] \in Box
  BY <1>a DEF Box
<1>1. CASE Telinit(s)
  <2>1. ScriptsInv'
    BY <1>1, <1>a, ScriptMoved DEF Telinit, Starting, Stopping, host
  <2>2. BoxTypes'
    BY <1>0, <1>1, <1>a, <1>b, BoxSet DEF Telinit, BoxTypes
  <2> QED
    BY <1>0, <1>1, <2>1, <2>2 DEF TypeInv, Telinit, host, HostTypes
<1>2. CASE WaitDown(s)
  <2>1. ScriptsInv'
    BY <1>2, <1>a, ScriptMoved DEF WaitDown, Starting, Stopping, host
  <2> QED
    BY <1>0, <1>2, <2>1 DEF TypeInv, WaitDown, host, HostTypes, BoxTypes
<1>3. CASE LxcKill(s)
  <2>1. ScriptsInv'
    BY <1>3, <1>a, ScriptMoved DEF LxcKill, Starting, Stopping, host
  <2>2. BoxTypes'
    BY <1>0, <1>3, <1>a, <1>b, BoxSet DEF LxcKill, BoxTypes
  <2> QED
    BY <1>0, <1>3, <2>1, <2>2 DEF TypeInv, LxcKill, host, HostTypes
<1>4. CASE Remove(s)
  <2>1. ScriptsInv'
    BY <1>4, <1>a, ScriptMoved DEF Remove, Starting, Stopping
  <2>2. BoxTypes'
    BY <1>0, <1>4, <1>a, <1>b, BoxSet DEF Remove, BoxTypes
  <2>3. shared' \in BOOLEAN
    BY <1>0, <1>4 DEF Remove, HostTypes
  <2> QED
    BY <1>0, <1>4, <2>1, <2>2, <2>3 DEF TypeInv, Remove, Upset, HostTypes
<1>5. CASE Destroy(s)
  <2>1. ScriptsInv'
    BY <1>5, <1>a, ScriptMovedOn DEF Destroy, host
  <2>2. BoxTypes'
    BY <1>0, <1>5, <1>a, <1>b, BoxSet DEF Destroy, BoxTypes
  <2> QED
    BY <1>0, <1>5, <2>1, <2>2 DEF TypeInv, Destroy, Upset, host, HostTypes
<1> QED
  BY <1>1, <1>2, <1>3, <1>4, <1>5 DEF StopStep

\* and what happens to the host.
LEMMA HostStep ==
  ASSUME TypeInv, Enable \/ Disable \/ Reboot
  PROVE  TypeInv'
<1>0. HostTypes /\ BoxTypes /\ ScriptsInv
  BY DEF TypeInv
<1>1. CASE Enable
  <2>1. conf' \in [enabled : BOOLEAN, prev : Levels, initmode : BOOLEAN]
    BY <1>0, <1>1 DEF Enable, HostTypes
  <2> QED
    BY <1>0, <1>1, <2>1
       DEF TypeInv, Enable, HostTypes, BoxTypes, ScriptsInv, AtABox, HasBase, step, Levels
<1>2. CASE Disable
  <2>1. conf' \in [enabled : BOOLEAN, prev : Levels, initmode : BOOLEAN]
    BY <1>0, <1>2 DEF Disable, HostTypes
  <2>2. inittab' \in Levels
    BY <1>0, <1>2, DisabledLevel DEF Disable, HostTypes
  <2> QED
    BY <1>0, <1>2, <2>1, <2>2
       DEF TypeInv, Disable, HostTypes, BoxTypes, ScriptsInv, AtABox, HasBase, step
<1>3. CASE Reboot
  <2>1. Off \in Scripted
    BY ContainersAssumption DEF Scripted, Places, Off
  <2>2. ScriptsInv'
    BY <1>3, <2>1 DEF Reboot, ScriptsInv, AtABox, HasBase, step, Off, Starting
  <2>3. \A c \in Boxes : [box[c] EXCEPT !.jail = FALSE, !.root = FALSE,
                                        !.late = NoLevel, !.run = "no",
                                        !.goal = NoLevel] \in Box
    <3> SUFFICES ASSUME NEW b \in Box
                 PROVE  [b EXCEPT !.jail = FALSE, !.root = FALSE,
                                  !.late = NoLevel, !.run = "no",
                                  !.goal = NoLevel] \in Box
      BY <1>0 DEF BoxTypes
    <3> QED
      BY DEF Box
  <2>4. BoxTypes'
    BY <1>3, <2>3 DEF Reboot, BoxTypes
  <2> QED
    BY <1>0, <1>3, <2>2, <2>4 DEF TypeInv, Reboot, HostTypes
<1> QED
  BY <1>1, <1>2, <1>3

\* Every step keeps the types.
LEMMA NextTypes == TypeInv /\ [BoxesNext]_boxVars => TypeInv'
<1> SUFFICES ASSUME TypeInv, [BoxesNext]_boxVars PROVE TypeInv'
  OBVIOUS
<1>0. HostTypes /\ BoxTypes /\ ScriptsInv
  BY DEF TypeInv
<1>1. ASSUME NEW s \in Scripts, NEW first \in {"shared", "telinit"}, Begin(s, first)
      PROVE  TypeInv'
  <2>1. 1 \in Boxes /\ [step |-> first, c |-> 1] \in Scripted /\ first \notin Starting
    BY ContainersAssumption DEF Boxes, Scripted, Places, Starting, Stopping
  <2>2. script' \in [Scripts -> Scripted]
    BY <1>0, <1>1, <2>1 DEF Begin, ScriptsInv
  <2>3. AtABox'
    BY <1>0, <1>1, <2>1 DEF Begin, ScriptsInv, AtABox, step
  <2>4. HasBase'
    BY <1>0, <1>1, <2>1 DEF Begin, ScriptsInv, HasBase, step, host
  <2> QED
    BY <1>0, <1>1, <2>2, <2>3, <2>4 DEF TypeInv, Begin, host, HostTypes, BoxTypes, ScriptsInv
<1>2. ASSUME NEW s \in Scripts, Interrupt(s) PROVE TypeInv'
  <2>1. ScriptsInv'
    BY <1>2, ScriptEnded DEF Interrupt, host
  <2> QED
    BY <1>0, <1>2, <2>1 DEF TypeInv, Interrupt, Upset, host, HostTypes, BoxTypes
<1>3. ASSUME NEW c \in Boxes, Reaches(c) PROVE TypeInv'
  <2>2. [box[c] EXCEPT !.level = box[c].goal, !.up = @ \/ box[c].goal = 5] \in Box
    <3>1. box[c].goal \in Levels \cup {0, NoLevel} /\ (box[c].up \/ box[c].goal = 5) \in BOOLEAN
      BY <1>0 DEF BoxTypes, Box
    <3> QED
      BY <1>0, <3>1 DEF BoxTypes, Box
  <2>3. BoxTypes'
    BY <1>0, <1>3, <2>2 DEF Reaches, BoxTypes
  <2> QED
    BY <1>0, <1>3, <2>3 DEF TypeInv, Reaches, host, HostTypes, ScriptsInv, AtABox, HasBase, step
<1>4. ASSUME NEW c \in Boxes, InitEnds(c) PROVE TypeInv'
  <2>1. [box[c] EXCEPT !.run = "no", !.goal = NoLevel] \in Box
    BY <1>0 DEF BoxTypes, Box
  <2>2. BoxTypes'
    BY <1>0, <1>4, <2>1 DEF InitEnds, BoxTypes
  <2>3. upset' \in BOOLEAN
    BY <1>0, <1>4 DEF InitEnds, HostTypes, BoxTypes, Box
  <2> QED
    BY <1>0, <1>4, <2>2, <2>3
       DEF TypeInv, InitEnds, host, HostTypes, ScriptsInv, AtABox, HasBase, step
<1>6. ASSUME NEW c \in Boxes, Settles(c) PROVE TypeInv'
  <2>1. [box[c] EXCEPT !.tab = box[c].late, !.late = NoLevel] \in Box
    BY <1>0, <1>6 DEF Settles, BoxTypes, Box
  <2>2. BoxTypes'
    BY <1>0, <1>6, <2>1 DEF Settles, BoxTypes
  <2> QED
    BY <1>0, <1>6, <2>2 DEF TypeInv, Settles, host, HostTypes, ScriptsInv, AtABox, HasBase, step
<1>5. CASE UNCHANGED boxVars
  BY <1>0, <1>5 DEF TypeInv, boxVars, HostTypes, BoxTypes, ScriptsInv, AtABox, HasBase, step
<1> QED
  BY <1>1, <1>2, <1>3, <1>4, <1>5, <1>6, StartTypes, StopTypes, HostStep DEF BoxesNext

-----------------------------------------------------------------------------
(* Containers: what holds until something is upset                         *)

\* What has gone wrong is never forgotten.
LEMMA UpsetStays == TypeInv /\ [BoxesNext]_boxVars /\ upset => upset'
BY DEF TypeInv, HostTypes, BoxesNext, Enable, Disable, Reboot, Begin, StartStep, StopStep, Shared,
       Check, Cache, Mount, Adjust, LxcCreate, LxcStart, WaitUp, Telinit, WaitDown, LxcKill, Remove,
       Destroy, Interrupt, Settles, Reaches, InitEnds, Upset, host, boxVars

\* A container is as it should be, and as the script that works on it takes it to be.
LEMMA BoxIs ==
  ASSUME TypeInv, Unharmed, NEW s \in Scripts, step(s) # "off"
  PROVE  /\ At(s) \in Box /\ script[s].c \in Boxes
         /\ Told(At(s)) /\ Own(At(s)) /\ Stopped(At(s)) /\ Worked(step(s), At(s))
BY BoxHere DEF Unharmed, Sound, UnderWay, At

\* The script at work goes on to a next step, or ends, with the container as it takes it to be.
LEMMA Moves ==
  ASSUME TypeInv, Unharmed, NEW s \in Scripts, step(s) # "off",
         NEW b \in Box, Set(s, b) \/ (b = At(s) /\ box' = box),
         Told(b), Own(b), Stopped(b),
         NEW l \in Starting \cup Stopping, ScriptTo(s, l), Worked(l, b)
  PROVE  Unharmed'
<1>1. /\ script[s].c \in Boxes /\ script \in [Scripts -> Scripted] /\ box \in [Boxes -> Box]
      /\ box' \in [Boxes -> Box]
  BY BoxHere, BoxSet DEF TypeInv, BoxTypes, ScriptsInv
<1>2. /\ box'[script[s].c] = b
      /\ \A c \in Boxes : c # script[s].c => box'[c] = box[c]
  BY <1>1 DEF Set, At
<1>3. \A r \in Scripts : r # s => step(r) = "off"
  BY DEF Unharmed, Alone
<1>4. /\ script'[s].c = script[s].c /\ script'[s].step = l
      /\ \A r \in Scripts : r # s => script'[r] = script[r]
  BY <1>1 DEF ScriptTo, Scripted
<1>5. Alone'
  BY <1>3, <1>4 DEF Alone, step
<1>6. Sound'
  BY <1>2 DEF Unharmed, Sound
<1>7. UnderWay'
  <2>1. \A r \in Scripts : script'[r].step # "off" => r = s
    BY <1>3, <1>4 DEF step
  <2>2. Worked(script'[s].step, box'[script'[s].c])
    BY <1>2, <1>4
  <2> QED
    BY <2>1, <2>2 DEF UnderWay, step, At
<1> QED
  BY <1>5, <1>6, <1>7 DEF Unharmed

\* It goes on to the next container, or ends.
LEMMA MovesOn ==
  ASSUME TypeInv, Unharmed, NEW s \in Scripts, step(s) # "off",
         NEW b \in Box, Set(s, b) \/ (b = At(s) /\ box' = box),
         Told(b), Own(b), Stopped(b),
         NEW l \in {"check", "telinit"},
         NextBox(s, l) \/ script' = [script EXCEPT ![s] = Off]
  PROVE  Unharmed'
<1>1. /\ script[s].c \in Boxes /\ script \in [Scripts -> Scripted] /\ box \in [Boxes -> Box]
  BY BoxHere DEF TypeInv, BoxTypes, ScriptsInv
<1>2. /\ box'[script[s].c] = b
      /\ \A c \in Boxes : c # script[s].c => box'[c] = box[c]
  BY <1>1 DEF Set, At
<1>3. \A r \in Scripts : r # s => step(r) = "off"
  BY DEF Unharmed, Alone
<1>4. /\ script'[s].step \in {"off", "check", "telinit"}
      /\ \A r \in Scripts : r # s => script'[r] = script[r]
  BY <1>1 DEF NextBox, Off
<1>5. Alone'
  BY <1>3, <1>4 DEF Alone, step
<1>6. Sound'
  BY <1>2 DEF Unharmed, Sound
<1>7. UnderWay'
  <2>1. \A r \in Scripts : script'[r].step # "off" => script'[r].step \in {"check", "telinit"}
    BY <1>3, <1>4 DEF step
  <2>2. \A p \in {"check", "telinit"} : \A c : Worked(p, c)
    BY DEF Worked
  <2> QED
    BY <2>1, <2>2 DEF UnderWay, step, At
<1> QED
  BY <1>5, <1>6, <1>7 DEF Unharmed

\* A step of "containers start" that nothing upsets leaves every container as it is
\* taken to be,
LEMMA StartUnharmed ==
  ASSUME TypeInv, Unharmed, ~upset', NEW s \in Scripts, StartStep(s)
  PROVE  Unharmed'
<1>a. step(s) # "off"
  BY DEF StartStep, Shared, Check, Cache, Mount, Adjust, LxcCreate, LxcStart, WaitUp
<1>b. /\ At(s) \in Box
      /\ Told(At(s)) /\ Own(At(s)) /\ Stopped(At(s)) /\ Worked(step(s), At(s))
  BY <1>a, BoxIs
<1>1. CASE Shared(s)
  <2>1. box' = box /\ (ScriptTo(s, "check") \/ script' = [script EXCEPT ![s] = Off])
    BY <1>1 DEF Shared
  <2>2. Worked("check", At(s)) /\ "check" \in Starting
    BY DEF Worked, Starting
  <2> QED
    BY <1>a, <1>b, <2>1, <2>2, Moves, MovesOn
<1>2. CASE Check(s)
  <2>1. box' = box /\ ((At(s).run = "no" /\ ScriptTo(s, "cache")) \/ NextBox(s, "check"))
    BY <1>2 DEF Check
  <2>2. At(s).run = "no" => Worked("cache", At(s))
    BY DEF Worked
  <2>3. "cache" \in Starting
    BY DEF Starting
  <2> QED
    BY <1>a, <1>b, <2>1, <2>2, <2>3, Moves, MovesOn
<1>3. CASE Cache(s)
  <2> DEFINE b == [At(s) EXCEPT !.fs = TRUE, !.tab = base, !.level = NoLevel]
  <2>1. ScriptTo(s, "mount") /\ (box' = box \/ Set(s, b))
    BY <1>3 DEF Cache, Upset
  <2>2. At(s).run = "no" /\ At(s).goal # 0
    BY <1>3, <1>b DEF Cache, Worked, Told, Box
  <2>3. base \in Levels
    BY <1>3 DEF Cache, TypeInv, ScriptsInv, HasBase, HostTypes, Starting
  <2>4. b \in Box /\ Told(b) /\ Own(b) /\ Stopped(b)
    <3>1. b \in Box /\ b.run = "no" /\ b.goal # 0 /\ b.level = NoLevel
      BY <1>b, <2>2, <2>3 DEF Box
    <3> QED
      BY <3>1 DEF Told, Own, Stopped, NoLevel
  <2>5. Worked("mount", b) /\ Worked("mount", At(s)) /\ "mount" \in Starting
    BY <1>b, <2>2 DEF Worked, Starting, Box
  <2> HIDE DEF b
  <2> QED
    BY <1>a, <1>b, <2>1, <2>4, <2>5, Moves
<1>4. CASE Mount(s)
  <2> DEFINE b == [At(s) EXCEPT !.jail = TRUE, !.root = TRUE,
                                !.level = IF At(s).root THEN @ ELSE NoLevel]
  <2>1. ScriptTo(s, "adjust") /\ Set(s, b)
    BY <1>4 DEF Mount, Upset
  <2>2. At(s).run = "no" /\ At(s).goal # 0
    BY <1>4, <1>b DEF Mount, Worked, Told, Box
  <2>3. b \in Box /\ Told(b) /\ Own(b) /\ Stopped(b)
    <3>1. /\ b \in Box /\ b.run = "no" /\ b.goal # 0
          /\ b.level = IF At(s).root THEN At(s).level ELSE NoLevel
      BY <1>b, <2>2 DEF Box
    <3> QED
      BY <1>b, <2>2, <3>1 DEF Told, Own, Stopped, NoLevel
  <2>4. Worked("adjust", b) /\ "adjust" \in Starting
    BY <1>b, <2>2 DEF Worked, Starting, Box
  <2> HIDE DEF b
  <2> QED
    BY <1>a, <1>b, <2>1, <2>3, <2>4, Moves
<1>5. CASE Adjust(s)
  <2>1. At(s).run = "no" /\ At(s).goal # 0 /\ At(s).root /\ At(s).jail
    BY <1>5, <1>b DEF Adjust, Worked, Told, Box
  <2>2. PICK o \in Adjusted(At(s).tab) :
          Set(s, [At(s) EXCEPT !.go = TRUE, !.tab = o.tab, !.late = o.late])
    BY <1>5, <2>1 DEF Adjust
  <2>3. o.tab \in Levels /\ o.late \in Levels \cup {NoLevel}
    BY <1>b, <2>2, AdjustedLevels DEF TypeInv, HostTypes, Box
  <2> DEFINE b == [At(s) EXCEPT !.go = TRUE, !.tab = o.tab, !.late = o.late]
  <2>4. Set(s, b) /\ ScriptTo(s, "create")
    BY <1>5, <2>2 DEF Adjust
  <2>5. b \in Box /\ Told(b) /\ Own(b) /\ Stopped(b)
    BY <1>b, <2>1, <2>3 DEF Box, Told, Own, Stopped
  <2>6. Worked("create", b) /\ "create" \in Starting
    BY <1>b, <2>1 DEF Worked, Starting, Box
  <2> HIDE DEF b
  <2> QED
    BY <1>a, <1>b, <2>4, <2>5, <2>6, Moves
<1>6. CASE LxcCreate(s)
  <2> DEFINE b == [At(s) EXCEPT !.made = TRUE]
  <2>1. Set(s, b) /\ ScriptTo(s, "start")
    BY <1>6 DEF LxcCreate, Upset
  <2>2. At(s).run = "no" /\ At(s).goal # 0 /\ At(s).root /\ At(s).jail /\ At(s).go
    BY <1>6, <1>b DEF LxcCreate, Worked, Told, Box
  <2>3. b \in Box /\ Told(b) /\ Own(b) /\ Stopped(b)
    BY <1>b, <2>2 DEF Box, Told, Own, Stopped
  <2>4. Worked("start", b) /\ "start" \in Starting
    BY <1>b, <2>2 DEF Worked, Starting, Box
  <2> HIDE DEF b
  <2> QED
    BY <1>a, <1>b, <2>1, <2>3, <2>4, Moves
<1>7. CASE LxcStart(s)
  <2>1. /\ At(s).run = "no" /\ At(s).goal # 0 /\ At(s).root /\ At(s).jail /\ At(s).go
        /\ At(s).made /\ At(s).level # 5
    BY <1>7, <1>b DEF LxcStart, Worked, Told, Stopped, Box
  <2> DEFINE b == [At(s) EXCEPT !.run = IF At(s).made THEN "own" ELSE "bare",
                                !.goal = At(s).tab, !.up = FALSE]
  <2>2. Set(s, b) /\ ScriptTo(s, "wait")
    BY <1>7 DEF LxcStart, Upset
  <2>3. b \in Box /\ Told(b) /\ Own(b) /\ Stopped(b)
    BY <1>b, <2>1 DEF Box, Told, Own, Stopped
  <2>4. Worked("wait", b) /\ "wait" \in Starting
    BY <1>b, <2>1 DEF Worked, Starting, Box, NoLevel, Levels
  <2> HIDE DEF b
  <2> QED
    BY <1>a, <1>b, <2>2, <2>3, <2>4, Moves
<1>8. CASE WaitUp(s)
  <2>1. box' = box /\ NextBox(s, "check")
    BY <1>8 DEF WaitUp
  <2> QED
    BY <1>a, <1>b, <2>1, MovesOn
<1> QED
  BY <1>1, <1>2, <1>3, <1>4, <1>5, <1>6, <1>7, <1>8 DEF StartStep

\* and so does one of "containers stop",
LEMMA StopUnharmed ==
  ASSUME TypeInv, Unharmed, ~upset', NEW s \in Scripts, StopStep(s)
  PROVE  Unharmed'
<1>a. step(s) # "off"
  BY DEF StopStep, Telinit, WaitDown, LxcKill, Remove, Destroy
<1>b. /\ At(s) \in Box
      /\ Told(At(s)) /\ Own(At(s)) /\ Stopped(At(s)) /\ Worked(step(s), At(s))
  BY <1>a, BoxIs
<1>c. {"down", "kill", "remove", "destroy"} \subseteq Stopping
  BY DEF Stopping
<1>1. CASE Telinit(s)
  <2> DEFINE b == IF At(s).root /\ At(s).run = "own" THEN [At(s) EXCEPT !.goal = 0] ELSE At(s)
  <2>1. (Set(s, b) \/ (b = At(s) /\ box' = box)) /\ ScriptTo(s, "down")
    BY <1>1 DEF Telinit
  <2>2. b \in Box /\ Told(b) /\ Own(b) /\ Stopped(b) /\ Worked("down", b)
    BY <1>b DEF Box, Told, Own, Stopped, Worked
  <2> HIDE DEF b
  <2> QED
    BY <1>a, <1>b, <1>c, <2>1, <2>2, Moves
<1>2. CASE WaitDown(s)
  <2>1. box' = box /\ ScriptTo(s, "kill")
    BY <1>2 DEF WaitDown
  <2>2. Worked("kill", At(s))
    BY <1>2, <1>b DEF WaitDown, Worked
  <2> QED
    BY <1>a, <1>b, <1>c, <2>1, <2>2, Moves
<1>3. CASE LxcKill(s)
  <2> DEFINE b == [At(s) EXCEPT !.run = "no", !.goal = NoLevel]
  <2>1. Set(s, b) /\ ScriptTo(s, "remove")
    BY <1>3 DEF LxcKill
  <2>2. At(s).level = 0
    BY <1>3, <1>b DEF LxcKill, Worked
  <2>3. b \in Box /\ Told(b) /\ Own(b) /\ Stopped(b) /\ Worked("remove", b)
    <3>0. NoLevel # 0
      BY DEF NoLevel
    <3>1. b \in Box /\ b.run = "no" /\ b.goal # 0 /\ b.level = 0
      BY <1>b, <2>2, <3>0 DEF Box
    <3> QED
      BY <3>1 DEF Told, Own, Stopped, Worked
  <2> HIDE DEF b
  <2> QED
    BY <1>a, <1>b, <1>c, <2>1, <2>3, Moves
<1>4. CASE Remove(s)
  <2> DEFINE b == [At(s) EXCEPT !.root = FALSE, !.jail = FALSE, !.go = FALSE]
  <2>1. Set(s, b) /\ ScriptTo(s, "destroy")
    BY <1>4 DEF Remove, Upset
  <2>2. At(s).run = "no"
    BY <1>4, <1>b DEF Remove, Worked
  <2>3. b \in Box /\ Told(b) /\ Own(b) /\ Stopped(b) /\ Worked("destroy", b)
    BY <1>b, <2>2 DEF Box, Told, Own, Stopped, Worked
  <2> HIDE DEF b
  <2> QED
    BY <1>a, <1>b, <1>c, <2>1, <2>3, Moves
<1>5. CASE Destroy(s)
  <2> DEFINE b == [At(s) EXCEPT !.made = FALSE]
  <2>1. Set(s, b) /\ NextBox(s, "telinit")
    BY <1>5 DEF Destroy, Upset
  <2>2. At(s).run = "no"
    BY <1>5, <1>b DEF Destroy, Worked
  <2>3. b \in Box /\ Told(b) /\ Own(b) /\ Stopped(b)
    BY <1>b, <2>2 DEF Box, Told, Own, Stopped
  <2> HIDE DEF b
  <2> QED
    BY <1>a, <1>b, <2>1, <2>3, MovesOn
<1> QED
  BY <1>1, <1>2, <1>3, <1>4, <1>5 DEF StopStep

\* What a container's init does to it.
LEMMA InitDoes ==
  ASSUME TypeInv, Unharmed, ~upset', NEW c \in Boxes, Settles(c) \/ Reaches(c) \/ InitEnds(c)
  PROVE  Unharmed'
<1>1. box[c] \in Box /\ Told(box[c]) /\ Own(box[c]) /\ Stopped(box[c])
  BY DEF TypeInv, BoxTypes, Unharmed, Sound
<1>2. script' = script
  BY DEF Settles, Reaches, InitEnds
<1>3. PICK b : /\ box' = [box EXCEPT ![c] = b]
               /\ Told(b) /\ Own(b) /\ Stopped(b)
               /\ \A p : Worked(p, box[c]) => Worked(p, b)
  <2>1. CASE Reaches(c)
    <3>1. box[c].run = "own"
      BY <2>1 DEF Reaches
    <3> DEFINE b == [box[c] EXCEPT !.level = box[c].goal, !.up = @ \/ box[c].goal = 5]
    <3>2. box' = [box EXCEPT ![c] = b]
      BY <2>1 DEF Reaches, TypeInv, BoxTypes
    <3>3. /\ b.level = box[c].goal /\ b.up = (box[c].up \/ box[c].goal = 5) /\ b.run = "own"
          /\ b.goal = box[c].goal /\ b.made = box[c].made /\ b.go = box[c].go
          /\ b.root = box[c].root /\ b.jail = box[c].jail
      BY <1>1, <3>1 DEF Box
    <3> HIDE DEF b
    <3>4. Told(b) /\ Own(b) /\ Stopped(b)
      BY <1>1, <3>1, <3>3 DEF Told, Own, Stopped
    <3>5. \A p : Worked(p, box[c]) => Worked(p, b)
      BY <1>1, <3>1, <3>3 DEF Worked
    <3> QED
      BY <3>2, <3>4, <3>5
  <2>2. CASE InitEnds(c)
    <3>1. box[c].goal = 0 /\ box[c].level = 0 /\ box[c].run = "own"
      BY <1>1, <2>2 DEF InitEnds, Told
    <3> DEFINE b == [box[c] EXCEPT !.run = "no", !.goal = NoLevel]
    <3>2. box' = [box EXCEPT ![c] = b]
      BY <2>2 DEF InitEnds, TypeInv, BoxTypes
    <3>3. /\ b.level = 0 /\ b.run = "no" /\ b.goal # 0
          /\ b.made = box[c].made /\ b.go = box[c].go
          /\ b.root = box[c].root /\ b.jail = box[c].jail
      BY <1>1, <3>1 DEF Box, NoLevel, Levels
    <3> HIDE DEF b
    <3>4. Told(b) /\ Own(b) /\ Stopped(b)
      BY <1>1, <3>1, <3>3 DEF Told, Own, Stopped
    <3>5. \A p : Worked(p, box[c]) => Worked(p, b)
      BY <1>1, <3>1, <3>3 DEF Worked
    <3> QED
      BY <3>2, <3>4, <3>5
  <2>3. CASE Settles(c)
    <3> DEFINE b == [box[c] EXCEPT !.tab = box[c].late, !.late = NoLevel]
    <3>1. box' = [box EXCEPT ![c] = b]
      BY <2>3 DEF Settles, TypeInv, BoxTypes
    <3>2. /\ b.level = box[c].level /\ b.up = box[c].up /\ b.run = box[c].run
          /\ b.goal = box[c].goal /\ b.made = box[c].made /\ b.go = box[c].go
          /\ b.root = box[c].root /\ b.jail = box[c].jail
      BY <1>1 DEF Box
    <3> HIDE DEF b
    <3> QED
      BY <1>1, <3>1, <3>2 DEF Told, Own, Stopped, Worked
  <2> QED
    BY <2>1, <2>2, <2>3
<1>4. box'[c] = b /\ \A d \in Boxes : d # c => box'[d] = box[d]
  BY <1>3 DEF TypeInv, BoxTypes
<1>5. Alone'
  BY <1>2 DEF Unharmed, Alone, step
<1>6. Sound'
  BY <1>3, <1>4 DEF Unharmed, Sound
<1>7. UnderWay'
  <2> SUFFICES ASSUME NEW s \in Scripts, script[s].step # "off"
               PROVE  Worked(script[s].step, box'[script[s].c])
    BY <1>2 DEF UnderWay, step, At
  <2>1. script[s].c \in Boxes /\ Worked(script[s].step, box[script[s].c])
    BY BoxIs DEF step, At
  <2> QED
    BY <1>3, <1>4, <2>1
<1> QED
  BY <1>5, <1>6, <1>7 DEF Unharmed

\* and any other step.
LEMMA NextUnharmed == TypeInv /\ Unharmed /\ ~upset' /\ [BoxesNext]_boxVars => Unharmed'
<1> SUFFICES ASSUME TypeInv, Unharmed, ~upset', [BoxesNext]_boxVars PROVE Unharmed'
  OBVIOUS
<1>1. CASE Enable \/ Disable \/ UNCHANGED boxVars
  BY <1>1 DEF Enable, Disable, boxVars, Unharmed, Alone, Sound, UnderWay, step, At
<1>2. CASE Reboot
  <2>1. \A s \in Scripts : script'[s].step = "off"
    BY <1>2 DEF Reboot, Off
  <2>2. ASSUME NEW c \in Boxes PROVE Told(box'[c]) /\ Own(box'[c]) /\ Stopped(box'[c])
    <3>1. box[c] \in Box
      BY DEF TypeInv, BoxTypes
    <3>0. NoLevel # 0
      BY DEF NoLevel
    <3>2. ~box'[c].root /\ box'[c].run = "no" /\ box'[c].goal # 0
      BY <1>2, <3>0, <3>1 DEF Reboot, Box
    <3> QED
      BY <3>2 DEF Told, Own, Stopped
  <2> QED
    BY <2>1, <2>2 DEF Unharmed, Alone, Sound, UnderWay, step
<1>3. ASSUME NEW s \in Scripts, NEW first \in {"shared", "telinit"}, Begin(s, first)
      PROVE  Unharmed'
  <2>1. \A r \in Scripts : r # s => step(r) = "off"
    BY <1>3 DEF Begin
  <2>2. /\ box' = box /\ script'[s].step = first
        /\ \A r \in Scripts : r # s => script'[r].step = "off"
    BY <1>3, <2>1 DEF Begin, TypeInv, ScriptsInv, step
  <2>3. \A c : Worked(first, c)
    BY DEF Worked
  <2>4. Alone' /\ Sound'
    BY <2>2 DEF Unharmed, Alone, Sound, step
  <2>5. UnderWay'
    BY <2>2, <2>3 DEF UnderWay, step, At
  <2> QED
    BY <2>4, <2>5 DEF Unharmed
<1>4. ASSUME NEW s \in Scripts, Interrupt(s) PROVE Unharmed'
  BY <1>4 DEF Interrupt, Upset
<1> QED
  BY <1>1, <1>2, <1>3, <1>4, StartUnharmed, StopUnharmed, InitDoes DEF BoxesNext

\* Nothing has been built or started at first.
LEMMA InitUnharmed == BoxesInit => Unharmed
BY DEF BoxesInit, Unharmed, Alone, Sound, UnderWay, step, Off, Fresh, Told, Own, Stopped, NoLevel

\* Every step keeps the invariant.
LEMMA NextContainersInv == ContainersInv /\ [BoxesNext]_boxVars => ContainersInv'
BY NextTypes, NextUnharmed, UpsetStays DEF ContainersInv

\* The invariant holds in every reachable state.
LEMMA ContainersInvariant == BoxesSpec => []ContainersInv
<1>1. BoxesInit => ContainersInv
  BY InitTypes, InitUnharmed DEF ContainersInv
<1> QED
  BY <1>1, NextContainersInv, PTL DEF BoxesSpec

(***************************************************************************)
(* As long as nothing failed unnoticed, nobody interrupted a script, no    *)
(* two of them overlapped and no container ended by itself, a container    *)
(* that runs is one that was made by lxc-create, with its flag file, its   *)
(* root and its cache mounted: "stop" unmounts nothing of a container that *)
(* is not down (containers, stop and remove), however often the host goes  *)
(* down.                                                                   *)
(***************************************************************************)
THEOREM OwnRootHolds == BoxesSpec => []OwnRoot
<1>1. ContainersInv => OwnRoot
  BY DEF ContainersInv, Unharmed, Sound, Own, OwnRoot
<1> QED
  BY <1>1, ContainersInvariant, PTL

(***************************************************************************)
(* "done" is printed for a container that has come up since it was         *)
(* started: the level 5 that waitUp reads in __curlevel__ is not the one   *)
(* its last run left there, because mountit removes that file with the     *)
(* first mount of the root.                                                *)
(***************************************************************************)
THEOREM StartMeansUpHolds == BoxesSpec => StartMeansUp
<1>1. ContainersInv /\ [BoxesNext]_boxVars =>
        [\A s \in Scripts : WaitUp(s) /\ ~upset => At(s).run = "own" /\ At(s).up]_boxVars
  <2> SUFFICES ASSUME ContainersInv, NEW s \in Scripts, WaitUp(s), ~upset
               PROVE  At(s).run = "own" /\ At(s).up
    BY DEF boxVars
  <2>1. step(s) = "wait" /\ At(s).level = 5
    BY DEF WaitUp
  <2>2. Own(At(s)) /\ Worked(step(s), At(s))
    BY <2>1, BoxIs DEF ContainersInv
  <2> QED
    BY <2>1, <2>2 DEF Own, Worked
<1> QED
  BY <1>1, ContainersInvariant, PTL DEF BoxesSpec, StartMeansUp

-----------------------------------------------------------------------------
(* Smoke: the first port                                                   *)

\* A set of natural numbers that has a bound has a smallest element, which is what
\* Min chooses.
LEMMA MinOfBounded ==
    ASSUME NEW n \in Nat, NEW S, S \subseteq 0..n, S # {}
    PROVE  Min(S) \in S /\ \A s \in S : Min(S) <= s
<1> DEFINE Down == {0..s : s \in S}
<1>1. IsWellFoundedOn(StrictSubsetOrdering(0..n), FiniteSubsetsOf(0..n))
  BY FS_StrictSubsetOrderingWellFounded, Zenon
<1>2. Down \subseteq FiniteSubsetsOf(0..n) /\ Down # {}
  <2>1. \A s \in S : s \in Int /\ 0..s \subseteq 0..n
    OBVIOUS
  <2>2. \A s \in S : IsFiniteSet(0..s)
    BY <2>1, FS_Interval
  <2> QED
    BY <2>1, <2>2, Zenon DEF FiniteSubsetsOf
<1>3. PICK d \in Down : \A e \in Down : <<e, d>> \notin StrictSubsetOrdering(0..n)
  <2> HIDE DEF Down
  <2> QED
    BY <1>1, <1>2, WFMin
<1>4. PICK x \in S : d = 0..x
  BY <1>3
<1>5. ASSUME NEW y \in S PROVE x <= y
  <2>1. <<0..y, 0..x>> \notin StrictSubsetOrdering(0..n)
    BY <1>3, <1>4
  <2>2. 0..y \subseteq 0..n /\ 0..x \subseteq 0..n /\ x \in Nat /\ y \in Nat
    BY <1>4
  <2>3. ~ (0..y \subseteq 0..x /\ 0..y # 0..x)
    BY <2>1, <2>2 DEF StrictSubsetOrdering
  <2>4. CASE y < x
    <3>1. 0..y \subseteq 0..x
      BY <2>2, <2>4
    <3>2. x \in 0..x /\ x \notin 0..y
      BY <2>2, <2>4
    <3> QED
      BY <2>3, <3>1, <3>2
  <2> QED
    BY <2>2, <2>4
<1> QED
  BY <1>4, <1>5 DEF Min

\* So has any set of natural numbers.
LEMMA MinIsIn ==
  ASSUME NEW S, S \subseteq Nat, S # {}
  PROVE  Min(S) \in S
<1>1. PICK n \in S : n \in Nat
  OBVIOUS
<1> DEFINE T == {s \in S : s <= n}
<1>2. T \subseteq 0..n /\ T # {}
  <2>1. n \in T
    BY <1>1
  <2>2. \A t \in T : t \in Nat /\ t <= n
    OBVIOUS
  <2> HIDE DEF T
  <2> QED
    BY <1>1, <2>1, <2>2
<1>3. Min(T) \in T /\ \A t \in T : Min(T) <= t
  <2> HIDE DEF T
  <2> QED
    BY <1>1, <1>2, MinOfBounded
<1>4. ASSUME NEW s \in S PROVE Min(T) <= s
  <2>1. Min(T) \in Nat /\ Min(T) <= n /\ s \in Nat
    BY <1>3
  <2>2. CASE s <= n
    BY <1>3, <2>2
  <2>3. CASE ~(s <= n)
    BY <1>1, <2>1, <2>3
  <2> QED
    BY <2>2, <2>3
<1> HIDE DEF T
<1>5. Min(T) \in S
  BY <1>3 DEF T
<1> QED
  BY <1>4, <1>5 DEF Min

-----------------------------------------------------------------------------
(* Smoke: the invariant                                                    *)

\* Where the script is; what is kept of a machine and of a user that calls.
Script == {"shutdown", "console", "insert", "start", "register", "event", "try", "sync",
           "again"}
Blob   == [port : Ports \cup {None}, known : BOOLEAN, labelled : BOOLEAN]
Caller == [proc : Procs, vm : VMs] \cup {Away}

\* Machines, consoles and users keep their types.
Types ==
    /\ blob \in [VMs -> Blob]
    /\ pc \in [Procs -> Consoles \cup Script \cup Ended]
    /\ vm \in [Procs -> VMs]
    /\ port \in [Procs -> Ports \cup {None}]
    /\ at \in [Clients -> Caller]
    /\ raced \in BOOLEAN

\* Who has reached a console has reached one that answers.
Answered == \A c \in Clients : at[c] # Away => pc[at[c].proc] \in Serving

\* One console at a time chooses its port and says so.
OneChooser == \A p, q \in Procs : pc[p] \in Choosing /\ pc[q] \in Choosing => p = q

\* A port in a blob of the hypervisor is found by its label, or is about to get one; a
\* machine without a blob has no port.
Described == \A v \in VMs :
    /\ blob[v].port # None =>
          blob[v].labelled \/ \E p \in Procs : pc[p] = "label" /\ vm[p] = v
    /\ ~blob[v].known => blob[v].port = None

\* No two machines have the same port.
Distinct == \A v, w \in VMs : blob[v].port # None /\ blob[v].port = blob[w].port => v = w

\* A console listens on the port of its machine's blob.
OfBlob == \A p \in Procs : pc[p] \in {"label", "bind"} \cup Serving =>
    port[p] = blob[vm[p]].port /\ port[p] # None

\* The port that is about to be put in a blob is in none.
Chosen == \A p \in Procs :
    /\ pc[p] \in {"create", "describe"} =>
          port[p] # None /\ \A v \in VMs : blob[v].port # port[p]
    /\ pc[p] = "describe" => blob[vm[p]].known /\ blob[vm[p]].port = None

\* A user has reached the console of the machine he asked for.
RightAnswer == \A c \in Clients : at[c] # Away => vm[at[c].proc] = at[c].vm

\* What holds until two consoles choose at the same time, or one ends while it chooses
\* (raced).
Apart == OneChooser /\ Described /\ Distinct /\ OfBlob /\ Chosen /\ RightAnswer

ConsoleInv == Types /\ Answered /\ (~raced => Apart)

\* No console has been started, and nobody has called.
LEMMA InitInv == Init => ConsoleInv
<1> SUFFICES ASSUME Init PROVE ConsoleInv
  OBVIOUS
<1>1. NoBlob \in Blob
  BY DEF NoBlob, Blob
<1>2. {"shutdown", "free"} \subseteq Script \cup Ended
  BY DEF Script, Ended
<1>3. Types
  BY <1>1, <1>2, SmokeAssumption DEF Init, ConsoleInit, Types, Caller
<1>4. /\ \A v \in VMs : blob[v].port = None
      /\ \A p \in Procs : pc[p] \in {"shutdown", "free"}
      /\ \A c \in Clients : at[c] = Away
  BY DEF Init, ConsoleInit, NoBlob
<1>5. Answered /\ Apart
  BY <1>4 DEF Answered, Apart, OneChooser, Described, Distinct, OfBlob, Chosen, RightAnswer,
              Choosing, Serving
<1> QED
  BY <1>3, <1>5 DEF ConsoleInv

\* Who has called has a process, and the machine asked for.
LEMMA CallerIs ==
  ASSUME Types, NEW c \in Clients, at[c] # Away
  PROVE  at[c].proc \in Procs /\ at[c].vm \in VMs
BY DEF Types, Caller

\* A user is cut off, or keeps his console.
LEMMA HungUp ==
  ASSUME Types, NEW C \in SUBSET Clients, HangsUpOn(C)
  PROVE  /\ at' \in [Clients -> Caller]
         /\ \A c \in Clients : at'[c] # Away => c \notin C /\ at'[c] = at[c]
BY DEF Types, HangsUpOn, Caller

(***************************************************************************)
(* Steps of the script: a process that is no console stays one that has    *)
(* chosen no port.                                                         *)
(***************************************************************************)
LEMMA Elsewhere ==
  ASSUME ConsoleInv, UNCHANGED <<blob, port, raced, at>>,
         pc' \in [Procs -> Consoles \cup Script \cup Ended], vm' \in [Procs -> VMs],
         \A p \in Procs : \/ pc'[p] = pc[p] /\ vm'[p] = vm[p]
                          \/ pc[p] \notin Consoles \ {"look"} /\ pc'[p] \notin Consoles \ {"look", "scan"}
  PROVE  ConsoleInv'
<1> USE DEF ConsoleInv, Consoles, Finding, Choosing, Serving
<1>1. Types'
  BY DEF Types
<1>2. Answered'
  BY CallerIs DEF Answered
<1>3. ~raced => Apart'
  BY CallerIs DEF Answered, Apart, OneChooser, Described, Distinct, OfBlob, Chosen, RightAnswer
<1> QED
  BY <1>1, <1>2, <1>3

\* A console that serves goes on serving.
LEMMA Serves ==
  ASSUME ConsoleInv, NEW p \in Procs, NEW l \in Serving, pc[p] \in Serving \cup {"bind"},
         Go(p, l), UNCHANGED <<blob, port, raced, at, vm>>
  PROVE  ConsoleInv'
<1> USE DEF ConsoleInv, Consoles, Finding, Choosing, Serving, Go
<1>1. Types'
  BY DEF Types
<1>2. Answered'
  BY CallerIs DEF Answered, Types
<1>3. ~raced => Apart'
  <2> SUFFICES ASSUME ~raced PROVE Apart'
    OBVIOUS
  <2>1. OneChooser' /\ Described' /\ Distinct'
    BY DEF Types, Apart, OneChooser, Described, Distinct
  <2>2. OfBlob' /\ Chosen' /\ RightAnswer'
    BY CallerIs DEF Types, Apart, OfBlob, Chosen, RightAnswer
  <2> QED
    BY <2>1, <2>2 DEF Apart
<1> QED
  BY <1>1, <1>2, <1>3

\* A console ends, or goes back to the script, and its callers are hung up on.
LEMMA Stops ==
  ASSUME ConsoleInv, NEW p \in Procs, NEW l \in Script \cup Ended, NEW v \in VMs,
         Go(p, l), vm' = [vm EXCEPT ![p] = v], port' = [port EXCEPT ![p] = None],
         HangsUpOn(Callers(p)), blob' = blob,
         raced' \in BOOLEAN, raced => raced', pc[p] \in Choosing => raced'
  PROVE  ConsoleInv'
<1> USE DEF ConsoleInv, Consoles, Finding, Choosing, Serving, Go
<1>0. l \notin Consoles
  BY DEF Script, Ended
<1>a. /\ at' \in [Clients -> Caller]
      /\ \A c \in Clients : at'[c] # Away => at[c].proc # p /\ at'[c] = at[c]
  BY HungUp DEF Callers
<1>1. Types'
  BY <1>a DEF Types
<1>2. Answered'
  BY <1>a, CallerIs DEF Answered, Types
<1>3. ~raced' => Apart'
  <2> SUFFICES ASSUME ~raced, pc[p] \notin Choosing PROVE Apart'
    OBVIOUS
  <2>1. OneChooser' /\ Distinct'
    BY <1>0 DEF Types, Apart, OneChooser, Distinct
  <2>2. Described'
    <3>1. \A q \in Procs : pc[q] = "label" => pc'[q] = "label" /\ vm'[q] = vm[q]
      BY DEF Types
    <3> QED
      BY <3>1 DEF Apart, Described
  <2>3. OfBlob' /\ Chosen'
    BY <1>0 DEF Types, Apart, OfBlob, Chosen
  <2>4. RightAnswer'
    BY <1>a, CallerIs DEF Types, Apart, RightAnswer
  <2> QED
    BY <2>1, <2>2, <2>3, <2>4 DEF Apart
<1> QED
  BY <1>1, <1>2, <1>3

\* The end of a console, or its death, is a stop.
LEMMA EndStops ==
  ASSUME ConsoleInv, NEW p \in Procs, NEW joined, Go(p, "dead"), Gone(p, joined)
  PROVE  ConsoleInv'
<1>1. "dead" \in Script \cup Ended
  BY DEF Ended
<1>2. vm[p] \in VMs /\ vm' = [vm EXCEPT ![p] = vm[p]]
  BY DEF ConsoleInv, Types, Gone
<1>3. raced' \in BOOLEAN /\ (raced => raced') /\ (pc[p] \in Choosing => raced')
  BY DEF ConsoleInv, Types, Gone
<1> QED
  BY <1>1, <1>2, <1>3, Stops DEF Gone

-----------------------------------------------------------------------------
(* Smoke: the steps of getTelnet                                           *)

\* look: the port of the blob that has the label, or none.
LEMMA Looks ==
  ASSUME ConsoleInv, NEW p \in Procs, Look(p)
  PROVE  ConsoleInv'
<1>1. CASE Go(p, "scan") /\ UNCHANGED <<ports, users, link, vm, xen>>
  <2>1. pc' \in [Procs -> Consoles \cup Script \cup Ended]
    BY <1>1 DEF ConsoleInv, Types, Go, Consoles, Finding
  <2>2. \A q \in Procs : q # p => pc'[q] = pc[q]
    BY <1>1 DEF ConsoleInv, Types, Go
  <2>3. pc[p] = "look" /\ pc'[p] = "scan"
    BY <1>1 DEF ConsoleInv, Types, Go, Look
  <2>4. vm' = vm /\ vm \in [Procs -> VMs] /\ UNCHANGED <<blob, port, raced, at>>
    BY <1>1 DEF ConsoleInv, Types, ports, users
  <2> QED
    BY <2>1, <2>2, <2>3, <2>4, Elsewhere
<1>2. CASE /\ blob[vm[p]].known /\ blob[vm[p]].port # None
           /\ port' = [port EXCEPT ![p] = blob[vm[p]].port]
           /\ Go(p, "bind")
           /\ UNCHANGED <<users, link, blob, kills, raced, vm, xen>>
  <2> USE DEF ConsoleInv, Consoles, Finding, Choosing, Serving, Go
  <2>a. vm[p] \in VMs /\ at' = at /\ pc[p] = "look"
    BY <1>2 DEF Types, users, Look
  <2>1. Types'
    BY <1>2, <2>a DEF Types, Blob
  <2>2. Answered'
    BY <1>2, <2>a, CallerIs DEF Answered, Types
  <2>3. ~raced => Apart'
    <3> SUFFICES ASSUME ~raced PROVE Apart'
      OBVIOUS
    <3>1. OneChooser' /\ Distinct'
      BY <1>2 DEF Types, Apart, OneChooser, Distinct
    <3>2. Described'
      <4>1. \A q \in Procs : pc[q] = "label" => pc'[q] = "label"
        BY <1>2, <2>a DEF Types
      <4> QED
        BY <1>2, <4>1 DEF Apart, Described
    <3>3. OfBlob' /\ Chosen'
      BY <1>2 DEF Types, Apart, OfBlob, Chosen
    <3>4. RightAnswer'
      BY <1>2, <2>a DEF Apart, RightAnswer
    <3> QED
      BY <3>1, <3>2, <3>3, <3>4 DEF Apart
  <2> QED
    BY <1>2, <2>1, <2>2, <2>3
<1>3. CASE End(p)
  BY <1>3, EndStops DEF End, Ends
<1>4. blob[vm[p]].known \in BOOLEAN
  BY DEF ConsoleInv, Types, Blob
<1>5. CASE ~blob[vm[p]].known
  BY <1>1, <1>5 DEF Look
<1>6. CASE blob[vm[p]].known /\ blob[vm[p]].port # None
  BY <1>2, <1>6 DEF Look
<1>7. CASE blob[vm[p]].known /\ blob[vm[p]].port = None
  BY <1>3, <1>7 DEF Look
<1> QED
  BY <1>4, <1>5, <1>6, <1>7

\* The port that is chosen is no blob's, labelled or not.
LEMMA Scans ==
  ASSUME ConsoleInv, NEW p \in Procs, Scan(p)
  PROVE  ConsoleInv'
<1>1. CASE End(p)
  BY <1>1, EndStops DEF End, Ends
<1>2. CASE /\ ~ (Ports \subseteq Used)
           /\ port' = [port EXCEPT ![p] = Min(Ports \ Used)]
           /\ raced' = (raced \/ \E q \in Procs : pc[q] \in Choosing)
           /\ Go(p, "create")
           /\ UNCHANGED <<blob, kills, vm, xen, link, users>>
  <2> USE DEF ConsoleInv, Consoles, Finding, Choosing, Serving, Go
  <2> DEFINE n == Min(Ports \ Used)
  <2>a. n \in Ports \ Used /\ n # None
    <3>1. Ports \ Used \subseteq Nat /\ Ports \ Used # {}
      BY <1>2, ConsoleAssumption
    <3>2. n \in Ports \ Used
      BY <3>1, MinIsIn
    <3> QED
      BY <3>2, ConsoleAssumption
  <2> HIDE DEF n
  <2>b. port' = [port EXCEPT ![p] = n] /\ at' = at /\ pc[p] = "scan"
    BY <1>2 DEF n, users, Scan
  <2>1. Types'
    BY <1>2, <2>a, <2>b DEF Types
  <2>2. Answered'
    BY <1>2, <2>b, CallerIs DEF Answered, Types
  <2>3. ~raced' => Apart'
    <3> SUFFICES ASSUME ~raced' PROVE Apart'
      OBVIOUS
    <3>0. ~raced /\ \A q \in Procs : pc[q] \notin Choosing
      BY <1>2 DEF Types
    <3>1. \A v \in VMs : blob[v].port # n
      BY <2>a, <3>0 DEF Apart, Described, Used
    <3>2. OneChooser' /\ Distinct'
      BY <1>2, <3>0 DEF Types, Apart, OneChooser, Distinct
    <3>3. Described'
      BY <1>2, <3>0 DEF Apart, Described
    <3>4. OfBlob'
      BY <1>2, <2>b, <3>0 DEF Types, Apart, OfBlob
    <3>5. Chosen'
      BY <1>2, <2>a, <2>b, <3>0, <3>1 DEF Types, Chosen
    <3>6. RightAnswer'
      BY <1>2, <2>b, <3>0 DEF Apart, RightAnswer
    <3> QED
      BY <3>2, <3>3, <3>4, <3>5, <3>6 DEF Apart
  <2> QED
    BY <2>1, <2>2, <2>3
<1> QED
  BY <1>1, <1>2 DEF Scan

\* A new blob has no port yet.
LEMMA Creates ==
  ASSUME ConsoleInv, NEW p \in Procs, Create(p)
  PROVE  ConsoleInv'
<1>1. CASE End(p)
  BY <1>1, EndStops DEF End, Ends
<1>2. CASE /\ ~blob[vm[p]].known
           /\ blob' = [blob EXCEPT ![vm[p]].known = TRUE]
           /\ Go(p, "describe")
           /\ UNCHANGED <<port, kills, raced, vm, xen, link, users>>
  <2> USE DEF ConsoleInv, Consoles, Finding, Choosing, Serving, Go
  <2>a. vm[p] \in VMs /\ at' = at /\ pc[p] = "create"
    BY <1>2 DEF Types, users, Create
  <2>b. /\ blob' \in [VMs -> Blob] /\ blob'[vm[p]].known
        /\ \A v \in VMs : /\ blob'[v].port = blob[v].port
                          /\ blob'[v].labelled = blob[v].labelled
                          /\ blob[v].known => blob'[v].known
    BY <1>2, <2>a DEF Types, Blob
  <2>1. Types'
    BY <1>2, <2>a, <2>b DEF Types
  <2>2. Answered'
    BY <1>2, <2>a, CallerIs DEF Answered, Types
  <2>3. ~raced => Apart'
    <3> SUFFICES ASSUME ~raced PROVE Apart'
      OBVIOUS
    <3>1. OneChooser' /\ Distinct'
      BY <1>2, <2>a, <2>b DEF Types, Apart, OneChooser, Distinct
    <3>2. Described'
      <4>1. \A q \in Procs : pc[q] = "label" => pc'[q] = "label"
        BY <1>2, <2>a DEF Types
      <4> QED
        BY <1>2, <2>b, <4>1 DEF Apart, Described
    <3>3. OfBlob'
      BY <1>2, <2>b DEF Types, Apart, OfBlob
    <3>4. Chosen'
      BY <1>2, <2>a, <2>b DEF Types, Apart, Chosen, Described
    <3>5. RightAnswer'
      BY <1>2, <2>a DEF Apart, RightAnswer
    <3> QED
      BY <3>1, <3>2, <3>3, <3>4, <3>5 DEF Apart
  <2> QED
    BY <1>2, <2>1, <2>2, <2>3
<1> QED
  BY <1>1, <1>2 DEF Create

\* The blob had no port, and gets one that no other has.
LEMMA Describes ==
  ASSUME ConsoleInv, NEW p \in Procs, Describe(p)
  PROVE  ConsoleInv'
<1> USE DEF ConsoleInv, Consoles, Finding, Choosing, Serving, Go
<1>a. /\ vm[p] \in VMs /\ at' = at /\ pc[p] = "describe" /\ port[p] \in Ports \cup {None}
      /\ blob' = [blob EXCEPT ![vm[p]].port = port[p]]
      /\ pc' = [pc EXCEPT ![p] = "label"] /\ UNCHANGED <<port, raced, vm>>
  BY DEF Types, users, Describe
<1>b. /\ blob' \in [VMs -> Blob]
      /\ blob'[vm[p]].port = port[p] /\ blob'[vm[p]].known = blob[vm[p]].known
      /\ \A v \in VMs : v # vm[p] => blob'[v] = blob[v]
  BY <1>a DEF Types, Blob
<1>1. Types'
  BY <1>a, <1>b DEF Types
<1>2. Answered'
  BY <1>a, CallerIs DEF Answered, Types
<1>3. ~raced => Apart'
  <2> SUFFICES ASSUME ~raced PROVE Apart'
    OBVIOUS
  <2>0. /\ port[p] # None /\ \A v \in VMs : blob[v].port # port[p]
        /\ blob[vm[p]].known /\ blob[vm[p]].port = None
    BY <1>a DEF Apart, Chosen
  <2>1. OneChooser'
    BY <1>a DEF Types, Apart, OneChooser
  <2>2. Distinct'
    BY <1>a, <1>b, <2>0 DEF Apart, Distinct
  <2>3. Described'
    <3>1. pc'[p] = "label" /\ \A q \in Procs : pc[q] = "label" => pc'[q] = "label"
      BY <1>a DEF Types
    <3>2. ASSUME NEW v \in VMs
          PROVE  /\ blob'[v].port # None =>
                      \/ blob'[v].labelled
                      \/ \E q \in Procs : pc'[q] = "label" /\ vm'[q] = v
                 /\ ~blob'[v].known => blob'[v].port = None
      <4>1. CASE v = vm[p]
        BY <1>a, <1>b, <2>0, <3>1, <4>1
      <4>2. CASE v # vm[p]
        BY <1>a, <1>b, <3>1, <4>2 DEF Apart, Described
      <4> QED
        BY <4>1, <4>2
    <3> QED
      BY <3>2 DEF Described
  <2>4. OfBlob'
    <3>1. ASSUME NEW q \in Procs, q # p, pc[q] \in {"label", "bind"} \cup Serving
          PROVE  port[q] = blob'[vm[q]].port /\ port[q] # None
      <4>1. port[q] = blob[vm[q]].port /\ port[q] # None
        BY <3>1 DEF Apart, OfBlob
      <4>2. vm[q] # vm[p]
        BY <2>0, <4>1
      <4> QED
        BY <1>b, <4>1, <4>2 DEF Types
    <3> QED
      BY <1>a, <1>b, <2>0, <3>1 DEF Types, OfBlob
  <2>5. Chosen'
    <3>1. \A q \in Procs : q # p => pc[q] \notin Choosing
      BY <1>a DEF Apart, OneChooser
    <3> QED
      BY <1>a, <3>1 DEF Types, Chosen
  <2>6. RightAnswer'
    BY <1>a DEF Apart, RightAnswer
  <2> QED
    BY <2>1, <2>2, <2>3, <2>4, <2>5, <2>6 DEF Apart
<1> QED
  BY <1>a, <1>1, <1>2, <1>3

\* The label is what a later look finds the blob by.
LEMMA Labels ==
  ASSUME ConsoleInv, NEW p \in Procs, Label(p)
  PROVE  ConsoleInv'
<1> USE DEF ConsoleInv, Consoles, Finding, Choosing, Serving, Go
<1>a. /\ vm[p] \in VMs /\ at' = at /\ pc[p] = "label"
      /\ blob' = [blob EXCEPT ![vm[p]].labelled = TRUE]
      /\ pc' = [pc EXCEPT ![p] = "bind"] /\ UNCHANGED <<port, raced, vm>>
  BY DEF Types, users, Label
<1>b. /\ blob' \in [VMs -> Blob] /\ blob'[vm[p]].labelled
      /\ \A v \in VMs : /\ blob'[v].port = blob[v].port
                        /\ blob'[v].known = blob[v].known
                        /\ blob[v].labelled => blob'[v].labelled
  BY <1>a DEF Types, Blob
<1>1. Types'
  BY <1>a, <1>b DEF Types
<1>2. Answered'
  BY <1>a, CallerIs DEF Answered, Types
<1>3. ~raced => Apart'
  <2> SUFFICES ASSUME ~raced PROVE Apart'
    OBVIOUS
  <2>1. OneChooser'
    BY <1>a DEF Types, Apart, OneChooser
  <2>2. Distinct'
    BY <1>a, <1>b DEF Apart, Distinct
  <2>3. Described'
    <3>1. \A q \in Procs : q # p /\ pc[q] = "label" => pc'[q] = "label"
      BY <1>a DEF Types
    <3> QED
      BY <1>a, <1>b, <3>1 DEF Apart, Described
  <2>4. OfBlob'
    BY <1>a, <1>b DEF Types, Apart, OfBlob
  <2>5. Chosen'
    BY <1>a, <1>b DEF Types, Apart, Chosen
  <2>6. RightAnswer'
    BY <1>a DEF Apart, RightAnswer
  <2> QED
    BY <2>1, <2>2, <2>3, <2>4, <2>5, <2>6 DEF Apart
<1> QED
  BY <1>a, <1>1, <1>2, <1>3

-----------------------------------------------------------------------------
(* Smoke: the other steps                                                  *)

\* Every step of a console keeps the invariant.
LEMMA ConsoleSteps ==
  ASSUME ConsoleInv, NEW p \in Procs, ConsoleStep(p)
  PROVE  ConsoleInv'
<1> USE DEF Serving, Quiet, ports, users
<1>1. CASE Bind(p)
  <2>1. CASE End(p)
    BY <2>1, EndStops DEF End, Ends
  <2>2. CASE ~End(p)
    BY <1>1, <2>2, Serves DEF Bind
  <2> QED
    BY <2>1, <2>2
<1>2. CASE State(p)
  BY <1>2, Serves DEF State
<1>3. CASE Host(p)
  BY <1>3, Serves DEF Host
<1>4. CASE Keys(p)
  BY <1>4, Serves DEF Keys
<1>5. CASE Connect(p)
  BY <1>5, Serves DEF Connect
<1>6. CASE ToldGone(p)
  BY <1>6, EndStops DEF ToldGone
<1>7. CASE Eof(p)
  BY <1>7, Serves DEF Eof
<1> QED
  BY <1>1, <1>2, <1>3, <1>4, <1>5, <1>6, <1>7, Looks, Scans, Creates, Describes, Labels
     DEF ConsoleStep

\* Who answers on the port of a machine's blob is the console of that machine.
LEMMA Calls ==
  ASSUME ConsoleInv, NEW c \in Clients, NEW v \in VMs, Call(c, v)
  PROVE  ConsoleInv'
<1>1. PICK p \in Procs : /\ pc[p] \in Serving /\ port[p] = blob[v].port
                         /\ at' = [at EXCEPT ![c] = [proc |-> p, vm |-> v]]
  BY DEF Call, Listens
<1>2. blob[v].port # None /\ UNCHANGED <<blob, pc, vm, port, raced>>
  BY DEF Call, ports
<1>3. at' \in [Clients -> Caller]
  BY <1>1 DEF ConsoleInv, Types, Caller
<1>4. /\ at'[c].proc = p /\ at'[c].vm = v
      /\ \A d \in Clients : d # c => at'[d] = at[d]
  BY <1>1 DEF ConsoleInv, Types
<1>5. Answered'
  BY <1>1, <1>2, <1>4 DEF ConsoleInv, Answered
<1>6. ASSUME ~raced PROVE Apart'
  <2>1. vm[p] = v
    BY <1>1, <1>2, <1>6 DEF ConsoleInv, Types, Apart, OfBlob, Distinct
  <2>2. RightAnswer'
    BY <1>2, <1>4, <1>6, <2>1 DEF ConsoleInv, Apart, RightAnswer
  <2> QED
    BY <1>2, <1>6, <2>2
       DEF ConsoleInv, Apart, OneChooser, Described, Distinct, OfBlob, Chosen
<1> QED
  BY <1>2, <1>3, <1>5, <1>6 DEF ConsoleInv, Types

\* A user who has gone is struck off.
LEMMA Struck ==
  ASSUME ConsoleInv, NEW C \in SUBSET Clients, HangsUpOn(C),
         UNCHANGED <<blob, pc, vm, port, raced>>
  PROVE  ConsoleInv'
<1>1. /\ at' \in [Clients -> Caller]
      /\ \A c \in Clients : at'[c] # Away => at'[c] = at[c]
  BY HungUp DEF ConsoleInv
<1> QED
  BY <1>1 DEF ConsoleInv, Types, Answered, Apart, OneChooser, Described, Distinct, OfBlob,
              Chosen, RightAnswer

\* The variables of the invariant stay what they are.
LEMMA Same ==
  ASSUME ConsoleInv, UNCHANGED <<blob, pc, vm, port, raced, at>>
  PROVE  ConsoleInv'
BY DEF ConsoleInv, Types, Answered, Apart, OneChooser, Described, Distinct, OfBlob,
       Chosen, RightAnswer

\* All consoles have ended.
LEMMA Crashes ==
  ASSUME ConsoleInv, Crash
  PROVE  ConsoleInv'
<1> USE DEF ConsoleInv
<1>1. /\ blob' = blob /\ vm' = vm /\ port' \in [Procs -> Ports \cup {None}]
      /\ raced' \in BOOLEAN /\ (~raced' => ~raced /\ \A p \in Procs : pc[p] \notin Choosing)
  BY DEF Crash, Types
<1>2. /\ pc' \in [Procs -> Consoles \cup Script \cup Ended]
      /\ \A p \in Procs : pc'[p] \notin Consoles
  <2> SUFFICES ASSUME NEW p \in Procs
               PROVE  LET l == CASE pc[p] \in Consoles -> "dead"
                                 [] pc[p] \in {"free", "dead"} -> pc[p]
                                 [] OTHER -> "failed"
                      IN  l \in Ended /\ l \notin Consoles
    BY DEF Crash
  <2> QED
    BY DEF Ended, Consoles, Finding, Choosing, Serving
<1>3. /\ at' \in [Clients -> Caller]
      /\ \A c \in Clients : at'[c] = Away
  BY HungUp DEF Crash
<1>4. Types' /\ Answered'
  BY <1>1, <1>2, <1>3 DEF Types, Answered
<1>5. ASSUME ~raced' PROVE Apart'
  <2>1. \A p \in Procs : pc[p] # "label"
    BY <1>1, <1>5 DEF Choosing
  <2>2. \A p \in Procs : pc'[p] \notin {"label", "bind", "create", "describe"} \cup Choosing \cup Serving
    BY <1>2 DEF Consoles, Finding, Choosing
  <2>3. OneChooser' /\ OfBlob' /\ Chosen' /\ RightAnswer'
    BY <1>3, <2>2 DEF OneChooser, OfBlob, Chosen, RightAnswer
  <2>4. Described' /\ Distinct'
    BY <1>1, <1>5, <2>1 DEF Apart, Described, Distinct
  <2> QED
    BY <2>3, <2>4 DEF Apart
<1> QED
  BY <1>4, <1>5

\* So does what happens to it: its users, an error in its loop, its death, its next
\* start.
LEMMA AroundSteps ==
  ASSUME ConsoleInv, Around
  PROVE  ConsoleInv'
<1>1. ASSUME NEW p \in Procs, LoopRaises(p) \/ Kill(p) PROVE ConsoleInv'
  BY <1>1, EndStops DEF LoopRaises, Kill, End, Ends
<1>2. ASSUME NEW p \in Procs, Again(p) PROVE ConsoleInv'
  <2>1. /\ pc[p] = "dead" /\ pc' = [pc EXCEPT ![p] = "look"]
        /\ UNCHANGED <<blob, port, raced, at, vm>>
    BY <1>2 DEF Again, Go, ports, users
  <2>2. /\ pc' \in [Procs -> Consoles \cup Script \cup Ended]
        /\ \A q \in Procs : q # p => pc'[q] = pc[q]
        /\ pc'[p] = "look" /\ vm \in [Procs -> VMs]
    BY <2>1 DEF ConsoleInv, Types, Consoles, Finding
  <2>3. "dead" \notin Consoles
    BY DEF Consoles, Finding, Choosing, Serving
  <2>4. "look" \notin Consoles \ {"look", "scan"}
    OBVIOUS
  <2> QED
    BY <2>1, <2>2, <2>3, <2>4, Elsewhere
<1>3. ASSUME NEW p \in Procs, NEW c \in Clients, Noticed(p, c) PROVE ConsoleInv'
  BY <1>3, Struck DEF Noticed, ports
<1>4. ASSUME NEW c \in Clients, HangUp(c) PROVE ConsoleInv'
  BY <1>4, Same DEF HangUp, ports
<1> QED
  BY <1>1, <1>2, <1>3, <1>4, Calls DEF Around

\* A step of the script changes the place of a process that is no console, to one that is
\* none, and gives a process that is free its first place.
LEMMA ScriptGoes ==
  ASSUME ConsoleInv, NEW p \in Procs, pc[p] \in Script, NEW l \in Script \cup Ended, NEW v \in VMs,
         Go(p, l), vm' = [vm EXCEPT ![p] = v], ConsolesAside
  PROVE  ConsoleInv'
<1>1. \A x \in Script \cup Ended : x \notin Consoles
  BY DEF Script, Ended, Consoles, Finding, Choosing, Serving
<1>2. /\ pc' \in [Procs -> Consoles \cup Script \cup Ended] /\ vm' \in [Procs -> VMs]
      /\ pc'[p] = l /\ \A q \in Procs : q # p => pc'[q] = pc[q] /\ vm'[q] = vm[q]
  BY DEF ConsoleInv, Types, Go
<1>3. UNCHANGED <<blob, port, raced, at>>
  BY DEF ConsolesAside, ports, users
<1> QED
  BY <1>1, <1>2, <1>3, Elsewhere

\* The script starts a console in a process of its own.
LEMMA Starts ==
  ASSUME ConsoleInv, NEW p \in Procs, StartConsole(p)
  PROVE  ConsoleInv'
<1>1. PICK q \in Procs :
        /\ pc[q] = "free"
        /\ pc' = [pc EXCEPT ![q] = "look", ![p] = AfterConsole(vm[p])[1]]
        /\ vm' = [vm EXCEPT ![q] = vm[p], ![p] = AfterConsole(vm[p])[2]]
  BY DEF StartConsole
<1>2. AfterConsole(vm[p])[1] \in Script /\ AfterConsole(vm[p])[2] \in VMs
  BY SmokeAssumption DEF AfterConsole, Script
<1>3. p # q /\ pc[p] = "console"
  BY <1>1 DEF StartConsole
<1>4. /\ pc' \in [Procs -> Consoles \cup Script \cup Ended] /\ vm' \in [Procs -> VMs]
      /\ pc'[p] \in Script /\ pc'[q] = "look"
      /\ \A r \in Procs : r \notin {p, q} => pc'[r] = pc[r] /\ vm'[r] = vm[r]
  BY <1>1, <1>2, <1>3 DEF ConsoleInv, Types, Consoles, Finding
<1>5. {"free", "console"} \cup Script \subseteq (Script \cup Ended) \ Consoles
  BY DEF Script, Ended, Consoles, Finding, Choosing, Serving
<1>6. UNCHANGED <<blob, port, raced, at>>
  BY DEF StartConsole, ConsolesAside, ports, users
<1> QED
  BY <1>1, <1>3, <1>4, <1>5, <1>6, Elsewhere

\* A process that does not change its machine, or its place,
LEMMA SameMachine ==
  ASSUME ConsoleInv, NEW p \in Procs
  PROVE  vm[p] \in VMs /\ vm = [vm EXCEPT ![p] = vm[p]]
BY DEF ConsoleInv, Types

LEMMA SamePlace == ASSUME ConsoleInv, NEW p \in Procs PROVE pc = [pc EXCEPT ![p] = pc[p]]
BY DEF ConsoleInv, Types

\* The script asks the hypervisor, and goes on or does not.
LEMMA Polls ==
  ASSUME ConsoleInv, NEW p \in Procs, NEW up, NEW l \in Script \cup Ended, NEW v \in VMs,
         GetCfg(p, up, l, v), pc[p] \in Script, ConsolesAside
  PROVE  ConsoleInv'
<1>1. CASE To(p, l, v)
  BY <1>1, ScriptGoes DEF To, Go
<1>2. CASE Failed(p)
  <2>1. "failed" \in Ended
    BY DEF Ended
  <2>2. (Go(p, "failed") /\ vm' = vm) \/ UNCHANGED <<pc, vm>>
    BY <1>2 DEF Failed
  <2>3. CASE Go(p, "failed") /\ vm' = vm
    BY <2>1, <2>3, SameMachine, ScriptGoes
  <2>4. CASE UNCHANGED <<pc, vm>>
    BY <2>4, Same DEF ConsolesAside, ports, users
  <2> QED
    BY <2>2, <2>3, <2>4
<1> QED
  BY <1>1, <1>2 DEF GetCfg

\* Every step of the script keeps the invariant,
LEMMA ScriptSteps ==
  ASSUME ConsoleInv, NEW p \in Procs, ScriptStep(p)
  PROVE  ConsoleInv'
<1>a. {"failed", "passed"} \subseteq Ended /\ {Server, Client} \subseteq VMs
  BY SmokeAssumption DEF Ended
<1>b. vm[p] \in VMs /\ vm = [vm EXCEPT ![p] = vm[p]]
  BY SameMachine
<1> USE DEF Script
<1>1. CASE Lacks(p)
  BY <1>1, <1>a, <1>b, ScriptGoes DEF Lacks
<1>2. CASE Shutdown(p)
  BY <1>2, <1>a, ScriptGoes DEF Shutdown, To, Go
<1>3. CASE Insert(p)
  <2>1. CASE UNCHANGED <<pc, vm>>
    BY <1>3, <2>1, Same DEF Insert, ConsolesAside, ports, users
  <2>2. CASE To(p, "start", vm[p])
    BY <1>3, <1>b, <2>2, ScriptGoes DEF Insert, To, Go
  <2> QED
    BY <1>3, <2>1, <2>2 DEF Insert
<1>4. CASE Start(p)
  BY <1>4, <1>a, <1>b, ScriptGoes DEF Start
<1>5. CASE Register(p)
  BY <1>5, <1>a, <1>b, ScriptGoes DEF Register
<1>6. CASE GetEvent(p)
  BY <1>6, <1>a, <1>b, ScriptGoes DEF GetEvent
<1>7. CASE Try(p)
  BY <1>7, <1>a, Polls DEF Try
<1>8. CASE Sync(p)
  BY <1>8, <1>a, <1>b, ScriptGoes DEF Sync, To, Go
<1>9. CASE TryAgain(p)
  BY <1>9, <1>a, Polls DEF TryAgain
<1> QED
  BY <1>1, <1>2, <1>3, <1>4, <1>5, <1>6, <1>7, <1>8, <1>9, Starts DEF ScriptStep

\* and those of the machines it installs,
LEMMA MachineSteps ==
  ASSUME ConsoleInv, NEW v \in VMs, Installs(v) \/ ChangesOver(v) \/ Aborts(v)
  PROVE  ConsoleInv'
BY Same DEF Installs, ChangesOver, Aborts, ConsolesAside, ports, users

\* and the loss of events,
LEMMA Losses ==
  ASSUME ConsoleInv, NEW p \in Procs, LoseEvents(p)
  PROVE  ConsoleInv'
BY Same DEF LoseEvents, ConsolesAside, ports, users

\* and what the deviations take besides: a login that fails, and a crash of the build
\* machine.
LEMMA Mishaps ==
  ASSUME ConsoleInv, Mishap
  PROVE  ConsoleInv'
<1>1. ASSUME NEW p \in Procs, KeysRaise(p) PROVE ConsoleInv'
  BY <1>1, EndStops DEF KeysRaise, End, Ends
<1>2. ASSUME NEW p \in Procs, Returns(p) PROVE ConsoleInv'
  <2>1. AfterConsole(vm[p])[1] \in Script /\ AfterConsole(vm[p])[2] \in VMs
    BY SmokeAssumption DEF AfterConsole, Script
  <2>2. raced' = raced /\ raced \in BOOLEAN /\ pc[p] \notin Choosing
    BY <1>2 DEF Returns, ConsoleInv, Types, Choosing
  <2>3. Go(p, AfterConsole(vm[p])[1]) /\ vm' = [vm EXCEPT ![p] = AfterConsole(vm[p])[2]]
    BY <1>2 DEF Returns, Go
  <2>4. port' = [port EXCEPT ![p] = None] /\ HangsUpOn(Callers(p)) /\ blob' = blob
    BY <1>2 DEF Returns
  <2> QED
    BY <2>1, <2>2, <2>3, <2>4, Stops
<1> QED
  BY <1>1, <1>2, Crashes DEF Mishap

\* Every step keeps the invariant, a mishap included.
LEMMA NextInv == ConsoleInv /\ [Next \/ Mishap]_vars => ConsoleInv'
<1> SUFFICES ASSUME ConsoleInv, [Next \/ Mishap]_vars PROVE ConsoleInv'
  OBVIOUS
<1>1. CASE UNCHANGED vars
  BY <1>1, Same DEF vars, consoleVars, ports, users
<1> QED
  BY <1>1, ConsoleSteps, AroundSteps, ScriptSteps, MachineSteps, Losses, Mishaps DEF Next

\* RightConsole is a part of it.
LEMMA InvRight == ConsoleInv => RightConsole
BY DEF ConsoleInv, Apart, RightAnswer, RightConsole

(***************************************************************************)
(* A user who asks for a machine's console is joined to that machine's,    *)
(* whichever machines go down and whichever consoles end, are killed and   *)
(* come back, as long as no two consoles looked for a port at the same     *)
(* time and none was killed while it did (getTelnet: the port is the first *)
(* that no blob names, and is written to the blob some calls later). For   *)
(* any machines, processes, users and ports.                               *)
(***************************************************************************)
THEOREM RightConsoleHolds == Spec => []RightConsole
<1>1. ConsoleInv /\ [Next]_vars => ConsoleInv'
  BY NextInv
<1> QED
  BY <1>1, InitInv, InvRight, PTL DEF Spec

(***************************************************************************)
(* The same when logins to the consoles fail, so that start returns in a   *)
(* copy of the script, and when the build machine crashes and leaves its   *)
(* socket files behind.                                                    *)
(***************************************************************************)
THEOREM RightConsoleWithFaults == Init /\ [][Next \/ Mishap]_vars => []RightConsole
  BY NextInv, InitInv, InvRight, PTL
=============================================================================
