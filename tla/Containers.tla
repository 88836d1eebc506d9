------------------------------ MODULE Containers ------------------------------
(***************************************************************************)
(* The load-test containers (lxc-0.8.0/scripts): the settings that make    *)
(* the host boot at level 8, where its containers are started, the script  *)
(* "containers start | stop", which takes one container after the other    *)
(* through build, create, start and back, and the containers.              *)
(*                                                                         *)
(* A container's root is a union of its own cache over the shared one.     *)
(* The script learns how far a container is from __curlevel__, a file that *)
(* init keeps in that root.  runCmd gives a pair, which is true whatever   *)
(* the command's end was: the script notices no failure of runAction,      *)
(* setupBridge, fsck or telinit.  lxc, init, mount, init's levels and      *)
(* setSystemInfo are external; the telinit that settings.set returns to    *)
(* setSystemInfo is taken not to reach a container's init.                 *)
(***************************************************************************)
EXTENDS Naturals

CONSTANTS
    Size,      \* containers
    Scripts,   \* runs of "containers" that may overlap
    AfterUpset \* bound: whether a behaviour is followed after the first failure
               \* that the script does not notice

Boxes   == 1 .. Size
Levels  == {3, 5, 8}
NoLevel == 9                \* no level on file

ASSUME ContainersAssumption == Size \in Nat \ {0} /\ AfterUpset \in BOOLEAN

VARIABLES
    conf,      \* /etc/containers.conf: Enabled and PrevLevel; initmode, of the
               \* system's settings, which is taken not to change
    inittab,   \* the host's initdefault
    base,      \* the initdefault in the shared cache, NoLevel when there is no cache
    shared,    \* the shared cache is mounted
    box,       \* of each container:
               \*   fs: its cache exists; jail, root: what is mounted; tab: its
               \*   initdefault; late: what setSystemInfo, which is started and not
               \*   waited for, is still to make of that, or NoLevel; level:
               \*   __curlevel__; go: the flag file; made: lxc knows it; run: no,
               \*   own or bare (without its configuration); goal: the level its
               \*   init goes to, or NoLevel; up: (history) it has reached level 5
               \*   since it was started
    script,    \* of each script: where it is, for which container
    upset      \* (history) something failed, died or overlapped

boxVars == <<conf, inittab, base, shared, box, script, upset>>

Fresh == [fs |-> FALSE, jail |-> FALSE, root |-> FALSE, tab |-> 8, late |-> NoLevel,
          level |-> NoLevel, go |-> FALSE, made |-> FALSE, run |-> "no", goal |-> NoLevel,
          up |-> FALSE]
Off   == [step |-> "off", c |-> 0]

BoxesInit ==
    /\ conf \in [enabled : {FALSE}, prev : {3}, initmode : BOOLEAN]
    /\ inittab \in {3, 5}
    /\ base = NoLevel /\ shared = FALSE
    /\ box = [c \in Boxes |-> Fresh]
    /\ script = [s \in Scripts |-> Off]
    /\ upset = FALSE

host == <<conf, inittab, base, shared>>

step(s) == script[s].step
At(s) == box[script[s].c]

ScriptTo(s, l)  == script' = [script EXCEPT ![s].step = l]
Set(s, r) == box' = [box EXCEPT ![script[s].c] = r]

\* the next container, from its first step; the script ends after the last
NextBox(s, first) ==
    script' = [script EXCEPT ![s] =
                 IF @.c = Size THEN Off ELSE [step |-> first, c |-> @.c + 1]]

\* an outcome that the script does not notice
Upset == upset' = TRUE

-----------------------------------------------------------------------------
(* settings.set                                                            *)

Enable ==
    /\ conf' = [conf EXCEPT !.enabled = TRUE, !.prev = inittab]
    /\ inittab' = 8
    /\ UNCHANGED <<base, shared, box, script, upset>>

\* what settings.set makes of an initdefault when the containers are disabled
WhenDisabled(l) == IF conf.initmode THEN IF l = 8 THEN 3 ELSE l
                   ELSE IF l = 3 THEN 5 ELSE l

Disable ==
    /\ conf' = [conf EXCEPT !.enabled = FALSE]
    /\ inittab' = WhenDisabled(inittab)
    /\ UNCHANGED <<base, shared, box, script, upset>>

\* the host goes down and comes up: what was mounted and what ran is gone
Reboot ==
    /\ shared' = FALSE
    /\ box' = [c \in Boxes |-> [box[c] EXCEPT !.jail = FALSE, !.root = FALSE,
                                              !.late = NoLevel, !.run = "no",
                                              !.goal = NoLevel]]
    /\ script' = [s \in Scripts |-> Off]
    /\ UNCHANGED <<conf, inittab, base, upset>>

-----------------------------------------------------------------------------
(* containers start                                                        *)

Begin(s, first) ==
    /\ step(s) = "off"
    /\ script' = [script EXCEPT ![s] = [step |-> first, c |-> 1]]
    /\ upset' = (upset \/ \E r \in Scripts \ {s} : step(r) # "off")
    /\ UNCHANGED <<host, box>>

\* the shared cache: copied from the host's once, and mounted; the script ends
\* when it cannot be
Shared(s) ==
    /\ step(s) = "shared"
    /\ \/ /\ base' = IF base = NoLevel THEN inittab ELSE base
          /\ shared' = TRUE
          /\ ScriptTo(s, "check")
       \/ ~shared /\ script' = [script EXCEPT ![s] = Off] /\ UNCHANGED <<base, shared>>
    /\ UNCHANGED <<conf, inittab, box, upset>>

\* a container that runs is left alone
Check(s) ==
    /\ step(s) = "check"
    /\ IF At(s).run # "no" THEN NextBox(s, "check") ELSE ScriptTo(s, "cache")
    /\ UNCHANGED <<host, box, upset>>

\* build, mountit: lxc.conf and fstab; the cache is made, or checked, and made
\* anew when it is past repair.  An error is reported, and the next one's turn.
Cache(s) ==
    /\ step(s) = "cache"
    /\ \/ /\ \/ At(s).fs /\ UNCHANGED box
             \/ Set(s, [At(s) EXCEPT !.fs = TRUE, !.tab = base, !.level = NoLevel])
          /\ upset' = (upset \/ At(s).jail)
          /\ ScriptTo(s, "mount")
       \/ NextBox(s, "check") /\ UNCHANGED box /\ Upset
    /\ UNCHANGED host

\* mutant: the level of the last run stays on file
MountKeepsLevel(s) ==
    /\ step(s) = "mount"
    /\ \/ Set(s, [At(s) EXCEPT !.jail = TRUE, !.root = TRUE]) /\ UNCHANGED upset
       \/ ~At(s).root /\ UNCHANGED box /\ Upset
    /\ ScriptTo(s, "adjust")
    /\ UNCHANGED host

\* mountit: only a root that was not mounted yet loses the level of its last
\* run.  Left out: the cache's own mount fails and the union's does not.
Mount(s) ==
    /\ step(s) = "mount"
    /\ \/ /\ Set(s, [At(s) EXCEPT !.jail = TRUE, !.root = TRUE,
                                  !.level = IF At(s).root THEN @ ELSE NoLevel])
          /\ UNCHANGED upset
       \/ ~At(s).root /\ UNCHANGED box /\ Upset
    /\ ScriptTo(s, "adjust")
    /\ UNCHANGED host

\* mutant: the pattern never matches
AdjustNever(s) ==
    /\ step(s) = "adjust"
    /\ Set(s, [At(s) EXCEPT !.go = TRUE])
    /\ ScriptTo(s, "create")
    /\ UNCHANGED <<host, upset>>

\* what the script itself makes of the initdefault in a root
Prior(l) == IF l = 8 THEN conf.prev ELSE l

(***************************************************************************)
(* The container's settings, from the host's as they are now, with the     *)
(* containers disabled, are given to setSystemInfo in its root, which is   *)
(* started and not waited for; the script edits the same inittab.  A sed   *)
(* reads the file and puts another in its place.  setSystemInfo changes    *)
(* nothing (they were disabled), or is overwritten; or it is done before;  *)
(* or it has read the file before the script's edit, and is to overwrite   *)
(* that; or it comes later.  Then the flag.                                *)
(***************************************************************************)
Adjusted(l) ==
    {[tab |-> Prior(l),               late |-> NoLevel],
     [tab |-> Prior(WhenDisabled(l)), late |-> NoLevel],
     [tab |-> Prior(l),               late |-> WhenDisabled(l)],
     [tab |-> Prior(l),               late |-> WhenDisabled(Prior(l))]}

Adjust(s) ==
    /\ step(s) = "adjust"
    /\ IF At(s).root
       THEN /\ \E o \in Adjusted(At(s).tab) :
                  Set(s, [At(s) EXCEPT !.go = TRUE, !.tab = o.tab, !.late = o.late])
            /\ upset' = (upset \/ At(s).late # NoLevel)
       ELSE Set(s, [At(s) EXCEPT !.go = TRUE]) /\ UNCHANGED upset
    /\ ScriptTo(s, "create")
    /\ UNCHANGED host

\* setSystemInfo puts its inittab in place, and ends
Settles(c) ==
    /\ box[c].late # NoLevel
    /\ box' = [box EXCEPT ![c].tab = box[c].late, ![c].late = NoLevel]
    /\ UNCHANGED <<host, script, upset>>

\* lxc-create; a container that lxc knows keeps what it was made with
LxcCreate(s) ==
    /\ step(s) = "create"
    /\ \/ Set(s, [At(s) EXCEPT !.made = TRUE]) /\ UNCHANGED upset
       \/ ~At(s).made /\ UNCHANGED box /\ Upset
    /\ ScriptTo(s, "start")
    /\ UNCHANGED host

\* lxc-start, whose result nobody looks at; init reads its inittab.  One that lxc does
\* not know runs with a default configuration, in the host's own root
LxcStart(s) ==
    /\ step(s) = "start"
    /\ \/ /\ At(s).made => At(s).root
          /\ Set(s, [At(s) EXCEPT !.run = IF At(s).made THEN "own" ELSE "bare",
                                  !.goal = At(s).tab, !.up = FALSE])
          /\ UNCHANGED upset
       \/ UNCHANGED box /\ Upset
    /\ ScriptTo(s, "wait")
    /\ UNCHANGED host

\* until __curlevel__ says 5, for ever if need be
WaitUp(s) ==
    /\ step(s) = "wait"
    /\ At(s).root /\ At(s).level = 5
    /\ NextBox(s, "check")
    /\ UNCHANGED <<host, box, upset>>

-----------------------------------------------------------------------------
(* containers stop                                                         *)

\* chroot <root> telinit 0; the script goes on to wait whether or not it worked
Telinit(s) ==
    /\ step(s) = "telinit"
    /\ IF At(s).root /\ At(s).run = "own" THEN Set(s, [At(s) EXCEPT !.goal = 0])
       ELSE UNCHANGED box
    /\ ScriptTo(s, "down")
    /\ UNCHANGED <<host, upset>>

\* until __curlevel__ says 0, for ever if need be
WaitDown(s) ==
    /\ step(s) = "down"
    /\ At(s).root /\ At(s).level = 0
    /\ ScriptTo(s, "kill")
    /\ UNCHANGED <<host, box, upset>>

\* mutant: one signal, which init may ignore
KillOnce(s) ==
    /\ step(s) = "kill"
    /\ ScriptTo(s, "remove")
    /\ UNCHANGED <<host, box, upset>>

\* Lxc.stop: lxc-kill until it finds nothing to kill
LxcKill(s) ==
    /\ step(s) = "kill"
    /\ Set(s, [At(s) EXCEPT !.run = "no", !.goal = NoLevel])
    /\ ScriptTo(s, "remove")
    /\ UNCHANGED <<host, upset>>

\* remove: a root, a cache and the shared cache that are in use stay mounted, as a
\* root is in which setSystemInfo still works
Remove(s) ==
    /\ step(s) = "remove"
    /\ \/ /\ At(s).late = NoLevel
          /\ Set(s, [At(s) EXCEPT !.root = FALSE, !.jail = FALSE, !.go = FALSE])
          /\ UNCHANGED upset
       \/ At(s).jail /\ At(s).late = NoLevel
          /\ Set(s, [At(s) EXCEPT !.root = FALSE, !.go = FALSE]) /\ Upset
       \/ At(s).root /\ Set(s, [At(s) EXCEPT !.go = FALSE]) /\ Upset
    /\ shared' \in IF \E c \in Boxes : box'[c].root THEN {shared} ELSE {shared, FALSE}
    /\ ScriptTo(s, "destroy")
    /\ UNCHANGED <<conf, inittab, base>>

Destroy(s) ==
    /\ step(s) = "destroy"
    /\ \/ Set(s, [At(s) EXCEPT !.made = FALSE]) /\ UNCHANGED upset
       \/ At(s).made /\ UNCHANGED box /\ Upset
    /\ NextBox(s, "telinit")
    /\ UNCHANGED host

\* the user's ^C, or init, which ends the scripts of the level it leaves
Interrupt(s) ==
    /\ step(s) # "off"
    /\ script' = [script EXCEPT ![s] = Off] /\ Upset
    /\ UNCHANGED <<host, box>>

-----------------------------------------------------------------------------
(* a container's init (external)                                           *)

\* it has reached the level it goes to, and says so
Reaches(c) ==
    /\ box[c].run = "own" /\ box[c].level # box[c].goal
    /\ box' = [box EXCEPT ![c].level = box[c].goal, ![c].up = @ \/ box[c].goal = 5]
    /\ UNCHANGED <<host, script, upset>>

\* it ends, after level 0 or at any time
InitEnds(c) ==
    /\ box[c].run # "no"
    /\ box' = [box EXCEPT ![c].run = "no", ![c].goal = NoLevel]
    /\ upset' = (upset \/ ~(box[c].goal = 0 /\ box[c].level = 0))
    /\ UNCHANGED <<host, script>>

StartStep(s) ==
    \/ Shared(s) \/ Check(s) \/ Cache(s) \/ Mount(s) \/ Adjust(s)
    \/ LxcCreate(s) \/ LxcStart(s) \/ WaitUp(s)
StopStep(s) == Telinit(s) \/ WaitDown(s) \/ LxcKill(s) \/ Remove(s) \/ Destroy(s)

BoxesNext ==
    /\ upset => AfterUpset
    /\ \/ Enable \/ Disable \/ Reboot
       \/ \E s \in Scripts : \/ Begin(s, "shared") \/ Begin(s, "telinit")
                             \/ StartStep(s) \/ StopStep(s) \/ Interrupt(s)
       \/ \E c \in Boxes : Settles(c) \/ Reaches(c) \/ InitEnds(c)

BoxesSpec == BoxesInit /\ [][BoxesNext]_boxVars

\* scripts go on, and so do setSystemInfo and a container's init
BoxesFairSpec ==
    /\ BoxesSpec
    /\ \A s \in Scripts : WF_boxVars(StartStep(s)) /\ WF_boxVars(StopStep(s))
    /\ \A c \in Boxes : WF_boxVars(Settles(c)) /\ WF_boxVars(Reaches(c))

-----------------------------------------------------------------------------
(* Properties                                                              *)

\* "done" is printed for a container that has reached level 5 since it was
\* started, not for what its file says of an earlier run: as long as nothing
\* failed that the script does not notice, nobody interrupted it and no
\* container ended by itself.  The host may have gone down at any time.
StartMeansUp ==
    [][\A s \in Scripts : WaitUp(s) /\ ~upset => At(s).run = "own" /\ At(s).up]_boxVars

\* A container that runs is one that lxc knows, built, with its root and its cache
\* mounted, under the same condition: a stop takes nothing away from a container
\* that is not down.
OwnRoot ==
    ~upset => \A c \in Boxes :
        box[c].run # "no" =>
            box[c].run = "own" /\ box[c].made /\ box[c].go /\ box[c].root /\ box[c].jail

\* A start whose container is to come up at level 5 gets to the next one, unless
\* setSystemInfo and the script edit its inittab at once and the level 8 is put back;
\* and a stop of one that runs takes it down; under the same condition.
StartAtFive(s) == /\ step(s) = "adjust" /\ At(s).root
                  /\ \/ At(s).tab = 5
                     \/ At(s).tab = 8 /\ conf.prev = 5 /\ ~conf.initmode
ScriptGoesOn ==
    \A s \in Scripts :
        /\ StartAtFive(s) ~> \/ step(s) \notin {"adjust", "create", "start", "wait"}
                             \/ upset \/ conf.prev # 5 \/ At(s).late = 8
        /\ step(s) = "telinit" /\ At(s).run = "own" ~> step(s) \notin {"telinit", "down"} \/ upset

-----------------------------------------------------------------------------
(* What the comments promise and the code does not keep: the deviations run *)

\* "Run Level prior to level 8" (settings.py:83)
PrevIsPrior == conf.prev # 8

\* "Enable the simulation ... This will trigger the instanciations" (settings.py:74):
\* a host where it is disabled does not boot into level 8
DisabledStaysOff == ~conf.enabled => inittab # 8

\* "able to figure out what state it is at and skip over transitions that have been
\* done already" (containers:158): a cache that is mounted is not checked again
MountedIsSkipped == [][\A s \in Scripts : step(s) = "cache" /\ At(s).jail => step(s)' # "mount"]_boxVars

\* "ajust run level of container to the one prior to level 8" (lxc.py:248)
AdjustedIsPrior ==
    [][\A s \in Scripts : Adjust(s) /\ conf.prev # 8 => box'[script[s].c].late # 8]_boxVars
=============================================================================
