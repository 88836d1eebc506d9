-------------------------------- MODULE Smoke --------------------------------
(***************************************************************************)
(* The smoke test (builder/sbin/smoke, rimAPI.py): it turns two machines   *)
(* off, starts their consoles, installs first the server and then the      *)
(* client from an image in their DVD drives, waits until each answers with *)
(* its configuration, and puts both into service.  The consoles are those  *)
(* of CiConsole, forked from the script.                                   *)
(*                                                                         *)
(* The machines, as guests of the hypervisor, and its events are external. *)
(***************************************************************************)
EXTENDS CiConsole

CONSTANTS
    Server, Client,   \* the two machines
    Main,             \* the process that the script is started as
    MaySlow,          \* an answer of a machine may be cut short
    MaxTries          \* count in waitForInitmode

ASSUME SmokeAssumption == {Server, Client} \subseteq VMs

VARIABLES
    cd,         \* in a machine's drive: "none", the "iso" of the test, another one
    guest,      \* a machine's system: off, being installed, answering in init mode,
                \* changing over to service, in service
    listening,  \* the session has registered for the events of images
    event,      \* one about the server's image has not been read yet
    tries,      \* what is left of a process's attempts
    buf         \* a process's RimAPI has something in its buffer

machine == <<cd, guest>>
events  == <<listening, event>>
api     == <<tries, buf>>
vars    == <<consoleVars, machine, events, api>>

Init ==
    /\ ConsoleInit
    /\ power = [v \in VMs |-> "Running"]
    /\ boots = [v \in VMs |-> 0]
    /\ guest = [v \in VMs |-> IF power[v] = "Running" THEN "service" ELSE "off"]
    /\ \E d \in {"other"} : cd = [v \in VMs |-> d]
    /\ pc = [p \in Procs |-> IF p = Main THEN "shutdown" ELSE "free"]
    /\ vm = [p \in Procs |-> Server]
    /\ listening = FALSE /\ event = FALSE
    /\ tries = [p \in Procs |-> 0] /\ buf = [p \in Procs |-> FALSE]

Ended == {"passed", "failed", "free", "dead"}

\* p goes on at l, with v
To(p, l, v) == pc' = [pc EXCEPT ![p] = l] /\ vm' = [vm EXCEPT ![p] = v]

ConsolesAside == UNCHANGED <<ports, link, users>>

-----------------------------------------------------------------------------
(* The hypervisor                                                          *)

Eject(v) ==
    /\ cd' = [cd EXCEPT ![v] = "none"]
    /\ event' = (event \/ (listening /\ v = Server /\ cd[v] = "iso"))
    /\ UNCHANGED listening

TurnOff(v) ==
    /\ power' = [power EXCEPT ![v] = "Halted"]
    /\ guest' = [guest EXCEPT ![v] = "off"]
    /\ UNCHANGED boots

\* a machine boots from its drive first
TurnOn(v) ==
    /\ power' = [power EXCEPT ![v] = "Running"]
    /\ boots' = [boots EXCEPT ![v] = @ + 1]
    /\ guest' = [guest EXCEPT ![v] = IF cd[v] = "iso" THEN "install" ELSE "service"]

\* the installation ejects the image and boots what it has installed
Installs(v) ==
    /\ guest[v] = "install"
    /\ Eject(v)
    /\ boots' = [boots EXCEPT ![v] = @ + 1]
    /\ guest' = [guest EXCEPT ![v] = "init"]
    /\ UNCHANGED <<power, pc, vm, api>> /\ ConsolesAside

ChangesOver(v) ==
    /\ guest[v] = "change"
    /\ guest' = [guest EXCEPT ![v] = "service"]
    /\ UNCHANGED <<xen, cd, events, pc, vm, api>> /\ ConsolesAside

\* the installation fails, and turns the machine off
Aborts(v) ==
    /\ guest[v] = "install"
    /\ TurnOff(v)
    /\ UNCHANGED <<cd, events, pc, vm, api>> /\ ConsolesAside

-----------------------------------------------------------------------------
(* The script: what it does with one machine, then with the other          *)

\* the image server's directory, or an image in it, is not known to the hypervisor
Lacks(p) ==
    /\ pc[p] = "shutdown" /\ vm[p] = Server
    /\ Go(p, "failed")
    /\ UNCHANGED <<xen, machine, events, vm, api>> /\ ConsolesAside

Shutdown(p) ==
    /\ pc[p] = "shutdown"
    /\ IF Runs(vm[p]) THEN TurnOff(vm[p]) ELSE UNCHANGED <<xen, guest>>
    /\ IF vm[p] = Server THEN To(p, "shutdown", Client) ELSE To(p, "console", Server)
    /\ UNCHANGED <<cd, events, api>> /\ ConsolesAside

\* where the script goes on after Console(...).start()
AfterConsole(v) == IF v = Server THEN <<"console", Client>> ELSE <<"insert", Server>>

\* Console.start: the new process goes its own way
StartConsole(p) ==
    /\ pc[p] = "console"
    /\ \E q \in Procs :
          LET next == AfterConsole(vm[p])
          IN /\ pc[q] = "free" /\ \A r \in Procs : pc[r] = "free" => q <= r
             /\ pc' = [pc EXCEPT ![q] = "look", ![p] = next[1]]
             /\ vm' = [vm EXCEPT ![q] = vm[p], ![p] = next[2]]
    /\ UNCHANGED <<xen, machine, events, api>> /\ ConsolesAside

\* setKeys has failed in a console: start returns, in a process that is a copy of the
\* script
Returns(p) ==
    /\ pc[p] = "keys"
    /\ LET next == AfterConsole(vm[p])
       IN pc' = [pc EXCEPT ![p] = next[1]] /\ vm' = [vm EXCEPT ![p] = next[2]]
    /\ port' = [port EXCEPT ![p] = None] /\ dom' = [dom EXCEPT ![p] = None]
    /\ HangsUpOn(Callers(p))
    /\ UNCHANGED <<blob, kills, raced, xen, file, att, machine, events, api>>

\* no eject before the next attempt (no part of the specification)
InsertAgain(p) ==
    /\ pc[p] = "insert"
    /\ IF cd[vm[p]] = "none" THEN cd' = [cd EXCEPT ![vm[p]] = "iso"] /\ To(p, "start", vm[p])
                             ELSE UNCHANGED <<cd, pc, vm>>
    /\ UNCHANGED <<guest, events, xen, api>> /\ ConsolesAside

\* insertCd: an image that is there is ejected, and the next attempt made
Insert(p) ==
    /\ pc[p] = "insert"
    /\ IF cd[vm[p]] = "none"
       THEN cd' = [cd EXCEPT ![vm[p]] = "iso"] /\ To(p, "start", vm[p]) /\ UNCHANGED events
       ELSE Eject(vm[p]) /\ UNCHANGED <<pc, vm>>
    /\ UNCHANGED <<guest, xen, api>> /\ ConsolesAside

NewApi(p) ==
    tries' = [tries EXCEPT ![p] = MaxTries] /\ buf' = [buf EXCEPT ![p] = FALSE]

\* a machine that runs already is an error
Start(p) ==
    /\ pc[p] = "start"
    /\ IF Runs(vm[p]) THEN Go(p, "failed") /\ UNCHANGED <<xen, guest, api>>
       ELSE /\ TurnOn(vm[p])
            /\ IF vm[p] = Server THEN Go(p, "register") /\ UNCHANGED api
                                 ELSE Go(p, "try") /\ NewApi(p)
    /\ UNCHANGED <<cd, events, vm>> /\ ConsolesAside

\* waitForEject
Register(p) ==
    /\ pc[p] = "register"
    /\ listening' = TRUE
    /\ Go(p, "event")
    /\ UNCHANGED <<xen, machine, event, vm, api>> /\ ConsolesAside

\* and the script's own ejectCd, whose error is ignored
GetEvent(p) ==
    /\ pc[p] = "event" /\ event
    /\ event' = FALSE /\ cd' = [cd EXCEPT ![vm[p]] = "none"]
    /\ Go(p, "try") /\ NewApi(p)
    /\ UNCHANGED <<xen, guest, listening, vm>> /\ ConsolesAside

\* EVENTS_LOST, or any other failure, and waitForEject goes round again without having
\* registered: what was to be read is lost, and so may be the registration
LoseEvents(p) ==
    /\ pc[p] = "event"
    /\ event' = FALSE /\ listening' \in {listening, FALSE}
    /\ UNCHANGED <<xen, machine, pc, vm, api>> /\ ConsolesAside

Failed(p) ==
    /\ tries' = [tries EXCEPT ![p] = @ - 1]
    /\ IF tries[p] = 1 THEN Go(p, "failed") /\ UNCHANGED vm ELSE UNCHANGED <<pc, vm>>

\* getCfg: what has been received before is still in the buffer, and the two together
\* are no configuration
GetCfg(p, up, l, v) ==
    \/ up /\ ~buf[p] /\ To(p, l, v) /\ buf' = [buf EXCEPT ![p] = TRUE] /\ UNCHANGED tries
    \/ /\ up => buf[p] \/ MaySlow
       /\ Failed(p) /\ buf' = [buf EXCEPT ![p] = @ \/ up]

\* waitForInitmode
Try(p) ==
    /\ pc[p] = "try"
    /\ IF vm[p] = Server THEN GetCfg(p, guest[Server] = "init", "insert", Client)
                         ELSE GetCfg(p, guest[Client] = "init", "sync", Client)
    /\ UNCHANGED <<xen, machine, events>> /\ ConsolesAside

\* set and sync: what was read is written back with the changes, to one after the other
Sync(p) ==
    /\ pc[p] = "sync"
    /\ IF guest[vm[p]] # "init" THEN Go(p, "failed") /\ UNCHANGED <<guest, vm, api>>
       ELSE /\ guest' = [guest EXCEPT ![vm[p]] = "change"]
            /\ IF vm[p] = Client THEN To(p, "sync", Server) /\ UNCHANGED api
                                 ELSE To(p, "again", Client) /\ NewApi(p)
    /\ UNCHANGED <<xen, cd, events>> /\ ConsolesAside

\* the client's configuration in service, and its last setting, which may fail
TryAgain(p) ==
    /\ pc[p] = "again"
    /\ \E l \in {"passed", "failed"} : GetCfg(p, guest[Client] = "service", l, Client)
    /\ UNCHANGED <<xen, machine, events>> /\ ConsolesAside

ScriptStep(p) ==
    \/ Lacks(p) \/ Shutdown(p) \/ StartConsole(p) \/ Insert(p) \/ Start(p) \/ Register(p)
    \/ GetEvent(p) \/ Try(p) \/ Sync(p) \/ TryAgain(p)

-----------------------------------------------------------------------------
Next ==
    \/ /\ (\E p \in Procs : ConsoleStep(p)) \/ Around
       /\ UNCHANGED <<machine, events, api>>
    \/ \E p \in Procs : ScriptStep(p) \/ LoseEvents(p)
    \/ \E v \in VMs : Installs(v) \/ ChangesOver(v) \/ Aborts(v)

Spec == Init /\ [][Next]_vars

\* every process goes on; nothing is assumed of machines and users
Fair ==
    \A p \in Procs : /\ WF_vars(ConsoleStep(p) /\ UNCHANGED <<machine, events, api>>)
                     /\ WF_vars(ScriptStep(p))

FairSpec == Spec /\ Fair

\* what the deviations take besides: a login that fails, and a crash
Mishap ==
    \/ (Crash \/ \E p \in Procs : KeysRaise(p)) /\ UNCHANGED <<machine, events, api>>
    \/ \E p \in Procs : Returns(p)

FaultySpec == Init /\ [][Next \/ Mishap]_vars /\ Fair

-----------------------------------------------------------------------------
(* Properties                                                              *)

TypeOK ==
    /\ power \in [VMs -> {"Halted", "Running"}] /\ boots \in [VMs -> 0..2]
    /\ blob \in [VMs -> [port : Ports \cup {None}, known : BOOLEAN, labelled : BOOLEAN]]
    /\ vm \in [Procs -> VMs] /\ port \in [Procs -> Ports \cup {None}]
    /\ dom \in [Procs -> Nat] /\ att \in [Procs -> Nat]
    /\ \A v \in VMs : file[v].st \in {"none", "listening", "used", "stale"}
    /\ at \in [Clients -> [proc : Procs, vm : VMs] \cup {Away}] /\ gone \subseteq Clients
    /\ cd \in [VMs -> {"none", "iso", "other"}]
    /\ guest \in [VMs -> {"off", "install", "init", "change", "service"}]
    /\ {raced, listening, event} \subseteq BOOLEAN
    /\ tries \in [Procs -> 0..MaxTries] /\ buf \in [Procs -> BOOLEAN]

(***************************************************************************)
(* A user who asks for a machine's console gets that machine's, as long as *)
(* no two consoles have looked for a port at the same time (getTelnet), and*)
(* none was killed while it did: whoever is killed, ends and comes back.   *)
(***************************************************************************)
RightConsole == ~raced => \A c \in Clients : at[c] # Away => vm[at[c].proc] = at[c].vm

(***************************************************************************)
(* "So this shoudl also work accross migrations" (ciConsole.py:27): a      *)
(* console that has been started comes to be joined to the domain of its   *)
(* machine, however often that changes and whatever a killed console has   *)
(* left in the blob; unless the machine stops, or the console ends: it may *)
(* be killed, or find its port held by what a killed one has left.         *)
(***************************************************************************)
Joins(p) == pc[p] \in Consoles /\ Runs(vm[p])
                ~> att[p] = boots[vm[p]] \/ ~Runs(vm[p]) \/ pc[p] \notin Consoles

ConsoleComesBack == \A p \in Procs \ {Main} : Joins(p)

(***************************************************************************)
(* The smoke test comes to its end, or waits for an eject (waitForEject)   *)
(* of which there is nothing to read: it has been before the registration, *)
(* never is, or was lost with the events or with the registration.         *)
(***************************************************************************)
ScriptEnds == <>(pc[Main] \in Ended \/ [](pc[Main] = "event" /\ ~event))

-----------------------------------------------------------------------------
(* What the comments say, and the code does not do                         *)

\* "find a free telnet port" (ciConsole.py:359): no two machines have the same.
PortIsFree ==
    \A v, w \in VMs : v # w /\ blob[v].port # None => blob[v].port # blob[w].port

\* "Telnet client are kept alive accross vm reboots." (ciConsole.py:25): who has not
\* hung up stays connected, unless the console is killed or has no keys.
ClientsKept ==
    [][kills' = kills /\ ~Mishap => \A c \in Clients : at[c] # Away /\ c \notin gone => at'[c] = at[c]]_vars

\* "find a free telnet port" (ciConsole.py:359): a console that has its port on record
\* ends at "already in use" only while another listens there.
PortComesBack ==
    [][kills' = kills /\ ~Mishap => \A p \in Procs : pc[p] = "bind" /\ pc'[p] = "dead"
          => \E q \in Procs : Listens(q, port[p])]_vars

\* "wait for the socket file to be created" (ciConsole.py:402): the wait ends, unless
\* the console does.
WaitForFileEnds == \A p \in Procs \ {Main} : pc[p] = "connect" ~> pc[p] # "connect"

\* "We are now running inside a detached child process" (ciConsole.py:357): only the
\* process that was started as the smoke test is one.
OneScript == \A p \in Procs \ {Main} : pc[p] \in Consoles \cup {"free", "dead"}

\* "now wait until we have http access to these IPs" (smoke:292): an attempt does not
\* depend on what an earlier one has received.
FreshAttempt == \A p \in Procs : pc[p] \in {"try", "again"} => ~buf[p]

\* "wait for the next vdi event on a certain ref" (smoke:96): the eject that ends the
\* server's installation is heard.
EjectIsHeard == [][guest[Server] = "install" /\ guest'[Server] = "init" => event']_vars

\* "Caught EVENTS_LOST; should reregister" (smoke:108): an eject after the registration
\* is heard.
EjectIsTaken == pc[Main] = "event" /\ event ~> pc[Main] # "event"
=============================================================================
