------------------------------ MODULE CiConsole ------------------------------
(***************************************************************************)
(* The consoles of the virtual machines under test (ciConsole.py): one     *)
(* process per machine finds a telnet port for it, which it keeps in a     *)
(* blob of the hypervisor, waits until the machine runs, and joins the     *)
(* machine's serial console to all who have called that port.  Whenever    *)
(* the machine goes down it looks for it again.                            *)
(*                                                                         *)
(* The hypervisor, socat and the users are external; so is the selector    *)
(* module: an error in a handler it has called ends the process or is lost.*)
(* Smoke.tla starts the consoles and the machines.                         *)
(***************************************************************************)
EXTENDS Naturals, FiniteSets, FiniteSetsExt

CONSTANTS
    VMs,
    Procs,      \* processes that run the script or a console
    Clients,    \* users with a telnet
    Ports,      \* from telnetBase on, in order
    MaxKills    \* consoles killed in all (bound)

None == 0

ASSUME ConsoleAssumption == Procs \subseteq Nat \ {None} /\ Ports \subseteq Nat \ {None}

VARIABLES
    power, boots,   \* of a machine; boots counts its domain ids
    blob,           \* its telnet port in the hypervisor, and whether the blob has its
                    \* label; NoBlob
    pc, vm,         \* where a process is, and the machine it works for
    port,           \* self.telnet
    dom,            \* the domain id it has read
    file,           \* the Unix socket of a machine's socat, the domain socat is for, and
                    \* the port it has inherited from the console that started it
    att,            \* the domain that a console is joined to
    at,             \* the console a user has reached (proc), and the machine it was asked
                    \* for; Away
    gone,           \* the users that have closed their telnet, unnoticed
    kills,          \* consoles killed so far
    raced           \* (history) a console has chosen its port while another one did, or
                    \* has ended while it did

xen   == <<power, boots>>
ports == <<blob, port, kills, raced>>
link  == <<dom, file, att>>
users == <<at, gone>>
consoleVars == <<xen, ports, pc, vm, link, users>>

NoBlob == [port |-> None, known |-> FALSE, labelled |-> FALSE]
Away   == [proc |-> None, vm |-> None]
NoFile == [st |-> "none", dom |-> None, port |-> None]

Choosing == {"create", "describe", "label"}
Finding  == {"look", "scan", "bind"} \cup Choosing
Serving  == {"state", "host", "keys", "connect", "loop"}
Consoles == Finding \cup Serving

Runs(v) == power[v] = "Running"

ConsoleInit ==
    /\ blob = [v \in VMs |-> NoBlob]
    /\ port = [p \in Procs |-> None] /\ kills = 0 /\ raced = FALSE
    /\ dom = [p \in Procs |-> None] /\ att = [p \in Procs |-> None]
    /\ file = [v \in VMs |-> NoFile]
    /\ at = [c \in Clients |-> Away] /\ gone = {}

Go(p, l) == pc' = [pc EXCEPT ![p] = l]

Callers(p) == {c \in Clients : at[c].proc = p}

HangsUpOn(C) == at' = [c \in Clients |-> IF c \in C THEN Away ELSE at[c]] /\ gone' = gone \ C

\* the process ends: its sockets are closed; a socat it is joined to ends and unlinks
\* the Unix socket; one that waits to be joined goes on, with the port it has
\* inherited, and the users it has inherited are joined to nobody
Gone(p, joined) ==
    /\ port' = [port EXCEPT ![p] = None]
    /\ dom'  = [dom EXCEPT ![p] = None]
    /\ att'  = [att EXCEPT ![p] = None]
    /\ file' = IF joined THEN [file EXCEPT ![vm[p]] = NoFile] ELSE file
    /\ HangsUpOn(Callers(p))
    /\ raced' = (raced \/ pc[p] \in Choosing)
    /\ UNCHANGED <<blob, vm, xen>>

Ends(p) == Go(p, "dead") /\ Gone(p, att[p] # None)

End(p) == Ends(p) /\ UNCHANGED kills

-----------------------------------------------------------------------------
(* getTelnet, and the telnet object                                        *)

\* the blob of a console that was killed before it described it is no number
Look(p) ==
    /\ pc[p] = "look"
    /\ LET b == blob[vm[p]] IN
       \/ ~b.known /\ Go(p, "scan") /\ UNCHANGED <<ports, users, link, vm, xen>>
       \/ /\ b.known /\ b.port # None
          /\ port' = [port EXCEPT ![p] = b.port]
          /\ Go(p, "bind")
          /\ UNCHANGED <<users, link, blob, kills, raced, vm, xen>>
       \/ b.known /\ b.port = None /\ End(p)

Used == {blob[v].port : v \in {w \in VMs : blob[w].labelled}}

\* a port that is taken all the same (no part of the specification)
ScanFirst(p) ==
    /\ pc[p] = "scan"
    /\ port' = [port EXCEPT ![p] = Min(Ports)]
    /\ raced' = (raced \/ \E q \in Procs : pc[q] \in Choosing)
    /\ Go(p, "create")
    /\ UNCHANGED <<blob, kills, vm, xen, link, users>>

\* the first port that no labelled blob has
Scan(p) ==
    /\ pc[p] = "scan"
    /\ IF Ports \subseteq Used THEN End(p)
       ELSE /\ port' = [port EXCEPT ![p] = Min(Ports \ Used)]
            /\ raced' = (raced \/ \E q \in Procs : pc[q] \in Choosing)
            /\ Go(p, "create")
            /\ UNCHANGED <<blob, kills, vm, xen, link, users>>

\* a second blob of the same name is refused
Create(p) ==
    /\ pc[p] = "create"
    /\ IF blob[vm[p]].known THEN End(p)
       ELSE /\ blob' = [blob EXCEPT ![vm[p]].known = TRUE]
            /\ Go(p, "describe")
            /\ UNCHANGED <<port, kills, raced, vm, xen, link, users>>

Describe(p) ==
    /\ pc[p] = "describe"
    /\ blob' = [blob EXCEPT ![vm[p]].port = port[p]]
    /\ Go(p, "label")
    /\ UNCHANGED <<port, kills, raced, vm, xen, link, users>>

Label(p) ==
    /\ pc[p] = "label"
    /\ blob' = [blob EXCEPT ![vm[p]].labelled = TRUE]
    /\ Go(p, "bind")
    /\ UNCHANGED <<port, kills, raced, vm, xen, link, users>>

Listens(p, n) == pc[p] \in Serving /\ port[p] = n

\* a socat has been left with the port
Held(n) == \E v \in VMs : file[v].port = n

\* "already in use": the process exits
Bind(p) ==
    /\ pc[p] = "bind"
    /\ IF Held(port[p]) \/ \E q \in Procs : Listens(q, port[p]) THEN End(p)
       ELSE Go(p, "state") /\ UNCHANGED <<ports, vm, xen, link, users>>

-----------------------------------------------------------------------------
(* The main loop of start                                                  *)

Quiet == UNCHANGED <<ports, vm, xen, users>>

State(p) ==
    /\ pc[p] = "state" /\ Runs(vm[p])
    /\ Go(p, "host")
    /\ UNCHANGED link /\ Quiet

\* the domain that was there at first is looked for again (no part of the
\* specification)
HostOnce(p) ==
    /\ pc[p] = "host"
    /\ IF Runs(vm[p])
       THEN dom' = [dom EXCEPT ![p] = IF @ = None THEN boots[vm[p]] ELSE @] /\ Go(p, "keys")
       ELSE UNCHANGED dom /\ Go(p, "state")
    /\ UNCHANGED <<file, att>> /\ Quiet

\* a machine that has stopped meanwhile has no host, which is an error
Host(p) ==
    /\ pc[p] = "host"
    /\ IF Runs(vm[p]) THEN dom' = [dom EXCEPT ![p] = boots[vm[p]]] /\ Go(p, "keys")
                      ELSE UNCHANGED dom /\ Go(p, "state")
    /\ UNCHANGED <<file, att>> /\ Quiet

\* setKeys (when it fails start returns, to the script that has called it: Smoke); then
\* socat, which inherits what the console has open (Popen without close_fds), and does
\* not start where the file is already
Keys(p) ==
    /\ pc[p] = "keys"
    /\ file' = IF file[vm[p]] # NoFile THEN file
               ELSE [file EXCEPT ![vm[p]] = [st |-> "listening", dom |-> dom[p], port |-> port[p]]]
    /\ Go(p, "connect")
    /\ UNCHANGED <<dom, att>> /\ Quiet

\* there is no key, or no user
KeysRaise(p) == pc[p] = "keys" /\ End(p)

\* connect, repeated until it succeeds; then the callers are told, and a write to one
\* that has gone may be an error
Connect(p) ==
    /\ pc[p] = "connect" /\ file[vm[p]].st = "listening"
    /\ file' = [file EXCEPT ![vm[p]].st = "used"]
    /\ att' = [att EXCEPT ![p] = file[vm[p]].dom]
    /\ Go(p, "loop")
    /\ UNCHANGED dom /\ Quiet

ToldGone(p) ==
    /\ pc[p] = "connect" /\ file[vm[p]].st = "listening"
    /\ Callers(p) \cap gone # {}
    /\ Go(p, "dead") /\ Gone(p, TRUE)
    /\ UNCHANGED kills

\* xenconsole goes on as long as the domain does
Up(p) == Runs(vm[p]) /\ boots[vm[p]] = att[p]

\* the end of file ends the wait loop; socat has ended and unlinked the file
Eof(p) ==
    /\ pc[p] = "loop" /\ ~Up(p)
    /\ file' = [file EXCEPT ![vm[p]] = NoFile]
    /\ att' = [att EXCEPT ![p] = None]
    /\ Go(p, "state")
    /\ UNCHANGED dom /\ Quiet

\* what a user types, or a write to a user who has gone, is an error
LoopRaises(p) ==
    /\ pc[p] = "loop"
    /\ (~Up(p) /\ Callers(p) # {}) \/ Callers(p) \cap gone # {}
    /\ End(p)

\* a read finds the end: the user is struck off
Noticed(p, c) ==
    /\ pc[p] = "loop" /\ c \in Callers(p) \cap gone
    /\ HangsUpOn({c})
    /\ UNCHANGED <<pc, vm, xen, ports, link>>

ConsoleStep(p) ==
    \/ Look(p) \/ Scan(p) \/ Create(p) \/ Describe(p) \/ Label(p) \/ Bind(p)
    \/ State(p) \/ Host(p) \/ Keys(p) \/ Connect(p) \/ ToldGone(p) \/ Eof(p)

-----------------------------------------------------------------------------
(* Users, and what befalls a console                                       *)

\* the command "console": the port of the machine's blob, if anybody listens there
Call(c, v) ==
    /\ at[c] = Away /\ blob[v].port # None
    /\ \E p \in Procs : /\ Listens(p, blob[v].port)
                        /\ at' = [at EXCEPT ![c] = [proc |-> p, vm |-> v]]
    /\ UNCHANGED <<pc, vm, xen, ports, link, gone>>

HangUp(c) ==
    /\ at[c] # Away /\ c \notin gone
    /\ gone' = gone \cup {c}
    /\ UNCHANGED <<pc, vm, xen, ports, link, at>>

Kill(p) ==
    /\ pc[p] \in Consoles /\ kills < MaxKills
    /\ kills' = kills + 1
    /\ Ends(p)

\* somebody starts it again
Again(p) ==
    /\ pc[p] = "dead"
    /\ Go(p, "look")
    /\ UNCHANGED <<vm, xen, ports, link, users>>

\* the build machine: its files are still there when it is up again
Crash ==
    /\ pc' = [p \in Procs |-> CASE pc[p] \in Consoles -> "dead"
                                [] pc[p] \in {"free", "dead"} -> pc[p]
                                [] OTHER -> "failed"]
    /\ raced' = (raced \/ \E p \in Procs : pc[p] \in Choosing)
    /\ file' = [v \in VMs |-> IF file[v] = NoFile THEN NoFile ELSE [NoFile EXCEPT !.st = "stale"]]
    /\ port' = [p \in Procs |-> None] /\ dom' = port' /\ att' = port'
    /\ HangsUpOn(Clients)
    /\ UNCHANGED <<vm, xen, blob, kills>>

Around ==
    \/ \E p \in Procs : LoopRaises(p) \/ Kill(p) \/ Again(p)
                            \/ \E c \in Clients : Noticed(p, c)
    \/ \E c \in Clients : HangUp(c) \/ \E v \in VMs : Call(c, v)
=============================================================================
