------------------------------- MODULE TrxMgr -------------------------------
(***************************************************************************)
(* The tables of the tracker's manager (trxmgrClient.c, trxmgrCli.c): the  *)
(* slots of its clients, the slots of its command-line sessions, and the   *)
(* counter with which a session waits for the reports it has asked for.    *)
(*                                                                         *)
(* The manager is one thread around select().  Between two passes of its   *)
(* loop it reads one packet of a client, accepts a connection or reads the *)
(* command of a CLI; a command that concerns clients walks over the client *)
(* table and has one exchange with each client in scope.  Each exchange is *)
(* one step here; what can come of it is what ReportLink allows and        *)
(* TrxConn, the packet-level model, implements.                            *)
(***************************************************************************)
EXTENDS Naturals, FiniteSets

CONSTANTS
    NSlots,     \* size of clients[]
    NClis,      \* size of cli[]
    SubCmds,    \* the report commands users give: "report", "snap", "sreport"
    Dests       \* where they send the output: "console", "file"

Slots == 0..(NSlots - 1)
Clis  == 0..(NClis - 1)

ASSUME MgrAssumption ==
    /\ NSlots \in Nat \ {0} /\ NClis \in Nat \ {0}
    /\ SubCmds \subseteq {"report", "snap", "sreport"}
    /\ Dests \subseteq {"console", "file"}

VARIABLES
    link,       \* clients[].fd and how far its connection has got
    reportTo,   \* clients[].reportTo: what CLI wants that report
    subCmd,     \* clients[].subCmd: what to do with the report
    snap,       \* clients[].snap: none, taken of this client, or of a former one
    open,       \* cli[].fd is open
    waiting,    \* cli[].waiting
    ffd,        \* cli[].ffd is an open file
    scope,      \* cli[].scope: empty (all), a list of names, or freed strings
    dest,       \* fname of the report command the CLI gave last
    walk,       \* the command being carried out, or NoWalk
    alive,      \* the manager runs
    calm        \* this manager has closed no client so far (history, for the
                \* properties)

slotVars == <<link, reportTo, subCmd, snap>>
cliVars  == <<open, waiting, ffd, scope, dest>>
vars     == <<slotVars, cliVars, walk, alive, calm>>

LinkStates == {"closed", "new", "ready", "owing"}

NoCli  == NClis
NoWalk == [cli |-> NoCli, at |-> 0, cmd |-> "none"]

Init ==
    /\ link     = [i \in Slots |-> "closed"]
    /\ reportTo = [i \in Slots |-> 0]
    /\ subCmd   = [i \in Slots |-> "report"]
    /\ snap     = [i \in Slots |-> "none"]
    /\ open     = [k \in Clis |-> FALSE]
    /\ waiting  = [k \in Clis |-> 0]
    /\ ffd      = [k \in Clis |-> FALSE]
    /\ scope    = [k \in Clis |-> "all"]
    /\ dest     = [k \in Clis |-> "console"]
    /\ walk     = NoWalk
    /\ alive    = TRUE
    /\ calm     = TRUE

Idle == alive /\ walk = NoWalk

-----------------------------------------------------------------------------
(* cliDecWait                                                              *)

Dec(w, k) == [w EXCEPT ![k] = IF @ > 0 THEN @ - 1 ELSE 0]
Inc(w, k) == [w EXCEPT ![k] = @ + 1]

\* a file closed after the first report (no part of the specification)
CloseFilesEarly(w, v) == [k \in Clis |-> ffd[k] /\ v[k] >= w[k]]

\* the files of the CLIs that got their prompt between counts w and v
CloseFiles(w, v) == [k \in Clis |-> ffd[k] /\ ~(w[k] > 0 /\ v[k] = 0)]

\* one result for CLI k has come in, or will not come
cliDecWait(k) ==
    /\ waiting' = Dec(waiting, k)
    /\ ffd' = CloseFiles(waiting, waiting')

-----------------------------------------------------------------------------
(* Clients                                                                 *)

\* closeClient of slot i, without its cliDecWait
DropLink(i) == link' = [link EXCEPT ![i] = "closed"]

\* newClient: the first free slot; everything else the slot holds is left
Accept(i) ==
    /\ Idle
    /\ link[i] = "closed" /\ \A j \in Slots : j < i => link[j] # "closed"
    /\ link' = [link EXCEPT ![i] = "new"]
    /\ snap' = [snap EXCEPT ![i] = IF @ = "own" THEN "former" ELSE @]
    /\ UNCHANGED <<reportTo, subCmd, cliVars, walk, alive, calm>>

\* handleExchange of a REGISTER: getCmdStr, and sendConfig succeeds
Register(i) ==
    /\ Idle /\ link[i] = "new"
    /\ link' = [link EXCEPT ![i] = "ready"]
    /\ UNCHANGED <<reportTo, subCmd, snap, cliVars, walk, alive, calm>>

\* sendConfig fails: mgrSendCmd2 closes the client
RegisterFails(i) ==
    /\ Idle /\ link[i] = "new"
    /\ DropLink(i)
    /\ cliDecWait(reportTo[i])
    /\ calm' = FALSE
    /\ UNCHANGED <<reportTo, subCmd, snap, open, scope, dest, walk, alive>>

\* a report handleExchange has read: "nothing to report" shows nothing,
\* showReport takes a snapshot when that is what the report was asked for
Deliver(i) ==
    /\ Idle /\ link[i] = "owing"
    /\ link' = [link EXCEPT ![i] = "ready"]
    /\ \/ UNCHANGED snap
       \/ subCmd[i] = "snap" /\ snap' = [snap EXCEPT ![i] = "own"]
    /\ cliDecWait(reportTo[i])
    /\ UNCHANGED <<reportTo, subCmd, open, scope, dest, walk, alive, calm>>

\* a failed read that releases nobody (no part of the specification)
EofReleasesNobody(i) ==
    /\ Idle /\ link[i] # "closed"
    /\ DropLink(i)
    /\ calm' = FALSE
    /\ UNCHANGED <<reportTo, subCmd, snap, cliVars, walk, alive>>

\* handleExchange cannot read: cliDecWait, and closeClient with its own
Eof(i) ==
    /\ Idle /\ link[i] # "closed"
    /\ DropLink(i)
    /\ waiting' = Dec(Dec(waiting, reportTo[i]), reportTo[i])
    /\ ffd' = CloseFiles(waiting, waiting')
    /\ calm' = FALSE
    /\ UNCHANGED <<reportTo, subCmd, snap, open, scope, dest, walk, alive>>

-----------------------------------------------------------------------------
(* Command-line sessions                                                   *)

\* newCli: the first free entry; its scope is what the last session left
NewCli(k) ==
    /\ Idle
    /\ ~open[k] /\ \A l \in Clis : l < k => open[l]
    /\ open' = [open EXCEPT ![k] = TRUE]
    /\ ffd'  = [ffd EXCEPT ![k] = FALSE]
    /\ UNCHANGED <<slotVars, waiting, scope, dest, walk, alive, calm>>

\* cliSetFds selecting every session (no part of the specification)
ReadsAlways(k) == Idle /\ open[k]

\* cliSetFds selects, and cliProcessFds reads, the sessions that do not wait
Reads(k) == Idle /\ open[k] /\ waiting[k] = 0

\* closeCli, for cmdQuit or the end of the connection
CloseCli(k) ==
    /\ Reads(k)
    /\ open'  = [open EXCEPT ![k] = FALSE]
    /\ scope' = [scope EXCEPT ![k] = IF @ = "all" THEN "all" ELSE "freed"]
    /\ UNCHANGED <<slotVars, waiting, ffd, dest, walk, alive, calm>>

\* cmdSet of the scope; freed names are freed again
SetScope(k) ==
    /\ Reads(k)
    /\ \E s \in {"all", "list"} : scope' = [scope EXCEPT ![k] = s]
    /\ UNCHANGED <<slotVars, open, waiting, ffd, dest, walk, alive, calm>>

StartWalk(k, c) == /\ Reads(k)
                   /\ walk' = [cli |-> k, at |-> 0, cmd |-> c]
                   /\ UNCHANGED <<slotVars, open, waiting, scope, alive, calm>>

\* cmdReportHub: a file is opened if the command names one
ReportCommand(k, c, d) ==
    /\ StartWalk(k, c)
    /\ dest' = [dest EXCEPT ![k] = d]
    /\ ffd'  = IF d = "file" THEN [ffd EXCEPT ![k] = TRUE] ELSE ffd

\* the file cannot be opened: no client is asked
ReportCommandFails(k) ==
    /\ Reads(k) /\ "file" \in Dests
    /\ ffd' = [ffd EXCEPT ![k] = FALSE]
    /\ UNCHANGED <<slotVars, open, waiting, scope, dest, walk, alive, calm>>

\* push, pop, and the set commands that go to the clients
QueryCommand(k) == StartWalk(k, "query") /\ UNCHANGED <<ffd, dest>>

-----------------------------------------------------------------------------
(* trxmgrClientWalkList                                                    *)

Step == walk' = [walk EXCEPT !.at = @ + 1]

At(i) == alive /\ walk # NoWalk /\ walk.at = i

Visit(i) == At(i) /\ link[i] # "closed" /\ Step

\* no client here, or one that is not in scope
Skip(i) ==
    /\ At(i) /\ Step
    /\ link[i] = "closed" \/ scope[walk.cli] # "all"
    /\ UNCHANGED <<slotVars, cliVars, alive, calm>>

\* reportCb and trxmgrClientAskReport
AskOk(i) ==
    /\ Visit(i) /\ walk.cmd # "query"
    /\ link[i] = "ready"
    /\ link' = [link EXCEPT ![i] = "owing"]
    /\ reportTo' = [reportTo EXCEPT ![i] = walk.cli]
    /\ subCmd' = [subCmd EXCEPT ![i] = walk.cmd]
    /\ waiting' = Inc(waiting, walk.cli)
    /\ UNCHANGED <<snap, open, ffd, scope, dest, alive, calm>>

\* reportCb without the cliDecWait for a failed ask (no part of the specification)
AskFailsCounted(i) ==
    /\ Visit(i) /\ walk.cmd # "query"
    /\ DropLink(i)
    /\ reportTo' = [reportTo EXCEPT ![i] = walk.cli]
    /\ subCmd' = [subCmd EXCEPT ![i] = walk.cmd]
    /\ LET w == Dec(waiting, reportTo[i])
       IN waiting' = Inc(w, walk.cli) /\ ffd' = CloseFiles(waiting, w)
    /\ calm' = FALSE
    /\ UNCHANGED <<snap, open, scope, dest, alive>>

\* mgrSendCmd2 closes the client, for the CLI it reported to; then reportCb
\* counts the client in, and at once out again
AskFails(i) ==
    /\ Visit(i) /\ walk.cmd # "query"
    /\ DropLink(i)
    /\ reportTo' = [reportTo EXCEPT ![i] = walk.cli]
    /\ subCmd' = [subCmd EXCEPT ![i] = walk.cmd]
    /\ LET w == Dec(waiting, reportTo[i])
           v == Inc(w, walk.cli)
       IN /\ waiting' = Dec(v, walk.cli)
          /\ ffd' = [k \in Clis |-> CloseFiles(waiting, w)[k] /\ CloseFiles(v, waiting')[k]]
    /\ calm' = FALSE
    /\ UNCHANGED <<snap, open, scope, dest, alive>>

QueryOk(i) ==
    /\ Visit(i) /\ walk.cmd = "query"
    /\ link[i] = "ready"
    /\ UNCHANGED <<slotVars, cliVars, alive, calm>>

QueryFails(i) ==
    /\ Visit(i) /\ walk.cmd = "query"
    /\ DropLink(i)
    /\ cliDecWait(reportTo[i])
    /\ calm' = FALSE
    /\ UNCHANGED <<reportTo, subCmd, snap, open, scope, dest, alive>>

EndWalk ==
    /\ alive /\ walk # NoWalk /\ walk.at = NSlots
    /\ walk' = NoWalk
    /\ UNCHANGED <<slotVars, cliVars, alive, calm>>

-----------------------------------------------------------------------------
(* The manager's process                                                   *)

\* SIGPIPE from an exchange with a client that has exited; or a second use of
\* what was freed: the scope of a session that ended, by inScope, cmdSet or
\* closeCli, or the name of a client whose slot was used again
Die ==
    /\ alive
    /\ alive' = FALSE
    /\ calm' = TRUE
    /\ link'     = [i \in Slots |-> "closed"]
    /\ reportTo' = [i \in Slots |-> 0]
    /\ subCmd'   = [i \in Slots |-> "report"]
    /\ snap'     = [i \in Slots |-> "none"]
    /\ open'     = [k \in Clis |-> FALSE]
    /\ waiting'  = [k \in Clis |-> 0]
    /\ ffd'      = [k \in Clis |-> FALSE]
    /\ scope'    = [k \in Clis |-> "all"]
    /\ dest'     = [k \in Clis |-> "console"]
    /\ walk'     = NoWalk

Restart == ~alive /\ alive' = TRUE /\ UNCHANGED <<slotVars, cliVars, walk, calm>>

-----------------------------------------------------------------------------
ClientStep(i) == Accept(i) \/ Register(i) \/ RegisterFails(i) \/ Deliver(i) \/ Eof(i)

CliStep(k) == \/ NewCli(k) \/ CloseCli(k) \/ SetScope(k)
              \/ \E c \in SubCmds, d \in Dests : ReportCommand(k, c, d)
              \/ ReportCommandFails(k) \/ QueryCommand(k)

WalkStep == \/ \E i \in Slots : Skip(i) \/ AskOk(i) \/ AskFails(i) \/ QueryOk(i) \/ QueryFails(i)
            \/ EndWalk

Next == \/ \E i \in Slots : ClientStep(i)
        \/ \E k \in Clis : CliStep(k)
        \/ WalkStep \/ Die \/ Restart

Spec == Init /\ [][Next]_vars

(***************************************************************************)
(* A command goes on to its end: each exchange ends after ACK_TIMEOUT at   *)
(* the latest.  A report that is owed arrives, or its client's connection  *)
(* ends (TrxConn's OwedIsResolved), and every pass of the select loop      *)
(* serves all clients that have sent something before it serves a CLI, so  *)
(* that commands given again and again cannot keep it from being read.     *)
(***************************************************************************)
FairSpec == Spec /\ WF_vars(WalkStep)
                 /\ \A i \in Slots : SF_vars(Deliver(i) \/ Eof(i))

-----------------------------------------------------------------------------
(* Properties                                                              *)

\* Type invariant: the slots and sessions keep their types.
TypeOK ==
    /\ link     \in [Slots -> LinkStates]
    /\ reportTo \in [Slots -> Clis]
    /\ subCmd   \in [Slots -> {"report", "snap", "sreport"}]
    /\ snap     \in [Slots -> {"none", "own", "former"}]
    /\ open     \in [Clis -> BOOLEAN]
    /\ waiting  \in [Clis -> Nat]
    /\ ffd      \in [Clis -> BOOLEAN]
    /\ scope    \in [Clis -> {"all", "list", "freed"}]
    /\ dest     \in [Clis -> {"console", "file"}]
    /\ walk     \in [cli : Clis, at : 0..NSlots, cmd : SubCmds \cup {"query"}] \cup {NoWalk}
    /\ alive    \in BOOLEAN
    /\ calm     \in BOOLEAN

\* the clients that owe CLI k a report
Owed(k) == {i \in Slots : link[i] = "owing" /\ reportTo[i] = k}

(***************************************************************************)
(* A session never waits for a report nobody owes it: whatever clients     *)
(* fail, close or are asked twice, every unit of cli[].waiting stands for  *)
(* a client that still owes this CLI a report.  Otherwise the session      *)
(* would be left without a prompt for ever.                                *)
(***************************************************************************)
NoPhantomWait == \A k \in Clis : waiting[k] <= Cardinality(Owed(k))

(***************************************************************************)
(* A session entry that is free waits for nothing, so that the next        *)
(* session that gets the entry is selected for reading (newCli does not    *)
(* reset waiting).                                                         *)
(***************************************************************************)
ClosedCliIdle == \A k \in Clis : ~open[k] => waiting[k] = 0

(***************************************************************************)
(* A session that waits is given its prompt back, whatever happens to the  *)
(* clients and whatever the other sessions do meanwhile.                   *)
(***************************************************************************)
WaitResolves == \A k \in Clis : waiting[k] > 0 ~> waiting[k] = 0

(***************************************************************************)
(* "Waiting for some result of a previous command ?" (trxmgrCli.c:39): a   *)
(* session that waits for nothing is owed nothing.  True only while calm.  *)
(***************************************************************************)
PromptMeansDone == \A k \in Clis : waiting[k] = 0 => Owed(k) = {}

(***************************************************************************)
(* Until a client exits or fails an exchange, the counter is exact: no     *)
(* prompt is given early and none is withheld, however the reports, the    *)
(* commands of the sessions and their openings and closings interleave.    *)
(***************************************************************************)
ExactCount == calm => \A k \in Clis : waiting[k] = Cardinality(Owed(k))

(***************************************************************************)
(* Until then, a report that names a file goes to it until the last client *)
(* has reported.                                                           *)
(***************************************************************************)
FileStaysOpen == calm => \A k \in Clis : dest[k] = "file" /\ waiting[k] > 0 => ffd[k]

(***************************************************************************)
(* "Optional 'file' defaults to console." (trxmgrCli.c:394): the output of *)
(* a report that names no file does not go to one.                         *)
(***************************************************************************)
ConsoleByDefault == \A k \in Clis : dest[k] = "console" /\ waiting[k] > 0 => ~ffd[k]

(***************************************************************************)
(* "current scope of commands as set with 'set scope <list>'"              *)
(* (trxmgrCli.c:46): the scope of a session that is open is one that was   *)
(* set, or the initial one.                                                *)
(***************************************************************************)
ScopeIsSet == \A k \in Clis : open[k] => scope[k] # "freed"

(***************************************************************************)
(* "show difference in allocation between current report and last snap     *)
(* command" (trxmgrClient.c:380): a report compared with a snapshot is     *)
(* compared with one of the same program.                                  *)
(***************************************************************************)
ComparesOwnSnapshot ==
    \A i \in Slots : link[i] = "owing" /\ subCmd[i] = "sreport" => snap[i] # "former"

(***************************************************************************)
(* Until then, the counter behaves as the sets of ReportDesk: a prompt is  *)
(* given, and a session ends, only when every client asked has reported.   *)
(***************************************************************************)
Desk == INSTANCE ReportDesk
            WITH open   <- {k \in Clis : open[k]},
                 busy   <- walk.cli,
                 awaits <- [k \in Clis |-> Owed(k)]

ImplementsDesk == Desk!Init /\ [][~calm \/ ~calm' \/ Desk!Next]_(Desk!desk)
=============================================================================
