------------------------------- MODULE TrxConn -------------------------------
(***************************************************************************)
(* One connection between the tracker's manager (trxmgr) and one tracked   *)
(* process (trxlib + trxclient): the packets in both directions of the     *)
(* UNIX stream socket, their sequence numbers, the one-second wait for an  *)
(* acknowledgement on each side, the REGISTER / configuration / report     *)
(* exchanges, commands that cross, the exit of the process, and SIGPIPE.   *)
(*                                                                         *)
(* The manager is one thread: while it waits for an acknowledgement it     *)
(* does nothing else.  A connection the process has abandoned stays in     *)
(* the manager's table until its end of file is read; it shares nothing    *)
(* with the next connection, so the process reconnects here only after     *)
(* the manager has dropped the old end.                                    *)
(***************************************************************************)
EXTENDS Naturals, Integers, Sequences

CONSTANTS
    NFlags,       \* configuration flags sent to a client; flag 1 is "enable"
    SeqMod,       \* sequence numbers are counted modulo this (2^32 in the code)
    Owing,        \* tags a report command may name, plus one as sendReport has them
    MaxOwed,      \* no report is asked for while this many are owed (bound)
    MayExit,      \* the tracked process may exit at any time
    MaySlow       \* an ack may take longer than ACK_TIMEOUT

ASSUME ConnAssumption ==
    /\ NFlags \in Nat \ {0}
    /\ SeqMod \in Nat \ {0, 1}
    /\ Owing \subseteq {0, 1}
    /\ MaxOwed \in Nat
    /\ {MayExit, MaySlow} \subseteq BOOLEAN

VARIABLES
    up,       \* packets from the process to the manager, oldest first
    down,     \* packets from the manager to the process
    cend,     \* the process's end of the socket is open
    prog,     \* the program: its configuration enables tracking, it ignores SIGPIPE
    cst,      \* what the process's communication code is doing
    cseq,     \* its static seq
    enable,   \* its enable flag
    pend,     \* sendReport: a report was asked for and not started
    got,      \* configuration commands executed since it connected
    mpc,      \* what the manager is doing with this connection
    mcmd,     \* the command whose ack it awaits
    mseq,     \* clients[idx].seq
    owed      \* reports acknowledged by the process and not yet received

vars == <<up, down, cend, prog, cst, cseq, enable, pend, got, mpc, mcmd, mseq, owed>>

procVars == <<cend, prog, cst, cseq, enable, pend, got>>
mgrVars  == <<mpc, mcmd, mseq, owed>>

(***************************************************************************)
(* Packets.  A configuration command SET n carries the value of flag n;    *)
(* QUERY stands for every other command a CLI makes the manager send (SET, *)
(* GET, PUSH, POP of a variable).  "of" names the command an ACK answers:  *)
(* the code cannot see it, the properties can.                             *)
(***************************************************************************)
ConfigSteps == 1..(NFlags + 1)
SetCmd(n)  == [cmd |-> "SET", arg |-> n]
DoneCmd    == [cmd |-> "DONE", arg |-> NFlags + 1]
ReportCmd(t) == [cmd |-> "REPORT", arg |-> t]
QueryCmd   == [cmd |-> "QUERY", arg |-> 0]
NoCmd      == [cmd |-> "NONE", arg |-> 0]

\* a configuration loop that stops one flag short (no part of the specification)
ConfigCmdShort(n) == IF n >= NFlags THEN DoneCmd ELSE SetCmd(n)

ConfigCmd(n) == IF n = NFlags + 1 THEN DoneCmd ELSE SetCmd(n)

MgrCommands  == {ConfigCmd(n) : n \in ConfigSteps} \cup {QueryCmd}
                    \cup {ReportCmd(n - 1) : n \in Owing}

Pkt(c, s)       == [cmd |-> c.cmd, arg |-> c.arg, seq |-> s, val |-> 0, of |-> NoCmd]
Ack(p, v)       == [cmd |-> "ACK", arg |-> 0, seq |-> p.seq, val |-> v,
                    of |-> [cmd |-> p.cmd, arg |-> p.arg]]
Packets == [cmd : {"SET", "DONE", "REPORT", "QUERY", "REGISTER", "ACK"},
            arg : -1..(NFlags + 1), seq : 0..(SeqMod - 1), val : {-1, 0, 1},
            of  : {[cmd |-> c, arg |-> a] :
                       c \in {"SET", "DONE", "REPORT", "QUERY", "REGISTER", "ACK", "NONE"},
                       a \in -1..(NFlags + 1)}]

Succ(s) == (s + 1) % SeqMod

(***************************************************************************)
(* recvAck: the first packet on the socket is taken for the answer.  It is *)
(* accepted when it is an ACK with the sender's current sequence number;   *)
(* its value is then returned, and anything else counts as a failure.      *)
(***************************************************************************)
\* recvAck without its test for CMD_ACK (no part of the specification)
AckValueAnyCmd(p, s) == IF p.seq # s THEN -1 ELSE p.val

AckValue(p, s) == IF p.cmd # "ACK" \/ p.seq # s THEN -1 ELSE p.val

MgrOpen == mpc \in {"backlog", "select", "ack"}

Init ==
    /\ up = <<>> /\ down = <<>>
    /\ cend = FALSE /\ prog = [enabled |-> TRUE, ignoresPipe |-> FALSE] /\ cst = "off" /\ cseq = 0
    /\ enable = FALSE /\ pend = FALSE /\ got = {}
    /\ mpc = "none" /\ mcmd = NoCmd /\ mseq = 0 /\ owed = 0

-----------------------------------------------------------------------------
(* The tracked process                                                     *)

(***************************************************************************)
(* connectToMgr: connect() and the REGISTER that follows it at once.  The  *)
(* first connection of a process is made by clientInit (needDoneTrigger    *)
(* set); a reconnection by the communication thread, a second after it     *)
(* lost the previous connection.  The manager's slot for the connection    *)
(* keeps the sequence number its last occupant left.                       *)
(***************************************************************************)
Connect(first) ==
    /\ mpc = "none"
    /\ IF first
       THEN /\ cst = "off" /\ cseq' = 0 /\ enable' = FALSE /\ pend' = FALSE
            /\ prog' \in [enabled : BOOLEAN, ignoresPipe : BOOLEAN]
       ELSE cst = "down" /\ UNCHANGED <<cseq, enable, pend, prog>>
    /\ up' = <<Pkt([cmd |-> "REGISTER", arg |-> 0], cseq')>>
    /\ down' = <<>>
    /\ cend' = TRUE
    /\ got' = {}
    /\ cst' = IF first THEN "reg1" ELSE "reg2"
    /\ mpc' = "backlog"
    /\ UNCHANGED <<mcmd, mseq, owed>>

(***************************************************************************)
(* The state a process goes to when it has its REGISTER answer (whatever   *)
(* that answer was: the result of sendCmd1 is ignored) or its report's     *)
(* answer: back to reading commands.                                       *)
(***************************************************************************)
AfterAck == IF cst = "reg1" THEN "init" ELSE "idle"

WaitsAck == cst \in {"reg1", "reg2", "rpt"}

\* recvAck reads a packet, whichever it is
ProcAckRead ==
    /\ WaitsAck /\ down # <<>>
    /\ down' = Tail(down)
    /\ cseq' = Succ(cseq)
    /\ cst' = AfterAck
    /\ UNCHANGED <<up, cend, prog, enable, pend, got, mgrVars>>

\* recvAck sees the end of file
ProcAckEof ==
    /\ WaitsAck /\ down = <<>> /\ ~MgrOpen
    /\ cseq' = Succ(cseq)
    /\ cst' = AfterAck
    /\ UNCHANGED <<up, down, cend, prog, enable, pend, got, mgrVars>>

\* recvAck gives up: seq is not advanced
ProcAckTimeout ==
    /\ WaitsAck /\ down = <<>> /\ MgrOpen
    /\ MaySlow \/ (mpc = "ack" /\ up = <<>>)
    /\ cst' = AfterAck
    /\ UNCHANGED <<up, down, cend, prog, cseq, enable, pend, got, mgrVars>>

(***************************************************************************)
(* clientRcvCB: the value it returns for a packet; -1 for a packet it does *)
(* not know (an ACK, or a command meant for the manager).                  *)
(***************************************************************************)
CallbackValue(p) == IF p.cmd \in {"SET", "DONE", "REPORT", "QUERY"} THEN 1 ELSE -1

\* sendReport is the tag plus one: tag -1 leaves it at "no report pending"
Callback(p) ==
    /\ enable' = IF p.cmd = "SET" /\ p.arg = 1 THEN prog.enabled ELSE enable
    /\ pend'   = IF p.cmd = "REPORT" THEN p.arg # -1 ELSE pend
    /\ got'    = IF p.cmd \in {"SET", "DONE"} THEN got \cup {p.arg} ELSE got

(***************************************************************************)
(* The end of handleExchange in clientInit: a program that is not enabled  *)
(* closes its socket for good, an enabled one starts its thread on it,     *)
(* even when what ended it was an error.                                   *)
(***************************************************************************)
InitDone(en) == cst' = (IF en THEN "idle" ELSE "quit") /\ UNCHANGED cend

\* rcvCmd failed: the thread leaves its loop, and so does clientInit
RcvFailed(en) ==
    IF cst = "init" THEN InitDone(en) ELSE cst' = "lost" /\ UNCHANGED cend

(***************************************************************************)
(* rcvCmd returned v >= 0 for packet p: clientInit reads on until DONE,    *)
(* the thread reports if a report is pending.                              *)
(***************************************************************************)
RcvDone(p, en) ==
    \/ /\ cst = "init" /\ p.cmd # "DONE"
       /\ UNCHANGED <<cst, cend>>
    \/ /\ cst = "init" /\ p.cmd = "DONE"
       /\ InitDone(en)
    \/ /\ cst = "idle"
       /\ cst' = IF pend' THEN "gen" ELSE "idle"
       /\ UNCHANGED cend

(***************************************************************************)
(* rcvCmd: one command read, executed and acknowledged.  Writing the ack   *)
(* on a connection the manager has closed raises SIGPIPE, which ends the   *)
(* process unless the program ignores it.                                  *)
(***************************************************************************)
ProcRcvCmd ==
    /\ cst \in {"init", "idle"} /\ down # <<>>
    /\ LET p == Head(down)
           v == CallbackValue(p)
       IN /\ down' = Tail(down)
          /\ Callback(p)
          /\ IF ~MgrOpen /\ ~prog.ignoresPipe
             THEN /\ cst' = "off" /\ cend' = FALSE
                  /\ UNCHANGED up
             ELSE /\ up' = IF MgrOpen THEN Append(up, Ack(p, v)) ELSE up
                  /\ IF v < 0 THEN RcvFailed(enable') ELSE RcvDone(p, enable')
    /\ UNCHANGED <<prog, cseq, mgrVars>>

\* rcvCmd reads the end of file
ProcEof ==
    /\ cst \in {"init", "idle"} /\ down = <<>> /\ ~MgrOpen
    /\ RcvFailed(enable)
    /\ UNCHANGED <<up, down, prog, cseq, enable, pend, got, mgrVars>>

(***************************************************************************)
(* The socket is closed, for the lifetime of the process or until the      *)
(* thread has slept and reconnects.                                        *)
(***************************************************************************)
ProcClose ==
    /\ cst \in {"quit", "lost"}
    /\ cend' = FALSE
    /\ cst' = IF cst = "quit" THEN "untracked" ELSE "down"
    /\ UNCHANGED <<up, down, prog, cseq, enable, pend, got, mgrVars>>

(***************************************************************************)
(* report / libSendReport: after a command that left sendReport set, the   *)
(* thread gathers the report and sends REPORT before it reads anything     *)
(* else.                                                                   *)
(***************************************************************************)
ProcSendReport ==
    /\ cst = "gen"
    /\ pend' = FALSE
    /\ IF MgrOpen
       THEN /\ up' = Append(up, Pkt(ReportCmd(0), cseq))
            /\ cst' = "rpt"
            /\ UNCHANGED cend
       ELSE /\ UNCHANGED up
            /\ cst' = IF prog.ignoresPipe THEN "idle" ELSE "off"
            /\ cend' = prog.ignoresPipe
    /\ UNCHANGED <<down, prog, cseq, enable, got, mgrVars>>

\* the process exits; the kernel closes its end
ProcExit ==
    /\ MayExit \/ cst = "untracked"
    /\ cst # "off"
    /\ cst' = "off" /\ cend' = FALSE
    /\ UNCHANGED <<up, down, prog, cseq, enable, pend, got, mgrVars>>

-----------------------------------------------------------------------------
(* The manager                                                             *)

\* newClient: the slot is any free one, with the seq its last occupant left
MgrAccept ==
    /\ mpc = "backlog"
    /\ mpc' = "select"
    /\ mcmd' = NoCmd
    /\ UNCHANGED <<mseq, owed, up, down, procVars>>

\* closeClient: what was received and not read is lost
MgrClosed ==
    /\ mpc' = "none" /\ mcmd' = NoCmd /\ owed' = 0
    /\ up' = <<>>

(***************************************************************************)
(* A write to a connection whose process has gone raises SIGPIPE, which    *)
(* setSig leaves at its default: the manager dies, and with it every       *)
(* connection.                                                             *)
(***************************************************************************)
MgrKilled ==
    /\ mpc' = "dead" /\ mcmd' = NoCmd /\ owed' = 0
    /\ up' = <<>>
    /\ UNCHANGED <<down, mseq>>

\* sendCmdMore of command c after the packets pre; recvAck follows
MgrSend(c, pre) ==
    /\ down' = (down \o pre) \o <<Pkt(c, mseq)>>
    /\ mpc' = "ack" /\ mcmd' = c
    /\ UNCHANGED mseq

(***************************************************************************)
(* handleExchange: rcvCmd reads one packet, clientRcvCB handles it and the *)
(* answer is sent; after a REGISTER the configuration follows at once.     *)
(***************************************************************************)
MgrRcvRegister ==
    /\ mpc = "select" /\ up # <<>> /\ Head(up).cmd = "REGISTER"
    /\ IF cend
       THEN /\ up' = Tail(up)
            /\ MgrSend(ConfigCmd(1), <<Ack(Head(up), 1)>>)
            /\ UNCHANGED owed
       ELSE MgrKilled
    /\ UNCHANGED procVars

MgrRcvReport ==
    /\ mpc = "select" /\ up # <<>> /\ Head(up).cmd = "REPORT"
    /\ IF cend
       THEN /\ up' = Tail(up)
            /\ down' = Append(down, Ack(Head(up), 1))
            /\ owed' = owed - 1
            /\ UNCHANGED <<mpc, mcmd, mseq>>
       ELSE MgrKilled
    /\ UNCHANGED procVars

\* a packet clientRcvCB does not know is answered 0
MgrRcvOther ==
    /\ mpc = "select" /\ up # <<>> /\ Head(up).cmd \notin {"REGISTER", "REPORT"}
    /\ IF cend
       THEN /\ up' = Tail(up)
            /\ down' = Append(down, Ack(Head(up), 0))
            /\ UNCHANGED <<mpc, mcmd, mseq, owed>>
       ELSE MgrKilled
    /\ UNCHANGED procVars

\* handleExchange without its close on a failed read (no part of the specification)
MgrEofIgnored == FALSE

\* rcvCmd fails: handleExchange closes the client
MgrEof ==
    /\ mpc = "select" /\ up = <<>> /\ ~cend
    /\ MgrClosed
    /\ UNCHANGED <<mseq, down, procVars>>

(***************************************************************************)
(* A CLI command makes the manager send a command to every open slot,      *)
(* registered or not (trxmgrClientAskReport, AskPush, AskPop, SetVar,      *)
(* GetVar).                                                                *)
(***************************************************************************)
MgrCommand(c) ==
    /\ mpc = "select"
    /\ c.cmd = "REPORT" => owed < MaxOwed
    /\ IF cend
       THEN MgrSend(c, <<>>) /\ UNCHANGED <<up, owed>>
       ELSE MgrKilled
    /\ UNCHANGED procVars

(***************************************************************************)
(* recvAck succeeded: sendConfig goes on to its next command, any other    *)
(* command is done.  A report that was acknowledged is owed from now on.   *)
(***************************************************************************)
MgrAckOk ==
    /\ mpc = "ack" /\ up # <<>>
    /\ AckValue(Head(up), mseq) >= 0
    /\ IF mcmd.cmd = "SET"
       THEN IF cend
            THEN /\ up' = Tail(up)
                 /\ mseq' = Succ(mseq)
                 /\ down' = Append(down, Pkt(ConfigCmd(mcmd.arg + 1), Succ(mseq)))
                 /\ mcmd' = ConfigCmd(mcmd.arg + 1)
                 /\ UNCHANGED <<mpc, owed>>
            ELSE MgrKilled
       ELSE /\ up' = Tail(up)
            /\ mseq' = Succ(mseq)
            /\ mpc' = "select" /\ mcmd' = NoCmd
            /\ owed' = IF mcmd.cmd = "REPORT" THEN owed + 1 ELSE owed
            /\ UNCHANGED down
    /\ UNCHANGED procVars

\* recvAck read something else, or the end of file: mgrSendCmd2 closes the client
MgrAckBad ==
    /\ mpc = "ack"
    /\ \/ up # <<>> /\ AckValue(Head(up), mseq) < 0
       \/ up = <<>> /\ ~cend
    /\ MgrClosed
    /\ mseq' = Succ(mseq)
    /\ UNCHANGED <<down, procVars>>

\* recvAck timed out: seq is not advanced
MgrAckTimeout ==
    /\ mpc = "ack" /\ up = <<>> /\ cend
    /\ MaySlow \/ (down = <<>> /\ cst \in {"init", "idle"})
    /\ MgrClosed
    /\ UNCHANGED <<mseq, down, procVars>>

\* trxmgr is started again: its tables are zero
MgrRestart ==
    /\ mpc = "dead"
    /\ mpc' = "none" /\ mseq' = 0
    /\ UNCHANGED <<up, down, procVars, mcmd, owed>>

-----------------------------------------------------------------------------
ProcStep == \/ ProcAckRead \/ ProcAckEof \/ ProcAckTimeout
            \/ ProcRcvCmd \/ ProcEof \/ ProcClose \/ ProcSendReport
            \/ Connect(FALSE)

MgrStep  == \/ MgrAccept \/ MgrRcvRegister \/ MgrRcvReport \/ MgrRcvOther
            \/ MgrEof \/ MgrAckOk \/ MgrAckBad \/ MgrAckTimeout

EnvStep  == \/ Connect(TRUE) \/ ProcExit \/ MgrRestart
            \/ MgrCommand(QueryCmd)
            \/ \E n \in Owing : MgrCommand(ReportCmd(n - 1))

Next == ProcStep \/ MgrStep \/ EnvStep

Spec == Init /\ [][Next]_vars

(***************************************************************************)
(* The communication thread of the process and the manager's loop keep     *)
(* running; nothing is assumed of what users and programs do (start, exit, *)
(* CLI commands, restart of the manager).                                  *)
(***************************************************************************)
FairSpec == Spec /\ WF_vars(ProcStep) /\ WF_vars(MgrStep)

-----------------------------------------------------------------------------
(* Properties                                                              *)

\* Type invariant: every variable of the two ends keeps its type.
TypeOK ==
    /\ up \in Seq(Packets) /\ down \in Seq(Packets)
    /\ prog \in [enabled : BOOLEAN, ignoresPipe : BOOLEAN]
    /\ cend \in BOOLEAN /\ enable \in BOOLEAN /\ pend \in BOOLEAN
    /\ cst \in {"off", "untracked", "reg1", "reg2", "init", "idle", "gen",
                "rpt", "quit", "lost", "down"}
    /\ cseq \in 0..(SeqMod - 1) /\ mseq \in 0..(SeqMod - 1)
    /\ got \subseteq ConfigSteps
    /\ mpc \in {"none", "backlog", "select", "ack", "dead"}
    /\ mcmd \in MgrCommands \cup {NoCmd}
    /\ owed \in Int

(***************************************************************************)
(* An answer recvAck accepts is the answer to the command that was sent:   *)
(* never a late ACK of an earlier command, whatever timed out or crossed   *)
(* before (recvAck's command and sequence checks).                         *)
(***************************************************************************)
AckIsForCommand ==
    mpc = "ack" /\ up # <<>> /\ AckValue(Head(up), mseq) >= 0
        => Head(up).of = mcmd

(***************************************************************************)
(* A program the manager has configured and is serving from its select     *)
(* loop has executed every command of its configuration: sendConfig never  *)
(* gets to the end with a command the program missed.                      *)
(***************************************************************************)
Registered == mpc = "select" /\ ~\E i \in DOMAIN up : up[i].cmd = "REGISTER"

ConfiguredWhenServed == Registered => got = ConfigSteps

(***************************************************************************)
(* The connection as the manager's tables see it.  A second report owed at *)
(* the same time, or a report nobody is owed, has no counterpart there.    *)
(***************************************************************************)
Configuring == mpc = "ack" /\ mcmd.cmd \in {"SET", "DONE"}

Unregistered == mpc = "backlog" \/ Configuring
                \/ \E i \in DOMAIN up : up[i].cmd = "REGISTER"

LinkOf == IF ~MgrOpen \/ mpc = "backlog" THEN "closed"
          ELSE IF Unregistered THEN "new"
          ELSE IF owed = 0 THEN "ready"
          ELSE IF owed = 1 THEN "owing" ELSE "overdrawn"

Link == INSTANCE ReportLink WITH link <- LinkOf

(***************************************************************************)
(* The packets implement the report link: a report is only ever            *)
(* acknowledged by a process that owes none, and only owed reports arrive. *)
(***************************************************************************)
ImplementsLink == Link!Spec

(***************************************************************************)
(* A report the process has acknowledged is received, or the manager drops *)
(* the connection: it is never owed for ever.                              *)
(***************************************************************************)
OwedIsResolved == Link!FairSpec

(***************************************************************************)
(* A command sent for a CLI is answered only by a program that has its     *)
(* whole configuration and owes no report.  Sent to any other, it crosses  *)
(* a REGISTER or a REPORT and costs the program its connection (and the    *)
(* report): mgrSendCmd2 takes the crossing packet for a bad answer.        *)
(***************************************************************************)
AnswersOnlyWhenReady ==
    mpc = "ack" /\ up # <<>> /\ AckValue(Head(up), mseq) >= 0
                /\ mcmd.cmd \in {"REPORT", "QUERY"}
        => owed = 0 /\ got = ConfigSteps

-----------------------------------------------------------------------------
(* What the code's comments say, and it does not do                        *)

(***************************************************************************)
(* "While we hold the main thread, make sure w get all config from mgr"    *)
(* (trxclient.c:254): clientInit lets the program start only once it has   *)
(* its whole configuration.  Stated of a program that clientInit has       *)
(* found not to be enabled and will never connect again.                   *)
(***************************************************************************)
ConfigReachesProgram == cst = "untracked" => got = ConfigSteps

(***************************************************************************)
(* "args : [tag number | -1 for current tag value]" (trxclient.c:153): a   *)
(* report command is acknowledged and then answered, whatever its tag.     *)
(***************************************************************************)
EveryTagIsReported == owed > 0 ~> owed = 0

(***************************************************************************)
(* "tear down this client connection" (trxmgrClient.c:165): a command that *)
(* cannot be sent costs the manager that connection, and nothing else.     *)
(***************************************************************************)
MgrSurvives == [][mpc # "dead" => mpc' # "dead"]_vars
=============================================================================
