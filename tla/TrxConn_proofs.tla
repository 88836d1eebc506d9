--------------------------- MODULE TrxConn_proofs ---------------------------
(***************************************************************************)
(* Proofs about the connection between the manager and a tracked process,  *)
(* for any number of configuration flags and sequence numbers, whatever    *)
(* times out or crosses and whoever ends.  The inductive invariant:        *)
(*                                                                         *)
(*   DownInv    what the manager has sent and the process not read is      *)
(*              answers and then at most one command, the one it awaits    *)
(*              the answer of;                                             *)
(*   UpInv      a REGISTER is the first packet of its connection, and an   *)
(*              answer of success is the only one, to that command, which  *)
(*              has been executed;                                         *)
(*   ConfigInv  the configuration is executed in its order, and nothing    *)
(*              but a REGISTER not read yet keeps it incomplete.           *)
(*                                                                         *)
(* The refinement of ReportLink adds where a report is:                    *)
(*                                                                         *)
(*   PendInv    sendReport is set only where the report follows at once,   *)
(*              in a program that tracks no more, or in one the manager is *)
(*              about to drop;                                             *)
(*   TokenInv   the one report that is due is about to be sent or on its   *)
(*              way, unless the manager is about to drop the connection.   *)
(***************************************************************************)
EXTENDS TrxConn, TLAPS

-----------------------------------------------------------------------------
(* Packets and queues                                                      *)

LEMMA TailIs ==
    ASSUME NEW s \in Seq(Packets), s # <<>>
    PROVE  /\ Tail(s) \in Seq(Packets) /\ Head(s) \in Packets /\ Head(s) = s[1]
           /\ 1 \in DOMAIN s
           /\ \A i \in DOMAIN Tail(s) : i + 1 \in DOMAIN s /\ Tail(s)[i] = s[i + 1]
           /\ \A i \in DOMAIN s : i # 1 => i - 1 \in DOMAIN Tail(s) /\ Tail(s)[i - 1] = s[i]
           /\ Len(Tail(s)) = Len(s) - 1
OBVIOUS

LEMMA AppendIs ==
    ASSUME NEW s \in Seq(Packets), NEW p \in Packets
    PROVE  /\ Append(s, p) \in Seq(Packets) /\ Append(s, p) # <<>>
           /\ Len(Append(s, p)) = Len(s) + 1 /\ Len(s) \in Nat
           /\ \A i \in DOMAIN s : i \in DOMAIN Append(s, p) /\ Append(s, p)[i] = s[i]
           /\ \A i \in DOMAIN Append(s, p) :
                 i \in DOMAIN s \/ (i = Len(s) + 1 /\ Append(s, p)[i] = p)
           /\ Append(s, p)[Len(s) + 1] = p /\ Len(s) + 1 \in DOMAIN Append(s, p)
OBVIOUS

LEMMA FewIs ==
    /\ <<>> \in Seq(Packets) /\ DOMAIN <<>> = {}
    /\ \A p \in Packets : <<p>> \in Seq(Packets)
    /\ \A s, t \in Seq(Packets) : s \o t \in Seq(Packets)
    /\ \A s \in Seq(Packets) : Len(s) = 0 => s = <<>>
OBVIOUS

IsConfig(c) == c.cmd \in {"SET", "DONE"}

Words == {"SET", "DONE", "REPORT", "QUERY"}

LEMMA ConfigCmdIs ==
    ASSUME NEW n \in ConfigSteps
    PROVE  /\ ConfigCmd(n) \in MgrCommands /\ IsConfig(ConfigCmd(n))
           /\ ConfigCmd(n).arg = n
           /\ ConfigCmd(n).cmd = "SET" => n \in 1..NFlags
BY ConnAssumption DEF ConfigSteps, ConfigCmd, MgrCommands, IsConfig, SetCmd, DoneCmd

LEMMA CommandIs ==
    ASSUME NEW c \in MgrCommands
    PROVE  /\ c = [cmd |-> c.cmd, arg |-> c.arg] /\ c # NoCmd
           /\ c.cmd \in Words /\ c.arg \in -1..(NFlags + 1)
           /\ IsConfig(c) => c.arg \in ConfigSteps
           /\ c.cmd = "SET" => c.arg \in 1..NFlags
           /\ c.cmd = "DONE" => c.arg = NFlags + 1
<1>1. ASSUME NEW n \in ConfigSteps, c = ConfigCmd(n)
      PROVE  /\ c = [cmd |-> c.cmd, arg |-> c.arg] /\ c.cmd \in {"SET", "DONE"}
             /\ c.arg = n /\ (c.cmd = "SET" => n \in 1..NFlags)
             /\ (c.cmd = "DONE" => n = NFlags + 1)
  BY <1>1, ConnAssumption DEF ConfigSteps, ConfigCmd, SetCmd, DoneCmd
<1>2. CASE c = QueryCmd
  BY <1>2, ConnAssumption DEF QueryCmd, NoCmd, Words, IsConfig
<1>3. ASSUME NEW n \in Owing, c = ReportCmd(n - 1)
      PROVE  /\ c = [cmd |-> c.cmd, arg |-> c.arg] /\ c.cmd = "REPORT" /\ c.arg \in {-1, 0}
  BY <1>3, ConnAssumption DEF ReportCmd
<1>4. NFlags + 1 \in Nat /\ ConfigSteps = 1..(NFlags + 1)
  BY ConnAssumption DEF ConfigSteps
<1> QED
  BY <1>1, <1>2, <1>3, <1>4 DEF MgrCommands, NoCmd, Words, IsConfig

LEMMA PktIs ==
    ASSUME NEW c \in MgrCommands, NEW s \in 0..(SeqMod - 1)
    PROVE  /\ Pkt(c, s) \in Packets
           /\ Pkt(c, s).cmd = c.cmd /\ Pkt(c, s).arg = c.arg
<1>1. NoCmd \in {[cmd |-> a, arg |-> b] :
                   a \in {"SET", "DONE", "REPORT", "QUERY", "REGISTER", "ACK", "NONE"},
                   b \in -1..(NFlags + 1)}
  BY ConnAssumption DEF NoCmd
<1> QED
  BY <1>1, CommandIs DEF Pkt, Packets, Words

LEMMA AckIs ==
    ASSUME NEW p \in Packets, NEW v \in {-1, 0, 1}
    PROVE  /\ Ack(p, v) \in Packets
           /\ Ack(p, v).cmd = "ACK" /\ Ack(p, v).val = v
           /\ Ack(p, v).of = [cmd |-> p.cmd, arg |-> p.arg]
<1>1. [cmd |-> p.cmd, arg |-> p.arg] \in
          {[cmd |-> a, arg |-> b] :
               a \in {"SET", "DONE", "REPORT", "QUERY", "REGISTER", "ACK", "NONE"},
               b \in -1..(NFlags + 1)}
  BY DEF Packets
<1> QED
  BY <1>1, ConnAssumption DEF Ack, Packets

LEMMA SuccIs == ASSUME NEW s \in 0..(SeqMod - 1) PROVE Succ(s) \in 0..(SeqMod - 1)
BY ConnAssumption DEF Succ

\* The commands of the configuration follow each other.
LEMMA NextCmdIs ==
    ASSUME NEW c \in MgrCommands, c.cmd = "SET"
    PROVE  /\ ConfigCmd(c.arg + 1) \in MgrCommands
           /\ IsConfig(ConfigCmd(c.arg + 1)) /\ ConfigCmd(c.arg + 1).arg = c.arg + 1
<1>1. c.arg + 1 \in ConfigSteps
  BY CommandIs, ConnAssumption DEF ConfigSteps
<1> QED
  BY <1>1, ConfigCmdIs

-----------------------------------------------------------------------------
(* Types, and what the manager sends                                       *)

\* The manager sends its answers and then one command, and waits.
DownInv ==
    \A i \in DOMAIN down :
        \/ down[i].cmd = "ACK"
        \/ /\ i = Len(down)
           /\ [cmd |-> down[i].cmd, arg |-> down[i].arg] \in MgrCommands
           /\ MgrOpen => mpc = "ack" /\ [cmd |-> down[i].cmd, arg |-> down[i].arg] = mcmd

LEMMA InitDown == Init => TypeOK /\ DownInv
<1> SUFFICES ASSUME Init PROVE TypeOK /\ DownInv
  OBVIOUS
<1>1. 0 \in 0..(SeqMod - 1)
  BY ConnAssumption
<1>2. up \in Seq(Packets) /\ down \in Seq(Packets) /\ DOMAIN down = {}
  BY FewIs DEF Init
<1>3. DownInv
  BY <1>2 DEF DownInv
<1>4. prog \in [enabled : BOOLEAN, ignoresPipe : BOOLEAN] /\ mcmd \in MgrCommands \cup {NoCmd}
  BY DEF Init
<1>5. /\ cend \in BOOLEAN /\ enable \in BOOLEAN /\ pend \in BOOLEAN
      /\ cseq \in 0..(SeqMod - 1) /\ mseq \in 0..(SeqMod - 1)
      /\ cst = "off" /\ mpc = "none" /\ owed = 0 /\ got = {}
  BY <1>1 DEF Init
<1>6. TypeOK
  BY <1>2, <1>4, <1>5 DEF TypeOK
<1> QED
  BY <1>3, <1>6

LEMMA NextType == TypeOK /\ DownInv /\ [Next]_vars => TypeOK'
<1> SUFFICES ASSUME TypeOK, DownInv, [Next]_vars PROVE TypeOK'
  OBVIOUS
<1> USE DEF TypeOK, procVars, mgrVars
<1>0. 0 \in 0..(SeqMod - 1)
  BY ConnAssumption
<1>1. ASSUME NEW f \in BOOLEAN, Connect(f) PROVE TypeOK'
  <2>1. cseq' \in 0..(SeqMod - 1)
    BY <1>0, <1>1 DEF Connect
  <2>2. Pkt([cmd |-> "REGISTER", arg |-> 0], cseq') \in Packets
    BY <2>1, ConnAssumption DEF Pkt, Packets, NoCmd
  <2>3. up' \in Seq(Packets) /\ down' \in Seq(Packets)
    BY <1>1, <2>2, FewIs DEF Connect
  <2>4. enable' \in BOOLEAN /\ pend' \in BOOLEAN
        /\ prog' \in [enabled : BOOLEAN, ignoresPipe : BOOLEAN]
    BY <1>1 DEF Connect
  <2> QED
    BY <1>1, <2>1, <2>3, <2>4 DEF Connect
<1>2. CASE ProcAckRead
  BY <1>2, TailIs, SuccIs DEF ProcAckRead, AfterAck
<1>3. CASE ProcAckEof \/ ProcAckTimeout
  BY <1>3, SuccIs DEF ProcAckEof, ProcAckTimeout, AfterAck
<1>4. CASE ProcRcvCmd
  <2> DEFINE p == Head(down)
             v == CallbackValue(p)
  <2>1. p \in Packets /\ Tail(down) \in Seq(Packets) /\ v \in {-1, 0, 1}
    BY <1>4, TailIs DEF ProcRcvCmd, CallbackValue
  <2>2. Ack(p, v) \in Packets
    BY <2>1, AckIs
  <2>3. up' \in Seq(Packets)
    <3>1. Append(up, Ack(p, v)) \in Seq(Packets)
      BY <2>2, AppendIs
    <3> QED
      BY <1>4, <3>1 DEF ProcRcvCmd
  <2>4. p.cmd \in {"SET", "DONE"} => p.arg \in ConfigSteps
    <3>1. p = down[1] /\ 1 \in DOMAIN down
      BY <1>4, TailIs DEF ProcRcvCmd
    <3>2. p.cmd # "ACK" => [cmd |-> p.cmd, arg |-> p.arg] \in MgrCommands
      BY <3>1 DEF DownInv
    <3> QED
      BY <3>2, CommandIs DEF IsConfig
  <2>5. got' \subseteq ConfigSteps /\ enable' \in BOOLEAN /\ pend' \in BOOLEAN
    BY <1>4, <2>4 DEF ProcRcvCmd, Callback
  <2>6. /\ cend' \in BOOLEAN
        /\ cst' \in {"off", "untracked", "reg1", "reg2", "init", "idle", "gen",
                     "rpt", "quit", "lost", "down"}
    BY <1>4 DEF ProcRcvCmd, RcvFailed, RcvDone, InitDone
  <2> QED
    BY <1>4, <2>1, <2>3, <2>5, <2>6 DEF ProcRcvCmd
<1>5. CASE ProcEof \/ ProcClose \/ ProcExit
  BY <1>5 DEF ProcEof, ProcClose, ProcExit, RcvFailed, InitDone
<1>6. CASE ProcSendReport
  <2>1. Pkt(ReportCmd(0), cseq) \in Packets
    BY ConnAssumption DEF Pkt, Packets, ReportCmd, NoCmd
  <2>2. Append(up, Pkt(ReportCmd(0), cseq)) \in Seq(Packets)
    BY <2>1, AppendIs
  <2>3. up' \in Seq(Packets)
    BY <1>6, <2>2 DEF ProcSendReport
  <2>4. cend' \in BOOLEAN
    BY <1>6 DEF ProcSendReport
  <2> QED
    BY <1>6, <2>3, <2>4 DEF ProcSendReport
<1>7. ASSUME MgrKilled, UNCHANGED procVars PROVE TypeOK'
  BY <1>7, FewIs DEF MgrKilled
<1>8. ASSUME NEW c \in MgrCommands, NEW pre \in Seq(Packets), MgrSend(c, pre)
      PROVE  down' \in Seq(Packets) /\ mpc' = "ack" /\ mcmd' \in MgrCommands /\ mseq' = mseq
  <2>1. <<Pkt(c, mseq)>> \in Seq(Packets)
    BY PktIs, FewIs
  <2>2. (down \o pre) \o <<Pkt(c, mseq)>> \in Seq(Packets)
    BY <2>1, FewIs
  <2> QED
    BY <1>8, <2>2 DEF MgrSend
<1>9. CASE MgrAccept \/ MgrRestart
  BY <1>0, <1>9 DEF MgrAccept, MgrRestart
<1>10. CASE MgrRcvRegister
  <2>1. ASSUME cend, up # <<>>, up' = Tail(up), UNCHANGED <<owed, procVars>>,
               MgrSend(ConfigCmd(1), <<Ack(Head(up), 1)>>)
        PROVE  TypeOK'
    <3>1. ConfigCmd(1) \in MgrCommands
      BY ConfigCmdIs, ConnAssumption DEF ConfigSteps
    <3>2. <<Ack(Head(up), 1)>> \in Seq(Packets)
      BY <2>1, TailIs, AckIs, FewIs
    <3> QED
      BY <1>8, <2>1, <3>1, <3>2, TailIs
  <2> QED
    BY <1>7, <1>10, <2>1 DEF MgrRcvRegister
<1>11. CASE MgrRcvReport \/ MgrRcvOther
  <2>1. ASSUME up # <<>>, NEW v \in {0, 1}, down' = Append(down, Ack(Head(up), v))
        PROVE  down' \in Seq(Packets) /\ Tail(up) \in Seq(Packets)
    BY <2>1, TailIs, AckIs, AppendIs
  <2>2. CASE ~cend
    BY <1>7, <1>11, <2>2 DEF MgrRcvReport, MgrRcvOther
  <2>3. CASE cend
    <3>1. up' \in Seq(Packets) /\ down' \in Seq(Packets)
      BY <1>11, <2>1, <2>3 DEF MgrRcvReport, MgrRcvOther
    <3>2. owed' \in Int
      <4>1. owed' = owed - 1 \/ owed' = owed
        BY <1>11, <2>3 DEF MgrRcvReport, MgrRcvOther
      <4> QED
        BY <4>1
    <3> QED
      BY <1>11, <2>3, <3>1, <3>2 DEF MgrRcvReport, MgrRcvOther
  <2> QED
    BY <2>2, <2>3
<1>12. ASSUME NEW c \in MgrCommands, MgrCommand(c) PROVE TypeOK'
  <2>1. CASE cend
    <3>1. MgrSend(c, <<>>) /\ UNCHANGED <<up, owed, procVars>>
      BY <1>12, <2>1 DEF MgrCommand
    <3> QED
      BY <1>8, <3>1, FewIs
  <2>2. CASE ~cend
    BY <1>7, <1>12, <2>2 DEF MgrCommand
  <2> QED
    BY <2>1, <2>2
<1>13. CASE MgrEof \/ MgrAckBad \/ MgrAckTimeout
  <2>1. MgrClosed /\ UNCHANGED <<down, procVars>> /\ mseq' \in {mseq, Succ(mseq)}
    BY <1>13 DEF MgrEof, MgrAckBad, MgrAckTimeout
  <2>2. mseq' \in 0..(SeqMod - 1)
    BY <2>1, SuccIs
  <2>3. up' \in Seq(Packets)
    BY <2>1, FewIs DEF MgrClosed
  <2> QED
    BY <2>1, <2>2, <2>3 DEF MgrClosed
<1>14. CASE MgrAckOk
  <2>1. Tail(up) \in Seq(Packets) /\ Succ(mseq) \in 0..(SeqMod - 1)
    BY <1>14, TailIs, SuccIs DEF MgrAckOk
  <2>2. CASE mcmd.cmd = "SET" /\ cend
    <3>1. mcmd \in MgrCommands
      BY <2>2 DEF NoCmd
    <3>2. ConfigCmd(mcmd.arg + 1) \in MgrCommands
      BY <2>2, <3>1, NextCmdIs
    <3>3. Append(down, Pkt(ConfigCmd(mcmd.arg + 1), Succ(mseq))) \in Seq(Packets)
      BY <2>1, <3>2, PktIs, AppendIs
    <3> QED
      BY <1>14, <2>1, <2>2, <3>2, <3>3 DEF MgrAckOk
  <2>3. CASE mcmd.cmd = "SET" /\ ~cend
    BY <1>7, <1>14, <2>3 DEF MgrAckOk
  <2>4. CASE mcmd.cmd # "SET"
    <3>1. owed' \in Int
      BY <1>14, <2>4 DEF MgrAckOk
    <3> QED
      BY <1>14, <2>1, <2>4, <3>1 DEF MgrAckOk
  <2> QED
    BY <2>2, <2>3, <2>4
<1>15. CASE UNCHANGED vars
  BY <1>15 DEF vars
<1>16. QueryCmd \in MgrCommands /\ \A n \in Owing : ReportCmd(n - 1) \in MgrCommands
  BY DEF MgrCommands
<1> QED
  BY <1>1, <1>2, <1>3, <1>4, <1>5, <1>6, <1>9, <1>10, <1>11, <1>12, <1>13, <1>14, <1>15,
     <1>16 DEF Next, ProcStep, MgrStep, EnvStep

-----------------------------------------------------------------------------
(* What is in the socket                                                   *)

\* An answer that recvAck may take for success.
Good(p) == p.cmd = "ACK" /\ p.val >= 0

\* A REGISTER or a REPORT that the manager has not read.
Has(c) == \E i \in DOMAIN up : up[i].cmd = c

\* The process registers first, and answers a command when it has executed it.
UpInv ==
    /\ ~MgrOpen => up = <<>> /\ owed = 0
    /\ mpc = "backlog" => Has("REGISTER")
    /\ \A i \in DOMAIN up : up[i].cmd = "REGISTER" =>
          i = 1 /\ got = {} /\ owed = 0 /\ ~IsConfig(mcmd)
    /\ \A i \in DOMAIN up : Good(up[i]) =>
          /\ mpc = "ack" /\ up[i].of = mcmd /\ down = <<>>
          /\ IsConfig(mcmd) => mcmd.arg \in got
    /\ \A i, j \in DOMAIN up : Good(up[i]) /\ Good(up[j]) => i = j

\* The commands of the configuration are sent in their order, and executed.
ConfigInv ==
    /\ mpc = "ack" <=> mcmd # NoCmd
    /\ IsConfig(mcmd) => owed = 0 /\ \A n \in ConfigSteps : n < mcmd.arg => n \in got
    /\ mpc \in {"select", "ack"} /\ ~IsConfig(mcmd) => Has("REGISTER") \/ got = ConfigSteps

\* The answer that is accepted is the only one, and nothing else is in the way.
LEMMA AckOkIs ==
    ASSUME TypeOK, UpInv, MgrAckOk
    PROVE  /\ up # <<>> /\ Good(Head(up)) /\ Head(up).of = mcmd /\ down = <<>>
           /\ IsConfig(mcmd) => mcmd.arg \in got
           /\ \A i \in DOMAIN Tail(up) : ~Good(Tail(up)[i]) /\ Tail(up)[i].cmd # "REGISTER"
<1>1. up # <<>> /\ Good(Head(up))
  BY ConnAssumption DEF MgrAckOk, AckValue, Good, TypeOK
<1>2. 1 \in DOMAIN up /\ Head(up) = up[1]
  BY <1>1, TailIs DEF TypeOK
<1>3. ASSUME NEW i \in DOMAIN Tail(up)
      PROVE  ~Good(Tail(up)[i]) /\ Tail(up)[i].cmd # "REGISTER"
  <2>1. i + 1 \in DOMAIN up /\ Tail(up)[i] = up[i + 1] /\ i + 1 # 1
    BY <1>1, <1>3, TailIs DEF TypeOK
  <2> QED
    BY <1>1, <1>2, <2>1 DEF UpInv
<1> QED
  BY <1>1, <1>2, <1>3 DEF UpInv

\* One packet is read from down, or nothing is sent there.
LEMMA DownTail ==
    ASSUME TypeOK, DownInv,
           \/ UNCHANGED <<down, mpc, mcmd>>
           \/ down # <<>> /\ down' = Tail(down) /\ UNCHANGED <<mpc, mcmd>>
           \/ down' = down /\ mpc' \in {"none", "dead"}
    PROVE  DownInv'
<1>1. CASE UNCHANGED <<down, mpc, mcmd>> \/ (down' = down /\ mpc' \in {"none", "dead"})
  BY <1>1 DEF DownInv, MgrOpen
<1>2. CASE down # <<>> /\ down' = Tail(down) /\ UNCHANGED <<mpc, mcmd>>
  <2>1. ASSUME NEW i \in DOMAIN Tail(down)
        PROVE  /\ i + 1 \in DOMAIN down /\ Tail(down)[i] = down[i + 1]
               /\ i + 1 = Len(down) => i = Len(Tail(down))
    <3>1. i + 1 \in DOMAIN down /\ Tail(down)[i] = down[i + 1] /\ Len(Tail(down)) = Len(down) - 1
      BY <1>2, <2>1, TailIs DEF TypeOK
    <3>2. i \in Nat /\ Len(down) \in Nat
      BY <1>2, <2>1, TailIs DEF TypeOK
    <3> QED
      BY <3>1, <3>2
  <2>2. SUFFICES ASSUME NEW i \in DOMAIN Tail(down)
                 PROVE  \/ Tail(down)[i].cmd = "ACK"
                        \/ /\ i = Len(Tail(down))
                           /\ [cmd |-> Tail(down)[i].cmd, arg |-> Tail(down)[i].arg] \in MgrCommands
                           /\ MgrOpen => /\ mpc = "ack"
                                         /\ [cmd |-> Tail(down)[i].cmd,
                                             arg |-> Tail(down)[i].arg] = mcmd
    BY <1>2 DEF DownInv, MgrOpen
  <2> QED
    BY <2>1 DEF DownInv
<1> QED
  BY <1>1, <1>2

\* While the manager does not wait, there are only answers in down.
LEMMA OnlyAcks ==
    ASSUME DownInv, mpc \in {"select", "backlog"}
    PROVE  \A i \in DOMAIN down : down[i].cmd = "ACK"
BY DEF DownInv, MgrOpen

\* An answer is added, and no command is there.
LEMMA DownAck ==
    ASSUME TypeOK, NEW p \in Packets, p.cmd = "ACK", down' = Append(down, p),
           \A i \in DOMAIN down : down[i].cmd = "ACK"
    PROVE  \A i \in DOMAIN down' : down'[i].cmd = "ACK"
BY AppendIs DEF TypeOK

\* The command goes behind the answers.
LEMMA DownCmd ==
    ASSUME NEW s \in Seq(Packets), \A i \in DOMAIN s : s[i].cmd = "ACK",
           NEW c \in MgrCommands, NEW n \in 0..(SeqMod - 1),
           down' = Append(s, Pkt(c, n)), mpc' = "ack", mcmd' = c
    PROVE  DownInv'
<1>1. Pkt(c, n) \in Packets /\ [cmd |-> Pkt(c, n).cmd, arg |-> Pkt(c, n).arg] = c
  BY PktIs, CommandIs
<1>2. \A i \in DOMAIN down' : down'[i].cmd = "ACK" \/ (i = Len(down') /\ down'[i] = Pkt(c, n))
  BY <1>1, AppendIs
<1> QED
  BY <1>1, <1>2 DEF DownInv

LEMMA NextDown == TypeOK /\ DownInv /\ UpInv /\ [Next]_vars => DownInv'
<1> SUFFICES ASSUME TypeOK, DownInv, UpInv, [Next]_vars PROVE DownInv'
  OBVIOUS
<1> USE DEF procVars, mgrVars
<1>0. /\ down \in Seq(Packets) /\ up \in Seq(Packets) /\ mseq \in 0..(SeqMod - 1)
      /\ \A s \in Seq(Packets), p \in Packets : s \o <<p>> = Append(s, p)
      /\ \A s \in Seq(Packets) : s \o <<>> = s
  BY DEF TypeOK
<1>1. ASSUME NEW f \in BOOLEAN, Connect(f) PROVE DownInv'
  BY <1>1, FewIs DEF Connect, DownInv
<1>2. CASE ProcAckRead \/ ProcRcvCmd
  BY <1>2, DownTail DEF ProcAckRead, ProcRcvCmd
<1>3. CASE ProcAckEof \/ ProcAckTimeout \/ ProcEof \/ ProcClose \/ ProcSendReport \/ ProcExit
  BY <1>3, DownTail DEF ProcAckEof, ProcAckTimeout, ProcEof, ProcClose, ProcSendReport, ProcExit
<1>4. CASE MgrAccept
  BY <1>4, OnlyAcks DEF MgrAccept, DownInv
<1>5. CASE MgrKilled \/ (MgrClosed /\ UNCHANGED down) \/ MgrRestart
  BY <1>5, DownTail DEF MgrKilled, MgrClosed, MgrRestart
<1>6. CASE MgrRcvRegister
  <2>1. ASSUME up # <<>>, mpc = "select", MgrSend(ConfigCmd(1), <<Ack(Head(up), 1)>>)
        PROVE  DownInv'
    <3>1. ConfigCmd(1) \in MgrCommands
      BY ConfigCmdIs, ConnAssumption DEF ConfigSteps
    <3>5. Ack(Head(up), 1) \in Packets /\ Ack(Head(up), 1).cmd = "ACK"
      <4>1. Head(up) \in Packets
        BY <1>0, <2>1, TailIs
      <4> QED
        BY <4>1, AckIs
    <3> DEFINE s == Append(down, Ack(Head(up), 1))
    <3>2. s \in Seq(Packets) /\ \A i \in DOMAIN s : s[i].cmd = "ACK"
      <4>1. \A i \in DOMAIN down : down[i].cmd = "ACK"
        BY <2>1, OnlyAcks
      <4> QED
        BY <1>0, <3>5, <4>1, AppendIs
    <3>3. Pkt(ConfigCmd(1), mseq) \in Packets
      BY <1>0, <3>1, PktIs
    <3>4. down' = Append(s, Pkt(ConfigCmd(1), mseq)) /\ mpc' = "ack" /\ mcmd' = ConfigCmd(1)
      BY <1>0, <2>1, <3>2, <3>3, <3>5 DEF MgrSend
    <3> HIDE DEF s
    <3> QED
      BY <1>0, <3>1, <3>2, <3>4, DownCmd
  <2> QED
    BY <1>5, <1>6, <2>1 DEF MgrRcvRegister
<1>7. CASE MgrRcvReport \/ MgrRcvOther
  <2>1. ASSUME up # <<>>, mpc = "select", NEW v \in {0, 1},
               down' = Append(down, Ack(Head(up), v))
        PROVE  \A i \in DOMAIN down' : down'[i].cmd = "ACK"
    <3>1. Ack(Head(up), v) \in Packets /\ Ack(Head(up), v).cmd = "ACK"
      <4>1. Head(up) \in Packets
        BY <1>0, <2>1, TailIs
      <4> QED
        BY <2>1, <4>1, AckIs
    <3> QED
      BY <2>1, <3>1, DownAck, OnlyAcks
  <2> QED
    BY <1>5, <1>7, <2>1 DEF MgrRcvReport, MgrRcvOther, DownInv
<1>8. ASSUME NEW c \in MgrCommands, MgrCommand(c) PROVE DownInv'
  <2>1. CASE cend
    <3>1. mpc = "select" /\ MgrSend(c, <<>>)
      BY <1>8, <2>1 DEF MgrCommand
    <3>2. Pkt(c, mseq) \in Packets
      BY <1>0, PktIs
    <3>3. down' = Append(down, Pkt(c, mseq)) /\ mpc' = "ack" /\ mcmd' = c
      BY <1>0, <3>1, <3>2 DEF MgrSend
    <3> QED
      BY <1>0, <3>1, <3>3, DownCmd, OnlyAcks
  <2>2. CASE ~cend
    BY <1>5, <1>8, <2>2 DEF MgrCommand
  <2> QED
    BY <2>1, <2>2
<1>9. CASE MgrEof \/ MgrAckBad \/ MgrAckTimeout
  BY <1>5, <1>9 DEF MgrEof, MgrAckBad, MgrAckTimeout
<1>10. CASE MgrAckOk
  <2>1. down = <<>>
    BY <1>10, AckOkIs
  <2>2. CASE mcmd.cmd = "SET" /\ cend
    <3>1. mcmd \in MgrCommands
      BY <2>2 DEF TypeOK, NoCmd
    <3>2. ConfigCmd(mcmd.arg + 1) \in MgrCommands
      BY <2>2, <3>1, NextCmdIs
    <3>3. /\ down' = Append(down, Pkt(ConfigCmd(mcmd.arg + 1), Succ(mseq)))
          /\ mpc' = "ack" /\ mcmd' = ConfigCmd(mcmd.arg + 1)
      BY <1>10, <2>2 DEF MgrAckOk
    <3> QED
      BY <1>0, <2>1, <3>2, <3>3, DownCmd, SuccIs, FewIs
  <2>3. CASE mcmd.cmd = "SET" /\ ~cend
    BY <1>5, <1>10, <2>3 DEF MgrAckOk
  <2>4. CASE mcmd.cmd # "SET"
    BY <1>10, <2>1, <2>4, FewIs DEF MgrAckOk, DownInv
  <2> QED
    BY <2>2, <2>3, <2>4
<1>11. CASE UNCHANGED vars
  BY <1>11, DownTail DEF vars
<1>12. QueryCmd \in MgrCommands /\ \A n \in Owing : ReportCmd(n - 1) \in MgrCommands
  BY DEF MgrCommands
<1> QED
  BY <1>1, <1>2, <1>3, <1>4, <1>5, <1>6, <1>7, <1>8, <1>9, <1>10, <1>11, <1>12
     DEF Next, ProcStep, MgrStep, EnvStep

\* The manager reads a packet: it was the REGISTER, or there is none.
LEMMA UpTail ==
    ASSUME TypeOK, UpInv, up # <<>>, up' = Tail(up)
    PROVE  /\ 1 \in DOMAIN up /\ Head(up) = up[1]
           /\ Head(up).cmd # "REGISTER" => ~Has("REGISTER")
           /\ \A i \in DOMAIN up' : i + 1 \in DOMAIN up /\ up'[i] = up[i + 1]
           /\ \A i \in DOMAIN up' : up'[i].cmd # "REGISTER"
<1>1. /\ 1 \in DOMAIN up /\ Head(up) = up[1]
      /\ \A i \in DOMAIN up' : i + 1 \in DOMAIN up /\ up'[i] = up[i + 1]
  BY TailIs DEF TypeOK
<1>2. \A i \in DOMAIN up' : i + 1 # 1
  BY TailIs DEF TypeOK
<1>3. \A i \in DOMAIN up' : up'[i].cmd # "REGISTER"
  BY <1>1, <1>2 DEF UpInv
<1>4. Head(up).cmd # "REGISTER" => ~Has("REGISTER")
  BY <1>1 DEF Has, UpInv
<1> QED
  BY <1>1, <1>3, <1>4

\* Nothing moves towards the manager, which goes on with what it does.
LEMMA UpSame ==
    ASSUME UpInv, ConfigInv, UNCHANGED <<up, mpc, mcmd, owed, got>>,
           down' = down \/ (down # <<>> /\ down' = Tail(down))
    PROVE  (UpInv /\ ConfigInv)'
BY DEF UpInv, ConfigInv, MgrOpen, Has

\* The connection is closed.
LEMMA UpClosed ==
    ASSUME mpc' \in {"none", "dead"}, mcmd' = NoCmd, owed' = 0, up' = <<>>
    PROVE  (UpInv /\ ConfigInv)'
BY FewIs DEF UpInv, ConfigInv, MgrOpen, NoCmd, IsConfig

\* The process sends what is neither a REGISTER nor a command, having executed no less.
LEMMA UpAdded ==
    ASSUME TypeOK, UpInv, ConfigInv, UNCHANGED <<mpc, mcmd, owed>>, MgrOpen,
           NEW p \in Packets, p.cmd # "REGISTER", up' = Append(up, p),
           got \subseteq got', got' \subseteq ConfigSteps,
           got' # got => IsConfig(mcmd),
           \A i \in DOMAIN up : ~Good(up[i]) \/ (down' = down /\ ~Good(p)),
           Good(p) => /\ mpc = "ack" /\ p.of = mcmd /\ down' = <<>>
                      /\ IsConfig(mcmd) => mcmd.arg \in got'
    PROVE  (UpInv /\ ConfigInv)'
<1>1. /\ \A i \in DOMAIN up : i \in DOMAIN up' /\ up'[i] = up[i]
      /\ \A i \in DOMAIN up' :
            (i \in DOMAIN up /\ up'[i] = up[i]) \/ (i = Len(up) + 1 /\ up'[i] = p)
  BY AppendIs DEF TypeOK
<1>2. /\ Has("REGISTER")' <=> Has("REGISTER")
      /\ \A i \in DOMAIN up' : up'[i].cmd = "REGISTER" => i \in DOMAIN up /\ up[i] = up'[i]
  BY <1>1 DEF Has
<1>3. \A i \in DOMAIN up' : up'[i].cmd = "REGISTER" =>
          i = 1 /\ got' = {} /\ owed' = 0 /\ ~IsConfig(mcmd')
  BY <1>2 DEF UpInv
<1>4. \A i \in DOMAIN up' : Good(up'[i]) =>
          /\ mpc' = "ack" /\ up'[i].of = mcmd' /\ down' = <<>>
          /\ IsConfig(mcmd') => mcmd'.arg \in got'
  BY <1>1 DEF UpInv
<1>5. \A i, j \in DOMAIN up' : Good(up'[i]) /\ Good(up'[j]) => i = j
  BY <1>1 DEF UpInv
<1>6. UpInv'
  BY <1>2, <1>3, <1>4, <1>5 DEF UpInv, MgrOpen
<1>7. ConfigInv'
  BY <1>2 DEF ConfigInv
<1> QED
  BY <1>6, <1>7

\* What rcvCmd reads, when it is a command, is what the manager waits for an answer to.
LEMMA CommandRead ==
    ASSUME TypeOK, DownInv, down # <<>>, Head(down).cmd # "ACK"
    PROVE  /\ [cmd |-> Head(down).cmd, arg |-> Head(down).arg] \in MgrCommands
           /\ Head(down).cmd \in Words /\ Tail(down) = <<>>
           /\ MgrOpen => /\ mpc = "ack"
                         /\ [cmd |-> Head(down).cmd, arg |-> Head(down).arg] = mcmd
<1>1. 1 \in DOMAIN down /\ Head(down) = down[1] /\ Len(Tail(down)) = Len(down) - 1
      /\ Tail(down) \in Seq(Packets)
  BY TailIs DEF TypeOK
<1>2. /\ 1 = Len(down)
      /\ [cmd |-> Head(down).cmd, arg |-> Head(down).arg] \in MgrCommands
      /\ MgrOpen => mpc = "ack" /\ [cmd |-> Head(down).cmd, arg |-> Head(down).arg] = mcmd
  BY <1>1 DEF DownInv
<1>5. Len(Tail(down)) = 0
  <2>1. Len(Tail(down)) = Len(down) - 1
    BY <1>1
  <2>2. Len(down) = 1
    BY <1>2
  <2> QED
    BY <2>1, <2>2
<1>3. Tail(down) = <<>>
  BY <1>1, <1>5, FewIs
<1>4. Head(down).cmd \in Words
  BY <1>2, CommandIs
<1> QED
  BY <1>2, <1>3, <1>4

LEMMA NextUp ==
    TypeOK /\ DownInv /\ UpInv /\ ConfigInv /\ [Next]_vars => (UpInv /\ ConfigInv)'
<1> SUFFICES ASSUME TypeOK, TypeOK', DownInv, UpInv, ConfigInv, [Next]_vars
             PROVE  (UpInv /\ ConfigInv)'
  BY NextType
<1> USE DEF procVars, mgrVars
<1>1. ASSUME NEW f \in BOOLEAN, Connect(f) PROVE (UpInv /\ ConfigInv)'
  <2> DEFINE p == Pkt([cmd |-> "REGISTER", arg |-> 0], cseq')
  <2>1. /\ mpc = "none" /\ mpc' = "backlog" /\ up' = <<p>> /\ got' = {} /\ down' = <<>>
        /\ UNCHANGED <<mcmd, owed>>
    BY <1>1 DEF Connect
  <2>2. mcmd = NoCmd /\ owed = 0
    BY <2>1 DEF UpInv, ConfigInv, MgrOpen
  <2>3. p.cmd = "REGISTER"
    BY DEF Pkt
  <2> HIDE DEF p
  <2>4. DOMAIN up' = {1} /\ up'[1] = p
    BY <2>1
  <2>5. ~Good(p) /\ ~IsConfig(NoCmd)
    BY <2>3 DEF Good, IsConfig, NoCmd
  <2>6. UpInv'
    BY <2>1, <2>2, <2>3, <2>4, <2>5 DEF UpInv, MgrOpen, Has
  <2>7. ConfigInv'
    BY <2>1, <2>2, <2>5 DEF ConfigInv
  <2> QED
    BY <2>6, <2>7
<1>2. CASE \/ ProcAckRead \/ ProcAckEof \/ ProcAckTimeout \/ ProcEof \/ ProcClose \/ ProcExit
           \/ (ProcSendReport /\ ~MgrOpen)
  BY <1>2, UpSame DEF ProcAckRead, ProcAckEof, ProcAckTimeout, ProcEof, ProcClose, ProcExit,
                      ProcSendReport
<1>3. CASE ProcSendReport /\ MgrOpen
  <2>1. Pkt(ReportCmd(0), cseq) \in Packets
    BY ConnAssumption DEF TypeOK, Pkt, Packets, ReportCmd, NoCmd
  <2>2. Pkt(ReportCmd(0), cseq).cmd = "REPORT"
    BY DEF Pkt, ReportCmd
  <2>3. /\ up' = Append(up, Pkt(ReportCmd(0), cseq))
        /\ UNCHANGED <<down, got, mpc, mcmd, owed>>
    BY <1>3 DEF ProcSendReport
  <2>4. ~Good(Pkt(ReportCmd(0), cseq)) /\ got \subseteq ConfigSteps
    BY <2>2 DEF Good, TypeOK
  <2> QED
    BY <1>3, <2>1, <2>2, <2>3, <2>4, UpAdded
<1>4. CASE ProcRcvCmd /\ MgrOpen
  <2> DEFINE p == Head(down)
             v == CallbackValue(p)
  <2>1. /\ down # <<>> /\ down' = Tail(down) /\ up' = Append(up, Ack(p, v)) /\ Callback(p)
        /\ UNCHANGED <<mpc, mcmd, owed>>
    BY <1>4 DEF ProcRcvCmd
  <2>2. p \in Packets /\ v \in {-1, 1}
    BY <2>1, TailIs DEF TypeOK, CallbackValue
  <2>3. /\ Ack(p, v) \in Packets /\ Ack(p, v).cmd = "ACK" /\ Ack(p, v).val = v
        /\ Ack(p, v).of = [cmd |-> p.cmd, arg |-> p.arg]
    BY <2>2, AckIs
  <2>4. got \subseteq got' /\ got' \subseteq ConfigSteps
    BY <2>1 DEF Callback, TypeOK
  <2>5. CASE p.cmd = "ACK"
    <3>1. got' = got /\ ~Good(Ack(p, v))
      BY <2>1, <2>3, <2>5 DEF Callback, CallbackValue, Good
    <3>2. \A i \in DOMAIN up : ~Good(up[i])
      BY <2>1 DEF UpInv
    <3> QED
      BY <1>4, <2>1, <2>3, <2>4, <3>1, <3>2, UpAdded
  <2>6. CASE p.cmd # "ACK"
    <3>1. /\ p.cmd \in Words /\ down' = <<>> /\ mpc = "ack"
          /\ [cmd |-> p.cmd, arg |-> p.arg] = mcmd
      BY <1>4, <2>1, <2>6, CommandRead
    <3>2. \A i \in DOMAIN up : ~Good(up[i])
      BY <2>1 DEF UpInv
    <3>3. mcmd.cmd = p.cmd /\ mcmd.arg = p.arg
      BY <3>1
    <3>4. IsConfig(mcmd) => mcmd.arg \in got'
      BY <2>1, <3>3 DEF Callback, IsConfig
    <3>5. got' # got => IsConfig(mcmd)
      BY <2>1, <3>3 DEF Callback, IsConfig
    <3> QED
      BY <1>4, <2>1, <2>3, <2>4, <3>1, <3>2, <3>4, <3>5, UpAdded
  <2> QED
    BY <2>5, <2>6
<1>5. CASE ProcRcvCmd /\ ~MgrOpen
  <2>1. up = <<>> /\ up' = <<>> /\ owed = 0 /\ UNCHANGED <<mpc, mcmd, owed>>
    BY <1>5 DEF ProcRcvCmd, UpInv
  <2>2. mpc \in {"none", "dead"} /\ mcmd = NoCmd
    BY <1>5 DEF MgrOpen, TypeOK, ConfigInv
  <2> QED
    BY <2>1, <2>2, UpClosed
<1>6. CASE MgrAccept
  <2>1. /\ mpc = "backlog" /\ mpc' = "select" /\ mcmd' = NoCmd /\ mcmd = NoCmd
        /\ UNCHANGED <<up, down, owed, got>>
    BY <1>6 DEF MgrAccept, ConfigInv
  <2>2. UpInv'
    BY <2>1 DEF UpInv, MgrOpen
  <2>3. Has("REGISTER")'
    BY <2>1 DEF UpInv, Has
  <2>4. ConfigInv'
    BY <2>1, <2>3 DEF ConfigInv, IsConfig, NoCmd
  <2> QED
    BY <2>2, <2>4
<1>7. CASE MgrKilled \/ MgrClosed
  BY <1>7, UpClosed DEF MgrKilled, MgrClosed
<1>8. CASE MgrRestart
  BY <1>8, UpClosed DEF MgrRestart, UpInv, ConfigInv, MgrOpen
<1>9. CASE MgrRcvRegister
  <2>1. CASE cend
    <3>1. /\ mpc = "select" /\ up # <<>> /\ Head(up).cmd = "REGISTER" /\ up' = Tail(up)
          /\ mpc' = "ack" /\ mcmd' = ConfigCmd(1) /\ UNCHANGED <<owed, got>>
      BY <1>9, <2>1 DEF MgrRcvRegister, MgrSend
    <3>2. /\ Head(up) = up[1] /\ 1 \in DOMAIN up
          /\ \A i \in DOMAIN up' : i + 1 \in DOMAIN up /\ up'[i] = up[i + 1]
          /\ \A i \in DOMAIN up' : up'[i].cmd # "REGISTER"
      BY <3>1, UpTail
    <3>3. owed = 0
      BY <3>1, <3>2 DEF UpInv
    <3>4. \A i \in DOMAIN up' : ~Good(up'[i])
      BY <3>1, <3>2 DEF UpInv
    <3>5. ConfigCmd(1) \in MgrCommands /\ IsConfig(ConfigCmd(1)) /\ ConfigCmd(1).arg = 1
      BY ConfigCmdIs, ConnAssumption DEF ConfigSteps
    <3>6. UpInv'
      BY <3>1, <3>2, <3>4 DEF UpInv, MgrOpen
    <3>7. ConfigCmd(1) # NoCmd /\ \A n \in ConfigSteps : ~ n < 1
      BY <3>5, CommandIs, ConnAssumption DEF ConfigSteps
    <3>8. ConfigInv'
      BY <3>1, <3>3, <3>5, <3>7 DEF ConfigInv
    <3> QED
      BY <3>6, <3>8
  <2>2. CASE ~cend
    BY <1>7, <1>9, <2>2 DEF MgrRcvRegister
  <2> QED
    BY <2>1, <2>2
<1>10. CASE MgrRcvReport \/ MgrRcvOther
  <2>1. CASE cend
    <3>1. /\ mpc = "select" /\ up # <<>> /\ Head(up).cmd # "REGISTER" /\ up' = Tail(up)
          /\ UNCHANGED <<mpc, mcmd, got>>
      BY <1>10, <2>1 DEF MgrRcvReport, MgrRcvOther
    <3>2. /\ ~Has("REGISTER")
          /\ \A i \in DOMAIN up' : i + 1 \in DOMAIN up /\ up'[i] = up[i + 1]
          /\ \A i \in DOMAIN up' : up'[i].cmd # "REGISTER"
      BY <3>1, UpTail
    <3>3. \A i \in DOMAIN up' : ~Good(up'[i])
      BY <3>1, <3>2 DEF UpInv
    <3>4. mcmd = NoCmd /\ ~IsConfig(NoCmd)
      BY <3>1 DEF ConfigInv, IsConfig, NoCmd
    <3>5. UpInv'
      BY <3>1, <3>2, <3>3 DEF UpInv, MgrOpen
    <3>6. ConfigInv'
      BY <3>1, <3>2, <3>4 DEF ConfigInv
    <3> QED
      BY <3>5, <3>6
  <2>2. CASE ~cend
    BY <1>7, <1>10, <2>2 DEF MgrRcvReport, MgrRcvOther
  <2> QED
    BY <2>1, <2>2
<1>11. ASSUME NEW c \in MgrCommands, ~IsConfig(c), MgrCommand(c) PROVE (UpInv /\ ConfigInv)'
  <2>1. CASE cend
    <3>1. /\ mpc = "select" /\ mpc' = "ack" /\ mcmd' = c /\ UNCHANGED <<up, owed, got>>
      BY <1>11, <2>1 DEF MgrCommand, MgrSend
    <3>2. mcmd = NoCmd /\ ~IsConfig(NoCmd) /\ c # NoCmd
      BY <3>1, CommandIs DEF ConfigInv, IsConfig, NoCmd
    <3>3. UpInv'
      BY <1>11, <3>1 DEF UpInv, MgrOpen
    <3>4. ConfigInv'
      BY <1>11, <3>1, <3>2 DEF ConfigInv, Has
    <3> QED
      BY <3>3, <3>4
  <2>2. CASE ~cend
    BY <1>7, <1>11, <2>2 DEF MgrCommand
  <2> QED
    BY <2>1, <2>2
<1>12. CASE MgrEof \/ MgrAckBad \/ MgrAckTimeout
  BY <1>7, <1>12 DEF MgrEof, MgrAckBad, MgrAckTimeout
<1>13. CASE MgrAckOk
  <2>1. /\ up # <<>> /\ Good(Head(up)) /\ (IsConfig(mcmd) => mcmd.arg \in got)
        /\ \A i \in DOMAIN Tail(up) : ~Good(Tail(up)[i]) /\ Tail(up)[i].cmd # "REGISTER"
        /\ mpc = "ack"
    BY <1>13, AckOkIs DEF MgrAckOk
  <2>2. ASSUME up' = Tail(up), mpc' \in {"ack", "select"} PROVE UpInv'
    BY <2>1, <2>2 DEF UpInv, MgrOpen
  <2>3. mcmd \in MgrCommands
    BY <2>1 DEF ConfigInv, TypeOK
  <2>4. CASE mcmd.cmd = "SET" /\ cend
    <3> DEFINE c == ConfigCmd(mcmd.arg + 1)
    <3>1. c \in MgrCommands /\ IsConfig(c) /\ c.arg = mcmd.arg + 1 /\ c # NoCmd
      BY <2>3, <2>4, NextCmdIs, CommandIs
    <3>2. up' = Tail(up) /\ mpc' = "ack" /\ mcmd' = c /\ UNCHANGED <<owed, got>>
      BY <1>13, <2>1, <2>4 DEF MgrAckOk
    <3> HIDE DEF c
    <3>3. owed = 0 /\ \A n \in ConfigSteps : n < mcmd.arg => n \in got
      BY <2>4 DEF ConfigInv, IsConfig
    <3>4. mcmd.arg \in Nat /\ ConfigSteps \subseteq Nat
      BY <2>3, <2>4, CommandIs, ConnAssumption DEF ConfigSteps
    <3>5. \A n \in ConfigSteps : n < c.arg => n < mcmd.arg \/ n = mcmd.arg
      BY <3>1, <3>4
    <3>6. ConfigInv'
      BY <2>1, <2>4, <3>1, <3>2, <3>3, <3>5 DEF ConfigInv, IsConfig
    <3> QED
      BY <2>2, <3>2, <3>6
  <2>5. CASE mcmd.cmd = "SET" /\ ~cend
    BY <1>7, <1>13, <2>5 DEF MgrAckOk
  <2>6. CASE mcmd.cmd # "SET"
    <3>1. up' = Tail(up) /\ mpc' = "select" /\ mcmd' = NoCmd /\ UNCHANGED got
      BY <1>13, <2>6 DEF MgrAckOk
    <3>2. got = ConfigSteps
      <4>1. CASE IsConfig(mcmd)
        <5>1. mcmd.cmd = "DONE" /\ mcmd.arg = NFlags + 1
          BY <2>3, <2>6, <4>1, CommandIs DEF IsConfig
        <5>2. \A n \in ConfigSteps : n < mcmd.arg \/ n = mcmd.arg
          BY <5>1, ConnAssumption DEF ConfigSteps
        <5> QED
          BY <2>1, <4>1, <5>2 DEF ConfigInv, TypeOK
      <4>2. CASE ~IsConfig(mcmd)
        <5>1. ~Has("REGISTER")
          <6>1. Head(up).cmd # "REGISTER"
            BY <2>1 DEF Good
          <6> QED
            BY <2>1, <3>1, <6>1, UpTail
        <5> QED
          BY <2>1, <4>2, <5>1 DEF ConfigInv
      <4> QED
        BY <4>1, <4>2
    <3>3. ConfigInv'
      BY <3>1, <3>2 DEF ConfigInv, IsConfig, NoCmd
    <3> QED
      BY <2>2, <3>1, <3>3
  <2> QED
    BY <2>4, <2>5, <2>6
<1>14. CASE UNCHANGED vars
  BY <1>14, UpSame DEF vars
<1>15. /\ QueryCmd \in MgrCommands /\ ~IsConfig(QueryCmd)
       /\ \A n \in Owing : ReportCmd(n - 1) \in MgrCommands /\ ~IsConfig(ReportCmd(n - 1))
  BY DEF MgrCommands, IsConfig, QueryCmd, ReportCmd
<1> QED
  BY <1>1, <1>2, <1>3, <1>4, <1>5, <1>6, <1>8, <1>9, <1>10, <1>11, <1>12, <1>13, <1>14, <1>15
     DEF Next, ProcStep, MgrStep, EnvStep
-----------------------------------------------------------------------------
(* The invariant                                                           *)

ConnInv == TypeOK /\ DownInv /\ UpInv /\ ConfigInv

LEMMA InitConn == Init => ConnInv
<1> SUFFICES ASSUME Init PROVE ConnInv
  OBVIOUS
<1>1. /\ up = <<>> /\ owed = 0 /\ mpc = "none" /\ mcmd = NoCmd
      /\ DOMAIN up = {} /\ ~IsConfig(NoCmd)
  BY FewIs DEF Init, IsConfig, NoCmd
<1>2. UpInv
  BY <1>1 DEF UpInv, MgrOpen
<1>3. ConfigInv
  BY <1>1 DEF ConfigInv
<1> QED
  BY <1>2, <1>3, InitDown DEF ConnInv

LEMMA NextConn == ConnInv /\ [Next]_vars => ConnInv'
<1>1. ConnInv /\ [Next]_vars => TypeOK'
  BY NextType DEF ConnInv
<1>2. ConnInv /\ [Next]_vars => DownInv'
  BY NextDown DEF ConnInv
<1>3. ConnInv /\ [Next]_vars => UpInv' /\ ConfigInv'
  BY NextUp DEF ConnInv
<1> QED
  BY <1>1, <1>2, <1>3 DEF ConnInv

LEMMA ConnHolds == Spec => []ConnInv
BY InitConn, NextConn, PTL DEF Spec

(***************************************************************************)
(* Every variable of the two ends keeps its type, whatever is lost.        *)
(***************************************************************************)
THEOREM TypeCorrect == Spec => []TypeOK
<1>1. ConnInv => TypeOK
  BY DEF ConnInv
<1> QED
  BY <1>1, ConnHolds, PTL

(***************************************************************************)
(* recvAck never takes the answer to an earlier command for the answer to  *)
(* the one it sent, although a command that timed out leaves the sequence  *)
(* number where it was: what it closes is all it could have confused.      *)
(***************************************************************************)
THEOREM AckIsForCommandHolds == Spec => []AckIsForCommand
<1>1. ConnInv => AckIsForCommand
  <2> SUFFICES ASSUME ConnInv, up # <<>>, AckValue(Head(up), mseq) >= 0
               PROVE  Head(up).of = mcmd
    BY DEF AckIsForCommand
  <2>1. 1 \in DOMAIN up /\ Head(up) = up[1]
    BY TailIs DEF ConnInv, TypeOK
  <2>2. Good(Head(up))
    BY ConnAssumption DEF AckValue, Good
  <2> QED
    BY <2>1, <2>2 DEF ConnInv, UpInv
<1> QED
  BY <1>1, ConnHolds, PTL

(***************************************************************************)
(* The manager serves, from its select loop, only programs that have       *)
(* executed the whole of their configuration.                              *)
(***************************************************************************)
THEOREM ConfiguredWhenServedHolds == Spec => []ConfiguredWhenServed
<1>1. ConnInv => ConfiguredWhenServed
  <2> SUFFICES ASSUME ConnInv, Registered PROVE got = ConfigSteps
    BY DEF ConfiguredWhenServed
  <2>1. mpc = "select" /\ mcmd = NoCmd /\ ~Has("REGISTER")
    BY DEF ConnInv, ConfigInv, Registered, Has
  <2> QED
    BY <2>1 DEF ConnInv, ConfigInv, IsConfig, NoCmd
<1> QED
  BY <1>1, ConnHolds, PTL
-----------------------------------------------------------------------------
(* The report that is asked for                                            *)

\* The manager waits, and reads something that is not an answer to its command: it closes.
Doomed == mpc = "ack" /\ up # <<>> /\ ~Good(Head(up))

\* A report is pending when it is about to be made, or in a program that reads no further.
PendInv ==
    /\ NFlags + 1 \in got => cst \notin {"reg1", "init"}
    /\ cst \in {"reg1", "init"} /\ enable => got # {}
    /\ cst \in {"reg1", "init"} =>
          \A i \in DOMAIN down : down[i].cmd \in {"REPORT", "QUERY"} => got = {}
    /\ pend /\ cst \notin {"gen", "quit", "untracked", "off"} =>
          cst = "init" /\ ~enable /\ down = <<>> /\ (MgrOpen => Doomed)

\* The process has acknowledged the request, and the manager has not read that.
Answered == mcmd.cmd = "REPORT" /\ \E i \in DOMAIN up : Good(up[i])

Due == owed = 1 \/ Answered

\* The process may come to read a command.
Able == cst \in {"reg1", "reg2", "init", "idle", "rpt"}

\* The report that is due is at one place: about to be sent, or on its way.
Token ==
    /\ owed \in {0, 1}
    /\ owed = 1 => \A i \in DOMAIN up : ~Good(up[i])
    /\ \A i, j \in DOMAIN up : up[i].cmd = "REPORT" /\ up[j].cmd = "REPORT" => i = j
    /\ cst = "gen" => ~Has("REPORT")
    /\ cst = "gen" \/ Has("REPORT") => Due
    /\ Able /\ Due => Has("REPORT")

TokenInv == MgrOpen /\ ~Doomed => Token

LEMMA DoomedIs ==
    ASSUME ConnInv, mpc = "ack", up # <<>>
    PROVE  /\ 1 \in DOMAIN up /\ Head(up) = up[1]
           /\ Has("REGISTER") => Doomed
           /\ down # <<>> => Doomed
<1>1. 1 \in DOMAIN up /\ Head(up) = up[1]
  BY TailIs DEF ConnInv, TypeOK
<1>2. Has("REGISTER") => up[1].cmd = "REGISTER"
  BY DEF Has, ConnInv, UpInv
<1>3. down # <<>> => ~Good(up[1])
  BY <1>1 DEF ConnInv, UpInv
<1> QED
  BY <1>1, <1>2, <1>3 DEF Doomed, Good

\* A program that still reads its configuration is sent a command for a CLI only when its
\* REGISTER is there to be taken for the answer.
LEMMA Crossed ==
    ASSUME ConnInv, PendInv, cst \in {"reg1", "init"}, mpc \in {"select", "ack"}, ~IsConfig(mcmd)
    PROVE  Has("REGISTER") /\ got = {}
<1>1. NFlags + 1 \in ConfigSteps
  BY ConnAssumption DEF ConfigSteps
<1>2. got # ConfigSteps
  BY <1>1 DEF PendInv
<1>3. Has("REGISTER")
  BY <1>2 DEF ConnInv, ConfigInv
<1> QED
  BY <1>3 DEF Has, ConnInv, UpInv

\* A step of the manager.
LEMMA PendMgr ==
    ASSUME PendInv, UNCHANGED procVars,
           cst \in {"reg1", "init"} =>
               \A i \in DOMAIN down' : down'[i].cmd \in {"REPORT", "QUERY"} => got = {},
           (down' = down /\ ~MgrOpen') \/ (MgrOpen /\ ~Doomed)
    PROVE  PendInv'
BY DEF PendInv, procVars

LEMMA NextPend == ConnInv /\ PendInv /\ [Next]_vars => PendInv'
<1> SUFFICES ASSUME ConnInv, ConnInv', PendInv, [Next]_vars PROVE PendInv'
  BY NextConn
<1> USE DEF mgrVars
<1>0. /\ TypeOK /\ NFlags + 1 \in Nat
      /\ cst \in {"reg1", "init"} => NFlags + 1 \notin got
  BY ConnAssumption DEF ConnInv, PendInv
<1>1. ASSUME NEW f \in BOOLEAN, Connect(f) PROVE PendInv'
  <2>1. /\ got' = {} /\ down' = <<>> /\ cst' \in {"reg1", "reg2"}
        /\ cst' = "reg1" => ~enable' /\ ~pend'
        /\ cst' = "reg2" => cst = "down" /\ pend' = pend
    BY <1>1 DEF Connect
  <2>2. ~pend'
    BY <2>1 DEF PendInv
  <2> QED
    BY <2>1, <2>2, FewIs DEF PendInv
<1>2. CASE ProcAckRead \/ ProcAckEof \/ ProcAckTimeout
  <2>1. /\ cst \in {"reg1", "reg2", "rpt"} /\ UNCHANGED <<enable, pend, got>>
        /\ cst' = IF cst = "reg1" THEN "init" ELSE "idle"
    BY <1>2 DEF ProcAckRead, ProcAckEof, ProcAckTimeout, WaitsAck, AfterAck
  <2>2. ~pend
    BY <2>1 DEF PendInv
  <2>3. \A i \in DOMAIN down' : \E j \in DOMAIN down : down'[i] = down[j]
    <3>1. down' = down \/ (down # <<>> /\ down' = Tail(down))
      BY <1>2 DEF ProcAckRead, ProcAckEof, ProcAckTimeout
    <3>2. down # <<>> => \A i \in DOMAIN Tail(down) : \E j \in DOMAIN down : Tail(down)[i] = down[j]
      BY <1>0, TailIs DEF TypeOK
    <3> QED
      BY <3>1, <3>2
  <2> QED
    BY <2>1, <2>2, <2>3 DEF PendInv
<1>3. CASE ProcRcvCmd
  <2> DEFINE p == Head(down)
  <2>1. /\ down # <<>> /\ down' = Tail(down) /\ Callback(p) /\ cst \in {"init", "idle"}
        /\ UNCHANGED <<mpc, mcmd>>
    BY <1>3 DEF ProcRcvCmd
  <2>2. ~pend
    BY <2>1 DEF PendInv
  <2>3. cst' \in {"init", "idle", "gen", "quit", "lost", "off"} /\ (cst = "idle" => cst' # "init")
    BY <1>3 DEF ProcRcvCmd, RcvFailed, RcvDone, InitDone
  <2>4. cst = "init" => cst' \in {"init", "idle", "quit", "off"}
    BY <1>3 DEF ProcRcvCmd, RcvFailed, RcvDone, InitDone
  <2>5. CASE p.cmd = "ACK"
    <3>1. UNCHANGED <<enable, pend, got>>
      BY <2>1, <2>5 DEF Callback
    <3>2. \A i \in DOMAIN down' : \E j \in DOMAIN down : down'[i] = down[j]
      BY <1>0, <2>1, TailIs DEF TypeOK
    <3> QED
      BY <2>1, <2>2, <2>3, <2>4, <3>1, <3>2 DEF PendInv
  <2>6. CASE p.cmd # "ACK"
    <3>1. /\ [cmd |-> p.cmd, arg |-> p.arg] \in MgrCommands /\ p.cmd \in Words
          /\ down' = <<>>
          /\ MgrOpen => mpc = "ack" /\ [cmd |-> p.cmd, arg |-> p.arg] = mcmd
      BY <2>1, <2>6, CommandRead DEF ConnInv
    <3>2. p.cmd = "SET" => p.arg \in 1..NFlags
      BY <3>1, CommandIs
    <3>3. cst' = "init" => p.cmd # "DONE"
      BY <1>3, <3>1 DEF ProcRcvCmd, RcvFailed, RcvDone, InitDone, CallbackValue
    <3>4. cst' = "init" => NFlags + 1 \notin got'
      <4>1. p.cmd = "SET" => p.arg # NFlags + 1
        BY <3>2, ConnAssumption
      <4> QED
        BY <1>0, <2>1, <2>3, <3>3, <4>1 DEF Callback
    <3>5. cst' = "init" /\ enable' => got' # {}
      BY <2>1, <2>3 DEF Callback, PendInv
    <3>6. pend' => p.cmd = "REPORT" /\ UNCHANGED <<got, enable>>
      BY <2>1, <2>2 DEF Callback
    <3>7. ASSUME pend', cst' \notin {"gen", "quit", "untracked", "off"}
          PROVE  cst' = "init" /\ ~enable' /\ (MgrOpen' => Doomed')
      <4>1. cst = "init" /\ cst' = "init"
        <5>1. CallbackValue(p) = 1
          BY <3>6, <3>7 DEF CallbackValue
        <5>2. RcvDone(p, enable')
          BY <1>3, <3>7, <5>1 DEF ProcRcvCmd
        <5> QED
          BY <2>1, <3>6, <3>7, <5>2 DEF RcvDone
      <4>2. got = {}
        <5>1. 1 \in DOMAIN down /\ p = down[1]
          BY <1>0, <2>1, TailIs DEF TypeOK
        <5> QED
          BY <3>6, <3>7, <4>1, <5>1 DEF PendInv
      <4>3. ~enable'
        BY <3>6, <3>7, <4>1, <4>2 DEF PendInv
      <4>4. ASSUME MgrOpen' PROVE Doomed'
        <5>1. MgrOpen /\ mpc = "ack" /\ mcmd.cmd = "REPORT"
          BY <2>1, <3>1, <3>6, <3>7, <4>4 DEF MgrOpen
        <5>2. Has("REGISTER")
          BY <4>1, <5>1, Crossed DEF IsConfig
        <5>3. up' = Append(up, Ack(p, CallbackValue(p)))
          BY <1>3, <5>1 DEF ProcRcvCmd
        <5>4. Has("REGISTER")'
          <6>1. p \in Packets /\ CallbackValue(p) \in {-1, 0, 1}
            BY <1>0, <2>1, TailIs DEF TypeOK, CallbackValue
          <6> QED
            BY <1>0, <5>2, <5>3, <6>1, AckIs, AppendIs DEF TypeOK, Has
        <5>5. mpc' = "ack" /\ up' # <<>>
          BY <2>1, <5>1, <5>4, FewIs DEF Has
        <5>6. 1 \in DOMAIN up' /\ Head(up') = up'[1] /\ up'[1].cmd = "REGISTER"
          BY <5>4, <5>5, TailIs DEF ConnInv, TypeOK, UpInv, Has
        <5> QED
          BY <5>5, <5>6 DEF Doomed, Good
      <4> QED
        BY <4>1, <4>3, <4>4
    <3>8. cst' # "reg1"
      BY <2>3
    <3> QED
      BY <3>1, <3>4, <3>5, <3>7, <3>8, FewIs DEF PendInv
  <2> QED
    BY <2>5, <2>6
<1>4. CASE ProcEof \/ ProcClose \/ ProcExit
  <2>1. /\ cst' \in {"off", "quit", "untracked", "lost", "idle", "down"}
        /\ UNCHANGED <<enable, pend, got>>
    BY <1>4 DEF ProcEof, ProcClose, ProcExit, RcvFailed, InitDone
  <2>2. pend => cst' \in {"off", "quit", "untracked"}
    BY <1>4 DEF ProcEof, ProcClose, ProcExit, RcvFailed, InitDone, PendInv
  <2> QED
    BY <2>1, <2>2 DEF PendInv
<1>5. CASE ProcSendReport
  <2>1. ~pend' /\ cst' \in {"rpt", "idle", "off"}
    BY <1>5 DEF ProcSendReport
  <2> QED
    BY <2>1 DEF PendInv
<1>6. CASE UNCHANGED vars
  <2>1. UNCHANGED <<up, down, cst, enable, pend, got, mpc>>
    BY <1>6 DEF vars
  <2> QED
    BY <2>1 DEF PendInv, MgrOpen, Doomed
<1>7. ASSUME NEW c \in MgrCommands, ~IsConfig(c), MgrCommand(c) PROVE PendInv'
  <2>1. CASE ~cend
    BY <1>7, <2>1, PendMgr DEF MgrCommand, MgrKilled, MgrOpen, Doomed, PendInv
  <2>2. CASE cend
    <3>1. mpc = "select" /\ UNCHANGED procVars
      BY <1>7, <2>2 DEF MgrCommand
    <3>2. cst \in {"reg1", "init"} => got = {}
      <4>1. ~IsConfig(mcmd)
        BY <3>1 DEF ConnInv, ConfigInv, IsConfig, NoCmd
      <4> QED
        BY <3>1, <4>1, Crossed
    <3> QED
      BY <3>1, <3>2, PendMgr DEF MgrOpen, Doomed
  <2> QED
    BY <2>1, <2>2
<1>8. ASSUME down' = down, UNCHANGED procVars, ~MgrOpen' \/ (MgrOpen /\ ~Doomed) PROVE PendInv'
  BY <1>8, PendMgr DEF PendInv
<1>9. CASE MgrAccept \/ MgrEof \/ MgrAckBad \/ MgrAckTimeout \/ MgrRestart
  BY <1>8, <1>9 DEF MgrAccept, MgrEof, MgrAckBad, MgrAckTimeout, MgrRestart, MgrClosed, MgrOpen,
                    Doomed, procVars
<1>10. ASSUME MgrKilled, UNCHANGED procVars PROVE PendInv'
  BY <1>8, <1>10 DEF MgrKilled, MgrOpen
<1>11. CASE MgrRcvRegister \/ MgrRcvReport \/ MgrRcvOther \/ MgrAckOk
  <2>1. UNCHANGED procVars /\ mpc \in {"select", "ack"} /\ MgrOpen
    BY <1>11 DEF MgrRcvRegister, MgrRcvReport, MgrRcvOther, MgrAckOk, MgrOpen
  <2>2. ~Doomed
    BY <1>11, AckOkIs DEF MgrRcvRegister, MgrRcvReport, MgrRcvOther, Doomed, ConnInv
  <2>3. MgrKilled \/ \A i \in DOMAIN down' : down'[i].cmd \notin {"REPORT", "QUERY"}
    <3>1. CASE mpc' = "select"
      <4>1. \A i \in DOMAIN down' : down'[i].cmd = "ACK"
        BY <3>1 DEF ConnInv, DownInv, MgrOpen
      <4> QED
        BY <4>1
    <3>2. CASE mpc' # "select"
      <4>1. MgrKilled \/ (mpc' = "ack" /\ IsConfig(mcmd'))
        <5>1. MgrRcvRegister /\ cend => mpc' = "ack" /\ IsConfig(mcmd')
          BY ConfigCmdIs, ConnAssumption DEF MgrRcvRegister, MgrSend, ConfigSteps
        <5>2. MgrAckOk /\ cend /\ mcmd.cmd = "SET" => mpc' = "ack" /\ IsConfig(mcmd')
          <6>1. mcmd.cmd = "SET" => mcmd \in MgrCommands
            BY <1>0 DEF TypeOK, NoCmd
          <6> QED
            BY <2>1, <6>1, NextCmdIs DEF MgrAckOk
        <5> QED
          BY <1>11, <2>1, <3>2, <5>1, <5>2
             DEF MgrRcvRegister, MgrRcvReport, MgrRcvOther, MgrAckOk
      <4>2. mpc' = "ack" /\ IsConfig(mcmd') => \A i \in DOMAIN down' :
                down'[i].cmd = "ACK" \/ down'[i].cmd = mcmd'.cmd
        <5> SUFFICES ASSUME mpc' = "ack", NEW i \in DOMAIN down', down'[i].cmd # "ACK"
                     PROVE  down'[i].cmd = mcmd'.cmd
          OBVIOUS
        <5>1. [cmd |-> down'[i].cmd, arg |-> down'[i].arg] = mcmd'
          BY DEF ConnInv, DownInv, MgrOpen
        <5>2. [cmd |-> down'[i].cmd, arg |-> down'[i].arg].cmd = down'[i].cmd
          OBVIOUS
        <5> QED
          BY <5>1, <5>2
      <4> QED
        BY <4>1, <4>2 DEF IsConfig
    <3> QED
      BY <3>1, <3>2
  <2> QED
    BY <1>10, <2>1, <2>2, <2>3, PendMgr
<1>12. /\ QueryCmd \in MgrCommands /\ ~IsConfig(QueryCmd)
       /\ \A n \in Owing : ReportCmd(n - 1) \in MgrCommands /\ ~IsConfig(ReportCmd(n - 1))
  BY DEF MgrCommands, IsConfig, QueryCmd, ReportCmd
<1> QED
  BY <1>1, <1>2, <1>3, <1>4, <1>5, <1>6, <1>7, <1>9, <1>11, <1>12
     DEF Next, ProcStep, MgrStep, EnvStep

\* Nothing is added to up but what is neither a report nor an answer, the process goes on.
LEMMA TokenSame ==
    ASSUME Token, UNCHANGED <<mcmd, owed>>,
           cst' = "gen" => cst = "gen", Able' => Able,
           Answered' <=> Answered, Has("REPORT")' <=> Has("REPORT"),
           owed = 1 => \A i \in DOMAIN up' : ~Good(up'[i]),
           \A i, j \in DOMAIN up' : up'[i].cmd = "REPORT" /\ up'[j].cmd = "REPORT" => i = j
    PROVE  Token'
BY DEF Token, Due

\* What stays after a packet has been read.
LEMMA Reading ==
    ASSUME TypeOK, up # <<>>, up' = Tail(up)
    PROVE  /\ Head(up).cmd # "REPORT" => (Has("REPORT")' <=> Has("REPORT"))
           /\ Token /\ Head(up).cmd = "REPORT" => ~Has("REPORT")'
           /\ Token => \A i, j \in DOMAIN up' :
                          up'[i].cmd = "REPORT" /\ up'[j].cmd = "REPORT" => i = j
<1>1. /\ 1 \in DOMAIN up /\ Head(up) = up[1]
      /\ \A i \in DOMAIN up' : i + 1 \in DOMAIN up /\ up'[i] = up[i + 1]
      /\ \A i \in DOMAIN up : i # 1 => i - 1 \in DOMAIN up' /\ up'[i - 1] = up[i]
  BY TailIs DEF TypeOK
<1>2. DOMAIN up' \subseteq Nat \ {0}
  BY TailIs DEF TypeOK
<1>3. Head(up).cmd # "REPORT" => (Has("REPORT")' <=> Has("REPORT"))
  <2>1. ASSUME NEW i \in DOMAIN up', up'[i].cmd = "REPORT" PROVE Has("REPORT")
    <3>1. i + 1 \in DOMAIN up /\ up[i + 1].cmd = "REPORT"
      BY <1>1, <2>1
    <3> QED
      BY <3>1 DEF Has
  <2>2. ASSUME Head(up).cmd # "REPORT", NEW i \in DOMAIN up, up[i].cmd = "REPORT"
        PROVE  Has("REPORT")'
    <3>1. i # 1
      BY <1>1, <2>2
    <3>2. i - 1 \in DOMAIN up' /\ up'[i - 1].cmd = "REPORT"
      BY <1>1, <2>2, <3>1
    <3> QED
      BY <3>2 DEF Has
  <2> QED
    BY <2>1, <2>2 DEF Has
<1>4. Token => \A i, j \in DOMAIN up' : up'[i].cmd = "REPORT" /\ up'[j].cmd = "REPORT" => i = j
  <2> SUFFICES ASSUME Token, NEW i \in DOMAIN up', NEW j \in DOMAIN up',
                      up'[i].cmd = "REPORT", up'[j].cmd = "REPORT"
               PROVE  i = j
    OBVIOUS
  <2>1. i + 1 = j + 1
    BY <1>1 DEF Token
  <2> QED
    BY <1>2, <2>1
<1>5. Token /\ Head(up).cmd = "REPORT" => ~Has("REPORT")'
  <2> SUFFICES ASSUME Token, Head(up).cmd = "REPORT", NEW i \in DOMAIN up', up'[i].cmd = "REPORT"
               PROVE  FALSE
    BY DEF Has
  <2>1. i + 1 = 1
    BY <1>1 DEF Token
  <2> QED
    BY <1>2, <2>1
<1> QED
  BY <1>3, <1>4, <1>5

\* The process executes a command that will be answered.
LEMMA TokenRcv ==
    ASSUME Owing \subseteq {1}, ConnInv, PendInv, Token, ~Doomed, ProcRcvCmd, MgrOpen,
           Head(down).cmd # "ACK"
    PROVE  Token'
<1> DEFINE p == Head(down)
           v == CallbackValue(p)
<1>1. /\ down # <<>> /\ Callback(p) /\ cst \in {"init", "idle"}
      /\ up' = Append(up, Ack(p, v)) /\ UNCHANGED <<mpc, mcmd, owed>>
      /\ IF v < 0 THEN RcvFailed(enable') ELSE RcvDone(p, enable')
  BY DEF ProcRcvCmd, mgrVars
<1>2. /\ p.cmd \in Words /\ mpc = "ack" /\ [cmd |-> p.cmd, arg |-> p.arg] = mcmd
      /\ mcmd \in MgrCommands
  BY <1>1, CommandRead DEF ConnInv
<1>3. mcmd.cmd = p.cmd /\ mcmd.arg = p.arg
  BY <1>2
<1>4. up = <<>>
  BY <1>1, <1>2, DoomedIs
<1>5. v = 1 /\ RcvDone(p, enable')
  BY <1>1, <1>2 DEF CallbackValue, Words
<1>6. p \in Packets
  BY <1>1, TailIs DEF ConnInv, TypeOK
<1>7. Ack(p, v) \in Packets /\ Ack(p, v).cmd = "ACK" /\ Ack(p, v).val = 1
  BY <1>5, <1>6, AckIs
<1>8. up' = <<Ack(p, v)>> /\ DOMAIN up' = {1} /\ up'[1] = Ack(p, v)
  BY <1>1, <1>4, <1>7
<1> HIDE DEF p, v
<1>9. ~Has("REPORT")' /\ (Answered' <=> mcmd.cmd = "REPORT")
  BY <1>1, <1>7, <1>8 DEF Has, Answered, Good
<1>10. owed = 0 /\ ~Has("REPORT")
  <2>1. ~Has("REPORT")
    BY <1>4, FewIs DEF Has
  <2>2. Able
    BY <1>1 DEF Able
  <2> QED
    BY <2>1, <2>2 DEF Token, Due
<1>11. CASE mcmd.cmd = "REPORT"
  <2>1. cst = "idle"
    <3>1. cst = "init" => Has("REGISTER")
      BY <1>2, <1>11, Crossed DEF IsConfig
    <3>2. ~Has("REGISTER")
      BY <1>4, FewIs DEF Has
    <3> QED
      BY <1>1, <3>1, <3>2
  <2>2. p.arg # -1
    <3>1. mcmd \in {ReportCmd(n - 1) : n \in Owing}
      <4>1. ~IsConfig(mcmd) /\ mcmd # QueryCmd
        BY <1>11 DEF IsConfig, QueryCmd
      <4>2. \A n \in ConfigSteps : mcmd # ConfigCmd(n)
        BY <4>1, ConfigCmdIs
      <4> QED
        BY <1>2, <4>1, <4>2 DEF MgrCommands
    <3>2. mcmd = ReportCmd(0)
      BY <3>1
    <3> QED
      BY <1>3, <3>2 DEF ReportCmd
  <2>3. pend'
    BY <1>1, <1>3, <1>11, <2>2 DEF Callback
  <2>4. cst' = "gen"
    BY <1>5, <2>1, <2>3 DEF RcvDone
  <2> QED
    BY <1>1, <1>8, <1>9, <1>10, <1>11, <2>4 DEF Token, Due, Able
<1>12. CASE mcmd.cmd # "REPORT"
  <2>1. pend' = pend
    BY <1>1, <1>3, <1>12 DEF Callback
  <2>2. cst' # "gen"
    <3>1. cst = "idle" => ~pend
      BY DEF PendInv
    <3> QED
      BY <1>1, <1>5, <2>1, <3>1 DEF RcvDone, InitDone
  <2> QED
    BY <1>1, <1>8, <1>9, <1>10, <1>12, <2>2 DEF Token, Due, Able
<1> QED
  BY <1>11, <1>12

LEMMA NextToken ==
    ASSUME Owing \subseteq {1}
    PROVE  ConnInv /\ PendInv /\ TokenInv /\ [Next]_vars => TokenInv'
<1> SUFFICES ASSUME ConnInv, ConnInv', PendInv, TokenInv, [Next]_vars, MgrOpen', ~Doomed'
             PROVE  Token'
  BY NextConn DEF TokenInv
<1> USE DEF mgrVars
<1>0. TypeOK /\ up \in Seq(Packets) /\ down \in Seq(Packets)
  BY DEF ConnInv, TypeOK
<1>1. ASSUME NEW f \in BOOLEAN, Connect(f) PROVE Token'
  <2> DEFINE p == Pkt([cmd |-> "REGISTER", arg |-> 0], cseq')
  <2>1. mpc = "none" /\ up' = <<p>> /\ cst' \in {"reg1", "reg2"} /\ UNCHANGED <<mcmd, owed>>
    BY <1>1 DEF Connect
  <2>2. owed = 0
    BY <2>1 DEF ConnInv, UpInv, MgrOpen
  <2>3. p.cmd = "REGISTER"
    BY DEF Pkt
  <2> HIDE DEF p
  <2>4. DOMAIN up' = {1} /\ up'[1] = p
    BY <2>1
  <2>5. ~Has("REPORT")' /\ ~Answered'
    BY <2>3, <2>4 DEF Has, Answered, Good
  <2> QED
    BY <2>1, <2>2, <2>4, <2>5 DEF Token, Due
<1>2. ASSUME UNCHANGED <<up, mpc, mcmd, owed>>, cst' = "gen" => cst = "gen", Able' => Able
      PROVE  Token'
  <2>1. Token
    BY <1>2 DEF TokenInv, MgrOpen, Doomed
  <2>2. (Answered' <=> Answered) /\ (Has("REPORT")' <=> Has("REPORT"))
    BY <1>2 DEF Answered, Has
  <2>3. /\ \A i, j \in DOMAIN up' : up'[i].cmd = "REPORT" /\ up'[j].cmd = "REPORT" => i = j
        /\ owed = 1 => \A i \in DOMAIN up' : ~Good(up'[i])
    BY <1>2, <2>1 DEF Token
  <2> QED
    BY <1>2, <2>1, <2>2, <2>3, TokenSame
<1>3. CASE ProcAckRead \/ ProcAckEof \/ ProcAckTimeout \/ ProcClose \/ ProcExit \/ UNCHANGED vars
  BY <1>2, <1>3 DEF ProcAckRead, ProcAckEof, ProcAckTimeout, ProcClose, ProcExit, WaitsAck,
                    AfterAck, Able, vars
<1>4. CASE ProcEof \/ MgrEof \/ MgrAckBad \/ MgrAckTimeout \/ MgrRestart \/ MgrKilled
  BY <1>4 DEF ProcEof, MgrEof, MgrAckBad, MgrAckTimeout, MgrRestart, MgrKilled, MgrClosed, MgrOpen
<1>5. ASSUME MgrOpen, NEW p \in Packets, up' = Append(up, p), UNCHANGED <<mpc, mcmd>>
      PROVE  /\ Token /\ ~Doomed
             /\ Has("REPORT")' <=> Has("REPORT") \/ p.cmd = "REPORT"
             /\ Answered' <=> Answered \/ (mcmd.cmd = "REPORT" /\ Good(p))
             /\ \A i \in DOMAIN up' : (i \in DOMAIN up /\ up'[i] = up[i])
                                      \/ (i = Len(up) + 1 /\ up'[i] = p)
  <2>1. /\ up' # <<>>
        /\ \A i \in DOMAIN up : i \in DOMAIN up' /\ up'[i] = up[i]
        /\ \A i \in DOMAIN up' : (i \in DOMAIN up /\ up'[i] = up[i])
                                 \/ (i = Len(up) + 1 /\ up'[i] = p)
        /\ Len(up) + 1 \in DOMAIN up' /\ up'[Len(up) + 1] = p
    BY <1>0, <1>5, AppendIs
  <2>2. Doomed => Doomed'
    <3>1. up # <<>> => Head(up) = up[1] /\ 1 \in DOMAIN up
      BY <1>0, TailIs
    <3>2. Head(up') = up'[1]
      BY <2>1, TailIs DEF ConnInv, TypeOK
    <3> QED
      BY <1>5, <2>1, <3>1, <3>2 DEF Doomed
  <2>3. Token
    BY <1>5, <2>2 DEF TokenInv
  <2>4. Has("REPORT")' <=> Has("REPORT") \/ p.cmd = "REPORT"
    BY <2>1 DEF Has
  <2>5. Answered' <=> Answered \/ (mcmd.cmd = "REPORT" /\ Good(p))
    BY <1>5, <2>1 DEF Answered
  <2> QED
    BY <2>1, <2>2, <2>3, <2>4, <2>5
<1>6. CASE ProcRcvCmd
  <2>1. MgrOpen /\ UNCHANGED <<mpc, mcmd, owed>>
    BY <1>6 DEF ProcRcvCmd, MgrOpen
  <2> DEFINE p == Head(down)
  <2>2. /\ down # <<>> /\ Callback(p) /\ cst \in {"init", "idle"}
        /\ up' = Append(up, Ack(p, CallbackValue(p)))
        /\ IF CallbackValue(p) < 0 THEN RcvFailed(enable') ELSE RcvDone(p, enable')
    BY <1>6, <2>1 DEF ProcRcvCmd
  <2>3. p \in Packets /\ CallbackValue(p) \in {-1, 1}
    BY <1>0, <2>2, TailIs DEF CallbackValue
  <2>4. Ack(p, CallbackValue(p)) \in Packets /\ Ack(p, CallbackValue(p)).cmd = "ACK"
        /\ Ack(p, CallbackValue(p)).val = CallbackValue(p)
    BY <2>3, AckIs
  <2>5. Token /\ ~Doomed
    BY <1>5, <2>1, <2>2, <2>4
  <2>6. CASE p.cmd # "ACK"
    BY <1>6, <2>1, <2>5, <2>6, TokenRcv
  <2>7. CASE p.cmd = "ACK"
    <3>1. CallbackValue(p) = -1 /\ cst' # "gen" /\ Able
      BY <2>2, <2>7 DEF CallbackValue, RcvFailed, InitDone, Able
    <3>2. ~Good(Ack(p, CallbackValue(p)))
      BY <2>4, <3>1 DEF Good
    <3>3. (Has("REPORT")' <=> Has("REPORT")) /\ (Answered' <=> Answered)
      BY <1>5, <2>1, <2>2, <2>4, <3>2
    <3>4. \A i \in DOMAIN up' : up'[i].cmd = "REPORT" => i \in DOMAIN up /\ up[i].cmd = "REPORT"
      BY <1>5, <2>1, <2>2, <2>4
    <3>5. owed = 1 => \A i \in DOMAIN up' : ~Good(up'[i])
      BY <1>5, <2>1, <2>2, <2>4, <2>5, <3>2 DEF Token
    <3> QED
      BY <2>1, <2>5, <3>1, <3>3, <3>4, <3>5, TokenSame DEF Token
  <2> QED
    BY <2>6, <2>7
<1>7. CASE ProcSendReport
  <2>1. MgrOpen /\ UNCHANGED <<mpc, mcmd, owed>>
    BY <1>7 DEF ProcSendReport, MgrOpen
  <2> DEFINE p == Pkt(ReportCmd(0), cseq)
  <2>2. cst = "gen" /\ cst' = "rpt" /\ up' = Append(up, p)
    BY <1>7, <2>1 DEF ProcSendReport
  <2>3. p \in Packets
    BY <1>0, ConnAssumption DEF TypeOK, Pkt, Packets, ReportCmd, NoCmd
  <2>4. p.cmd = "REPORT" /\ ~Good(p)
    BY DEF Pkt, ReportCmd, Good
  <2> HIDE DEF p
  <2>5. Token /\ Has("REPORT")' /\ (Answered' <=> Answered)
    BY <1>5, <2>1, <2>2, <2>3, <2>4
  <2>6. \A i \in DOMAIN up' : up'[i].cmd = "REPORT" => i = Len(up) + 1
    <3>1. \A i \in DOMAIN up : up[i].cmd # "REPORT"
      BY <2>2, <2>5 DEF Token, Has
    <3> QED
      BY <1>5, <2>1, <2>2, <2>3, <3>1
  <2>7. Due' <=> Due
    BY <2>1, <2>5 DEF Due
  <2>8. owed = 1 => \A i \in DOMAIN up' : ~Good(up'[i])
    BY <1>5, <2>1, <2>2, <2>3, <2>4, <2>5 DEF Token
  <2> QED
    BY <2>1, <2>2, <2>5, <2>6, <2>7, <2>8 DEF Token
<1>8. ASSUME mpc \in {"backlog", "select"}
      PROVE  /\ Token /\ mcmd = NoCmd /\ ~Answered
             /\ \A i \in DOMAIN up : ~Good(up[i])
             /\ owed = 0 => cst # "gen" /\ ~Has("REPORT")
  <2>1. Token /\ mcmd = NoCmd
    BY <1>8 DEF TokenInv, MgrOpen, Doomed, ConnInv, ConfigInv
  <2>2. \A i \in DOMAIN up : ~Good(up[i])
    BY <1>8 DEF ConnInv, UpInv
  <2>3. ~Answered
    BY <2>2 DEF Answered
  <2> QED
    BY <2>1, <2>2, <2>3 DEF Token, Due
<1>9. CASE MgrAccept
  <2>1. mpc = "backlog" /\ mcmd' = NoCmd /\ UNCHANGED <<up, owed, cst>>
    BY <1>9 DEF MgrAccept, procVars
  <2>2. Token /\ mcmd = NoCmd
    BY <1>8, <2>1
  <2> QED
    BY <2>1, <2>2 DEF Token, Due, Answered, Able, Has
<1>10. ASSUME mpc = "select", mpc' = "ack", UNCHANGED cst, up # <<>> \/ up' = up,
              \A i \in DOMAIN up' : ~Good(up'[i])
       PROVE  up' = <<>> /\ ~Answered' /\ ~Has("REPORT")'
  <2>1. up' # <<>> => Head(up') = up'[1] /\ 1 \in DOMAIN up'
    BY TailIs DEF ConnInv, TypeOK
  <2>2. up' = <<>>
    BY <1>10, <2>1 DEF Doomed
  <2> QED
    BY <2>2, FewIs DEF Answered, Has
<1>11. CASE MgrRcvRegister /\ cend
  <2>1. /\ mpc = "select" /\ mpc' = "ack" /\ up # <<>> /\ Head(up).cmd = "REGISTER"
        /\ up' = Tail(up) /\ UNCHANGED <<owed, cst>>
    BY <1>11 DEF MgrRcvRegister, MgrSend, procVars
  <2>2. owed = 0 /\ \A i \in DOMAIN up' : \E j \in DOMAIN up : up'[i] = up[j]
    BY <1>0, <2>1, TailIs DEF ConnInv, UpInv
  <2>3. cst # "gen" /\ \A i \in DOMAIN up' : ~Good(up'[i])
    BY <1>8, <2>1, <2>2
  <2>4. up' = <<>> /\ ~Answered' /\ ~Has("REPORT")'
    BY <1>10, <2>1, <2>3
  <2> QED
    BY <2>1, <2>2, <2>3, <2>4, FewIs DEF Token, Due
<1>12. CASE MgrRcvReport /\ cend
  <2>1. /\ mpc = "select" /\ mcmd' = mcmd /\ up # <<>> /\ Head(up).cmd = "REPORT"
        /\ up' = Tail(up) /\ owed' = owed - 1 /\ UNCHANGED cst
    BY <1>12 DEF MgrRcvReport, procVars
  <2>2. Has("REPORT")
    BY <1>0, <2>1, TailIs DEF Has
  <2>3. Token /\ mcmd = NoCmd /\ owed = 1 /\ cst # "gen"
    BY <1>8, <2>1, <2>2 DEF Token
  <2>4. ~Has("REPORT")' /\ ~Answered' /\ owed' = 0
    BY <1>0, <2>1, <2>3, Reading DEF Answered, NoCmd
  <2> QED
    BY <2>1, <2>3, <2>4 DEF Token, Due, Has
<1>13. CASE MgrRcvOther /\ cend
  <2>1. /\ mpc = "select" /\ UNCHANGED <<mcmd, owed, cst>> /\ up # <<>>
        /\ Head(up).cmd # "REPORT" /\ up' = Tail(up)
    BY <1>13 DEF MgrRcvOther, procVars
  <2>2. Token /\ mcmd = NoCmd /\ ~Answered
    BY <1>8, <2>1
  <2>3. ~Answered'
    BY <2>1, <2>2 DEF Answered, NoCmd
  <2>4. \A i \in DOMAIN up' : ~Good(up'[i])
    BY <1>0, <1>8, <2>1, TailIs
  <2> QED
    BY <1>0, <2>1, <2>2, <2>3, <2>4, Reading, TokenSame DEF Able
<1>14. ASSUME NEW c \in MgrCommands, MgrCommand(c), cend PROVE Token'
  <2>1. mpc = "select" /\ mpc' = "ack" /\ UNCHANGED <<up, owed, cst>>
    BY <1>14 DEF MgrCommand, MgrSend, procVars
  <2>2. Token /\ ~Answered /\ \A i \in DOMAIN up' : ~Good(up'[i])
    BY <1>8, <2>1
  <2>3. up' = <<>> /\ ~Answered' /\ ~Has("REPORT")'
    BY <1>10, <2>1, <2>2
  <2>4. ~Has("REPORT")
    BY <2>1, <2>3 DEF Has
  <2> QED
    BY <2>1, <2>2, <2>3, <2>4, FewIs DEF Token, Due, Able
<1>15. CASE MgrAckOk
  <2>1. /\ mpc = "ack" /\ up # <<>> /\ Good(Head(up)) /\ mcmd \in MgrCommands
        /\ \A i \in DOMAIN Tail(up) : ~Good(Tail(up)[i])
    BY <1>15, AckOkIs DEF ConnInv, ConfigInv, TypeOK, MgrAckOk
  <2>2. Token /\ Head(up).cmd # "REPORT"
    BY <2>1 DEF TokenInv, MgrOpen, Doomed, Good
  <2>3. mcmd.cmd = "REPORT" => Answered
    BY <1>0, <2>1, TailIs DEF Answered
  <2>4. mcmd.cmd # "REPORT" => ~Answered
    BY DEF Answered
  <2>5. up' = Tail(up) /\ cst' = cst
    BY <1>15 DEF MgrAckOk, MgrKilled, MgrOpen, procVars
  <2>6. ~Answered'
    BY <2>1, <2>5 DEF Answered
  <2>7. /\ Has("REPORT")' <=> Has("REPORT")
        /\ \A i, j \in DOMAIN up' : up'[i].cmd = "REPORT" /\ up'[j].cmd = "REPORT" => i = j
    BY <1>0, <2>1, <2>2, <2>5, Reading
  <2>8. owed' = IF mcmd.cmd = "REPORT" THEN owed + 1 ELSE owed
    BY <1>15 DEF MgrAckOk, MgrKilled, MgrOpen
  <2>9. owed = 0
    BY <1>0, <2>1, <2>2, TailIs DEF Token
  <2>10. /\ mcmd.cmd = "REPORT" => owed' = 1 /\ Due
         /\ mcmd.cmd # "REPORT" => owed' = owed /\ (Due <=> owed = 1)
    BY <2>3, <2>4, <2>8, <2>9 DEF Due
  <2>11. (Due' <=> Due) /\ owed' \in {0, 1}
    BY <2>2, <2>6, <2>10 DEF Due, Token
  <2> QED
    BY <2>1, <2>2, <2>5, <2>6, <2>7, <2>11 DEF Token, Able
<1>16. QueryCmd \in MgrCommands /\ \A n \in Owing : ReportCmd(n - 1) \in MgrCommands
  BY DEF MgrCommands
<1>17. MgrRcvRegister \/ MgrRcvReport \/ MgrRcvOther => cend \/ MgrKilled
  BY DEF MgrRcvRegister, MgrRcvReport, MgrRcvOther
<1>18. \A c \in MgrCommands : MgrCommand(c) => cend \/ MgrKilled
  BY DEF MgrCommand
<1> QED
  BY <1>1, <1>3, <1>4, <1>6, <1>7, <1>9, <1>11, <1>12, <1>13, <1>14, <1>15, <1>16, <1>17, <1>18
     DEF Next, ProcStep, MgrStep, EnvStep

LEMMA TokenHolds ==
    ASSUME Owing \subseteq {1}
    PROVE  Spec => [](ConnInv /\ PendInv /\ TokenInv)
<1>1. Init => ConnInv /\ PendInv /\ TokenInv
  <2>1. Init => PendInv /\ TokenInv
    BY DEF Init, PendInv, TokenInv, MgrOpen
  <2> QED
    BY <2>1, InitConn
<1>2. ConnInv /\ PendInv /\ TokenInv /\ [Next]_vars => (ConnInv /\ PendInv /\ TokenInv)'
  BY NextConn, NextPend, NextToken
<1> QED
  BY <1>1, <1>2, PTL DEF Spec

-----------------------------------------------------------------------------
(* The connection as the manager's tables see it                           *)

LEMMA InitLink == Init => Link!Init
BY DEF Init, Link!Init, LinkOf, MgrOpen

LEMMA LinkIs ==
    /\ Unregistered <=> mpc = "backlog" \/ (mpc = "ack" /\ IsConfig(mcmd)) \/ Has("REGISTER")
    /\ LinkOf = "closed" <=> ~MgrOpen \/ mpc = "backlog"
    /\ mpc \in {"select", "ack"} /\ Unregistered => LinkOf = "new"
    /\ mpc \in {"select", "ack"} /\ ~Unregistered /\ owed = 0 => LinkOf = "ready"
    /\ mpc \in {"select", "ack"} /\ ~Unregistered /\ owed = 1 => LinkOf = "owing"
BY DEF Unregistered, Configuring, IsConfig, Has, LinkOf, MgrOpen

LEMMA LinkIsNext ==
    /\ Unregistered' <=>
          mpc' = "backlog" \/ (mpc' = "ack" /\ IsConfig(mcmd')) \/ Has("REGISTER")'
    /\ LinkOf' = "closed" <=> ~MgrOpen' \/ mpc' = "backlog"
    /\ mpc' \in {"select", "ack"} /\ Unregistered' => LinkOf' = "new"
    /\ mpc' \in {"select", "ack"} /\ ~Unregistered' /\ owed' = 0 => LinkOf' = "ready"
    /\ mpc' \in {"select", "ack"} /\ ~Unregistered' /\ owed' = 1 => LinkOf' = "owing"
BY DEF Unregistered, Configuring, IsConfig, Has, LinkOf, MgrOpen

LEMMA LinkSame ==
    ASSUME owed' = owed, Unregistered' <=> Unregistered,
           MgrOpen' /\ mpc' # "backlog" <=> MgrOpen /\ mpc # "backlog"
    PROVE  LinkOf' = LinkOf
BY DEF LinkOf

LEMMA NextLink ==
    ConnInv /\ TokenInv /\ [Next]_vars => Link!Next \/ UNCHANGED LinkOf
<1> SUFFICES ASSUME ConnInv, ConnInv', TokenInv, [Next]_vars
             PROVE  Link!Next \/ UNCHANGED LinkOf
  BY NextConn
<1> USE DEF mgrVars
<1>0. up \in Seq(Packets) /\ TypeOK
  BY DEF ConnInv, TypeOK
<1>1. ASSUME UNCHANGED <<mpc, mcmd, owed>>, Has("REGISTER")' <=> Has("REGISTER")
      PROVE  UNCHANGED LinkOf
  BY <1>1, LinkIs, LinkIsNext, LinkSame DEF MgrOpen
<1>2. ASSUME NEW f \in BOOLEAN, Connect(f) PROVE UNCHANGED LinkOf
  BY <1>2 DEF Connect, LinkOf, MgrOpen
<1>3. CASE \/ ProcAckRead \/ ProcAckEof \/ ProcAckTimeout \/ ProcEof \/ ProcClose \/ ProcExit
           \/ UNCHANGED vars
  <2>1. UNCHANGED <<up, mpc, mcmd, owed>>
    BY <1>3 DEF ProcAckRead, ProcAckEof, ProcAckTimeout, ProcEof, ProcClose, ProcExit, vars
  <2> QED
    BY <1>1, <2>1 DEF Has
<1>4. ASSUME NEW p \in Packets, p.cmd # "REGISTER", up' = Append(up, p)
      PROVE  Has("REGISTER")' <=> Has("REGISTER")
  BY <1>0, <1>4, AppendIs DEF Has
<1>5. CASE ProcSendReport
  <2>1. Pkt(ReportCmd(0), cseq) \in Packets /\ Pkt(ReportCmd(0), cseq).cmd = "REPORT"
    BY <1>0, ConnAssumption DEF TypeOK, Pkt, Packets, ReportCmd, NoCmd
  <2>2. (up' = up \/ up' = Append(up, Pkt(ReportCmd(0), cseq))) /\ UNCHANGED <<mpc, mcmd, owed>>
    BY <1>5 DEF ProcSendReport
  <2>3. Has("REGISTER")' <=> Has("REGISTER")
    BY <1>4, <2>1, <2>2 DEF Has
  <2> QED
    BY <1>1, <2>2, <2>3
<1>6. CASE ProcRcvCmd
  <2> DEFINE a == Ack(Head(down), CallbackValue(Head(down)))
  <2>1. (up' = up \/ up' = Append(up, a)) /\ UNCHANGED <<mpc, mcmd, owed>>
    BY <1>6 DEF ProcRcvCmd
  <2>2. a \in Packets /\ a.cmd = "ACK"
    <3>1. Head(down) \in Packets /\ CallbackValue(Head(down)) \in {-1, 0, 1}
      BY <1>0, <1>6, TailIs DEF ProcRcvCmd, TypeOK, CallbackValue
    <3> QED
      BY <3>1, AckIs
  <2> HIDE DEF a
  <2>3. Has("REGISTER")' <=> Has("REGISTER")
    BY <1>4, <2>1, <2>2 DEF Has
  <2> QED
    BY <1>1, <2>1, <2>3
<1>7. CASE MgrAccept
  <2>1. mpc = "backlog" /\ mpc' = "select" /\ up' = up
    BY <1>7 DEF MgrAccept
  <2>2. Has("REGISTER")'
    BY <2>1 DEF ConnInv, UpInv, Has
  <2> QED
    BY <2>1, <2>2, LinkIs, LinkIsNext DEF Link!Next, Link!Accept
<1>8. ASSUME mpc \in {"select", "ack"}, mpc' \in {"none", "dead"} PROVE Link!Next
  BY <1>8, LinkIs, LinkIsNext DEF Link!Next, Link!Close, MgrOpen
<1>9. CASE \/ MgrEof \/ MgrAckBad \/ MgrAckTimeout
           \/ ((MgrRcvRegister \/ MgrRcvReport \/ MgrRcvOther) /\ ~cend)
           \/ MgrAckOk /\ mcmd.cmd = "SET" /\ ~cend
  BY <1>8, <1>9 DEF MgrEof, MgrAckBad, MgrAckTimeout, MgrRcvRegister, MgrRcvReport, MgrRcvOther,
                    MgrAckOk, MgrKilled, MgrClosed
<1>10. CASE MgrRcvRegister /\ cend
  <2>1. /\ mpc = "select" /\ up # <<>> /\ Head(up).cmd = "REGISTER" /\ mpc' = "ack"
        /\ mcmd' = ConfigCmd(1) /\ owed' = owed
    BY <1>10 DEF MgrRcvRegister, MgrSend
  <2>2. Has("REGISTER") /\ IsConfig(mcmd')
    BY <1>0, <2>1, TailIs, ConfigCmdIs, ConnAssumption DEF Has, ConfigSteps
  <2> QED
    BY <2>1, <2>2, LinkIs, LinkIsNext
<1>11. CASE (MgrRcvReport \/ MgrRcvOther) /\ cend
  <2>1. /\ mpc = "select" /\ up # <<>> /\ Head(up).cmd # "REGISTER" /\ up' = Tail(up)
        /\ UNCHANGED <<mpc, mcmd>>
    BY <1>11 DEF MgrRcvReport, MgrRcvOther
  <2>2. ~Has("REGISTER") /\ ~Has("REGISTER")'
    BY <1>0, <2>1, UpTail DEF ConnInv, Has
  <2>3. CASE MgrRcvReport
    <3>1. Has("REPORT") /\ owed' = owed - 1
      BY <1>0, <1>11, <2>1, <2>3, TailIs DEF MgrRcvReport, Has
    <3>2. ~Answered /\ Token
      BY <2>1 DEF TokenInv, MgrOpen, Doomed, Answered, ConnInv, UpInv
    <3>3. owed = 1 /\ owed' = 0
      BY <3>1, <3>2 DEF Token, Due
    <3> QED
      BY <2>1, <2>2, <3>3, LinkIs, LinkIsNext DEF Link!Next, Link!Deliver
  <2>4. CASE MgrRcvOther
    BY <1>1, <1>11, <2>1, <2>2, <2>4 DEF MgrRcvOther
  <2> QED
    BY <1>11, <2>3, <2>4
<1>12. ASSUME NEW c \in MgrCommands, ~IsConfig(c), MgrCommand(c)
       PROVE  Link!Next \/ UNCHANGED LinkOf
  <2>1. CASE ~cend
    BY <1>8, <1>12, <2>1 DEF MgrCommand, MgrKilled
  <2>2. CASE cend
    <3>1. mpc = "select" /\ mpc' = "ack" /\ mcmd' = c /\ UNCHANGED <<up, owed>>
      BY <1>12, <2>2 DEF MgrCommand, MgrSend
    <3>2. Unregistered' <=> Unregistered
      BY <1>12, <3>1, LinkIs, LinkIsNext DEF Has
    <3> QED
      BY <3>1, <3>2, LinkSame DEF MgrOpen
  <2> QED
    BY <2>1, <2>2
<1>13. CASE MgrAckOk /\ (mcmd.cmd # "SET" \/ cend)
  <2>1. /\ mpc = "ack" /\ up # <<>> /\ Good(Head(up)) /\ mcmd \in MgrCommands
        /\ up' = Tail(up)
        /\ \A i \in DOMAIN Tail(up) : Tail(up)[i].cmd # "REGISTER"
    BY <1>13, AckOkIs DEF ConnInv, ConfigInv, TypeOK, MgrAckOk
  <2>2. ~Has("REGISTER") /\ ~Has("REGISTER")'
    BY <2>1, UpTail DEF ConnInv, Good, Has
  <2>3. CASE mcmd.cmd = "SET"
    <3>1. mpc' = "ack" /\ mcmd' = ConfigCmd(mcmd.arg + 1) /\ owed' = owed
      BY <1>13, <2>3 DEF MgrAckOk
    <3>2. IsConfig(mcmd) /\ IsConfig(mcmd')
      BY <2>1, <2>3, <3>1, NextCmdIs DEF IsConfig
    <3> QED
      BY <2>1, <3>1, <3>2, LinkIs, LinkIsNext
  <2>4. CASE mcmd.cmd = "DONE"
    <3>1. mpc' = "select" /\ owed' = owed
      BY <1>13, <2>4 DEF MgrAckOk
    <3>2. IsConfig(mcmd) /\ owed = 0
      BY <2>4 DEF IsConfig, ConnInv, ConfigInv
    <3> QED
      BY <2>1, <2>2, <3>1, <3>2, LinkIs, LinkIsNext DEF Link!Next, Link!Register
  <2>5. CASE mcmd.cmd \in {"QUERY", "REPORT"}
    <3>1. mpc' = "select" /\ owed' = IF mcmd.cmd = "REPORT" THEN owed + 1 ELSE owed
      BY <1>13, <2>5 DEF MgrAckOk
    <3>2. ~Unregistered /\ ~Unregistered'
      BY <2>1, <2>2, <2>5, <3>1, LinkIs, LinkIsNext DEF IsConfig
    <3>3. CASE mcmd.cmd = "QUERY"
      BY <2>1, <3>1, <3>2, <3>3, LinkSame DEF MgrOpen
    <3>4. CASE mcmd.cmd = "REPORT"
      <4>1. Token /\ Answered
        BY <1>0, <2>1, <3>4, TailIs DEF TokenInv, MgrOpen, Doomed, Answered
      <4>2. owed = 0 /\ owed' = 1
        BY <3>1, <3>4, <4>1 DEF Token, Answered
      <4> QED
        BY <2>1, <3>1, <3>2, <4>2, LinkIs, LinkIsNext DEF Link!Next, Link!AskOk
    <3> QED
      BY <2>5, <3>3, <3>4
  <2>6. mcmd.cmd \in {"SET", "DONE", "QUERY", "REPORT"}
    BY <2>1, CommandIs DEF Words
  <2> QED
    BY <2>3, <2>4, <2>5, <2>6
<1>14. CASE MgrRestart
  BY <1>14 DEF MgrRestart, LinkOf, MgrOpen
<1>15. /\ QueryCmd \in MgrCommands /\ ~IsConfig(QueryCmd)
       /\ \A n \in Owing : ReportCmd(n - 1) \in MgrCommands /\ ~IsConfig(ReportCmd(n - 1))
  BY DEF MgrCommands, IsConfig, QueryCmd, ReportCmd
<1> QED
  BY <1>2, <1>3, <1>5, <1>6, <1>7, <1>9, <1>10, <1>11, <1>12, <1>13, <1>14, <1>15
     DEF Next, ProcStep, MgrStep, EnvStep

(***************************************************************************)
(* The packets implement the report link that the manager's tables are     *)
(* modelled on: a report is only acknowledged by a program that owes none, *)
(* and every REPORT the manager accepts is one that is owed.  This is for  *)
(* report commands of a tag; a command for "the current tag" (-1) is       *)
(* acknowledged and forgotten, and the next one is acknowledged while the  *)
(* first is owed.                                                          *)
(***************************************************************************)
THEOREM LinkImplemented ==
    ASSUME Owing \subseteq {1}
    PROVE  Spec => ImplementsLink
<1>1. Spec => [](ConnInv /\ PendInv /\ TokenInv)
  BY TokenHolds
<1>2. Init => Link!Init
  BY InitLink
<1>3. ConnInv /\ TokenInv /\ [Next]_vars => Link!Next \/ UNCHANGED LinkOf
  BY NextLink
<1> QED
  BY <1>1, <1>2, <1>3, PTL DEF Spec, ImplementsLink, Link!Spec

(***************************************************************************)
(* A command for a CLI is answered only by a program that has executed its *)
(* whole configuration and owes no report; sent to any other it crosses a  *)
(* REGISTER or a REPORT, which mgrSendCmd2 takes for a bad answer.         *)
(***************************************************************************)
THEOREM AnswersOnlyWhenReadyHolds ==
    ASSUME Owing \subseteq {1}
    PROVE  Spec => []AnswersOnlyWhenReady
<1>1. ConnInv /\ TokenInv => AnswersOnlyWhenReady
  <2> SUFFICES ASSUME ConnInv, TokenInv, mpc = "ack", up # <<>>,
                      AckValue(Head(up), mseq) >= 0, mcmd.cmd \in {"REPORT", "QUERY"}
               PROVE  owed = 0 /\ got = ConfigSteps
    BY DEF AnswersOnlyWhenReady
  <2>1. Good(Head(up)) /\ 1 \in DOMAIN up /\ Head(up) = up[1]
    BY TailIs, ConnAssumption DEF AckValue, Good, ConnInv, TypeOK
  <2>2. Token /\ ~Has("REGISTER")
    BY <2>1, DoomedIs DEF TokenInv, MgrOpen, Doomed
  <2>3. owed = 0
    BY <2>1, <2>2 DEF Token
  <2>4. got = ConfigSteps
    BY <2>2 DEF ConnInv, ConfigInv, IsConfig
  <2> QED
    BY <2>3, <2>4
<1>2. Spec => [](ConnInv /\ PendInv /\ TokenInv)
  BY TokenHolds
<1> QED
  BY <1>1, <1>2, PTL
=============================================================================
