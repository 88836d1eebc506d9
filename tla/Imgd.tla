--------------------------------- MODULE Imgd ---------------------------------
(***************************************************************************)
(* The image server: one process, one tftp socket for all hosts, one       *)
(* configuration file that its user edits and that it writes itself.       *)
(*                                                                         *)
(* A read request makes it remember the host's file and answer with the    *)
(* options (OACK).  Any acknowledgement that arrives while it is idle is   *)
(* taken for the one of the options: the whole file is then sent from a    *)
(* loop that reads the same socket, takes the bytes 2 and 3 of whatever    *)
(* comes for the number of the chunk acknowledged, and answers whoever     *)
(* sent it.  After an initrd it clears the host's Serve flag, in the       *)
(* configuration it read when it started, and saves that.                  *)
(*                                                                         *)
(* The hosts' boot ROMs are external: RFC 1350 and 2347 clients, with time *)
(* outs and power cycles, which send as often as they like.  The network   *)
(* loses messages and delays them; it keeps the order of those one host    *)
(* sends.                                                                  *)
(***************************************************************************)
EXTENDS Integers, Sequences

CONSTANTS
    Hosts,      \* machines that boot from the network
    Known,      \* those that the configuration lists
    Plain,      \* those that take data for an answer to a request with options
    Wanted,     \* the files a boot asks for, in order; the last is the initrd
    Missing,    \* those of them that the image does not have
    Chunks,     \* chunks of a file, the last one short
    FirstTwo,   \* the number that the first two bytes of a file's name make
    Codes,      \* the numbers of tftp's errors
    Others,     \* the numbers that other machines' messages read as
    MaxRetries, \* timeouts after which a transfer is abandoned (10)
    MaxBoots,   \* power cycles (bound)
    MaxEdits,   \* edits of the configuration (bound)
    Cap,        \* messages that the server's socket holds (bound)
    Flight      \* messages that are on their way to a host (bound)

Numbers == 0..Chunks
NoFile == "no file"
Idle   == [host |-> "none"]
Initrd == Wanted[Len(Wanted)]
Files  == {Wanted[i] : i \in 1..Len(Wanted)}

ASSUME ImgdAssumption ==
    /\ Known \subseteq Hosts /\ Plain \subseteq Hosts /\ "none" \notin Hosts
    /\ Wanted \in Seq(Files) /\ Wanted # <<>>
    /\ Chunks \in Nat \ {0} /\ {Cap, Flight} \subseteq Nat \ {0}
    /\ FirstTwo \in [Files -> Nat] /\ Codes \cup Others \subseteq Nat
    /\ {MaxRetries, MaxBoots, MaxEdits} \subseteq Nat
    /\ NoFile \notin Files /\ Initrd \notin Missing

VARIABLES
    conf,       \* the configuration file
    cfg,        \* the configuration as it was read when the servers started
    Serve, xid, \* the host table made of it; whose DHCP exchange is under way
    fileName,   \* the file each host asked for last
    iso,        \* the hosts whose image was found when they last asked
    changed,    \* the file monitor has something to report
    busy,       \* the transfer under way
    inbox,      \* the tftp socket's buffer
    wire,       \* what is on its way to each host
    client,     \* the boot ROMs
    boots, edits,
    has         \* (history) hosts that received their initrd whole since the servers
                \* were started

config  == <<conf, cfg, changed>>
table   == <<Serve, xid, fileName, iso>>
network == <<inbox, wire>>
bounds  == <<boots, edits>>
vars    == <<config, table, busy, network, client, bounds, has>>

Off(port) == [phase |-> "off", at |-> 0, port |-> port, got |-> <<>>]

Init ==
    /\ conf = [Serve |-> [h \in Known |-> TRUE], edit |-> 0]
    /\ cfg = conf /\ changed = FALSE
    /\ Serve = conf.Serve
    /\ xid = {} /\ fileName = [h \in Known |-> NoFile] /\ iso = {}
    /\ busy = Idle
    /\ inbox = <<>> /\ wire = [h \in Hosts |-> <<>>]
    /\ client = [h \in Hosts |-> Off(0)]
    /\ boots = 0 /\ edits = 0 /\ has = {}

-----------------------------------------------------------------------------
(* Messages                                                                *)

\* What one more message makes of a buffer: it arrives, or is lost.
Sent(buffer, m, room) ==
    {buffer} \cup IF Len(buffer) < room THEN {Append(buffer, m)} ELSE {}

ToServer(h, op, what) ==
    inbox' \in Sent(inbox, [op |-> op, what |-> what,
                            from |-> [host |-> h, port |-> client'[h].port]], Cap)

ToHost(addr, kind, data) ==
    \E w \in Sent(wire[addr.host], [kind |-> kind, data |-> data, port |-> addr.port], Flight) :
        wire' = [wire EXCEPT ![addr.host] = w]

\* A chunk: of whose file, and which.
Chunk(h, f, n) == [of |-> h, file |-> f, num |-> n]
NoChunk        == [of |-> "none", file |-> NoFile, num |-> 0]

-----------------------------------------------------------------------------
(* A boot ROM                                                              *)

Become(h, changes) == client' = [client EXCEPT ![h] = changes]

\* A DHCP exchange, with the server between two tftp messages.  A boot ROM that asks
\* for the name of the boot file is answered while the host is to be served; one that
\* does not ask has an address.
Discover(h) ==
    /\ busy = Idle /\ h \in Known /\ client[h].phase = "off"
    /\ xid' = xid \cup {h}
    /\ iso' = IF Serve[h] THEN iso \cup {h} ELSE iso \ {h}
    /\ \E p \in {"off"} \cup {x \in {"offered"} : Serve[h]} :
          Become(h, [client[h] EXCEPT !.phase = p])
    /\ UNCHANGED <<config, Serve, fileName, busy, network, bounds, has>>

Request(h) ==
    /\ busy = Idle /\ h \in Known /\ client[h].phase = "offered" /\ Serve[h]
    /\ h \in xid
    /\ Become(h, [client[h] EXCEPT !.phase = "next"])
    /\ UNCHANGED <<config, table, busy, network, bounds, has>>

\* A machine that the configuration does not list sends what it likes: to the server it is
\* a number at most.
Stray(h) ==
    /\ h \notin Known
    /\ UNCHANGED client
    /\ \E n \in Others : ToServer(h, "ack", n)
    /\ UNCHANGED <<config, table, busy, wire, bounds, has>>

\* The next file of the boot is asked for, from a port of its own.
Ask(h) ==
    LET c == client[h] IN
    /\ c.phase = "next"
    /\ Become(h, [phase |-> "asking", at |-> c.at + 1, port |-> c.port + 1, got |-> <<>>])
    /\ ToServer(h, "rrq", Wanted[c.at + 1])
    /\ UNCHANGED <<config, table, busy, wire, bounds, has>>

Expected(c) == Len(c.got) + 1

\* What a client makes something of: the chunk it waits for, the last one again,
\* the options, an error.
Due(h, m)      == /\ m.kind = "data" /\ m.data.num = Expected(client[h])
                  /\ \/ client[h].phase = "getting"
                     \/ client[h].phase = "asking" /\ h \in Plain
Repeated(h, m) == /\ m.kind = "data" /\ m.data.num = Expected(client[h]) - 1
                  /\ client[h].phase = "getting"
Reply(h, m)    == m.kind \in {"oack", "error"} /\ client[h].phase = "asking"

Understood(h, m) == /\ m.port = client[h].port
                    /\ Due(h, m) \/ Repeated(h, m) \/ Reply(h, m)

Accept(h, m) ==
    LET c    == client[h]
        got  == Append(c.got, m.data)
        last == m.data.num = Chunks IN
    /\ Due(h, m)
    /\ Become(h, [c EXCEPT !.got = got,
                           !.phase = IF ~last THEN "getting"
                                     ELSE IF c.at = Len(Wanted) THEN "booted" ELSE "next"])
    /\ has' = IF last /\ got = [n \in 1..Chunks |-> Chunk(h, Initrd, n)]
              THEN has \cup {h} ELSE has
    /\ ToServer(h, "ack", m.data.num)

AcceptAgain(h, m) ==
    /\ Repeated(h, m)
    /\ UNCHANGED <<client, has>>
    /\ ToServer(h, "ack", m.data.num)

AcceptOptions(h, m) ==
    /\ Reply(h, m) /\ m.kind = "oack"
    /\ Become(h, [client[h] EXCEPT !.phase = "getting"])
    /\ has' = has
    /\ ToServer(h, "ack", 0)

\* The file is not there: the client goes on without it.
DoWithout(h, m) ==
    /\ Reply(h, m) /\ m.kind = "error"
    /\ Become(h, [client[h] EXCEPT !.phase = "next"])
    /\ UNCHANGED <<inbox, has>>

Receive(h) ==
    LET m == Head(wire[h]) IN
    /\ wire[h] # <<>>
    /\ wire' = [wire EXCEPT ![h] = Tail(@)]
    /\ \/ /\ Understood(h, m)
          /\ \/ Accept(h, m)        \/ AcceptAgain(h, m)
             \/ AcceptOptions(h, m) \/ DoWithout(h, m)
       \/ /\ ~Understood(h, m)
          /\ UNCHANGED <<client, inbox, has>>
    /\ UNCHANGED <<config, table, busy, bounds>>

\* Nothing came: what was sent last is sent again.
Again(h) ==
    LET c == client[h] IN
    /\ UNCHANGED client
    /\ \/ c.phase = "asking"  /\ ToServer(h, "rrq", Wanted[c.at])
       \/ c.phase = "getting" /\ ToServer(h, "ack", Expected(c) - 1)
    /\ UNCHANGED <<config, table, busy, wire, bounds, has>>

\* Power off and on, for whatever reason; a boot ROM that its user stops says so.  The
\* next DHCP exchange has another xid.
PowerCycle(h) ==
    /\ client[h].phase # "off" /\ boots < MaxBoots
    /\ boots' = boots + 1
    /\ Become(h, Off(client[h].port))
    /\ xid' = xid \ {h}
    /\ inbox' = inbox \/ \E code \in Codes : ToServer(h, "error", code)
    /\ UNCHANGED <<config, Serve, fileName, iso, busy, wire, edits, has>>

-----------------------------------------------------------------------------
(* The tftp server                                                         *)

Read == inbox # <<>> /\ inbox' = Tail(inbox)

\* Sends chunk n of a transfer; the answer will come, if it does, from "to".
SendChunk(t, n, retries, to) ==
    /\ busy' = [t EXCEPT !.index = n, !.retries = retries, !.to = to]
    /\ ToHost(to, "data", Chunk(t.host, t.file, n))

\* handleMsg: the message of a host that is not in the table, or that it makes nothing of.
Unknown ==
    /\ busy = Idle /\ Read
    /\ Head(inbox).from.host \notin Known \/ Head(inbox).op = "error"
    /\ UNCHANGED <<config, table, busy, wire, client, bounds, has>>

\* No part of the specification: the file stays the one asked for first.
ReadRequestKeeps ==
    LET m == Head(inbox)
        h == m.from.host IN
    /\ busy = Idle /\ Read /\ h \in Known /\ m.op = "rrq"
    /\ \/ /\ iso' = iso \cup {h}
          /\ fileName' = [fileName EXCEPT ![h] = IF m.what \in Missing THEN NoFile
                                                 ELSE IF @ = NoFile THEN m.what ELSE @]
          /\ ToHost(m.from, IF m.what \in Missing THEN "error" ELSE "oack", NoChunk)
       \/ iso' = iso \ {h} /\ UNCHANGED <<fileName, wire>>
    /\ UNCHANGED <<config, Serve, xid, busy, client, bounds, has>>

\* The image is looked for; without it there is no answer, and the file stays what it was.
ReadRequest ==
    LET m == Head(inbox)
        h == m.from.host IN
    /\ busy = Idle /\ Read /\ h \in Known /\ m.op = "rrq"
    /\ \/ /\ iso' = iso \cup {h}
          /\ fileName' = [fileName EXCEPT ![h] = IF m.what \in Missing THEN NoFile ELSE m.what]
          /\ ToHost(m.from, IF m.what \in Missing THEN "error" ELSE "oack", NoChunk)
       \/ iso' = iso \ {h} /\ UNCHANGED <<fileName, wire>>
    /\ UNCHANGED <<config, Serve, xid, busy, client, bounds, has>>

\* An acknowledgement, whatever its number: the transfer of the host's file starts.
OptAck ==
    LET m == Head(inbox)
        h == m.from.host
        t == [host |-> h, file |-> fileName[h], index |-> 1, retries |-> 0, to |-> m.from] IN
    /\ busy = Idle /\ Read /\ h \in Known /\ m.op = "ack"
    /\ IF fileName[h] = NoFile THEN UNCHANGED <<busy, wire>> ELSE SendChunk(t, 1, 0, m.from)
    /\ UNCHANGED <<config, table, client, bounds, has>>

\* The file was sent: after an initrd the host is not served any more, in the
\* configuration that was read at the start, which replaces the file's.
Done(t) ==
    /\ busy' = Idle /\ wire' = wire
    /\ IF t.file = Initrd
       THEN /\ cfg' = [cfg EXCEPT !.Serve[t.host] = FALSE]
            /\ conf' = cfg' /\ changed' = TRUE
       ELSE UNCHANGED config

\* No part of the specification: any acknowledgement will do.
AnswersAny(t, m) == TRUE

\* What bytes 2 and 3 of a message, of whatever kind, read as.
Number(m) == IF m.op = "rrq" THEN FirstTwo[m.what] ELSE m.what

Answers(t, m) == Number(m) = t.index

\* Any message is the answer to the chunk sent last.
Answer ==
    LET m == Head(inbox)
        t == busy IN
    /\ busy # Idle /\ Read
    /\ \/ /\ Answers(t, m) /\ t.index = Chunks /\ t.host \in iso
          /\ Done(t)
       \/ /\ Answers(t, m) /\ t.index < Chunks
          /\ SendChunk(t, t.index + 1, 0, m.from)
          /\ UNCHANGED config
       \/ /\ ~Answers(t, m)
          /\ SendChunk(t, t.index, t.retries, m.from)
          /\ UNCHANGED config
    /\ UNCHANGED <<table, client, bounds, has>>

\* No part of the specification: one timeout too many.
TimeoutLate ==
    LET t == busy IN
    /\ busy # Idle /\ inbox = <<>>
    /\ IF t.retries > MaxRetries
       THEN busy' = Idle /\ wire' = wire
       ELSE SendChunk(t, t.index, t.retries + 1, t.to)
    /\ UNCHANGED <<config, table, inbox, client, bounds, has>>

\* No part of the specification: the timeouts are not counted.
TimeoutForever ==
    LET t == busy IN
    /\ busy # Idle /\ inbox = <<>>
    /\ SendChunk(t, t.index, t.retries, t.to)
    /\ UNCHANGED <<config, table, inbox, client, bounds, has>>

\* Half a second without one.
Timeout ==
    LET t == busy IN
    /\ busy # Idle /\ inbox = <<>>
    /\ IF t.retries + 1 > MaxRetries
       THEN busy' = Idle /\ wire' = wire
       ELSE SendChunk(t, t.index, t.retries + 1, t.to)
    /\ UNCHANGED <<config, table, inbox, client, bounds, has>>

-----------------------------------------------------------------------------
(* The configuration                                                       *)

UserSet ==
    /\ edits < MaxEdits
    /\ edits' = edits + 1
    /\ \E h \in Known, b \in BOOLEAN :
          conf' = [conf EXCEPT !.Serve[h] = b, !.edit = edits + 1]
    /\ changed' = TRUE
    /\ UNCHANGED <<cfg, table, busy, network, client, boots, has>>

\* New servers are made from the file.
Started ==
    /\ changed' = FALSE /\ cfg' = conf /\ Serve' = conf.Serve
    /\ xid' = {} /\ fileName' = [h \in Known |-> NoFile] /\ iso' = {}
    /\ busy' = Idle /\ inbox' = <<>> /\ has' = {}
    /\ UNCHANGED <<conf, wire, client, bounds>>

\* The monitor ends their loop.
Reload == busy = Idle /\ changed /\ Started

\* The program dies of an image that is not there, and is started again later: one step,
\* because what is sent to it in between is lost.  It is not there at a DHCP message of a
\* host that is to be served,
NoImage(h) == busy = Idle /\ h \in Known /\ client[h].phase = "off" /\ Serve[h] /\ Started

\* or at the end of a transfer, if it was not at a later request.
DoneWithout ==
    /\ busy # Idle /\ inbox # <<>> /\ busy.index = Chunks /\ busy.host \notin iso
    /\ Answers(busy, Head(inbox))
    /\ Started

-----------------------------------------------------------------------------
Machine(h) == \/ Discover(h) \/ Request(h) \/ NoImage(h) \/ Stray(h) \/ Ask(h)
              \/ Receive(h) \/ Again(h) \/ PowerCycle(h)
Server     == Unknown \/ ReadRequest \/ OptAck \/ Answer \/ DoneWithout \/ Timeout
Next       == (\E h \in Hosts : Machine(h)) \/ Server \/ UserSet \/ Reload

Spec     == Init /\ [][Next]_vars

\* The server's loop does not stop between two messages; it is not stopped either
\* by machines that do nothing.
FairSpec == Spec /\ WF_vars(Server)

-----------------------------------------------------------------------------
Address == [host : Hosts, port : Nat]
ChunkOf == [of : Hosts, file : Files, num : 1..Chunks]

\* Type invariant: files, tables, messages and clients keep their types; the server
\* gives up after MaxRetries timeouts.
TypeOK ==
    /\ {conf, cfg} \subseteq [Serve : [Known -> BOOLEAN], edit : 0..MaxEdits]
    /\ changed \in BOOLEAN
    /\ Serve \in [Known -> BOOLEAN] /\ xid \subseteq Known
    /\ fileName \in [Known -> Files \cup {NoFile}] /\ iso \subseteq Known
    /\ \/ busy = Idle
       \/ busy \in [host : Known, file : Files, index : 1..Chunks,
                    retries : 0..MaxRetries, to : Address]
    /\ inbox \in Seq([op : {"rrq"}, what : Files, from : Address]
                     \cup [op : {"ack"}, what : Numbers \cup Others, from : Address]
                     \cup [op : {"error"}, what : Codes, from : Address])
    /\ wire \in [Hosts -> Seq([kind : {"oack", "error", "data"}, port : Nat,
                               data : ChunkOf \cup {NoChunk}])]
    /\ client \in [Hosts -> [phase : {"off", "offered", "next", "asking", "getting", "booted"},
                             at : 0..Len(Wanted), port : Nat, got : Seq(ChunkOf)]]
    /\ boots \in 0..MaxBoots /\ edits \in 0..MaxEdits
    /\ has \subseteq Known

\* What a host has received of the file it asked for is that file, from its first
\* chunk on, and is its own image's: no chunk of another file, or of another
\* host's, is taken for one of it, whatever is sent again or comes late
\* (tftpd.py, handleMsg; "we may get stray OptAcks... bail out if so").
RightFile ==
    \A h \in Hosts : LET c == client[h] IN
        \A k \in 1..Len(c.got) : c.got[k] = Chunk(h, Wanted[c.at], k)

\* The server sends a host's file to that host (imgd: "fork a thread for each
\* tftp transfers").
DataGoesToRequester ==
    \A h \in Hosts : \A k \in 1..Len(wire[h]) :
        wire[h][k].kind = "data" => wire[h][k].data.of = h

\* When the server takes back a host's flag because of an acknowledgement of that host,
\* the host has received its whole initrd since the servers were started: one that was cut
\* off is served again, at every installation (dhcpd.py, handleMsg: "Serve will become
\* False after tftp file has been served"; tftpd.py, the end of handleMsg).
ServedMeansWhole ==
    [][\A h \in Known : (conf.Serve[h] /\ ~conf'.Serve[h] /\ edits' = edits) =>
          LET m == Head(inbox) IN m.op = "ack" /\ m.from.host = h => h \in has]_vars

\* The same, whatever it was that made the server do so.
ServedOnlyWhole ==
    [][\A h \in Known : (conf.Serve[h] /\ ~conf'.Serve[h] /\ edits' = edits) => h \in has]_vars

\* A host that has its whole initrd is not served again: once the server is
\* done with it and has read all that was sent, its flag is off (dhcpd.py,
\* handleMsg: "Serve will become False after tftp file has been served").
ServeBecomesFalse ==
    (busy = Idle /\ inbox = <<>> /\ edits = 0)
        => \A h \in has : conf.Serve[h] => client[h].phase # "booted"

\* What the user saved in the configuration is still in it after the server
\* saved its own (settings, set and setServe; tftpd.py, the end of handleMsg).
EditsAreKept == conf.edit = edits

\* A message that is not the answer to the chunk sent last: it uses up no retry.
Disturbed == busy # Idle /\ inbox # <<>> /\ ~Answers(busy, Head(inbox))

\* The server, which serves nobody else meanwhile, comes to the end of every transfer, by
\* success or by the limit on its retries, unless messages that are no answer never stop
\* coming (tftpd.py, handleMsg).
TransferEnds == (busy # Idle) ~> (busy = Idle \/ Disturbed)

\* The same, whatever comes.
TransferAlwaysEnds == (busy # Idle) ~> (busy = Idle)
=============================================================================
