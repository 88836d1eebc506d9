---------------------------- MODULE Imgd_proofs --------------------------
(***************************************************************************)
(* Proofs about the image server: its installation images (IsoPool), for   *)
(* any hosts, handlers and uploads, and its answers to the boot ROMs       *)
(* (Imgd), for any hosts, files, chunks and timeouts.                      *)
(*                                                                         *)
(* Nothing but the mount table tells use() what an earlier call did; the   *)
(* invariant of IsoPool says what it may conclude from it, until a command *)
(* fails.                                                                  *)
(*                                                                         *)
(* The invariant of Imgd has two halves. ImgdInv holds for any hosts:      *)
(* whatever is under way was sent from a port that its host has used, and  *)
(* what comes from the port in use is about the file it waits for. HostInv *)
(* is about a host that is alone in the configuration: its messages are    *)
(* read in order (InOrder); once its options are sent, the server has      *)
(* nothing but its file in mind (Tuned), so that the data that come after  *)
(* them are of that file (Follow), and the last acknowledgement of an      *)
(* initrd means that the host has it (Whole).                              *)
(***************************************************************************)
EXTENDS IsoPool, Imgd, TLAPS

-----------------------------------------------------------------------------
(* IsoPool: the invariant                                                  *)

Nothing == mounts = <<>>
Once    == \E r : mounts = <<r>>

\* While use() replaces an image there is nothing mounted; it is mounted once
\* from then on, and handed out when it is exported.
Placed ==
    /\ pc \in {"copy", "copying", "mount"} => Nothing
    /\ pc \in {"unexport", "umount", "export"} => Once
    /\ pc = "test" => Once /\ exported
    /\ pc \in {"idle", "use", "next"} => Nothing \/ (Once /\ exported)
    /\ pc \notin {"undo", "remove"}

\* The times of files are past.
Times == /\ clock \in Nat
         /\ pool.ctime \in Nat /\ pool.ctime <= clock
         /\ copy.ctime \in Nat /\ copy.ctime <= clock
         /\ cp.at \in Nat /\ cp.at <= clock
         /\ copy # NoCopy => cp.at <= copy.ctime

\* What is mounted is the copy.
OfCopy == \A r : mounts = <<r>> => copy # NoCopy /\ r.ver = copy.ver /\ r.whole = copy.whole

\* When the upload ended before cp began, it is that upload which cp has opened, and what it
\* has made when it ends; whoever mounts it or finds it mounted has that.
LaterIsWhole ==
    /\ pc = "copying" /\ pool.whole /\ cp.at > pool.ctime => pool = cp.of
    /\ pool.whole /\ cp.at > pool.ctime /\ copy # NoCopy /\ (pc = "mount" \/ mounts # <<>>)
          => copy.ver = pool.ver /\ copy.whole

PoolInv == Times /\ (~upset => Placed /\ OfCopy /\ LaterIsWhole)

-----------------------------------------------------------------------------
(* IsoPool: sequences of at most one element                               *)

LEMMA OneElement ==
    ASSUME NEW r
    PROVE  /\ Len(<<r>>) = 1 /\ <<r>>[1] = r /\ <<r>> # <<>>
           /\ SubSeq(<<r>>, 1, Len(<<r>>) - 1) = <<>>
           /\ Append(<<>>, r) = <<r>>
OBVIOUS

LEMMA OneIsThat == \A r, q : <<r>> = <<q>> => r = q
OBVIOUS

\* Nothing is mounted from the copy when nothing is mounted.
LEMMA WrittenNothing == \A c : Nothing => Written(c) = <<>>
BY DEF Nothing, Written

-----------------------------------------------------------------------------
LEMMA InitPool == PoolInit => PoolInv
BY DEF PoolInit, PoolInv, Times, Placed, OfCopy, LaterIsWhole, Nothing, Once, Image, NoCopy

\* An upset is not forgotten.
LEMMA UpsetStays == [PoolNext]_poolVars /\ upset => upset'
BY DEF PoolNext, poolVars, disk, server, Tick, Upload, Uploaded, Killed, Reboot, AskFor, Use, Unexport,
       Umount, UmountOr, CopyStart, CopyEnd, CopyTo, Copied, Mount, Export, Undo, Remove, Test, NextHandler, NoHandler,
       Succeeds, Breaks

\* The clock goes on and files get the present time.
LEMMA NextTimes == Times /\ [PoolNext]_poolVars => Times'
BY DEF Times, PoolNext, poolVars, disk, server, Tick, Upload, Uploaded, Killed, Reboot, AskFor, Use,
       Unexport, Umount, UmountOr, CopyStart, CopyEnd, CopyTo, Copied, Mount, Export, Undo, Remove, Test, NextHandler,
       NoHandler, NoHost, Go, Image, NoCopy

\* Until an upset, every step keeps what use() concludes from the mount table.
LEMMA NextPlaced == Placed /\ [PoolNext]_poolVars /\ ~upset' => Placed'
<1> SUFFICES ASSUME Placed, [PoolNext]_poolVars, ~upset' PROVE Placed'
  OBVIOUS
<1> USE DEF Placed
<1>1. CASE Tick \/ Upload \/ Uploaded \/ UNCHANGED poolVars
  BY <1>1 DEF Tick, Upload, Uploaded, poolVars, disk, server, Nothing, Once
<1>2. CASE Killed \/ Reboot
  BY <1>2 DEF Killed, Reboot, NoHost, disk, Nothing, Once
<1>3. CASE \E h \in Installers : AskFor(h)
  BY <1>3 DEF AskFor, disk, Nothing, Once
<1>4. CASE Use
  <2>1. Nothing <=> mounts = <<>>
    BY DEF Nothing
  <2> QED BY <1>4, <2>1 DEF Use, Go, disk, Nothing, Once
<1>5. CASE Unexport
  BY <1>5 DEF Unexport, Go, Once
<1>6. CASE Umount
  <2>1. mounts' = SubSeq(mounts, 1, Len(mounts) - 1) /\ pc' = "copy" /\ Once
    BY <1>6, UpsetStays DEF Umount, UmountOr, Breaks, Go
  <2>2. mounts' = <<>>
    BY <2>1, OneElement DEF Once
  <2> QED BY <2>1, <2>2 DEF Nothing
<1>7. CASE CopyStart \/ CopyEnd
  <2>1. mounts' = <<>> /\ pc' \in {"copying", "mount"}
    BY <1>7, WrittenNothing DEF CopyStart, CopyEnd, CopyTo, Go, Nothing, Breaks
  <2> QED BY <2>1 DEF Nothing
<1>8. CASE Mount
  <2>1. ASSUME NEW r, mounts' = Append(mounts, r), pc' = "export" PROVE Once'
    BY <1>8, <2>1, OneElement DEF Mount, Nothing, Once
  <2> QED BY <1>8, <2>1 DEF Mount, Go, Nothing
<1>9. CASE Export
  BY <1>9 DEF Export, Go, Breaks, Once
<1>10. CASE Undo \/ Remove
  BY <1>10 DEF Undo, Remove
<1>11. CASE Test
  BY <1>11 DEF Test, disk, Nothing, Once
<1>12. CASE NextHandler \/ NoHandler
  BY <1>12 DEF NextHandler, NoHandler, NoHost, disk, Nothing, Once
<1> QED BY <1>1, <1>2, <1>3, <1>4, <1>5, <1>6, <1>7, <1>8, <1>9, <1>10, <1>11, <1>12 DEF PoolNext

\* Until an upset, what is mounted is the copy.
LEMMA NextOfCopy == Placed /\ OfCopy /\ [PoolNext]_poolVars /\ ~upset' => OfCopy'
<1> SUFFICES ASSUME Placed, OfCopy, [PoolNext]_poolVars, ~upset' PROVE OfCopy'
  OBVIOUS
<1>1. CASE UNCHANGED <<mounts, copy>>
  BY <1>1 DEF OfCopy
<1>2. CASE mounts' = <<>>
  BY <1>2, OneElement DEF OfCopy
<1>3. CASE Umount
  <2>1. mounts' = SubSeq(mounts, 1, Len(mounts) - 1) /\ Once
    BY <1>3, UpsetStays DEF Umount, UmountOr, Breaks, Placed
  <2> QED BY <2>1, <1>2, OneElement DEF Once
<1>4. CASE CopyStart \/ CopyEnd
  BY <1>4, <1>1, <1>2, WrittenNothing DEF CopyStart, CopyEnd, CopyTo, Placed, Nothing
<1>5. CASE Mount
  <2>1. CASE UNCHANGED mounts
    BY <1>5, <2>1, <1>1 DEF Mount
  <2>2. CASE mounts' # mounts
    <3> DEFINE r == [ver |-> copy.ver, kind |-> copy.kind, whole |-> copy.whole, linked |-> TRUE]
    <3>1. copy # NoCopy /\ mounts' = Append(mounts, r) /\ mounts = <<>> /\ UNCHANGED copy
      BY <1>5, <2>2 DEF Mount, Placed, Nothing
    <3>2. mounts' = <<r>>
      BY <3>1, OneElement
    <3>3. \A q : mounts' = <<q>> => q = r
      BY <3>2, OneIsThat
    <3> QED BY <3>1, <3>3 DEF OfCopy
  <2> QED BY <2>1, <2>2
<1>6. CASE Undo \/ Remove
  BY <1>6 DEF Undo, Remove, Placed
<1> QED BY <1>1, <1>2, <1>3, <1>4, <1>5, <1>6 DEF PoolNext, poolVars, disk, Tick, Upload, Uploaded, Killed,
           Reboot, AskFor, Use, Unexport, Export, Test, NextHandler, NoHandler

\* Until an upset, a copy begun later than the upload's end is of the upload.
LEMMA NextLater ==
    Times /\ Placed /\ OfCopy /\ LaterIsWhole /\ [PoolNext]_poolVars /\ ~upset' => LaterIsWhole'
<1> SUFFICES ASSUME Times, Placed, OfCopy, LaterIsWhole, [PoolNext]_poolVars, ~upset'
             PROVE  LaterIsWhole'
  OBVIOUS
<1>1. CASE /\ UNCHANGED <<pool, copy, cp>> /\ pc' \notin {"copying", "mount"}
           /\ mounts' # <<>> => mounts # <<>>
  BY <1>1 DEF LaterIsWhole
<1>2. CASE Tick \/ UNCHANGED poolVars
  BY <1>2 DEF Tick, poolVars, disk, server, LaterIsWhole
<1>3. CASE Upload
  BY <1>3 DEF Upload, LaterIsWhole, Image
<1>4. CASE Uploaded
  BY <1>4 DEF Uploaded, LaterIsWhole, Image, Times
<1>5. CASE CopyStart
  <2>1. pc' = "copying" /\ cp'.of = pool /\ pool' = pool /\ mounts' = <<>>
    <3>1. Nothing /\ ~Breaks
      BY <1>5 DEF CopyStart, Breaks, Placed
    <3>2. /\ cp' = [of |-> pool, at |-> clock] /\ pool' = pool /\ pc' = "copying"
          /\ \E c : mounts' = Written(c)
      BY <1>5, <3>1 DEF CopyStart, CopyTo, Go
    <3> QED BY <3>1, <3>2, WrittenNothing
  <2> QED BY <2>1 DEF LaterIsWhole
<1>6. CASE CopyEnd
  <2>0. UNCHANGED <<pool, cp>> /\ pc' = "mount" /\ pc = "copying"
    BY <1>6 DEF CopyEnd, Go
  <2>4. \E c \in Copied : CopyTo(c)
    <3>1. ~Breaks
      BY DEF Breaks
    <3> QED BY <1>6, <3>1, Zenon DEF CopyEnd
  <2>1. PICK c \in Copied : copy' = c /\ UNCHANGED <<pool, cp>> /\ pc' = "mount" /\ pc = "copying"
    BY <2>0, <2>4 DEF CopyTo
  <2>2. ASSUME pool.whole, cp.at > pool.ctime PROVE copy'.ver = pool.ver /\ copy'.whole
    <3>1. pool = cp.of
      BY <2>1, <2>2 DEF LaterIsWhole
    <3>2. c = Image(pool.ver, pool.kind, pool.whole)
      BY <2>1, <3>1 DEF Copied
    <3> QED BY <2>1, <2>2, <3>2 DEF Image
  <2>3. pool' = pool /\ cp' = cp /\ pc' = "mount"
    BY <2>1
  <2> QED BY <2>2, <2>3 DEF LaterIsWhole
<1>7. CASE Mount
  BY <1>7 DEF Mount, Go, LaterIsWhole
<1>8. CASE Undo \/ Remove
  BY <1>8 DEF Undo, Remove, Placed
<1>9. CASE Umount
  <2>1. Once /\ UNCHANGED <<pool, copy, cp>> /\ pc' = "copy"
    BY <1>9, UpsetStays DEF Umount, Placed, Go
  <2> QED BY <2>1, <1>1 DEF Once
<1>10. CASE Killed \/ Reboot
  BY <1>10, <1>1 DEF Killed, Reboot, NoHost, disk
<1>11. CASE Use
  BY <1>11, <1>1 DEF Use, Go, disk
<1>12. CASE Unexport \/ Export
  BY <1>12, <1>1 DEF Unexport, Export, Go
<1>13. CASE Test \/ NextHandler \/ NoHandler \/ \E h \in Installers : AskFor(h)
  BY <1>13, <1>1 DEF Test, NextHandler, NoHandler, NoHost, AskFor, disk
<1> QED BY <1>2, <1>3, <1>4, <1>5, <1>6, <1>7, <1>8, <1>9, <1>10, <1>11, <1>12, <1>13 DEF PoolNext

LEMMA NextPool == PoolInv /\ [PoolNext]_poolVars => PoolInv'
BY UpsetStays, NextTimes, NextPlaced, NextOfCopy, NextLater DEF PoolInv

-----------------------------------------------------------------------------
(***************************************************************************)
(* Until a command fails, a handler looks at an image that is mounted      *)
(* once and exported, for any number of hosts and of versions and any      *)
(* handlers.                                                               *)
(***************************************************************************)
THEOREM UsedIsExportedHolds == PoolSpec => []UsedIsExported
<1>1. PoolInv => UsedIsExported
  BY OneElement DEF PoolInv, Placed, Once, UsedIsExported
<1> QED BY InitPool, NextPool, <1>1, PTL DEF PoolSpec

(***************************************************************************)
(* Until a command fails, a mounted image that use() keeps is the uploaded *)
(* one, whole, unless the upload ended while cp made the copy: uploads may *)
(* go on beside the copy for as long as they like.                         *)
(***************************************************************************)
THEOREM KeptIsNewestHolds == PoolSpec => KeptIsNewest
<1> DEFINE Kept == pc = "use" /\ pc' = "test" /\ ~upset /\ pool.whole
                      /\ pool.ctime \notin cp.at .. copy.ctime
                      => Top.ver = pool.ver /\ Top.whole
<1>1. PoolInv /\ [PoolNext]_poolVars => [Kept]_poolVars
  <2> SUFFICES ASSUME PoolInv, PoolNext, pc = "use", pc' = "test", ~upset, pool.whole,
                      pool.ctime \notin cp.at .. copy.ctime
               PROVE  Top.ver = pool.ver /\ Top.whole
    OBVIOUS
  <2>1. Use
    BY DEF PoolNext, Tick, Upload, Uploaded, Killed, Reboot, AskFor, Unexport, Umount, CopyStart,
           CopyEnd, Mount, Export, Undo, Remove, Test, NextHandler, NoHandler, NoHost, Go, server
  <2>2. mounts # <<>> /\ ~IsNewerArrived
    BY <2>1 DEF Use, Go
  <2>3. PICK r : mounts = <<r>>
    BY <2>2 DEF PoolInv, Placed, Nothing, Once
  <2>4. Top = r /\ copy # NoCopy /\ r.ver = copy.ver /\ r.whole = copy.whole
    BY <2>3, OneElement DEF PoolInv, OfCopy, Top
  <2>5. cp.at > pool.ctime
    BY <2>2, <2>4 DEF IsNewerArrived, PoolInv, Times
  <2> QED BY <2>2, <2>4, <2>5 DEF PoolInv, LaterIsWhole
<1> QED BY InitPool, NextPool, <1>1, PTL DEF PoolSpec, KeptIsNewest

-----------------------------------------------------------------------------
(* Imgd: buffers                                                           *)

\* A buffer is a sequence.
LEMMA DomainIs ==
  ASSUME NEW S, NEW s \in Seq(S)
  PROVE  DOMAIN s = 1..Len(s) /\ Len(s) \in Nat
OBVIOUS

\* What is taken from a buffer was the first message, and the others move up.
LEMMA PopIs ==
  ASSUME NEW S, NEW s \in Seq(S), s # <<>>
  PROVE  /\ Head(s) \in S /\ 1 \in DOMAIN s /\ Head(s) = s[1]
         /\ Tail(s) \in Seq(S)
         /\ \A i \in DOMAIN Tail(s) : i \in Nat \ {0} /\ i + 1 \in DOMAIN s /\ Tail(s)[i] = s[i + 1]
OBVIOUS

\* What is sent comes last, or is lost.
LEMMA SentIs ==
  ASSUME NEW S, NEW s \in Seq(S), NEW x \in S, NEW room, NEW t \in Sent(s, x, room)
  PROVE  /\ t \in Seq(S)
         /\ \A i \in DOMAIN t : \/ i \in DOMAIN s /\ t[i] = s[i]
                                \/ t[i] = x /\ \A j \in DOMAIN s : j < i
<1>1. CASE t = s
  BY <1>1
<1>2. CASE t = Append(s, x)
  BY <1>2
<1> QED
  BY <1>1, <1>2 DEF Sent

-----------------------------------------------------------------------------
(* Imgd: types                                                             *)

\* What hosts and server send, what the server is doing for a host, and what a boot ROM
\* knows.
Msg      == [op : {"rrq"}, what : Files, from : Address]
            \cup [op : {"ack"}, what : Numbers \cup Others, from : Address]
            \cup [op : {"error"}, what : Codes, from : Address]
Packet   == [kind : {"oack", "error", "data"}, port : Nat, data : ChunkOf \cup {NoChunk}]
Transfer == [host : Known, file : Files, index : 1..Chunks, retries : 0..MaxRetries,
             to : Address]
Rom      == [phase : {"off", "offered", "next", "asking", "getting", "booted"},
             at : 0..Len(Wanted), port : Nat, got : Seq(ChunkOf)]
Conf     == [Serve : [Known -> BOOLEAN], edit : 0..MaxEdits]

\* The server, the network and the hosts keep their types.
ConfigTypes == {conf, cfg} \subseteq Conf /\ changed \in BOOLEAN
TableTypes ==
    /\ Serve \in [Known -> BOOLEAN] /\ xid \subseteq Known
    /\ fileName \in [Known -> Files \cup {NoFile}] /\ iso \subseteq Known
ServerTypes == (busy = Idle \/ busy \in Transfer) /\ inbox \in Seq(Msg)
NetTypes == wire \in [Hosts -> Seq(Packet)]
RomTypes == client \in [Hosts -> Rom] /\ has \subseteq Known
BoundTypes == boots \in 0..MaxBoots /\ edits \in 0..MaxEdits

Types == ConfigTypes /\ TableTypes /\ ServerTypes /\ NetTypes /\ RomTypes /\ BoundTypes

\* That is the model's own type invariant.
LEMMA TypesAre == Types => TypeOK
BY DEF Types, ConfigTypes, TableTypes, ServerTypes, NetTypes, RomTypes, BoundTypes, TypeOK,
       Conf, Transfer, Msg, Packet, Rom

\* Where a boot ROM is in its list of files; what a machine that the server does not know
\* has come to.
RomOk(g, c) ==
    /\ c.phase = "next" => c.at < Len(Wanted)
    /\ c.phase \in {"asking", "getting"} => c.at \in 1..Len(Wanted)
    /\ c.phase = "getting" => Len(c.got) < Chunks
    /\ c.phase \in {"off", "offered", "asking"} => c.got = <<>>
    /\ c.phase \in {"off", "offered"} => c.at = 0
    /\ g \notin Known => c.phase = "off"

\* It waits for an answer to a request.
Waits(c) == c.phase \in {"asking", "getting"}

\* A message is of a port that its host has used; a request of the port in use is for the
\* file it waits for.
MsgOk(m, c) ==
    /\ m.from.port <= c.port
    /\ m.op = "rrq" /\ m.from.port = c.port /\ Waits(c) => m.what = Wanted[c.at]

\* An answer, likewise; an error tells that there is no such file.
PacketOk(w, c) ==
    /\ w.port <= c.port
    /\ w.kind = "error" /\ w.port = c.port /\ Waits(c) => Wanted[c.at] \in Missing

RomsOk   == \A g \in Hosts : RomOk(g, client[g])
InboxOk  == \A i \in DOMAIN inbox : MsgOk(inbox[i], client[inbox[i].from.host])
WireOk   == \A g \in Hosts : \A i \in DOMAIN wire[g] : PacketOk(wire[g][i], client[g])
\* The transfer under way was asked for on a port of its host.
BusyOk   == busy # Idle => busy.to.port <= client[busy.to.host].port

ImgdInv == Types /\ RomsOk /\ InboxOk /\ WireOk /\ BusyOk

\* A boot ROM asks for one file at least, and the initrd is there.
LEMMA WantedIs ==
  /\ Len(Wanted) \in Nat \ {0}
  /\ \A i \in 1..Len(Wanted) : Wanted[i] \in Files
  /\ Initrd \in Files /\ Initrd \notin Missing
BY ImgdAssumption DEF Initrd, Files

\* Nothing has been sent, and nobody has asked.
LEMMA InitImgd == Init => ImgdInv
<1> SUFFICES ASSUME Init PROVE ImgdInv
  OBVIOUS
<1>1. ConfigTypes /\ BoundTypes
  <2>1. [Serve |-> [h \in Known |-> TRUE], edit |-> 0] \in Conf
    BY ImgdAssumption DEF Conf
  <2>2. 0 \in 0..MaxBoots /\ 0 \in 0..MaxEdits
    BY ImgdAssumption
  <2> QED
    BY <2>1, <2>2 DEF ConfigTypes, BoundTypes, Init
<1>2. TableTypes
  BY ImgdAssumption DEF TableTypes, Init
<1>3. ServerTypes /\ NetTypes
  BY DEF ServerTypes, NetTypes, Init
<1>4. RomTypes
  <2>1. Off(0) \in Rom
    BY ImgdAssumption, WantedIs DEF Off, Rom
  <2> QED
    BY <2>1 DEF RomTypes, Init
<1>5. RomsOk
  BY ImgdAssumption, WantedIs DEF RomsOk, RomOk, Off, Init
<1>6. InboxOk /\ WireOk /\ BusyOk
  BY DEF InboxOk, WireOk, BusyOk, Init
<1> QED
  BY <1>1, <1>2, <1>3, <1>4, <1>5, <1>6 DEF ImgdInv, Types

-----------------------------------------------------------------------------
(* Imgd: a step of a boot ROM                                              *)

\* A port is not used for another file than the one it was taken for.
Follows(c, d) == /\ c.port <= d.port
                 /\ d.port = c.port /\ Waits(d) => Waits(c) /\ d.at = c.at

\* What a boot ROM sends comes from the port it has now.
Says(g, d, m) == m \in Msg /\ m.from = [host |-> g, port |-> d.port] /\ MsgOk(m, d)

\* Its step: it takes the first packet or none, comes to state d, and sends a message or
\* none.
RomStep(g, d) ==
    /\ client' = [client EXCEPT ![g] = d]
    /\ \/ inbox' = inbox
       \/ \E m \in Msg : Says(g, d, m) /\ inbox' \in Sent(inbox, m, Cap)
    /\ \/ wire' = wire
       \/ wire[g] # <<>> /\ wire' = [wire EXCEPT ![g] = Tail(@)]
    /\ busy' = busy

\* When a ROM goes on, what was right to be said to it or by it still is.
LEMMA FollowsIs ==
  ASSUME NEW c \in Rom, NEW d \in Rom, Follows(c, d)
  PROVE  /\ \A m \in Msg : MsgOk(m, c) => MsgOk(m, d)
         /\ \A w \in Packet : PacketOk(w, c) => PacketOk(w, d)
<1> c.port \in Nat /\ d.port \in Nat
  BY DEF Rom
<1>1. \A m \in Msg : m.from.port \in Nat
  BY DEF Msg, Address
<1>2. \A w \in Packet : w.port \in Nat
  BY DEF Packet
<1>3. ASSUME NEW m \in Msg, MsgOk(m, c) PROVE MsgOk(m, d)
  <2>1. m.from.port <= c.port
    BY <1>3 DEF MsgOk
  <2>2. m.from.port <= d.port
    BY <2>1, <1>1 DEF Follows
  <2>3. ASSUME m.op = "rrq", m.from.port = d.port, Waits(d) PROVE m.what = Wanted[d.at]
    <3>1. d.port = c.port
      BY <2>1, <2>3, <1>1 DEF Follows
    <3> QED
      BY <3>1, <2>3, <1>3 DEF Follows, MsgOk
  <2> QED
    BY <2>1, <2>2, <2>3 DEF MsgOk
<1>4. ASSUME NEW w \in Packet, PacketOk(w, c) PROVE PacketOk(w, d)
  <2>1. w.port <= c.port
    BY <1>4 DEF PacketOk
  <2>2. w.port <= d.port
    BY <2>1, <1>2 DEF Follows
  <2>3. ASSUME w.kind = "error", w.port = d.port, Waits(d) PROVE Wanted[d.at] \in Missing
    <3>1. d.port = c.port
      BY <2>1, <2>3, <1>2 DEF Follows
    <3> QED
      BY <3>1, <2>3, <1>4 DEF Follows, PacketOk
  <2> QED
    BY <2>2, <2>3 DEF PacketOk
<1> QED
  BY <1>3, <1>4

\* A step of a boot ROM changes its own place, and adds a message to the server's
\* buffer or takes one from its own.
LEMMA RomStepIs ==
  ASSUME ImgdInv, NEW g \in Hosts, NEW d \in Rom, RomStep(g, d),
         Follows(client[g], d), RomOk(g, d)
  PROVE  /\ ServerTypes' /\ NetTypes' /\ client' \in [Hosts -> Rom]
         /\ RomsOk' /\ InboxOk' /\ WireOk' /\ BusyOk'
<1>t. /\ client \in [Hosts -> Rom] /\ inbox \in Seq(Msg) /\ wire \in [Hosts -> Seq(Packet)]
      /\ busy = Idle \/ busy \in Transfer
  BY DEF ImgdInv, Types, ServerTypes, NetTypes, RomTypes
<1>a. \A m \in Msg : m.from.host \in Hosts
  BY DEF Msg, Address
<1>f. /\ client' = [client EXCEPT ![g] = d] /\ client' \in [Hosts -> Rom]
      /\ \A x \in Hosts : client'[x] = IF x = g THEN d ELSE client[x]
  BY <1>t DEF RomStep
<1>g. \A x \in Hosts : /\ \A m \in Msg : MsgOk(m, client[x]) => MsgOk(m, client'[x])
                       /\ \A w \in Packet : PacketOk(w, client[x]) => PacketOk(w, client'[x])
  BY <1>t, <1>f, FollowsIs
<1>h. \A i \in DOMAIN inbox : inbox[i] \in Msg /\ MsgOk(inbox[i], client'[inbox[i].from.host])
  <2> TAKE i \in DOMAIN inbox
  <2>1. inbox[i] \in Msg
    BY <1>t
  <2>2. MsgOk(inbox[i], client[inbox[i].from.host])
    BY DEF ImgdInv, InboxOk
  <2> QED
    BY <2>1, <2>2, <1>a, <1>g
<1>1. ServerTypes' /\ InboxOk'
  <2>b. (busy = Idle \/ busy \in Transfer)'
    BY <1>t DEF RomStep
  <2>1. CASE inbox' = inbox
    <3>1. InboxOk'
      BY <2>1, <1>h DEF InboxOk
    <3> QED
      BY <3>1, <2>1, <2>b, <1>t DEF ServerTypes
  <2>2. CASE \E m \in Msg : Says(g, d, m) /\ inbox' \in Sent(inbox, m, Cap)
    <3>1. PICK m \in Msg : Says(g, d, m) /\ inbox' \in Sent(inbox, m, Cap)
      BY <2>2
    <3>2. /\ inbox' \in Seq(Msg)
          /\ \A i \in DOMAIN inbox' : \/ i \in DOMAIN inbox /\ inbox'[i] = inbox[i]
                                      \/ inbox'[i] = m
      BY <3>1, <1>t, SentIs
    <3>3. MsgOk(m, client'[m.from.host])
      BY <3>1, <1>f DEF Says
    <3>4. InboxOk'
      BY <3>2, <3>3, <1>h DEF InboxOk
    <3> QED
      BY <3>2, <3>4, <2>b DEF ServerTypes
  <2> QED
    BY <2>1, <2>2 DEF RomStep
<1>2. NetTypes' /\ WireOk'
  <2>h. \A x \in Hosts : \A i \in DOMAIN wire[x] : PacketOk(wire[x][i], client'[x])
    <3> TAKE x \in Hosts
    <3> TAKE i \in DOMAIN wire[x]
    <3>1. wire[x][i] \in Packet
      BY <1>t
    <3>2. PacketOk(wire[x][i], client[x])
      BY DEF ImgdInv, WireOk
    <3> QED
      BY <3>1, <3>2, <1>g
  <2>1. CASE wire' = wire
    <3>1. WireOk'
      BY <2>1, <2>h DEF WireOk
    <3> QED
      BY <3>1, <2>1, <1>t DEF NetTypes
  <2>2. CASE wire[g] # <<>> /\ wire' = [wire EXCEPT ![g] = Tail(@)]
    <3>1. /\ Tail(wire[g]) \in Seq(Packet)
          /\ \A i \in DOMAIN Tail(wire[g]) : /\ i + 1 \in DOMAIN wire[g]
                                             /\ Tail(wire[g])[i] = wire[g][i + 1]
      <4> HIDE DEF Packet
      <4>1. wire[g] \in Seq(Packet) /\ wire[g] # <<>>
        BY <1>t, <2>2
      <4> QED
        BY <4>1, PopIs
    <3>2. \A x \in Hosts : wire'[x] = IF x = g THEN Tail(wire[g]) ELSE wire[x]
      BY <2>2, <1>t
    <3>3. wire' \in [Hosts -> Seq(Packet)]
      BY <3>1, <2>2, <1>t
    <3>4. ASSUME NEW x \in Hosts, NEW i \in DOMAIN wire'[x]
          PROVE  PacketOk(wire'[x][i], client'[x])
      <4>1. CASE x = g
        BY <4>1, <3>4, <3>1, <3>2, <2>h
      <4>2. CASE x # g
        BY <4>2, <3>4, <3>2, <2>h
      <4> QED
        BY <4>1, <4>2
    <3>5. WireOk'
      BY <3>4 DEF WireOk
    <3> QED
      BY <3>3, <3>5 DEF NetTypes
  <2> QED
    BY <2>1, <2>2 DEF RomStep
<1>3. RomsOk'
  BY <1>f DEF RomsOk, ImgdInv
<1>4. BusyOk'
  <2> SUFFICES ASSUME busy # Idle PROVE busy.to.port <= client'[busy.to.host].port
    BY DEF BusyOk, RomStep
  <2>1. busy.to.host \in Hosts /\ busy.to.port \in Nat
    BY <1>t DEF Transfer, Address
  <2>2. busy.to.port <= client[busy.to.host].port
    BY DEF ImgdInv, BusyOk
  <2>3. client[busy.to.host].port \in Nat /\ client'[busy.to.host].port \in Nat
    BY <2>1, <1>f, <1>t DEF Rom
  <2>4. client[busy.to.host].port <= client'[busy.to.host].port
    <3>1. CASE busy.to.host = g
      BY <3>1, <1>f DEF Follows
    <3>2. CASE busy.to.host # g
      BY <3>2, <2>1, <2>3, <1>f
    <3> QED
      BY <3>1, <3>2
  <2> QED
    BY <2>1, <2>2, <2>3, <2>4
<1> QED
  BY <1>1, <1>2, <1>3, <1>4, <1>f

-----------------------------------------------------------------------------
(* Imgd: a step of the server                                              *)

\* It sends a packet, unless it is lost.
Tells(to, w) ==
    /\ to \in Address /\ w \in Packet /\ w.port = to.port /\ PacketOk(w, client[to.host])
    /\ \E x \in Sent(wire[to.host], w, Flight) : wire' = [wire EXCEPT ![to.host] = x]

\* Its step: it takes the first message or none, and sends a packet or none.
ServerStep ==
    /\ client' = client
    /\ inbox' = inbox \/ (inbox # <<>> /\ inbox' = Tail(inbox))
    /\ wire' = wire \/ \E to \in Address : \E w \in Packet : Tells(to, w)
    /\ \/ busy' = Idle \/ busy' = busy
       \/ busy' \in Transfer /\ busy'.to.port <= client[busy'.to.host].port

\* What it sends is the last packet of that host, and the others' are what they were.
LEMMA TellsIs ==
  ASSUME ImgdInv, NEW to \in Address, NEW w \in Packet, Tells(to, w)
  PROVE  /\ wire' \in [Hosts -> Seq(Packet)] /\ to.host \in Hosts
         /\ \A x \in Hosts : \A i \in DOMAIN wire'[x] :
               \/ i \in DOMAIN wire[x] /\ wire'[x][i] = wire[x][i]
               \/ x = to.host /\ wire'[x][i] = w /\ \A j \in DOMAIN wire[x] : j < i
<1>1. wire \in [Hosts -> Seq(Packet)] /\ to.host \in Hosts
  BY DEF ImgdInv, Types, NetTypes, Address
<1>2. PICK s \in Sent(wire[to.host], w, Flight) : wire' = [wire EXCEPT ![to.host] = s]
  BY DEF Tells
<1>3. /\ s \in Seq(Packet)
      /\ \A i \in DOMAIN s : \/ i \in DOMAIN wire[to.host] /\ s[i] = wire[to.host][i]
                             \/ s[i] = w /\ \A j \in DOMAIN wire[to.host] : j < i
  <2>1. wire[to.host] \in Seq(Packet)
    BY <1>1
  <2> QED
    BY <2>1, <1>2, SentIs
<1>4. \A x \in Hosts : wire'[x] = IF x = to.host THEN s ELSE wire[x]
  BY <1>1, <1>2
<1> QED
  BY <1>1, <1>2, <1>3, <1>4

\* The server takes a message from its buffer, or none, and adds one to the buffer of a
\* host.
LEMMA ServerStepIs ==
  ASSUME ImgdInv, ServerStep
  PROVE  ServerTypes' /\ NetTypes' /\ RomsOk' /\ InboxOk' /\ WireOk' /\ BusyOk'
<1>t. /\ client \in [Hosts -> Rom] /\ inbox \in Seq(Msg) /\ wire \in [Hosts -> Seq(Packet)]
      /\ busy = Idle \/ busy \in Transfer
  BY DEF ImgdInv, Types, ServerTypes, NetTypes, RomTypes
<1>c. client' = client
  BY DEF ServerStep
<1>1. ServerTypes'
  <2>1. (busy = Idle \/ busy \in Transfer)'
    BY <1>t DEF ServerStep
  <2>2. inbox' \in Seq(Msg)
    <3>1. inbox # <<>> => Tail(inbox) \in Seq(Msg)
      <4> HIDE DEF Msg
      <4> QED
        BY <1>t, PopIs
    <3> QED
      BY <3>1, <1>t DEF ServerStep
  <2> QED
    BY <2>1, <2>2 DEF ServerTypes
<1>2. InboxOk'
  <2>1. CASE inbox' = inbox
    BY <2>1, <1>c DEF ImgdInv, InboxOk
  <2>2. CASE inbox # <<>> /\ inbox' = Tail(inbox)
    <3>1. \A i \in DOMAIN inbox' : i + 1 \in DOMAIN inbox /\ inbox'[i] = inbox[i + 1]
      BY <2>2, <1>t, PopIs
    <3> QED
      BY <3>1, <1>c DEF ImgdInv, InboxOk
  <2> QED
    BY <2>1, <2>2 DEF ServerStep
<1>3. NetTypes' /\ WireOk'
  <2>1. CASE wire' = wire
    BY <2>1, <1>c, <1>t DEF ImgdInv, WireOk, NetTypes
  <2>2. CASE \E to \in Address : \E w \in Packet : Tells(to, w)
    <3>1. PICK to \in Address, w \in Packet : Tells(to, w)
      BY <2>2
    <3>2. /\ wire' \in [Hosts -> Seq(Packet)] /\ to.host \in Hosts
          /\ \A x \in Hosts : \A i \in DOMAIN wire'[x] :
                \/ i \in DOMAIN wire[x] /\ wire'[x][i] = wire[x][i]
                \/ x = to.host /\ wire'[x][i] = w
      BY <3>1, TellsIs
    <3>3. PacketOk(w, client[to.host])
      BY <3>1 DEF Tells
    <3>4. WireOk'
      BY <3>2, <3>3, <1>c DEF ImgdInv, WireOk
    <3> QED
      BY <3>2, <3>4 DEF NetTypes
  <2> QED
    BY <2>1, <2>2 DEF ServerStep
<1>4. RomsOk'
  BY <1>c DEF ImgdInv, RomsOk
<1>5. BusyOk'
  BY <1>c DEF ImgdInv, BusyOk, ServerStep
<1> QED
  BY <1>1, <1>2, <1>3, <1>4, <1>5
-----------------------------------------------------------------------------
(* Imgd: the boot ROM's actions                                            *)

\* What an action of a boot ROM leaves to be shown once its step is one of RomStep.
LEMMA RomNext ==
  ASSUME ImgdInv, NEW g \in Hosts, NEW d \in Rom, RomStep(g, d),
         Follows(client[g], d), RomOk(g, d), xid' \subseteq Known, iso' \subseteq Known,
         has' \subseteq Known, boots' \in 0..MaxBoots,
         UNCHANGED <<config, Serve, fileName, edits>>
  PROVE  ImgdInv'
<1>1. /\ ServerTypes' /\ NetTypes' /\ client' \in [Hosts -> Rom]
      /\ RomsOk' /\ InboxOk' /\ WireOk' /\ BusyOk'
  BY RomStepIs
<1>2. ConfigTypes'
  BY DEF ImgdInv, Types, ConfigTypes, config
<1>3. TableTypes' /\ BoundTypes'
  BY DEF ImgdInv, Types, TableTypes, BoundTypes
<1>4. RomTypes'
  BY <1>1 DEF RomTypes
<1> QED
  BY <1>1, <1>2, <1>3, <1>4 DEF ImgdInv, Types

\* The types that the actions of a boot ROM need.
LEMMA RomTyped ==
  ASSUME ImgdInv, NEW g \in Hosts
  PROVE  /\ client[g] \in Rom /\ client[g].port \in Nat
         /\ client[g].at \in 0..Len(Wanted) /\ client[g].got \in Seq(ChunkOf)
         /\ Len(client[g].got) \in Nat
         /\ client \in [Hosts -> Rom] /\ xid \subseteq Known /\ iso \subseteq Known
         /\ has \subseteq Known
         /\ boots \in 0..MaxBoots /\ RomOk(g, client[g])
<1>1. client[g] \in Rom /\ client \in [Hosts -> Rom]
  BY DEF ImgdInv, Types, RomTypes
<1>2. client[g].got \in Seq(ChunkOf)
  BY <1>1 DEF Rom
<1> QED
  BY <1>1, <1>2 DEF ImgdInv, Types, RomTypes, TableTypes, BoundTypes, RomsOk, Rom

\* A request for a file is one of the messages of RomStep.
LEMMA RrqIs ==
  ASSUME NEW g \in Hosts, NEW d \in Rom, client' = [client EXCEPT ![g] = d],
         client \in [Hosts -> Rom], NEW f \in Files, ToServer(g, "rrq", f),
         Waits(d) => f = Wanted[d.at]
  PROVE  \E n \in Msg : Says(g, d, n) /\ n.op = "rrq" /\ n.what = f /\ inbox' \in Sent(inbox, n, Cap)
<1> DEFINE m == [op |-> "rrq", what |-> f, from |-> [host |-> g, port |-> d.port]]
<1>1. client'[g] = d /\ d.port \in Nat
  BY DEF Rom
<1>2. m \in Msg
  BY <1>1 DEF Msg, Address
<1>3. inbox' \in Sent(inbox, m, Cap)
  BY <1>1 DEF ToServer
<1>4. MsgOk(m, d)
  BY <1>1 DEF MsgOk
<1> QED
  BY <1>2, <1>3, <1>4 DEF Says

\* So is an acknowledgement.
LEMMA AckIs ==
  ASSUME NEW g \in Hosts, NEW d \in Rom, client' = [client EXCEPT ![g] = d],
         client \in [Hosts -> Rom], NEW num \in Numbers \cup Others, ToServer(g, "ack", num)
  PROVE  \E n \in Msg : Says(g, d, n) /\ n.op = "ack" /\ n.what = num /\ inbox' \in Sent(inbox, n, Cap)
<1> DEFINE m == [op |-> "ack", what |-> num, from |-> [host |-> g, port |-> d.port]]
<1>1. client'[g] = d /\ d.port \in Nat
  BY DEF Rom
<1>2. m \in Msg
  BY <1>1 DEF Msg, Address
<1>3. inbox' \in Sent(inbox, m, Cap)
  BY <1>1 DEF ToServer
<1>4. MsgOk(m, d)
  BY <1>1 DEF MsgOk
<1> QED
  BY <1>2, <1>3, <1>4 DEF Says

\* And an error.
LEMMA ErrorIs ==
  ASSUME NEW g \in Hosts, NEW d \in Rom, client' = [client EXCEPT ![g] = d],
         client \in [Hosts -> Rom], NEW code \in Codes, ToServer(g, "error", code)
  PROVE  \E n \in Msg : Says(g, d, n) /\ n.op = "error" /\ inbox' \in Sent(inbox, n, Cap)
<1> DEFINE m == [op |-> "error", what |-> code, from |-> [host |-> g, port |-> d.port]]
<1>1. client'[g] = d /\ d.port \in Nat
  BY DEF Rom
<1>2. m \in Msg
  BY <1>1 DEF Msg, Address
<1>3. inbox' \in Sent(inbox, m, Cap)
  BY <1>1 DEF ToServer
<1>4. MsgOk(m, d)
  BY <1>1 DEF MsgOk
<1> QED
  BY <1>2, <1>3, <1>4 DEF Says

\* Every step keeps the invariant: those of the boot ROMs,
LEMMA NextDiscover == ASSUME ImgdInv, NEW g \in Hosts, Discover(g) PROVE ImgdInv'
<1>1. PICK p \in {"off", "offered"} :
        client' = [client EXCEPT ![g] = [client[g] EXCEPT !.phase = p]]
  BY DEF Discover, Become
<1> DEFINE d == [client[g] EXCEPT !.phase = p]
<1>2. client[g] \in Rom /\ client[g].port \in Nat /\ RomOk(g, client[g])
  BY RomTyped
<1>3. /\ d \in Rom /\ d.phase = p /\ d.port = client[g].port /\ d.at = client[g].at
      /\ d.got = client[g].got
  BY <1>2 DEF Rom
<1>4. RomOk(g, d) /\ Follows(client[g], d)
  BY <1>2, <1>3 DEF RomOk, Follows, Waits, Discover
<1>5. RomStep(g, d)
  BY <1>1 DEF RomStep, Discover, network
<1>6. xid' \cup iso' \subseteq Known /\ has' \subseteq Known /\ boots' \in 0..MaxBoots
  BY RomTyped DEF Discover, bounds
<1> HIDE DEF d
<1> QED
  BY <1>3, <1>4, <1>5, <1>6, RomNext DEF Discover, bounds

LEMMA NextRequest == ASSUME ImgdInv, NEW g \in Hosts, Request(g) PROVE ImgdInv'
<1> DEFINE d == [client[g] EXCEPT !.phase = "next"]
<1>1. client' = [client EXCEPT ![g] = d]
  BY DEF Request, Become
<1>2. client[g] \in Rom /\ client[g].port \in Nat /\ RomOk(g, client[g])
  BY RomTyped
<1>3. /\ d \in Rom /\ d.phase = "next" /\ d.port = client[g].port /\ d.at = client[g].at
  BY <1>2 DEF Rom
<1>4. RomOk(g, d) /\ Follows(client[g], d)
  BY <1>2, <1>3, WantedIs DEF RomOk, Follows, Waits, Request
<1>5. RomStep(g, d)
  BY <1>1 DEF RomStep, Request, network
<1>6. xid' \cup iso' \subseteq Known /\ has' \subseteq Known /\ boots' \in 0..MaxBoots
  BY RomTyped DEF Request, bounds, table
<1> HIDE DEF d
<1> QED
  BY <1>3, <1>4, <1>5, <1>6, RomNext DEF Request, bounds, table

LEMMA NextStray == ASSUME ImgdInv, NEW g \in Hosts, Stray(g) PROVE ImgdInv'
<1> DEFINE d == client[g]
<1>1. d \in Rom /\ d.port \in Nat /\ RomOk(g, d) /\ client \in [Hosts -> Rom]
  BY RomTyped
<1>2. client' = [client EXCEPT ![g] = d]
  BY <1>1 DEF Stray
<1>3. Follows(client[g], d)
  BY <1>1 DEF Follows
<1>4. PICK n \in Others : ToServer(g, "ack", n)
  BY DEF Stray
<1>5. \E m \in Msg : Says(g, d, m) /\ inbox' \in Sent(inbox, m, Cap)
  <2>1. n \in Numbers \cup Others
    OBVIOUS
  <2> HIDE DEF d
  <2> QED
    BY <1>1, <1>2, <1>4, <2>1, AckIs
<1>6. RomStep(g, d)
  BY <1>2, <1>5 DEF RomStep, Stray
<1>7. xid' \cup iso' \subseteq Known /\ has' \subseteq Known /\ boots' \in 0..MaxBoots
  BY RomTyped DEF Stray, bounds, table
<1> HIDE DEF d
<1> QED
  BY <1>1, <1>3, <1>6, <1>7, RomNext DEF Stray, bounds, table

LEMMA NextAsk == ASSUME ImgdInv, NEW g \in Hosts, Ask(g) PROVE ImgdInv'
<1> DEFINE d == [phase |-> "asking", at |-> client[g].at + 1, port |-> client[g].port + 1,
                 got |-> <<>>]
<1>1. client' = [client EXCEPT ![g] = d] /\ ToServer(g, "rrq", Wanted[client[g].at + 1])
  BY DEF Ask, Become
<1>2. /\ client[g] \in Rom /\ client[g].port \in Nat /\ RomOk(g, client[g])
      /\ client[g].at \in 0..Len(Wanted) /\ client \in [Hosts -> Rom]
  BY RomTyped
<1>t. /\ client[g].at + 1 \in 1..Len(Wanted)
      /\ client[g].at + 1 \in 0..Len(Wanted)
  BY <1>2, ImgdAssumption, WantedIs DEF RomOk, Ask
<1>3. d \in Rom
  BY <1>2, <1>t DEF Rom
<1>4. RomOk(g, d) /\ Follows(client[g], d)
  BY <1>2, <1>t DEF RomOk, Follows, Waits, Ask
<1>5. d.at = client[g].at + 1
  OBVIOUS
<1> HIDE DEF d
<1>6. \E m \in Msg : Says(g, d, m) /\ inbox' \in Sent(inbox, m, Cap)
  <2>1. Wanted[client[g].at + 1] \in Files /\ Wanted[client[g].at + 1] = Wanted[d.at]
    BY <1>5, <1>t, WantedIs
  <2>2. client \in [Hosts -> Rom]
    BY <1>2
  <2> QED
    BY <1>1, <1>3, <2>1, <2>2, RrqIs
<1>7. RomStep(g, d)
  BY <1>1, <1>6 DEF RomStep, Ask
<1>8. xid' \cup iso' \subseteq Known /\ has' \subseteq Known /\ boots' \in 0..MaxBoots
  BY RomTyped DEF Ask, bounds, table
<1> QED
  BY <1>3, <1>4, <1>7, <1>8, RomNext DEF Ask, bounds, table

LEMMA NextPowerCycle == ASSUME ImgdInv, NEW g \in Hosts, PowerCycle(g) PROVE ImgdInv'
<1> DEFINE d == Off(client[g].port)
<1>1. client' = [client EXCEPT ![g] = d]
  BY DEF PowerCycle, Become
<1>2. /\ client[g] \in Rom /\ client[g].port \in Nat
      /\ boots \in 0..MaxBoots
  BY RomTyped
<1>3. d \in Rom
  BY <1>2, ImgdAssumption, WantedIs DEF Rom, Off
<1>4. RomOk(g, d) /\ Follows(client[g], d)
  BY <1>2, WantedIs DEF RomOk, Follows, Waits, Off
<1> HIDE DEF d
<1>5. RomStep(g, d)
  <2>1. inbox' = inbox \/ \E m \in Msg : Says(g, d, m) /\ inbox' \in Sent(inbox, m, Cap)
    BY <1>1, <1>3, RomTyped, ErrorIs DEF PowerCycle
  <2> QED
    BY <1>1, <2>1 DEF RomStep, PowerCycle
<1>6. xid' \cup iso' \subseteq Known /\ has' \subseteq Known /\ boots' \in 0..MaxBoots
  <2>1. boots + 1 \in 0..MaxBoots
    BY <1>2, ImgdAssumption DEF PowerCycle
  <2> QED
    BY <2>1, RomTyped DEF PowerCycle
<1> QED
  BY <1>3, <1>4, <1>5, <1>6, RomNext DEF PowerCycle

LEMMA NextAgain == ASSUME ImgdInv, NEW g \in Hosts, Again(g) PROVE ImgdInv'
<1> DEFINE c == client[g]
           d == client[g]
<1>2. /\ c \in Rom /\ c.port \in Nat /\ RomOk(g, c) /\ Len(c.got) \in Nat
      /\ client \in [Hosts -> Rom]
  BY RomTyped
<1>1. client' = [client EXCEPT ![g] = d]
  BY <1>2 DEF Again
<1>3. /\ d \in Rom /\ d.phase = c.phase /\ d.port = c.port
      /\ d.at = c.at /\ d.got = c.got
  BY <1>2
<1>4. RomOk(g, d) /\ Follows(c, d)
  BY <1>2 DEF Follows
<1>5. \/ c.phase = "asking"  /\ ToServer(g, "rrq", Wanted[c.at])
      \/ c.phase = "getting" /\ ToServer(g, "ack", Expected(c) - 1)
  BY DEF Again
<1> HIDE DEF d
<1>6. \E m \in Msg : Says(g, d, m) /\ inbox' \in Sent(inbox, m, Cap)
  <2>1. CASE c.phase = "asking"  /\ ToServer(g, "rrq", Wanted[c.at])
    <3>1. Wanted[c.at] \in Files /\ Wanted[c.at] = Wanted[d.at]
      BY <2>1, <1>2, <1>3, WantedIs DEF RomOk
    <3>2. ToServer(g, "rrq", Wanted[c.at]) /\ client \in [Hosts -> Rom] /\ d \in Rom
      BY <2>1, <1>2, <1>3
    <3> HIDE DEF c
    <3> QED
      BY <3>1, <3>2, <1>1, RrqIs
  <2>2. CASE c.phase = "getting" /\ ToServer(g, "ack", Expected(c) - 1)
    <3>1. Expected(c) - 1 \in Numbers /\ g \in Known
      BY <2>2, <1>2, ImgdAssumption DEF RomOk, Expected, Numbers
    <3>2. ToServer(g, "ack", Expected(c) - 1) /\ client \in [Hosts -> Rom] /\ d \in Rom
      BY <2>2, <1>2, <1>3
    <3> HIDE DEF c
    <3> QED
      BY <3>1, <3>2, <1>1, AckIs
  <2> QED
    BY <1>5, <2>1, <2>2
<1>7. RomStep(g, d)
  BY <1>1, <1>6 DEF RomStep, Again
<1>8. xid' \cup iso' \subseteq Known /\ has' \subseteq Known /\ boots' \in 0..MaxBoots
  BY RomTyped DEF Again, bounds, table
<1> QED
  BY <1>3, <1>4, <1>7, <1>8, RomNext DEF Again, bounds, table

\* The packet that a boot ROM takes.
LEMMA TakesIs ==
  ASSUME ImgdInv, NEW g \in Hosts, wire[g] # <<>>
  PROVE  LET m == Head(wire[g]) IN
         m \in Packet /\ PacketOk(m, client[g]) /\ 1 \in DOMAIN wire[g] /\ m = wire[g][1]
<1>1. wire[g] \in Seq(Packet)
  BY DEF ImgdInv, Types, NetTypes
<1>2. Head(wire[g]) \in Packet /\ 1 \in DOMAIN wire[g] /\ Head(wire[g]) = wire[g][1]
  BY <1>1, PopIs
<1> QED
  BY <1>2 DEF ImgdInv, WireOk

\* What it does with one that it understands.
LEMMA NextTakes ==
  ASSUME ImgdInv, NEW g \in Hosts, wire[g] # <<>>, Receive(g), NEW d \in Rom,
         client' = [client EXCEPT ![g] = d], Follows(client[g], d), RomOk(g, d),
         has' \subseteq Known,
         inbox' = inbox \/ \E m \in Msg : Says(g, d, m) /\ inbox' \in Sent(inbox, m, Cap)
  PROVE  ImgdInv'
<1>1. wire' = [wire EXCEPT ![g] = Tail(@)] /\ busy' = busy
  BY DEF Receive
<1>2. RomStep(g, d)
  BY <1>1 DEF RomStep
<1>3. xid' \cup iso' \subseteq Known /\ boots' \in 0..MaxBoots
  BY RomTyped DEF Receive, bounds, table
<1> QED
  BY <1>2, <1>3, RomNext DEF Receive, bounds, table

\* The chunk that it accepts is a chunk.
LEMMA DueIs ==
  ASSUME ImgdInv, NEW g \in Hosts, NEW m \in Packet, Due(g, m)
  PROVE  m.data \in ChunkOf /\ m.data.num \in 1..Chunks /\ g \in Known
<1>1. m.data \in ChunkOf \cup {NoChunk}
  BY DEF Packet
<1>2. m.data.num >= 1
  BY RomTyped DEF Due, Expected
<1>3. m.data # NoChunk
  BY <1>2 DEF NoChunk
<1> QED
  BY <1>1, <1>3, RomTyped DEF ChunkOf, Due, RomOk

LEMMA NextReceive == ASSUME ImgdInv, NEW g \in Hosts, Receive(g) PROVE ImgdInv'
<1> DEFINE c == client[g]
           m == Head(wire[g])
<1>1. wire[g] # <<>>
  BY DEF Receive
<1>2. m \in Packet /\ PacketOk(m, c)
  BY <1>1, TakesIs
<1>3. /\ c \in Rom /\ c.port \in Nat /\ RomOk(g, c) /\ c.got \in Seq(ChunkOf) /\ Len(c.got) \in Nat
      /\ client \in [Hosts -> Rom] /\ has \subseteq Known /\ c.at \in 0..Len(Wanted)
  BY RomTyped
<1>k. \/ Understood(g, m) /\ (\/ Accept(g, m) \/ AcceptAgain(g, m)
                              \/ AcceptOptions(g, m) \/ DoWithout(g, m))
      \/ UNCHANGED <<client, inbox, has>>
  BY DEF Receive
<1>4. CASE UNCHANGED <<client, inbox, has>>
  <2>1. client' = [client EXCEPT ![g] = c]
    BY <1>4, <1>3
  <2>2. Follows(c, c)
    BY <1>3 DEF Follows
  <2> QED
    BY <2>1, <2>2, <1>1, <1>3, <1>4, NextTakes
<1>5. CASE Understood(g, m) /\ Accept(g, m)
  <2> DEFINE got  == Append(c.got, m.data)
             last == m.data.num = Chunks
             p    == IF ~last THEN "getting"
                     ELSE IF c.at = Len(Wanted) THEN "booted" ELSE "next"
             d    == [c EXCEPT !.got = got, !.phase = p]
  <2>1. /\ client' = [client EXCEPT ![g] = d] /\ ToServer(g, "ack", m.data.num)
        /\ has' = has \/ has' = has \cup {g}
    BY <1>5 DEF Accept, Become
  <2>2. m.data \in ChunkOf /\ m.data.num \in 1..Chunks /\ g \in Known
    BY <1>5, <1>2, DueIs DEF Accept
  <2>3. m.data.num = Len(c.got) + 1 /\ c.phase \in {"getting", "asking"}
    BY <1>5 DEF Accept, Due, Expected
  <2>4. got \in Seq(ChunkOf) /\ Len(got) = m.data.num
    BY <2>2, <2>3, <1>3
  <2>5. /\ d \in Rom /\ d.phase = p /\ d.port = c.port /\ d.at = c.at /\ d.got = got
    <3>2. p \in {"getting", "booted", "next"}
      OBVIOUS
    <3> HIDE DEF p, got
    <3> QED
      BY <3>2, <2>4, <1>3 DEF Rom
  <2>6. p \in {"getting", "booted", "next"} /\ (p = "getting" <=> ~last)
        /\ (p = "next" => c.at # Len(Wanted))
    OBVIOUS
  <2>7. RomOk(g, d) /\ Follows(c, d)
    <3>1. c.at \in 1..Len(Wanted)
      BY <2>3, <1>3 DEF RomOk
    <3>2. ~last => Len(got) < Chunks
      BY <2>4, <2>2, ImgdAssumption
    <3>3. p = "next" => c.at < Len(Wanted)
      BY <3>1, <2>6, WantedIs
    <3> HIDE DEF got, last, p, d
    <3> QED
      BY <3>1, <3>2, <3>3, <2>2, <2>3, <2>5, <2>6, <1>3 DEF RomOk, Follows, Waits
  <2> HIDE DEF d
  <2>8. \E n \in Msg : Says(g, d, n) /\ inbox' \in Sent(inbox, n, Cap)
    <3>1. m.data.num \in Numbers
      BY <2>2, ImgdAssumption DEF Numbers
    <3> HIDE DEF m
    <3> QED
      BY <3>1, <2>1, <2>2, <2>5, <1>3, AckIs
  <2>9. has' \subseteq Known
    BY <2>1, <2>2, <1>3
  <2> QED
    BY <2>1, <2>5, <2>7, <2>8, <2>9, <1>1, NextTakes
<1>6. CASE Understood(g, m) /\ AcceptAgain(g, m)
  <2>1. client' = client /\ has' = has /\ ToServer(g, "ack", m.data.num)
    BY <1>6 DEF AcceptAgain
  <2>2. c.phase = "getting" /\ m.data.num = Len(c.got)
    BY <1>6, <1>3 DEF AcceptAgain, Repeated, Expected
  <2>3. m.data.num \in Numbers /\ g \in Known
    BY <2>2, <1>3, ImgdAssumption DEF RomOk, Numbers
  <2>4. client' = [client EXCEPT ![g] = c]
    BY <2>1, <1>3
  <2>5. Follows(c, c)
    BY <1>3 DEF Follows
  <2>6. \E n \in Msg : Says(g, c, n) /\ inbox' \in Sent(inbox, n, Cap)
    <3> HIDE DEF m, c
    <3> QED
      BY <2>1, <2>3, <2>4, <1>3, AckIs
  <2> QED
    BY <2>1, <2>4, <2>5, <2>6, <1>1, <1>3, NextTakes
<1>7. CASE Understood(g, m) /\ AcceptOptions(g, m)
  <2> DEFINE d == [c EXCEPT !.phase = "getting"]
  <2>1. client' = [client EXCEPT ![g] = d] /\ has' = has /\ ToServer(g, "ack", 0)
    BY <1>7 DEF AcceptOptions, Become
  <2>2. c.phase = "asking"
    BY <1>7 DEF AcceptOptions, Reply
  <2>3. /\ d \in Rom /\ d.phase = "getting" /\ d.port = c.port /\ d.at = c.at /\ d.got = c.got
    BY <1>3 DEF Rom
  <2>4. RomOk(g, d) /\ Follows(c, d)
    <3>1. Len(c.got) < Chunks
      BY <2>2, <1>3, ImgdAssumption DEF RomOk
    <3> QED
      BY <3>1, <2>2, <2>3, <1>3 DEF RomOk, Follows, Waits
  <2> HIDE DEF d
  <2>5. 0 \in Numbers /\ g \in Known
    BY <2>2, <1>3, ImgdAssumption DEF RomOk, Numbers
  <2>6. \E n \in Msg : Says(g, d, n) /\ inbox' \in Sent(inbox, n, Cap)
    BY <2>1, <2>3, <2>5, <1>3, AckIs
  <2> QED
    BY <2>1, <2>3, <2>4, <2>6, <1>1, <1>3, NextTakes
<1>8. CASE Understood(g, m) /\ DoWithout(g, m)
  <2> DEFINE d == [c EXCEPT !.phase = "next"]
  <2>1. client' = [client EXCEPT ![g] = d] /\ has' = has /\ inbox' = inbox
    BY <1>8 DEF DoWithout, Become
  <2>2. c.phase = "asking" /\ m.kind = "error" /\ m.port = c.port
    BY <1>8 DEF DoWithout, Reply, Understood
  <2>3. /\ d \in Rom /\ d.phase = "next" /\ d.port = c.port /\ d.at = c.at /\ d.got = c.got
    BY <1>3 DEF Rom
  <2>4. c.at \in 1..Len(Wanted) /\ c.at # Len(Wanted) /\ g \in Known
    BY <2>2, <1>2, <1>3, WantedIs DEF PacketOk, Waits, RomOk, Initrd
  <2>5. RomOk(g, d) /\ Follows(c, d)
    BY <2>2, <2>3, <2>4, <1>3, WantedIs DEF RomOk, Follows, Waits
  <2> HIDE DEF d
  <2> QED
    BY <2>1, <2>3, <2>5, <1>1, <1>3, NextTakes
<1> QED
  BY <1>k, <1>4, <1>5, <1>6, <1>7, <1>8

-----------------------------------------------------------------------------
(* Imgd: the server's actions                                              *)

\* What the server does keeps the types of what the hosts have.
LEMMA ServerNext ==
  ASSUME ImgdInv, ServerStep, ConfigTypes', TableTypes',
         UNCHANGED <<has, bounds>>
  PROVE  ImgdInv'
<1>1. ServerTypes' /\ NetTypes' /\ RomsOk' /\ InboxOk' /\ WireOk' /\ BusyOk'
  BY ServerStepIs
<1>2. RomTypes' /\ BoundTypes'
  BY DEF ImgdInv, Types, RomTypes, BoundTypes, ServerStep, bounds
<1> QED
  BY <1>1, <1>2 DEF ImgdInv, Types

\* The types that the server's actions need.
LEMMA ServerTyped ==
  ASSUME ImgdInv
  PROVE  /\ conf \in Conf /\ cfg \in Conf /\ ConfigTypes /\ TableTypes
         /\ fileName \in [Known -> Files \cup {NoFile}] /\ iso \subseteq Known
         /\ busy = Idle \/ busy \in Transfer
         /\ client \in [Hosts -> Rom] /\ edits \in 0..MaxEdits /\ changed \in BOOLEAN
BY DEF ImgdInv, Types, ConfigTypes, TableTypes, ServerTypes, RomTypes, BoundTypes

\* The message that the server reads.
LEMMA ReadIs ==
  ASSUME ImgdInv, Read
  PROVE  LET m == Head(inbox) IN
         /\ m \in Msg /\ m.from \in Address /\ m.from.host \in Hosts
         /\ m.op = "rrq" => m.what \in Files
         /\ MsgOk(m, client[m.from.host])
         /\ 1 \in DOMAIN inbox /\ m = inbox[1]
         /\ inbox # <<>> /\ inbox' = Tail(inbox)
         /\ \A i \in DOMAIN inbox' : /\ i \in Nat \ {0} /\ i + 1 \in DOMAIN inbox
                                     /\ inbox'[i] = inbox[i + 1]
<1>1. inbox \in Seq(Msg) /\ inbox # <<>> /\ inbox' = Tail(inbox)
  BY DEF ImgdInv, Types, ServerTypes, Read
<1>2. /\ Head(inbox) \in Msg /\ 1 \in DOMAIN inbox /\ Head(inbox) = inbox[1]
      /\ \A i \in DOMAIN Tail(inbox) : /\ i \in Nat \ {0} /\ i + 1 \in DOMAIN inbox
                                       /\ Tail(inbox)[i] = inbox[i + 1]
  BY <1>1, PopIs
<1>3. MsgOk(Head(inbox), client[Head(inbox).from.host])
  BY <1>2 DEF ImgdInv, InboxOk
<1>4. ASSUME NEW m \in Msg
      PROVE  /\ m.from \in Address /\ m.from.host \in Hosts
             /\ m.op = "rrq" => m.what \in Files
  BY DEF Msg, Address
<1> QED
  BY <1>1, <1>2, <1>3, <1>4

\* A chunk that the server sends.
LEMMA ChunkSent ==
  ASSUME ImgdInv, NEW t \in Transfer, NEW n \in 1..Chunks, NEW r \in 0..MaxRetries,
         NEW to \in Address, to.port <= client[to.host].port, SendChunk(t, n, r, to)
  PROVE  /\ busy' = [t EXCEPT !.index = n, !.retries = r, !.to = to]
         /\ busy' \in Transfer /\ busy'.to = to /\ busy'.file = t.file /\ busy'.host = t.host
         /\ Chunk(t.host, t.file, n) \in ChunkOf
         /\ LET w == [kind |-> "data", data |-> Chunk(t.host, t.file, n), port |-> to.port] IN
            w \in Packet /\ Tells(to, w)
         /\ \E w \in Packet : Tells(to, w)
<1>1. busy' = [t EXCEPT !.index = n, !.retries = r, !.to = to]
  BY DEF SendChunk
<1>2. busy' \in Transfer /\ busy'.to = to /\ busy'.file = t.file /\ busy'.host = t.host
  BY <1>1 DEF Transfer
<1>3. Chunk(t.host, t.file, n) \in ChunkOf
  BY ImgdAssumption DEF Transfer, ChunkOf, Chunk
<1> DEFINE w == [kind |-> "data", data |-> Chunk(t.host, t.file, n), port |-> to.port]
<1>4. w \in Packet
  BY <1>3 DEF Packet, Address
<1>5. Tells(to, w)
  BY <1>4 DEF Tells, PacketOk, SendChunk, ToHost
<1> QED
  BY <1>1, <1>2, <1>3, <1>4, <1>5

\* Those of the server,
LEMMA NextUnknown == ASSUME ImgdInv, Unknown PROVE ImgdInv'
<1>1. ServerStep
  BY DEF ServerStep, Unknown, Read
<1>2. ConfigTypes' /\ TableTypes'
  BY ServerTyped DEF Unknown, config, table, ConfigTypes, TableTypes
<1> QED
  BY <1>1, <1>2, ServerNext DEF Unknown

\* The answer to a read request, if the image is there.
LEMMA RequestIs ==
  ASSUME ImgdInv, ReadRequest
  PROVE  LET m == Head(inbox)
             h == m.from.host
             w == [kind |-> IF m.what \in Missing THEN "error" ELSE "oack",
                   data |-> NoChunk, port |-> m.from.port] IN
         \/ UNCHANGED <<fileName, wire>>
         \/ /\ w \in Packet /\ Tells(m.from, w)
            /\ fileName' = [fileName EXCEPT ![h] = IF m.what \in Missing THEN NoFile ELSE m.what]
<1> DEFINE m == Head(inbox)
           h == m.from.host
           k == IF m.what \in Missing THEN "error" ELSE "oack"
           w == [kind |-> k, data |-> NoChunk, port |-> m.from.port]
<1>1. m \in Msg /\ m.from \in Address /\ MsgOk(m, client[m.from.host])
  BY ReadIs DEF ReadRequest
<1>2. w \in Packet
  BY <1>1 DEF Packet, Address
<1>3. PacketOk(w, client[m.from.host])
  <2>1. w.port = m.from.port /\ (w.kind = "error" => m.what \in Missing)
    OBVIOUS
  <2>2. m.op = "rrq"
    BY DEF ReadRequest
  <2> HIDE DEF w
  <2> QED
    BY <2>1, <2>2, <1>1 DEF MsgOk, PacketOk
<1>4. CASE UNCHANGED <<fileName, wire>>
  BY <1>4
<1>5. CASE /\ fileName' = [fileName EXCEPT ![h] = IF m.what \in Missing THEN NoFile ELSE m.what]
           /\ ToHost(m.from, k, NoChunk)
  <2>1. Tells(m.from, w)
    BY <1>1, <1>2, <1>3, <1>5 DEF Tells, ToHost
  <2> QED
    BY <1>2, <1>5, <2>1
<1> QED
  BY <1>4, <1>5 DEF ReadRequest

LEMMA NextReadRequest == ASSUME ImgdInv, ReadRequest PROVE ImgdInv'
<1> DEFINE m == Head(inbox)
           h == m.from.host
           f == IF m.what \in Missing THEN NoFile ELSE m.what
<1>1. /\ m.from \in Address /\ m.what \in Files /\ inbox # <<>> /\ inbox' = Tail(inbox)
  BY ReadIs DEF ReadRequest
<1>2. \/ UNCHANGED <<fileName, wire>>
      \/ /\ \E w \in Packet : Tells(m.from, w)
         /\ fileName' = [fileName EXCEPT ![h] = f]
  BY RequestIs
<1>3. ServerStep
  BY <1>1, <1>2 DEF ServerStep, ReadRequest
<1>4. f \in Files \cup {NoFile} /\ h \in Known /\ iso' \subseteq Known
  BY <1>1, ServerTyped DEF ReadRequest
<1>5. TableTypes'
  <2>1. fileName' \in [Known -> Files \cup {NoFile}]
    <3> HIDE DEF f, h, m
    <3> QED
      BY <1>2, <1>4, ServerTyped
  <2> QED
    BY <1>4, <2>1, ServerTyped DEF TableTypes, ReadRequest
<1>6. ConfigTypes'
  BY ServerTyped DEF ReadRequest, config, ConfigTypes
<1> QED
  BY <1>3, <1>5, <1>6, ServerNext DEF ReadRequest

\* The transfer that an acknowledgement starts, unless the host has no file.
LEMMA StartIs ==
  ASSUME ImgdInv, OptAck
  PROVE  LET m == Head(inbox)
             h == m.from.host
             t == [host |-> h, file |-> fileName[h], index |-> 1, retries |-> 0,
                   to |-> m.from] IN
         /\ m.from \in Address /\ m.from.port <= client[m.from.host].port
         /\ \/ fileName[h] = NoFile /\ UNCHANGED <<busy, wire>>
            \/ /\ t \in Transfer /\ 1 \in 1..Chunks /\ 0 \in 0..MaxRetries
               /\ SendChunk(t, 1, 0, m.from)
<1> DEFINE m == Head(inbox)
           h == m.from.host
           t == [host |-> h, file |-> fileName[h], index |-> 1, retries |-> 0, to |-> m.from]
<1>1. m.from \in Address /\ MsgOk(m, client[m.from.host]) /\ h \in Known
  BY ReadIs DEF OptAck
<1>2. 1 \in 1..Chunks /\ 0 \in 0..MaxRetries
  BY ImgdAssumption
<1>3. CASE fileName[h] # NoFile
  <2>1. fileName[h] \in Files
    BY <1>1, <1>3, ServerTyped
  <2>2. t \in Transfer
    BY <2>1, <1>1, <1>2 DEF Transfer
  <2>3. SendChunk(t, 1, 0, m.from)
    BY <1>3 DEF OptAck
  <2> QED
    BY <2>2, <2>3, <1>1, <1>2 DEF MsgOk
<1>4. CASE fileName[h] = NoFile
  BY <1>1, <1>4 DEF OptAck, MsgOk
<1> QED
  BY <1>3, <1>4

LEMMA NextOptAck == ASSUME ImgdInv, OptAck PROVE ImgdInv'
<1> DEFINE m == Head(inbox)
           h == m.from.host
           t == [host |-> h, file |-> fileName[h], index |-> 1, retries |-> 0, to |-> m.from]
<1>1. /\ m.from \in Address /\ m.from.port <= client[m.from.host].port
      /\ \/ UNCHANGED <<busy, wire>>
         \/ /\ t \in Transfer /\ 1 \in 1..Chunks /\ 0 \in 0..MaxRetries
            /\ SendChunk(t, 1, 0, m.from)
  BY StartIs
<1>2. inbox # <<>> /\ inbox' = Tail(inbox) /\ client' = client
  BY ReadIs DEF OptAck
<1>3. ServerStep
  <2>1. CASE UNCHANGED <<busy, wire>>
    BY <2>1, <1>2 DEF ServerStep
  <2>2. CASE t \in Transfer /\ 1 \in 1..Chunks /\ 0 \in 0..MaxRetries /\ SendChunk(t, 1, 0, m.from)
    <3>1. /\ busy' \in Transfer /\ busy'.to = m.from
          /\ \E w \in Packet : Tells(m.from, w)
      <4> HIDE DEF t, m
      <4> QED
        BY <2>2, <1>1, ChunkSent
    <3> QED
      BY <3>1, <1>1, <1>2 DEF ServerStep
  <2> QED
    BY <2>1, <2>2, <1>1
<1>4. ConfigTypes' /\ TableTypes'
  BY ServerTyped DEF OptAck, config, table, ConfigTypes, TableTypes
<1> QED
  BY <1>3, <1>4, ServerNext DEF OptAck

\* The transfer under way, and what it sends after a message.
LEMMA AnswerIs ==
  ASSUME ImgdInv, Answer
  PROVE  LET m == Head(inbox) IN
         /\ busy \in Transfer /\ m.from \in Address
         /\ m.from.port <= client[m.from.host].port
         /\ \/ Answers(busy, m) /\ busy.index = Chunks /\ Done(busy)
            \/ UNCHANGED config /\ \E n \in 1..Chunks, r \in 0..MaxRetries :
                                     SendChunk(busy, n, r, m.from)
<1> DEFINE m == Head(inbox)
<1>1. m.from \in Address /\ MsgOk(m, client[m.from.host])
  BY ReadIs DEF Answer
<1>2. /\ busy \in Transfer /\ busy.index \in 1..Chunks /\ busy.retries \in 0..MaxRetries
      /\ 0 \in 0..MaxRetries
  <2>1. busy \in Transfer
    BY ServerTyped DEF Answer
  <2> QED
    BY <2>1, ImgdAssumption DEF Transfer
<1>3. m.from.port <= client[m.from.host].port
  BY <1>1 DEF MsgOk
<1>4. \/ Answers(busy, m) /\ busy.index = Chunks /\ Done(busy)
      \/ busy.index < Chunks /\ SendChunk(busy, busy.index + 1, 0, m.from) /\ UNCHANGED config
      \/ SendChunk(busy, busy.index, busy.retries, m.from) /\ UNCHANGED config
  BY DEF Answer
<1>5. busy.index < Chunks => busy.index + 1 \in 1..Chunks
  BY <1>2, ImgdAssumption
<1> HIDE DEF m
<1>6. \/ Answers(busy, m) /\ busy.index = Chunks /\ Done(busy)
      \/ UNCHANGED config /\ \E n \in 1..Chunks, r \in 0..MaxRetries :
                               SendChunk(busy, n, r, m.from)
  BY <1>2, <1>4, <1>5
<1> QED
  BY <1>1, <1>2, <1>3, <1>6 DEF m

LEMMA NextAnswer == ASSUME ImgdInv, Answer PROVE ImgdInv'
<1> DEFINE m == Head(inbox)
<1>1. /\ busy \in Transfer /\ m.from \in Address /\ m.from.port <= client[m.from.host].port
      /\ \/ Done(busy)
         \/ UNCHANGED config /\ \E n \in 1..Chunks, r \in 0..MaxRetries :
                                  SendChunk(busy, n, r, m.from)
  BY AnswerIs
<1>2. inbox # <<>> /\ inbox' = Tail(inbox) /\ client' = client
  BY ReadIs DEF Answer
<1>3. TableTypes' /\ UNCHANGED <<has, bounds>>
  BY ServerTyped DEF Answer, table, TableTypes
<1>4. CASE Done(busy)
  <2>1. ServerStep
    BY <1>2, <1>4 DEF ServerStep, Done
  <2>2. ConfigTypes'
    <3>1. CASE UNCHANGED config
      BY <3>1, ServerTyped DEF config, ConfigTypes
    <3>2. CASE /\ cfg' = [cfg EXCEPT !.Serve[busy.host] = FALSE]
               /\ conf' = cfg' /\ changed' = TRUE
      <4>1. busy.host \in Known
        BY <1>1 DEF Transfer
      <4>2. cfg' \in Conf
        BY <3>2, <4>1, ServerTyped DEF Conf
      <4> QED
        BY <4>2, <3>2 DEF ConfigTypes
    <3> QED
      BY <3>1, <3>2, <1>4 DEF Done
  <2> QED
    BY <2>1, <2>2, <1>3, ServerNext
<1>5. CASE UNCHANGED config /\ \E n \in 1..Chunks, r \in 0..MaxRetries :
                                 SendChunk(busy, n, r, m.from)
  <2>1. PICK n \in 1..Chunks, r \in 0..MaxRetries : SendChunk(busy, n, r, m.from)
    BY <1>5
  <2>2. /\ busy' \in Transfer /\ busy'.to = m.from
        /\ \E w \in Packet : Tells(m.from, w)
    <3> HIDE DEF m
    <3> QED
      BY <2>1, <1>1, ChunkSent
  <2>3. ServerStep
    BY <2>2, <1>1, <1>2 DEF ServerStep
  <2>4. ConfigTypes'
    BY <1>5, ServerTyped DEF config, ConfigTypes
  <2> QED
    BY <2>3, <2>4, <1>3, ServerNext
<1> QED
  BY <1>1, <1>4, <1>5

\* What the transfer under way sends when nothing comes.
LEMMA TimeoutIs ==
  ASSUME ImgdInv, Timeout
  PROVE  /\ busy \in Transfer /\ busy.to \in Address
         /\ busy.to.port <= client[busy.to.host].port
         /\ \/ busy' = Idle /\ wire' = wire
            \/ \E n \in 1..Chunks, r \in 0..MaxRetries : SendChunk(busy, n, r, busy.to)
<1>1. busy \in Transfer /\ busy # Idle
  BY ServerTyped DEF Timeout
<1>2. /\ busy.to \in Address /\ busy.index \in 1..Chunks /\ busy.retries \in Nat
  BY <1>1, ImgdAssumption DEF Transfer
<1>3. busy.to.port <= client[busy.to.host].port
  BY <1>1 DEF ImgdInv, BusyOk
<1>4. CASE busy.retries + 1 > MaxRetries
  BY <1>1, <1>2, <1>3, <1>4 DEF Timeout
<1>5. CASE ~(busy.retries + 1 > MaxRetries)
  <2>1. busy.retries + 1 \in 0..MaxRetries
    BY <1>2, <1>5, ImgdAssumption
  <2>2. SendChunk(busy, busy.index, busy.retries + 1, busy.to)
    BY <1>5 DEF Timeout
  <2> QED
    BY <2>1, <2>2, <1>1, <1>2, <1>3
<1> QED
  BY <1>4, <1>5

LEMMA NextTimeout == ASSUME ImgdInv, Timeout PROVE ImgdInv'
<1>1. /\ busy \in Transfer /\ busy.to \in Address /\ busy.to.port <= client[busy.to.host].port
      /\ \/ busy' = Idle /\ wire' = wire
         \/ \E n \in 1..Chunks, r \in 0..MaxRetries : SendChunk(busy, n, r, busy.to)
  BY TimeoutIs
<1>2. inbox' = inbox /\ client' = client
  BY DEF Timeout
<1>3. ServerStep
  <2>1. CASE busy' = Idle /\ wire' = wire
    BY <2>1, <1>2 DEF ServerStep
  <2>2. CASE \E n \in 1..Chunks, r \in 0..MaxRetries : SendChunk(busy, n, r, busy.to)
    <3>1. PICK n \in 1..Chunks, r \in 0..MaxRetries : SendChunk(busy, n, r, busy.to)
      BY <2>2
    <3>2. /\ busy' \in Transfer /\ busy'.to = busy.to
          /\ \E w \in Packet : Tells(busy.to, w)
      BY <3>1, <1>1, ChunkSent
    <3> QED
      BY <3>2, <1>1, <1>2 DEF ServerStep
  <2> QED
    BY <2>1, <2>2, <1>1
<1>4. ConfigTypes' /\ TableTypes'
  BY ServerTyped DEF Timeout, config, table, ConfigTypes, TableTypes
<1> QED
  BY <1>3, <1>4, ServerNext DEF Timeout

\* and those of its configuration.
LEMMA NextUserSet == ASSUME ImgdInv, UserSet PROVE ImgdInv'
<1>1. edits + 1 \in 0..MaxEdits
  BY ServerTyped, ImgdAssumption DEF UserSet
<1>2. PICK h \in Known, b \in BOOLEAN : conf' = [conf EXCEPT !.Serve[h] = b, !.edit = edits + 1]
  BY DEF UserSet
<1>3. conf' \in Conf
  BY <1>1, <1>2, ServerTyped DEF Conf
<1>4. ConfigTypes'
  BY <1>3, ServerTyped DEF ConfigTypes, UserSet
<1>5. BoundTypes'
  BY <1>1 DEF ImgdInv, Types, BoundTypes, UserSet
<1>6. TableTypes' /\ ServerTypes' /\ NetTypes' /\ RomTypes'
  BY DEF ImgdInv, Types, TableTypes, ServerTypes, NetTypes, RomTypes, UserSet, table, network
<1>7. RomsOk' /\ InboxOk' /\ WireOk' /\ BusyOk'
  BY DEF ImgdInv, RomsOk, InboxOk, WireOk, BusyOk, UserSet, network
<1> QED
  BY <1>4, <1>5, <1>6, <1>7 DEF ImgdInv, Types

LEMMA NextStarted == ASSUME ImgdInv, Started PROVE ImgdInv'
<1>1. ConfigTypes' /\ TableTypes'
  BY ServerTyped DEF ConfigTypes, TableTypes, Conf, Started
<1>2. ServerTypes' /\ InboxOk'
  BY DEF ImgdInv, Types, ServerTypes, InboxOk, Started
<1>3. NetTypes' /\ RomTypes' /\ BoundTypes'
  BY DEF ImgdInv, Types, NetTypes, RomTypes, BoundTypes, Started, bounds
<1>4. RomsOk' /\ WireOk' /\ BusyOk'
  BY DEF ImgdInv, RomsOk, WireOk, BusyOk, Started
<1> QED
  BY <1>1, <1>2, <1>3, <1>4 DEF ImgdInv, Types

-----------------------------------------------------------------------------
\* Every step keeps the invariant.
LEMMA NextImgd == ImgdInv /\ [Next]_vars => ImgdInv'
<1> SUFFICES ASSUME ImgdInv, [Next]_vars PROVE ImgdInv'
  OBVIOUS
<1>1. ASSUME NEW g \in Hosts, Machine(g) PROVE ImgdInv'
  BY <1>1, NextDiscover, NextRequest, NextStray, NextAsk, NextReceive, NextAgain,
     NextPowerCycle, NextStarted DEF Machine, NoImage
<1>2. CASE Server
  BY <1>2, NextUnknown, NextReadRequest, NextOptAck, NextAnswer, NextTimeout, NextStarted
     DEF Server, DoneWithout
<1>3. CASE UNCHANGED vars
  <2>1. Types'
    BY <1>3 DEF vars, config, table, network, bounds, ImgdInv, Types, ConfigTypes, TableTypes,
       ServerTypes, NetTypes, RomTypes, BoundTypes
  <2> QED
    BY <2>1, <1>3 DEF vars, config, table, network, bounds, ImgdInv, RomsOk, InboxOk, WireOk,
       BusyOk
<1> QED
  BY <1>1, <1>2, <1>3, NextUserSet, NextStarted DEF Next, Reload

\* The invariant holds in every reachable state, for any hosts.
LEMMA ImgdInvHolds == Spec => []ImgdInv
BY InitImgd, NextImgd, PTL DEF Spec

(***************************************************************************)
(* The configuration, the tables of the server and the messages keep their *)
(* types, for any hosts, files, chunks and retries, and whatever is lost   *)
(* or comes late.                                                          *)
(***************************************************************************)
THEOREM TypeCorrect == Spec => []TypeOK
<1>1. ImgdInv => TypeOK
  BY TypesAre DEF ImgdInv
<1> QED
  BY <1>1, ImgdInvHolds, PTL

-----------------------------------------------------------------------------
(* Imgd: one host                                                          *)

\* The configuration lists one host, and it takes no data before the options it asked for.
OneHost == Plain = {} /\ \A g, h \in Known : g = h

\* The port a host has used last, the file it waits for, and its messages to the
\* server.
Port(h)    == client[h].port
File(h)    == Wanted[client[h].at]
Mine(h, i) == inbox[i].from.host = h

\* Options for the file that the host asks for are on their way to it.
Oack(h, i) == wire[h][i].kind = "oack" /\ wire[h][i].port = Port(h)

\* They are ahead of the packet i, or have come.
Opened(h, i) == \/ client[h].phase = "getting"
                \/ client[h].phase = "asking" /\ \E j \in DOMAIN wire[h] : j < i /\ Oack(h, j)

\* The server has read the host's request: they were sent.
Heard(h) == \/ client[h].phase = "getting"
            \/ client[h].phase = "asking" /\ \E j \in DOMAIN wire[h] : Oack(h, j)

\* What a host sent is read in the order of its ports.
InOrder(h) == \A i, j \in DOMAIN inbox :
    i < j /\ Mine(h, i) /\ Mine(h, j) => inbox[i].from.port <= inbox[j].from.port

\* From then on the server has nothing but that file in mind, and has read all that the host
\* sent before.
Tuned(h) == Heard(h) =>
    /\ fileName[h] \in {File(h), NoFile}
    /\ busy # Idle => busy.file = File(h)
    /\ \A i \in DOMAIN inbox : Mine(h, i) => inbox[i].from.port = Port(h)

\* Data that come after the options are of that file.
Follow(h) == \A i \in DOMAIN wire[h] : wire[h][i].kind = "data" =>
    /\ wire[h][i].data.of = h
    /\ wire[h][i].port = Port(h) /\ Opened(h, i) => wire[h][i].data.file = File(h)

\* The message j is one that may end the transfer of an initrd.
Pending(h) == fileName[h] = Initrd \/ (busy # Idle /\ busy.file = Initrd)
Ends(h, j) == \/ Pending(h)
              \/ \E i \in DOMAIN inbox : /\ i < j /\ Mine(h, i)
                                         /\ inbox[i].op = "rrq" /\ inbox[i].what = Initrd

\* If it acknowledges the last chunk, the host has its initrd.
Whole(h) == \A j \in DOMAIN inbox :
    Mine(h, j) /\ inbox[j].op = "ack" /\ inbox[j].what = Chunks /\ Ends(h, j) => h \in has

\* What the host has received is the file.
Got(h) == \A k \in 1..Len(client[h].got) : client[h].got[k] = Chunk(h, File(h), k)

\* The invariant about a host that the configuration lists.
HostInv(h) == InOrder(h) /\ Tuned(h) /\ Follow(h) /\ Whole(h) /\ Got(h)

\* What is in the buffer of the messages of a host was there, in the same order.
Moves(h, k) == /\ k \in {0, 1}
               /\ \A i \in DOMAIN inbox' :
                    inbox'[i].from.host = h => i + k \in DOMAIN inbox /\ inbox'[i] = inbox[i + k]

\* The buffers of messages of a host and their types.
LEMMA BuffersAre ==
  ASSUME ImgdInv, NEW h \in Known
  PROVE  /\ inbox \in Seq(Msg) /\ DOMAIN inbox = 1..Len(inbox) /\ Len(inbox) \in Nat
         /\ \A i \in DOMAIN inbox : /\ inbox[i] \in Msg /\ inbox[i].from.port \in Nat
                                    /\ MsgOk(inbox[i], client[inbox[i].from.host])
                                    /\ Mine(h, i) => inbox[i].from.port <= Port(h)
         /\ h \in Hosts /\ wire[h] \in Seq(Packet)
         /\ DOMAIN wire[h] = 1..Len(wire[h]) /\ Len(wire[h]) \in Nat
         /\ \A i \in DOMAIN wire[h] : wire[h][i] \in Packet /\ wire[h][i].port \in Nat
                                      /\ PacketOk(wire[h][i], client[h])
                                      /\ wire[h][i].port <= Port(h)
<1>1. h \in Hosts
  BY ImgdAssumption
<1>2. inbox \in Seq(Msg) /\ wire[h] \in Seq(Packet)
  BY <1>1 DEF ImgdInv, Types, ServerTypes, NetTypes
<1>3. \A m \in Msg : m.from.port \in Nat
  BY DEF Msg, Address
<1>4. \A w \in Packet : w.port \in Nat
  BY DEF Packet
<1>5. ASSUME NEW i \in DOMAIN inbox
      PROVE  /\ inbox[i] \in Msg /\ inbox[i].from.port \in Nat
             /\ MsgOk(inbox[i], client[inbox[i].from.host])
             /\ Mine(h, i) => inbox[i].from.port <= Port(h)
  <2>1. inbox[i] \in Msg
    BY <1>2, <1>5
  <2>2. MsgOk(inbox[i], client[inbox[i].from.host])
    BY <1>5 DEF ImgdInv, InboxOk
  <2> QED
    BY <2>1, <2>2, <1>3 DEF MsgOk, Mine, Port
<1>6. ASSUME NEW i \in DOMAIN wire[h]
      PROVE  wire[h][i] \in Packet /\ wire[h][i].port \in Nat
             /\ PacketOk(wire[h][i], client[h]) /\ wire[h][i].port <= Port(h)
  <2>1. wire[h][i] \in Packet
    BY <1>2, <1>6
  <2>2. PacketOk(wire[h][i], client[h])
    BY <1>1, <1>6 DEF ImgdInv, WireOk
  <2> QED
    BY <2>1, <2>2, <1>4 DEF PacketOk, Port
<1>7. DOMAIN inbox = 1..Len(inbox) /\ Len(inbox) \in Nat
  BY <1>2, DomainIs
<1>8. DOMAIN wire[h] = 1..Len(wire[h]) /\ Len(wire[h]) \in Nat
  BY <1>2, DomainIs
<1> QED
  BY <1>1, <1>2, <1>5, <1>6, <1>7, <1>8

\* Messages that only move up stay in order.
LEMMA OrderMoves ==
  ASSUME NEW h, InOrder(h), NEW k, Moves(h, k), DOMAIN inbox' \subseteq Nat
  PROVE  InOrder(h)'
<1> SUFFICES ASSUME NEW i \in DOMAIN inbox', NEW j \in DOMAIN inbox', i < j,
                    Mine(h, i)', Mine(h, j)'
             PROVE  inbox'[i].from.port <= inbox'[j].from.port
  BY DEF InOrder
<1>1. /\ i + k \in DOMAIN inbox /\ inbox'[i] = inbox[i + k]
      /\ j + k \in DOMAIN inbox /\ inbox'[j] = inbox[j + k]
  BY DEF Moves, Mine
<1>2. i + k < j + k
  BY DEF Moves
<1>3. Mine(h, i + k) /\ Mine(h, j + k)
  BY <1>1 DEF Mine
<1> QED
  BY <1>1, <1>2, <1>3 DEF InOrder

\* Messages that only move up do not come to end another transfer.
LEMMA WholeMoves ==
  ASSUME ImgdInv, NEW h \in Known, Whole(h), NEW k, Moves(h, k), DOMAIN inbox' \subseteq Nat,
         has' = has, Pending(h)' => Pending(h)
  PROVE  Whole(h)'
<1> SUFFICES ASSUME NEW j \in DOMAIN inbox', Mine(h, j)', inbox'[j].op = "ack",
                    inbox'[j].what = Chunks, Ends(h, j)'
             PROVE  h \in has
  BY DEF Whole
<1>1. j + k \in DOMAIN inbox /\ inbox'[j] = inbox[j + k] /\ k \in Nat /\ j \in Nat
  BY DEF Moves, Mine
<1>2. Ends(h, j + k)
  <2>1. CASE Pending(h)'
    BY <2>1 DEF Ends
  <2>2. CASE \E i \in DOMAIN inbox' : /\ i < j /\ Mine(h, i)'
                                      /\ inbox'[i].op = "rrq" /\ inbox'[i].what = Initrd
    <3>1. PICK i \in DOMAIN inbox' : /\ i < j /\ Mine(h, i)'
                                     /\ inbox'[i].op = "rrq" /\ inbox'[i].what = Initrd
      BY <2>2
    <3>2. /\ i + k \in DOMAIN inbox /\ inbox'[i] = inbox[i + k] /\ i \in Nat
          /\ i + k < j + k
      BY <3>1, <1>1 DEF Moves, Mine
    <3>3. Mine(h, i + k)
      BY <3>1, <3>2 DEF Mine
    <3> QED
      BY <3>1, <3>2, <3>3 DEF Ends
  <2> QED
    BY <2>1, <2>2 DEF Ends
<1> QED
  BY <1>1, <1>2 DEF Whole, Mine

\* Nothing of what the host waits for has changed.
LEMMA QuietHost ==
  ASSUME ImgdInv, NEW h \in Known, HostInv(h), NEW k, Moves(h, k),
         client'[h] = client[h], wire'[h] = wire[h], has' = has \/ inbox' = <<>>,
         fileName'[h] \in {fileName[h], NoFile}, busy' \in {busy, Idle},
         DOMAIN inbox' \subseteq Nat
  PROVE  HostInv(h)'
<1>1. InOrder(h)'
  BY OrderMoves DEF HostInv
<1>2. Heard(h)' => Heard(h)
  BY DEF Heard, Oack, Port
<1>3. Tuned(h)'
  <2> SUFFICES ASSUME Heard(h)' PROVE Tuned(h)'
    BY DEF Tuned
  <2>1. /\ fileName[h] \in {File(h), NoFile}
        /\ busy # Idle => busy.file = File(h)
        /\ \A i \in DOMAIN inbox : Mine(h, i) => inbox[i].from.port = Port(h)
    BY <1>2 DEF HostInv, Tuned
  <2>2. File(h)' = File(h) /\ Port(h)' = Port(h)
    BY DEF File, Port
  <2>3. \A i \in DOMAIN inbox' : Mine(h, i)' => inbox'[i].from.port = Port(h)
    BY <2>1 DEF Moves, Mine
  <2> QED
    BY <2>1, <2>2, <2>3 DEF Tuned
<1>4. Follow(h)'
  <2>1. \A i \in DOMAIN wire'[h] : Opened(h, i)' => Opened(h, i)
    BY DEF Opened, Oack, Port
  <2> QED
    BY <2>1 DEF HostInv, Follow, File, Port
<1>5. Whole(h)'
  <2>1. CASE inbox' = <<>>
    BY <2>1 DEF Whole
  <2>2. CASE has' = has
    BY <2>2, WholeMoves, ImgdAssumption, WantedIs DEF HostInv, Pending
  <2> QED
    BY <2>1, <2>2
<1>6. Got(h)'
  BY DEF HostInv, Got, File
<1> QED
  BY <1>1, <1>3, <1>4, <1>5, <1>6 DEF HostInv

\* The transfer sends a chunk, to the host or to whoever answered last.
LEMMA ChunkHost ==
  ASSUME ImgdInv, NEW h \in Known, HostInv(h), NEW k, Moves(h, k), DOMAIN inbox' \subseteq Nat,
         client' = client, has' = has, fileName' = fileName,
         NEW t \in Transfer, NEW n \in 1..Chunks, NEW r \in 0..MaxRetries, NEW to \in Address,
         to.port <= client[to.host].port, SendChunk(t, n, r, to),
         t.host = h, Heard(h) => t.file = File(h), t.file = Initrd => Pending(h)
  PROVE  HostInv(h)'
<1> DEFINE w == [kind |-> "data", data |-> Chunk(t.host, t.file, n), port |-> to.port]
<1>1. /\ busy' \in Transfer /\ busy'.file = t.file /\ w \in Packet /\ Tells(to, w)
  BY ChunkSent
<1>2. \A i \in DOMAIN wire'[h] :
         \/ i \in DOMAIN wire[h] /\ wire'[h][i] = wire[h][i]
         \/ wire'[h][i] = w /\ \A j \in DOMAIN wire[h] : j < i
  <2> HIDE DEF w
  <2> QED
    BY <1>1, TellsIs, BuffersAre
<1>w. w.kind = "data" /\ w.data.of = h /\ w.data.file = t.file
  BY DEF Chunk
<1> HIDE DEF w
<1>3. InOrder(h)'
  BY OrderMoves DEF HostInv
<1>s. File(h)' = File(h) /\ Port(h)' = Port(h)
  BY DEF File, Port
<1>4. \A i \in DOMAIN wire'[h] : Opened(h, i)' => Heard(h)
  <2> SUFFICES ASSUME NEW i \in DOMAIN wire'[h], Opened(h, i)' PROVE Heard(h)
    OBVIOUS
  <2>1. CASE client[h].phase = "getting"
    BY <2>1 DEF Heard
  <2>2. CASE /\ client[h].phase = "asking"
             /\ \E j \in DOMAIN wire'[h] : j < i /\ Oack(h, j)'
    <3>1. PICK j \in DOMAIN wire'[h] : j < i /\ Oack(h, j)'
      BY <2>2
    <3>2. wire'[h][j].kind = "oack" /\ wire'[h][j].port = Port(h)
      BY <3>1, <1>s DEF Oack
    <3>3. j \in DOMAIN wire[h] /\ wire'[h][j] = wire[h][j]
      BY <3>2, <1>2, <1>w
    <3> QED
      BY <3>2, <3>3, <2>2 DEF Heard, Oack
  <2> QED
    BY <2>1, <2>2 DEF Opened
<1>5. Heard(h)' => Heard(h)
  <2> SUFFICES ASSUME Heard(h)' PROVE Heard(h)
    OBVIOUS
  <2>1. CASE client[h].phase = "getting"
    BY <2>1 DEF Heard
  <2>2. CASE client[h].phase = "asking" /\ \E j \in DOMAIN wire'[h] : Oack(h, j)'
    <3>1. PICK j \in DOMAIN wire'[h] : Oack(h, j)'
      BY <2>2
    <3>2. wire'[h][j].kind = "oack" /\ wire'[h][j].port = Port(h)
      BY <3>1, <1>s DEF Oack
    <3>3. j \in DOMAIN wire[h] /\ wire'[h][j] = wire[h][j]
      BY <3>2, <1>2, <1>w
    <3> QED
      BY <3>2, <3>3, <2>2 DEF Heard, Oack
  <2> QED
    BY <2>1, <2>2 DEF Heard
<1>6. Tuned(h)'
  <2> SUFFICES ASSUME Heard(h)' PROVE Tuned(h)'
    BY DEF Tuned
  <2>1. /\ fileName[h] \in {File(h), NoFile}
        /\ \A i \in DOMAIN inbox : Mine(h, i) => inbox[i].from.port = Port(h)
    BY <1>5 DEF HostInv, Tuned
  <2>2. \A i \in DOMAIN inbox' : Mine(h, i)' => inbox'[i].from.port = Port(h)
    BY <2>1 DEF Moves, Mine
  <2>3. busy'.file = File(h)
    BY <1>1, <1>5
  <2> QED
    BY <2>1, <2>2, <2>3, <1>s DEF Tuned
<1>7. Follow(h)'
  <2> SUFFICES ASSUME NEW i \in DOMAIN wire'[h], wire'[h][i].kind = "data"
               PROVE  /\ wire'[h][i].data.of = h
                      /\ wire'[h][i].port = Port(h) /\ Opened(h, i)'
                            => wire'[h][i].data.file = File(h)
    BY <1>s DEF Follow
  <2>1. CASE wire'[h][i] = w
    BY <2>1, <1>w, <1>4
  <2>2. CASE i \in DOMAIN wire[h] /\ wire'[h][i] = wire[h][i]
    <3>1. Opened(h, i)' => Opened(h, i)
      <4> SUFFICES ASSUME client[h].phase = "asking", NEW j \in DOMAIN wire'[h],
                          j < i, Oack(h, j)'
                   PROVE  Opened(h, i)
        BY DEF Opened
      <4>1. wire'[h][j].kind = "oack" /\ wire'[h][j].port = Port(h)
        BY <1>s DEF Oack
      <4>2. j \in DOMAIN wire[h] /\ wire'[h][j] = wire[h][j]
        BY <4>1, <1>2, <1>w
      <4> QED
        BY <4>1, <4>2 DEF Opened, Oack
    <3> QED
      BY <3>1, <2>2 DEF HostInv, Follow
  <2> QED
    BY <2>1, <2>2, <1>2
<1>8. Whole(h)'
  BY <1>1, WholeMoves DEF HostInv, Pending
<1>9. Got(h)'
  BY <1>s DEF HostInv, Got
<1> QED
  BY <1>3, <1>6, <1>7, <1>8, <1>9 DEF HostInv

\* A read request is answered with the options of that very request.
LEMMA ReadHost ==
  ASSUME ImgdInv, OneHost, NEW h \in Known, HostInv(h), ReadRequest
  PROVE  HostInv(h)'
<1> DEFINE m == Head(inbox)
           w == [kind |-> IF m.what \in Missing THEN "error" ELSE "oack",
                 data |-> NoChunk, port |-> m.from.port]
<1>1. /\ MsgOk(m, client[m.from.host]) /\ m.from \in Address
      /\ 1 \in DOMAIN inbox /\ m = inbox[1] /\ m.what \in Files
      /\ \A i \in DOMAIN inbox' : /\ i \in Nat \ {0} /\ i + 1 \in DOMAIN inbox
                                  /\ inbox'[i] = inbox[i + 1]
  BY ReadIs DEF ReadRequest
<1>0. /\ busy = Idle /\ m.op = "rrq" /\ m.from.host = h
      /\ busy' = busy /\ client' = client /\ has' = has
  BY DEF ReadRequest, OneHost
<1>3. Moves(h, 1) /\ DOMAIN inbox' \subseteq Nat
  BY <1>1 DEF Moves
<1> DEFINE Answered == /\ w \in Packet /\ Tells(m.from, w)
                       /\ fileName' = [fileName EXCEPT ![h] = IF m.what \in Missing THEN NoFile
                                                              ELSE m.what]
<1>r. UNCHANGED <<fileName, wire>> \/ Answered
  BY <1>0, RequestIs
<1>q. CASE UNCHANGED <<fileName, wire>>
  BY <1>0, <1>3, <1>q, QuietHost
<1>a. SUFFICES ASSUME Answered PROVE HostInv(h)'
  BY <1>q, <1>r
<1>2. /\ busy = Idle /\ m.op = "rrq" /\ m.from.host = h
      /\ fileName' = [fileName EXCEPT ![h] = IF m.what \in Missing THEN NoFile ELSE m.what]
      /\ busy' = busy /\ client' = client /\ has' = has
  BY <1>0, <1>a
<1>4. w \in Packet /\ Tells(m.from, w)
  BY <1>a
<1>w. /\ w.kind \in {"error", "oack"} /\ w.port = m.from.port
      /\ (w.kind = "oack" <=> m.what \notin Missing)
  OBVIOUS
<1>p. m.from.port \in Nat /\ Port(h) \in Nat /\ h \in Hosts
  <2>1. h \in Hosts
    BY BuffersAre
  <2>2. client[h].port \in Nat
    BY <2>1, RomTyped
  <2> QED
    BY <1>1, <2>1, <2>2 DEF Address, Port
<1> HIDE DEF m, w
<1>5. \A i \in DOMAIN wire'[h] :
         \/ i \in DOMAIN wire[h] /\ wire'[h][i] = wire[h][i]
         \/ wire'[h][i] = w /\ \A j \in DOMAIN wire[h] : j < i
  BY <1>1, <1>4, <1>p, TellsIs
<1>s. File(h)' = File(h) /\ Port(h)' = Port(h)
  BY <1>2 DEF File, Port
<1>f. fileName'[h] = IF m.what \in Missing THEN NoFile ELSE m.what
  BY <1>2, ServerTyped
<1>6. InOrder(h)'
  BY <1>3, OrderMoves DEF HostInv
\* The host has not had the options of another request.
<1>7. ASSUME Heard(h)' PROVE m.from.port = Port(h) /\ Waits(client[h])
  <2>0. Waits(client[h])
    BY <1>2, <1>7 DEF Heard, Waits
  <2>1. CASE Heard(h)
    <3>1. Mine(h, 1)
      BY <1>1, <1>2 DEF Mine
    <3> QED
      BY <2>0, <2>1, <3>1, <1>1 DEF HostInv, Tuned
  <2>2. CASE ~Heard(h)
    <3>1. client[h].phase = "asking" /\ client[h].phase # "getting"
      BY <2>2, <1>2, <1>7 DEF Heard
    <3>2. PICK j \in DOMAIN wire'[h] : Oack(h, j)'
      BY <3>1, <1>2, <1>7 DEF Heard
    <3>3. wire'[h][j].kind = "oack" /\ wire'[h][j].port = Port(h)
      BY <3>2, <1>s DEF Oack
    <3>4. wire'[h][j] = w
      BY <3>1, <3>3, <2>2, <1>5 DEF Heard, Oack
    <3> QED
      BY <2>0, <3>3, <3>4, <1>w
  <2> QED
    BY <2>1, <2>2
<1>8. Tuned(h)'
  <2> SUFFICES ASSUME Heard(h)' PROVE Tuned(h)'
    BY DEF Tuned
  <2>1. m.from.port = Port(h) /\ Waits(client[h])
    BY <1>7
  <2>2. m.what = File(h)
    BY <2>1, <1>1, <1>2 DEF MsgOk, File, Port
  <2>3. \A i \in DOMAIN inbox' : Mine(h, i)' => inbox'[i].from.port = Port(h)
    <3> SUFFICES ASSUME NEW i \in DOMAIN inbox', Mine(h, i)' PROVE inbox'[i].from.port = Port(h)
      OBVIOUS
    <3>1. i + 1 \in DOMAIN inbox /\ inbox'[i] = inbox[i + 1] /\ 1 < i + 1
      BY <1>1
    <3>2. Mine(h, i + 1) /\ Mine(h, 1)
      BY <3>1, <1>1, <1>2 DEF Mine
    <3>3. inbox[i + 1].from.port <= Port(h) /\ inbox[i + 1].from.port \in Nat
      BY <3>1, <3>2, BuffersAre
    <3>4. inbox[1].from.port <= inbox[i + 1].from.port
      BY <3>1, <3>2, <1>1 DEF HostInv, InOrder
    <3> QED
      BY <3>1, <3>3, <3>4, <2>1, <1>1, <1>p
  <2> QED
    BY <2>2, <2>3, <1>2, <1>f, <1>s DEF Tuned
<1>9. Follow(h)'
  <2> SUFFICES ASSUME NEW i \in DOMAIN wire'[h], wire'[h][i].kind = "data"
               PROVE  /\ wire'[h][i].data.of = h
                      /\ wire'[h][i].port = Port(h) /\ Opened(h, i)'
                            => wire'[h][i].data.file = File(h)
    BY <1>s DEF Follow
  <2>1. i \in DOMAIN wire[h] /\ wire'[h][i] = wire[h][i]
    BY <1>5, <1>w
  <2>2. \A j \in DOMAIN wire'[h] : j < i => j \in DOMAIN wire[h] /\ wire'[h][j] = wire[h][j]
    <3> SUFFICES ASSUME NEW j \in DOMAIN wire'[h], j < i, \A x \in DOMAIN wire[h] : x < j
                 PROVE  FALSE
      BY <1>5
    <3>1. i \in Nat /\ i < j
      BY <2>1, BuffersAre
    <3>2. j \in Nat
      <4>1. wire' \in [Hosts -> Seq(Packet)]
        BY <1>1, <1>4, TellsIs
      <4>2. wire'[h] \in Seq(Packet)
        BY <4>1, <1>p
      <4> QED
        BY <4>2, DomainIs
    <3> QED
      BY <3>1, <3>2
  <2>3. Opened(h, i)' => Opened(h, i)
    BY <1>2, <1>s, <2>2 DEF Opened, Oack
  <2> QED
    BY <2>1, <2>3 DEF HostInv, Follow
<1>10. Whole(h)'
  <2> SUFFICES ASSUME NEW j \in DOMAIN inbox', Mine(h, j)', inbox'[j].op = "ack",
                      inbox'[j].what = Chunks, Ends(h, j)'
               PROVE  h \in has
    BY <1>2 DEF Whole
  <2>1. j + 1 \in DOMAIN inbox /\ inbox'[j] = inbox[j + 1] /\ j \in Nat /\ j > 0
    BY <1>1
  <2>2. Ends(h, j + 1)
    <3>1. CASE Pending(h)'
      <4>1. m.what = Initrd
        BY <3>1, <1>2, <1>f, ImgdAssumption, WantedIs DEF Pending
      <4>2. Mine(h, 1) /\ inbox[1].op = "rrq" /\ inbox[1].what = Initrd /\ 1 < j + 1
        BY <4>1, <1>1, <1>2, <2>1 DEF Mine
      <4> QED
        BY <4>2, <1>1 DEF Ends
    <3>2. CASE \E i \in DOMAIN inbox' : /\ i < j /\ Mine(h, i)'
                                        /\ inbox'[i].op = "rrq" /\ inbox'[i].what = Initrd
      <4>1. PICK i \in DOMAIN inbox' : /\ i < j /\ Mine(h, i)'
                                       /\ inbox'[i].op = "rrq" /\ inbox'[i].what = Initrd
        BY <3>2
      <4>2. /\ i + 1 \in DOMAIN inbox /\ inbox'[i] = inbox[i + 1] /\ i \in Nat
            /\ i + 1 < j + 1
        BY <4>1, <2>1, <1>1
      <4>3. Mine(h, i + 1)
        BY <4>1, <4>2 DEF Mine
      <4> QED
        BY <4>1, <4>2, <4>3 DEF Ends
    <3> QED
      BY <3>1, <3>2 DEF Ends
  <2>3. Mine(h, j + 1)
    BY <2>1 DEF Mine
  <2> QED
    BY <2>1, <2>2, <2>3 DEF HostInv, Whole
<1>11. Got(h)'
  BY <1>s, <1>2 DEF HostInv, Got
<1> QED
  BY <1>6, <1>8, <1>9, <1>10, <1>11 DEF HostInv

-----------------------------------------------------------------------------
(* Imgd: the host's own steps                                              *)

\* Something that it sent, or sends, may yet end the transfer of an initrd.
Awaited(h) == \/ Pending(h)
              \/ \E i \in DOMAIN inbox : /\ Mine(h, i)
                                         /\ inbox[i].op = "rrq" /\ inbox[i].what = Initrd

\* What it sends acknowledges no last chunk while an initrd is sent, unless it has it.
Honest(h, m) == m.op = "ack" /\ m.what = Chunks /\ Awaited(h) => h \in has'

\* It stops waiting; or waits for another file at a port of its own; or for what it waited
\* for; or has the options.
Turns(h, d) ==
    \/ ~Waits(d)
    \/ d.phase = "asking" /\ d.port > Port(h)
    \/ d.phase = client[h].phase /\ d.port = Port(h) /\ d.at = client[h].at
    \/ /\ client[h].phase = "asking" /\ wire[h] # <<>> /\ Oack(h, 1)
       /\ wire' = [wire EXCEPT ![h] = Tail(@)]
       /\ d.phase = "getting" /\ d.port = Port(h) /\ d.at = client[h].at

\* A step of the host itself that changes its place at most as it is described keeps
\* HostInv.
LEMMA RomHost ==
  ASSUME ImgdInv, NEW h \in Known, HostInv(h), NEW d \in Rom, RomStep(h, d), Turns(h, d),
         fileName' = fileName, has \subseteq has', Got(h)',
         \/ inbox' = inbox
         \/ \E m \in Msg : Says(h, d, m) /\ inbox' \in Sent(inbox, m, Cap) /\ Honest(h, m),
         client[h].port <= d.port
  PROVE  HostInv(h)'
<1>h. h \in Hosts /\ Port(h) \in Nat /\ client \in [Hosts -> Rom]
  <2>1. h \in Hosts
    BY BuffersAre
  <2> QED
    BY <2>1, RomTyped DEF Port
<1>c. client'[h] = d /\ Port(h)' = d.port /\ d.port \in Nat /\ busy' = busy /\ Port(h) <= d.port
  BY <1>h DEF RomStep, Port, Rom
<1> DEFINE Taken == wire[h] # <<>> /\ wire' = [wire EXCEPT ![h] = Tail(@)]
<1>1. PICK k \in {0, 1} :
         /\ Taken => k = 1
         /\ \A i \in DOMAIN wire'[h] : /\ i \in Nat \ {0} /\ i + k \in DOMAIN wire[h]
                                       /\ wire'[h][i] = wire[h][i + k]
  <2>1. CASE Taken
    <3>1. wire'[h] = Tail(wire[h])
      <4>1. wire \in [Hosts -> Seq(Packet)]
        BY DEF ImgdInv, Types, NetTypes
      <4> QED
        BY <4>1, <2>1, <1>h
    <3>2. \A i \in DOMAIN wire'[h] : /\ i \in Nat \ {0} /\ i + 1 \in DOMAIN wire[h]
                                     /\ wire'[h][i] = wire[h][i + 1]
      <4>1. wire[h] \in Seq(Packet) /\ wire[h] # <<>>
        BY <2>1, BuffersAre
      <4> QED
        BY <4>1, <3>1, PopIs
    <3> QED
      BY <3>2
  <2>2. CASE ~Taken
    <3>1. wire' = wire
      BY <2>2 DEF RomStep
    <3>2. \A i \in DOMAIN wire'[h] : /\ i \in Nat \ {0} /\ i + 0 \in DOMAIN wire[h]
                                     /\ wire'[h][i] = wire[h][i + 0]
      BY <3>1, BuffersAre
    <3> HIDE DEF Taken
    <3> QED
      BY <2>2, <3>2
  <2> QED
    BY <2>1, <2>2
<1>2. ASSUME Heard(h)'
      PROVE  Heard(h) /\ d.port = Port(h) /\ d.at = client[h].at
  <2>0. Waits(d)
    BY <1>2, <1>c DEF Heard, Waits
  <2>1. CASE d.phase = "asking" /\ d.port > Port(h)
    <3>1. PICK j \in DOMAIN wire'[h] : Oack(h, j)'
      BY <1>2, <2>1, <1>c DEF Heard
    <3>2. wire[h][j + k].port = d.port /\ j + k \in DOMAIN wire[h]
      BY <3>1, <1>1, <1>c DEF Oack
    <3> QED
      BY <3>2, <2>1, <1>c, <1>h, BuffersAre
  <2>2. CASE d.phase = client[h].phase /\ d.port = Port(h) /\ d.at = client[h].at
    <3>1. CASE client[h].phase = "getting"
      BY <2>2, <3>1 DEF Heard
    <3>2. CASE client[h].phase = "asking"
      <4>1. PICK j \in DOMAIN wire'[h] : Oack(h, j)'
        BY <1>2, <2>2, <3>2, <1>c DEF Heard
      <4>2. j + k \in DOMAIN wire[h] /\ Oack(h, j + k)
        BY <4>1, <1>1, <1>c, <2>2 DEF Oack
      <4> QED
        BY <4>2, <2>2, <3>2 DEF Heard
    <3> QED
      BY <2>0, <2>2, <3>1, <3>2 DEF Waits
  <2>3. CASE /\ client[h].phase = "asking" /\ wire[h] # <<>> /\ Oack(h, 1)
             /\ d.phase = "getting" /\ d.port = Port(h) /\ d.at = client[h].at
    <3>1. 1 \in DOMAIN wire[h]
      BY <2>3, BuffersAre
    <3> QED
      BY <3>1, <2>3 DEF Heard
  <2> QED
    BY <2>0, <2>1, <2>2, <2>3 DEF Turns
<1>3. ASSUME NEW i \in DOMAIN wire'[h], Opened(h, i)'
      PROVE  wire'[h][i].port = d.port => Opened(h, i + k) /\ d.port = Port(h) /\ d.at = client[h].at
  <2>0. Waits(d) /\ Heard(h)'
    BY <1>3, <1>c DEF Opened, Waits, Heard
  <2>1. d.port = Port(h) /\ d.at = client[h].at
    BY <1>2, <2>0
  <2>2. CASE d.phase = client[h].phase
    <3>1. CASE client[h].phase = "getting"
      BY <2>1, <3>1 DEF Opened
    <3>2. CASE client[h].phase = "asking" /\ d.phase = "asking"
      <4>1. PICK j \in DOMAIN wire'[h] : j < i /\ Oack(h, j)'
        BY <1>3, <3>2, <1>c DEF Opened
      <4>2. j + k \in DOMAIN wire[h] /\ Oack(h, j + k) /\ j + k < i + k
        BY <4>1, <1>1, <1>c, <2>1 DEF Oack
      <4> QED
        BY <4>2, <2>1, <3>2 DEF Opened
    <3> QED
      BY <2>0, <2>2, <3>1, <3>2 DEF Waits
  <2>3. CASE /\ client[h].phase = "asking" /\ wire[h] # <<>> /\ Oack(h, 1)
             /\ wire' = [wire EXCEPT ![h] = Tail(@)]
    <3>1. 1 \in DOMAIN wire[h] /\ 1 < i + k
      BY <1>1, <1>3, <2>3, BuffersAre
    <3> QED
      BY <3>1, <2>1, <2>3 DEF Opened
  <2>4. \/ d.phase = client[h].phase
        \/ /\ client[h].phase = "asking" /\ wire[h] # <<>> /\ Oack(h, 1)
           /\ wire' = [wire EXCEPT ![h] = Tail(@)]
    BY <2>0, <2>1, <1>h DEF Turns
  <2> QED
    BY <2>1, <2>2, <2>3, <2>4
<1>4. Follow(h)'
  <2> SUFFICES ASSUME NEW i \in DOMAIN wire'[h], wire'[h][i].kind = "data"
               PROVE  /\ wire'[h][i].data.of = h
                      /\ wire'[h][i].port = d.port /\ Opened(h, i)'
                            => wire'[h][i].data.file = Wanted[d.at]
    BY <1>c DEF Follow, File
  <2>1. i + k \in DOMAIN wire[h] /\ wire'[h][i] = wire[h][i + k]
    BY <1>1
  <2> QED
    BY <2>1, <1>3 DEF HostInv, Follow, File
<1>m. \/ inbox' = inbox
      \/ \E m \in Msg : /\ m.from = [host |-> h, port |-> d.port] /\ Honest(h, m)
                        /\ \A i \in DOMAIN inbox' :
                              \/ i \in DOMAIN inbox /\ inbox'[i] = inbox[i]
                              \/ inbox'[i] = m /\ \A j \in DOMAIN inbox : j < i
  BY SentIs, BuffersAre DEF Says
<1>n. DOMAIN inbox' \subseteq Nat
  <2>1. inbox' \in Seq(Msg)
    BY SentIs, BuffersAre DEF Says
  <2> QED
    BY <2>1, DomainIs
<1>p. \A i \in DOMAIN inbox : Mine(h, i) => inbox[i].from.port <= d.port
  BY <1>c, <1>h, BuffersAre
<1>5. InOrder(h)'
  <2>1. CASE inbox' = inbox
    BY <2>1 DEF HostInv, InOrder, Mine
  <2>2. CASE \E m \in Msg : /\ m.from = [host |-> h, port |-> d.port]
                            /\ \A i \in DOMAIN inbox' :
                                  \/ i \in DOMAIN inbox /\ inbox'[i] = inbox[i]
                                  \/ inbox'[i] = m /\ \A j \in DOMAIN inbox : j < i
    <3>1. PICK m \in Msg : /\ m.from.port = d.port
                           /\ \A i \in DOMAIN inbox' :
                                 \/ i \in DOMAIN inbox /\ inbox'[i] = inbox[i]
                                 \/ inbox'[i] = m /\ \A j \in DOMAIN inbox : j < i
      BY <2>2
    <3> SUFFICES ASSUME NEW i \in DOMAIN inbox', NEW j \in DOMAIN inbox', i < j,
                        Mine(h, i)', Mine(h, j)'
                 PROVE  inbox'[i].from.port <= inbox'[j].from.port
      BY DEF InOrder
    <3>2. i \in Nat /\ j \in Nat
      BY <1>n
    <3>3. CASE j \in DOMAIN inbox /\ inbox'[j] = inbox[j]
      <4>1. i \in DOMAIN inbox /\ inbox'[i] = inbox[i]
        BY <3>1, <3>2, <3>3
      <4> QED
        BY <4>1, <3>3 DEF HostInv, InOrder, Mine
    <3>4. CASE inbox'[j] = m
      <4>1. CASE inbox'[i] = m
        BY <4>1, <3>1, <3>4, <1>c
      <4>2. CASE i \in DOMAIN inbox /\ inbox'[i] = inbox[i]
        BY <4>2, <3>1, <3>4, <1>p DEF Mine
      <4> QED
        BY <4>1, <4>2, <3>1
    <3> QED
      BY <3>1, <3>3, <3>4
  <2> QED
    BY <2>1, <2>2, <1>m
<1>6. Tuned(h)'
  <2> SUFFICES ASSUME Heard(h)' PROVE Tuned(h)'
    BY DEF Tuned
  <2>1. Heard(h) /\ d.port = Port(h) /\ d.at = client[h].at /\ File(h)' = File(h)
    BY <1>2, <1>c DEF File
  <2>2. /\ fileName[h] \in {File(h), NoFile} /\ (busy # Idle => busy.file = File(h))
        /\ \A i \in DOMAIN inbox : Mine(h, i) => inbox[i].from.port = d.port
    BY <2>1 DEF HostInv, Tuned
  <2>3. \A i \in DOMAIN inbox' : Mine(h, i)' => inbox'[i].from.port = d.port
    <3>1. CASE inbox' = inbox
      BY <3>1, <2>2 DEF Mine
    <3>2. CASE \E m \in Msg : /\ m.from = [host |-> h, port |-> d.port]
                              /\ \A i \in DOMAIN inbox' :
                                    \/ i \in DOMAIN inbox /\ inbox'[i] = inbox[i]
                                    \/ inbox'[i] = m
      BY <3>2, <2>2 DEF Mine
    <3> QED
      BY <3>1, <3>2, <1>m
  <2> QED
    BY <2>1, <2>2, <2>3, <1>c DEF Tuned
<1>7. Whole(h)'
  <2> SUFFICES ASSUME NEW j \in DOMAIN inbox', Mine(h, j)', inbox'[j].op = "ack",
                      inbox'[j].what = Chunks, Ends(h, j)'
               PROVE  h \in has'
    BY DEF Whole
  <2>p. Pending(h)' <=> Pending(h)
    BY <1>c DEF Pending
  <2>1. CASE inbox' = inbox
    <3>1. Ends(h, j) /\ Mine(h, j)
      BY <2>1, <2>p DEF Ends, Mine
    <3> QED
      BY <2>1, <3>1 DEF HostInv, Whole
  <2>2. CASE \E m \in Msg : /\ Honest(h, m)
                            /\ \A i \in DOMAIN inbox' :
                                  \/ i \in DOMAIN inbox /\ inbox'[i] = inbox[i]
                                  \/ inbox'[i] = m /\ \A x \in DOMAIN inbox : x < i
    <3>1. PICK m \in Msg : /\ Honest(h, m)
                           /\ \A i \in DOMAIN inbox' :
                                 \/ i \in DOMAIN inbox /\ inbox'[i] = inbox[i]
                                 \/ inbox'[i] = m /\ \A x \in DOMAIN inbox : x < i
      BY <2>2
    <3>2. \A i \in DOMAIN inbox' : i < j =>
             \/ i \in DOMAIN inbox /\ inbox'[i] = inbox[i]
             \/ inbox'[i] = m /\ inbox'[j] = m
      BY <3>1, <1>n
    <3>3. CASE j \in DOMAIN inbox /\ inbox'[j] = inbox[j]
      <4>1. \A i \in DOMAIN inbox' : i < j => i \in DOMAIN inbox /\ inbox'[i] = inbox[i]
        BY <3>1, <3>3, <1>n
      <4>2. Ends(h, j) /\ Mine(h, j)
        BY <3>3, <4>1, <2>p DEF Ends, Mine
      <4> QED
        BY <3>3, <4>2 DEF HostInv, Whole
    <3>4. CASE inbox'[j] = m
      <4>1. Awaited(h)
        <5>1. CASE Pending(h)
          BY <5>1 DEF Awaited
        <5>2. CASE \E i \in DOMAIN inbox' : /\ i < j /\ Mine(h, i)'
                                            /\ inbox'[i].op = "rrq" /\ inbox'[i].what = Initrd
          <6>1. PICK i \in DOMAIN inbox' : /\ i < j /\ Mine(h, i)'
                                           /\ inbox'[i].op = "rrq" /\ inbox'[i].what = Initrd
            BY <5>2
          <6>2. i \in DOMAIN inbox /\ inbox'[i] = inbox[i]
            BY <6>1, <3>2
          <6> QED
            BY <6>1, <6>2 DEF Awaited, Mine
        <5> QED
          BY <5>1, <5>2, <2>p DEF Ends
      <4> QED
        BY <4>1, <3>1, <3>4 DEF Honest
    <3> QED
      BY <3>1, <3>3, <3>4
  <2> QED
    BY <2>1, <2>2, <1>m
<1> QED
  BY <1>4, <1>5, <1>6, <1>7 DEF HostInv

\* A step that leaves the host waiting for nothing, or for a file at a port of its own.
LEMMA DiscoverHost ==
  ASSUME ImgdInv, NEW h \in Known, HostInv(h), Discover(h) \/ Request(h) PROVE HostInv(h)'
<1> DEFINE k == 0
<1>1. h \in Hosts /\ client \in [Hosts -> Rom] /\ client[h].phase \in {"off", "offered"}
  BY BuffersAre, RomTyped DEF Discover, Request
<1>2. PICK p \in {"off", "offered", "next"} :
         client' = [client EXCEPT ![h] = [client[h] EXCEPT !.phase = p]]
  BY DEF Discover, Request, Become
<1> DEFINE d == [client[h] EXCEPT !.phase = p]
<1>3. client[h] \in Rom /\ client[h].port \in Nat
  BY <1>1, RomTyped
<1>4. d \in Rom /\ d.phase = p /\ d.port = client[h].port /\ d.got = client[h].got /\ d.at = client[h].at
  BY <1>3 DEF Rom
<1>5. UNCHANGED <<inbox, wire, busy, fileName, has>>
  BY DEF Discover, Request, network, table
<1> HIDE DEF d
<1>6. RomStep(h, d) /\ Turns(h, d)
  BY <1>2, <1>4, <1>5 DEF RomStep, Turns, Waits, d
<1>7. Got(h)'
  <2>1. client'[h] = d
    BY <1>1, <1>2 DEF d
  <2>2. File(h)' = File(h)
    BY <2>1, <1>4 DEF File
  <2> QED
    BY <2>1, <2>2, <1>4 DEF HostInv, Got
<1> QED
  BY <1>3, <1>4, <1>5, <1>6, <1>7, RomHost

\* What the host does keeps it: a request, which is of a new port,
LEMMA AskHost == ASSUME ImgdInv, NEW h \in Known, HostInv(h), Ask(h) PROVE HostInv(h)'
<1> DEFINE d == [phase |-> "asking", at |-> client[h].at + 1, port |-> client[h].port + 1,
                 got |-> <<>>]
<1>1. /\ h \in Hosts /\ client \in [Hosts -> Rom] /\ client[h].port \in Nat
      /\ client[h].at \in 0..Len(Wanted) /\ RomOk(h, client[h])
  BY BuffersAre, RomTyped
<1>2. client' = [client EXCEPT ![h] = d] /\ ToServer(h, "rrq", Wanted[client[h].at + 1])
  BY DEF Ask, Become
<1>t. client[h].at + 1 \in 1..Len(Wanted)
      /\ client[h].at + 1 \in 0..Len(Wanted)
  BY <1>1, ImgdAssumption, WantedIs DEF RomOk, Ask
<1>3. d \in Rom /\ d.at = client[h].at + 1 /\ d.port = client[h].port + 1 /\ d.got = <<>>
      /\ d.phase = "asking"
  BY <1>1, <1>t DEF Rom
<1>4. UNCHANGED <<wire, busy, fileName, has>>
  BY DEF Ask, table
<1> HIDE DEF d
<1>5. PICK m \in Msg : Says(h, d, m) /\ m.op = "rrq" /\ inbox' \in Sent(inbox, m, Cap)
  <2>1. Wanted[client[h].at + 1] \in Files /\ Wanted[client[h].at + 1] = Wanted[d.at]
    BY <1>3, <1>t, WantedIs
  <2>2. client \in [Hosts -> Rom] /\ h \in Hosts /\ d \in Rom
    BY <1>1, <1>3
  <2> QED
    BY <1>2, <2>1, <2>2, RrqIs
<1>6. RomStep(h, d) /\ Turns(h, d)
  BY <1>1, <1>2, <1>3, <1>4, <1>5 DEF RomStep, Turns, Port
<1>7. Got(h)'
  BY <1>1, <1>2, <1>3 DEF Got
<1>8. Honest(h, m) /\ client[h].port <= d.port
  BY <1>1, <1>3, <1>5 DEF Honest
<1> QED
  BY <1>3, <1>4, <1>5, <1>6, <1>7, <1>8, RomHost

\* a restart, which forgets what it was waiting for,
LEMMA PowerHost == ASSUME ImgdInv, NEW h \in Known, HostInv(h), PowerCycle(h) PROVE HostInv(h)'
<1> DEFINE d == Off(client[h].port)
<1>1. /\ h \in Hosts /\ client \in [Hosts -> Rom] /\ client[h].port \in Nat
  BY BuffersAre, RomTyped
<1>2. client' = [client EXCEPT ![h] = d]
  BY DEF PowerCycle, Become
<1>3. d \in Rom /\ d.port = client[h].port /\ d.got = <<>> /\ ~Waits(d)
  BY <1>1, ImgdAssumption, WantedIs DEF Off, Rom, Waits
<1>4. UNCHANGED <<wire, busy, fileName, has>>
  BY DEF PowerCycle
<1> HIDE DEF d
<1>e. \/ inbox' = inbox
      \/ \E m \in Msg : Says(h, d, m) /\ inbox' \in Sent(inbox, m, Cap) /\ Honest(h, m)
  <2>1. CASE inbox' = inbox
    BY <2>1
  <2>2. CASE \E code \in Codes : ToServer(h, "error", code)
    <3>1. PICK m \in Msg : Says(h, d, m) /\ m.op = "error" /\ inbox' \in Sent(inbox, m, Cap)
      BY <2>2, <1>1, <1>2, <1>3, ErrorIs
    <3> QED
      BY <3>1 DEF Honest
  <2> QED
    BY <2>1, <2>2 DEF PowerCycle
<1>5. RomStep(h, d) /\ Turns(h, d)
  BY <1>2, <1>3, <1>4, <1>e DEF RomStep, Turns
<1>6. Got(h)'
  BY <1>1, <1>2, <1>3 DEF Got
<1> QED
  BY <1>1, <1>3, <1>4, <1>5, <1>6, <1>e, RomHost

\* a request or an acknowledgement that is sent again,
LEMMA AgainHost == ASSUME ImgdInv, NEW h \in Known, HostInv(h), Again(h) PROVE HostInv(h)'
<1> DEFINE c == client[h]
           d == client[h]
<1>1. /\ h \in Hosts /\ client \in [Hosts -> Rom] /\ c.port \in Nat
      /\ c \in Rom /\ RomOk(h, c) /\ Len(c.got) \in Nat
  BY BuffersAre, RomTyped
<1>2. client' = [client EXCEPT ![h] = d]
  BY <1>1 DEF Again
<1>3. d \in Rom /\ d.port = c.port /\ d.got = c.got /\ d.at = c.at /\ d.phase = c.phase
  BY <1>1
<1>4. UNCHANGED <<wire, busy, fileName, has>>
  BY DEF Again, table
<1>5. \/ c.phase = "asking"  /\ ToServer(h, "rrq", Wanted[c.at])
      \/ c.phase = "getting" /\ ToServer(h, "ack", Expected(c) - 1)
  BY DEF Again
<1> HIDE DEF d
<1>6. \E m \in Msg : Says(h, d, m) /\ inbox' \in Sent(inbox, m, Cap) /\ Honest(h, m)
  <2>1. CASE c.phase = "asking"  /\ ToServer(h, "rrq", Wanted[c.at])
    <3>1. Wanted[c.at] \in Files /\ Wanted[c.at] = Wanted[d.at]
      BY <2>1, <1>1, <1>3, WantedIs DEF RomOk
    <3>2. ToServer(h, "rrq", Wanted[c.at]) /\ client \in [Hosts -> Rom] /\ d \in Rom /\ h \in Hosts
      BY <2>1, <1>1, <1>3
    <3>3. PICK m \in Msg : /\ Says(h, d, m) /\ m.op = "rrq" /\ m.what = Wanted[c.at]
                           /\ inbox' \in Sent(inbox, m, Cap)
      <4> HIDE DEF c
      <4> QED
        BY <3>1, <3>2, <1>2, RrqIs
    <3> QED
      BY <3>3 DEF Honest
  <2>2. CASE c.phase = "getting" /\ ToServer(h, "ack", Expected(c) - 1)
    <3>1. Expected(c) - 1 \in Numbers /\ Expected(c) - 1 # Chunks
      BY <2>2, <1>1, ImgdAssumption DEF RomOk, Expected, Numbers
    <3>2. /\ ToServer(h, "ack", Expected(c) - 1) /\ client \in [Hosts -> Rom] /\ d \in Rom
          /\ h \in Hosts
      BY <2>2, <1>1, <1>3
    <3>0. h \in Known
      OBVIOUS
    <3>3. PICK m \in Msg : /\ Says(h, d, m) /\ m.op = "ack" /\ m.what = Expected(c) - 1
                           /\ inbox' \in Sent(inbox, m, Cap)
      <4> HIDE DEF c
      <4> QED
        BY <3>0, <3>1, <3>2, <1>2, AckIs
    <3> QED
      BY <3>1, <3>3 DEF Honest
  <2> QED
    BY <1>5, <2>1, <2>2
<1>7. RomStep(h, d) /\ Turns(h, d)
  BY <1>2, <1>3, <1>4, <1>6 DEF RomStep, Turns, Port
<1>8. Got(h)'
  <2>1. client'[h] = d
    BY <1>1, <1>2
  <2>2. File(h)' = File(h)
    BY <2>1, <1>3 DEF File
  <2> QED
    BY <2>1, <2>2, <1>3 DEF HostInv, Got
<1> QED
  BY <1>1, <1>3, <1>4, <1>6, <1>7, <1>8, RomHost

\* What it does with a packet.
LEMMA TakesHost ==
  ASSUME ImgdInv, NEW h \in Known, HostInv(h), Receive(h), wire[h] # <<>>, NEW d \in Rom,
         client' = [client EXCEPT ![h] = d], Turns(h, d), client[h].port <= d.port,
         has \subseteq has', Got(h)',
         \/ inbox' = inbox
         \/ \E m \in Msg : Says(h, d, m) /\ inbox' \in Sent(inbox, m, Cap) /\ Honest(h, m)
  PROVE  HostInv(h)'
<1>1. UNCHANGED <<busy, fileName>> /\ wire' = [wire EXCEPT ![h] = Tail(@)]
  BY DEF Receive, table
<1>2. RomStep(h, d)
  BY <1>1 DEF RomStep
<1> QED
  BY <1>1, <1>2, RomHost

\* and an answer, of which it takes the one for its port and its next chunk.
LEMMA ReceiveHost ==
  ASSUME ImgdInv, OneHost, NEW h \in Known, HostInv(h), Receive(h) PROVE HostInv(h)'
<1> DEFINE c == client[h]
           m == Head(wire[h])
<1>1. wire[h] # <<>> /\ h \in Hosts /\ h \in Known
  BY BuffersAre DEF Receive
<1>2. m \in Packet /\ PacketOk(m, c) /\ 1 \in DOMAIN wire[h] /\ m = wire[h][1]
  BY <1>1, TakesIs
<1>3. /\ c \in Rom /\ c.port \in Nat /\ RomOk(h, c) /\ c.got \in Seq(ChunkOf) /\ Len(c.got) \in Nat
      /\ client \in [Hosts -> Rom] /\ c.at \in 0..Len(Wanted)
  BY <1>1, RomTyped
<1>k. \/ Understood(h, m) /\ (\/ Accept(h, m) \/ AcceptAgain(h, m)
                              \/ AcceptOptions(h, m) \/ DoWithout(h, m))
      \/ UNCHANGED <<client, inbox, has>>
  BY DEF Receive
<1>4. CASE UNCHANGED <<client, inbox, has>>
  <2>1. client' = [client EXCEPT ![h] = c]
    BY <1>4, <1>3
  <2>2. Turns(h, c)
    BY DEF Turns, Port
  <2>3. Got(h)'
    BY <1>4 DEF HostInv, Got, File
  <2>4. has \subseteq has' /\ inbox' = inbox /\ client[h].port <= c.port /\ c \in Rom
    BY <1>3, <1>4
  <2> HIDE DEF c
  <2> QED
    BY <2>1, <2>2, <2>3, <2>4, <1>1, TakesHost
<1>5. CASE Understood(h, m) /\ Accept(h, m)
  <2> DEFINE got  == Append(c.got, m.data)
             last == m.data.num = Chunks
             p    == IF ~last THEN "getting"
                     ELSE IF c.at = Len(Wanted) THEN "booted" ELSE "next"
             d    == [c EXCEPT !.got = got, !.phase = p]
  <2>1. /\ client' = [client EXCEPT ![h] = d] /\ ToServer(h, "ack", m.data.num)
        /\ has' = IF last /\ got = [n \in 1..Chunks |-> Chunk(h, Initrd, n)]
                  THEN has \cup {h} ELSE has
    BY <1>5 DEF Accept, Become
  <2>2. m.data \in ChunkOf /\ m.data.num \in 1..Chunks
    BY <1>5, <1>1, <1>2, DueIs DEF Accept
  <2>3. /\ m.data.num = Len(c.got) + 1 /\ c.phase = "getting" /\ m.kind = "data"
        /\ m.port = c.port
    BY <1>5, <1>1 DEF Accept, Due, Expected, Understood, OneHost
  <2>4. /\ got \in Seq(ChunkOf) /\ Len(got) = m.data.num
        /\ \A k \in 1..Len(got) : \/ k \in 1..Len(c.got) /\ got[k] = c.got[k]
                                  \/ k = m.data.num /\ got[k] = m.data
    <3> HIDE DEF c, m
    <3> QED
      BY <2>2, <2>3, <1>3
  <2>5. /\ d \in Rom /\ d.phase = p /\ d.port = c.port /\ d.at = c.at /\ d.got = got
    <3>2. p \in {"getting", "booted", "next"}
      OBVIOUS
    <3> HIDE DEF p, got
    <3> QED
      BY <3>2, <2>4, <1>3 DEF Rom
  <2>6. p \in {"getting", "booted", "next"}
    OBVIOUS
  \* The chunk is one of the file that the host asked for.
  <2>7. m.data = Chunk(h, File(h), m.data.num)
    <3>1. Opened(h, 1) /\ wire[h][1].port = Port(h) /\ wire[h][1].kind = "data"
      BY <2>3, <1>2 DEF Opened, Port
    <3>2. m.data.of = h /\ m.data.file = File(h)
      BY <3>1, <1>2 DEF HostInv, Follow
    <3>3. \A x \in ChunkOf : x = [of |-> x.of, file |-> x.file, num |-> x.num]
      BY DEF ChunkOf
    <3> HIDE DEF m
    <3> QED
      BY <3>2, <3>3, <2>2 DEF Chunk
  <2>8. \A k \in 1..Len(got) : got[k] = Chunk(h, File(h), k)
    <3> HIDE DEF got, m
    <3> QED
      BY <2>4, <2>7 DEF HostInv, Got
  <2>9. client'[h] = d /\ File(h)' = File(h)
    <3> HIDE DEF d
    <3>1. client'[h] = d
      BY <2>1, <1>1, <1>3
    <3> QED
      BY <3>1, <2>5 DEF File
  <2>10. Got(h)'
    <3> HIDE DEF d, got
    <3> QED
      BY <2>5, <2>8, <2>9 DEF Got
  <2>11. Turns(h, d)
    <3> HIDE DEF d, p
    <3> QED
      BY <2>3, <2>5, <2>6 DEF Turns, Port, Waits
  \* The last chunk, of an initrd that the server may be sending.
  <2>12. last /\ Awaited(h) => h \in has'
    <3> SUFFICES ASSUME last, Awaited(h) PROVE h \in has'
      OBVIOUS
    <3>1. Heard(h)
      BY <2>3 DEF Heard
    <3>2. /\ fileName[h] \in {File(h), NoFile} /\ (busy # Idle => busy.file = File(h))
          /\ \A i \in DOMAIN inbox : Mine(h, i) => inbox[i].from.port = Port(h)
      BY <3>1 DEF HostInv, Tuned
    <3>3. Initrd = File(h)
      <4>1. CASE Pending(h)
        BY <4>1, <3>2, ImgdAssumption, WantedIs DEF Pending
      <4>2. CASE \E i \in DOMAIN inbox : /\ Mine(h, i)
                                         /\ inbox[i].op = "rrq" /\ inbox[i].what = Initrd
        <5>1. PICK i \in DOMAIN inbox : /\ Mine(h, i)
                                        /\ inbox[i].op = "rrq" /\ inbox[i].what = Initrd
          BY <4>2
        <5>2. MsgOk(inbox[i], client[h]) /\ inbox[i].from.port = client[h].port
          BY <5>1, <3>2, BuffersAre DEF Mine, Port
        <5> QED
          BY <5>1, <5>2, <2>3 DEF MsgOk, Waits, File
      <4> QED
        BY <4>1, <4>2 DEF Awaited
    <3>4. got = [n \in 1..Chunks |-> Chunk(h, Initrd, n)]
      <4>1. Len(got) = Chunks
        BY <2>4
      <4> HIDE DEF got
      <4>2. DOMAIN got = 1..Chunks
        BY <4>1, <2>4
      <4>3. got = [n \in 1..Chunks |-> got[n]]
        <5>1. got = [n \in DOMAIN got |-> got[n]]
          BY <2>4
        <5> QED
          BY <5>1, <4>2
      <4> QED
        BY <4>1, <4>3, <3>3, <2>8
    <3> QED
      BY <3>4, <2>1
  <2>13. has \subseteq has'
    BY <2>1
  <2> DEFINE num == m.data.num
  <2>14. \E n \in Msg : Says(h, d, n) /\ n.op = "ack" /\ n.what = num /\ inbox' \in Sent(inbox, n, Cap)
    <3>1. num \in Numbers /\ h \in Known /\ h \in Hosts /\ ToServer(h, "ack", num)
      BY <2>1, <2>2, <1>1, ImgdAssumption DEF Numbers
    <3>2. client' = [client EXCEPT ![h] = d] /\ client \in [Hosts -> Rom] /\ d \in Rom
      BY <2>1, <2>5, <1>3
    <3> HIDE DEF num, d, c, m
    <3> QED
      BY <3>1, <3>2, AckIs
  <2>15. \E n \in Msg : Says(h, d, n) /\ inbox' \in Sent(inbox, n, Cap) /\ Honest(h, n)
    <3> HIDE DEF d
    <3> QED
      BY <2>12, <2>14 DEF Honest
  <2>16. client[h].port <= d.port
    BY <2>5, <1>3
  <2> HIDE DEF d
  <2> QED
    BY <2>1, <2>5, <2>10, <2>11, <2>13, <2>15, <2>16, <1>1, TakesHost
<1>6. CASE Understood(h, m) /\ AcceptAgain(h, m)
  <2> DEFINE num == m.data.num
  <2>1. client' = client /\ has' = has /\ ToServer(h, "ack", num)
    BY <1>6 DEF AcceptAgain
  <2>2. c.phase = "getting" /\ num = Len(c.got)
    BY <1>6, <1>3 DEF AcceptAgain, Repeated, Expected
  <2>3. num \in Numbers /\ num # Chunks /\ h \in Known
    BY <2>2, <1>3, ImgdAssumption DEF RomOk, Numbers
  <2>4. client' = [client EXCEPT ![h] = c]
    BY <2>1, <1>3
  <2>5. Turns(h, c)
    BY DEF Turns, Port
  <2>6. \E n \in Msg : Says(h, c, n) /\ n.op = "ack" /\ n.what = num /\ inbox' \in Sent(inbox, n, Cap)
    <3>1. client \in [Hosts -> Rom] /\ c \in Rom /\ h \in Hosts /\ h \in Known
      BY <1>1, <1>3
    <3> HIDE DEF num, c, m
    <3> QED
      BY <3>1, <2>1, <2>3, <2>4, AckIs
  <2>7. \E n \in Msg : Says(h, c, n) /\ inbox' \in Sent(inbox, n, Cap) /\ Honest(h, n)
    BY <2>3, <2>6 DEF Honest
  <2>8. Got(h)'
    BY <2>1 DEF HostInv, Got, File
  <2>9. has \subseteq has' /\ client[h].port <= c.port /\ c \in Rom
    BY <1>3, <2>1
  <2> HIDE DEF c
  <2> QED
    BY <2>4, <2>5, <2>7, <2>8, <2>9, <1>1, TakesHost
<1>7. CASE Understood(h, m) /\ AcceptOptions(h, m)
  <2> DEFINE d == [c EXCEPT !.phase = "getting"]
  <2>1. client' = [client EXCEPT ![h] = d] /\ has' = has /\ ToServer(h, "ack", 0)
    BY <1>7 DEF AcceptOptions, Become
  <2>2. c.phase = "asking" /\ m.kind = "oack" /\ m.port = c.port
    BY <1>7 DEF AcceptOptions, Reply, Understood
  <2>3. /\ d \in Rom /\ d.phase = "getting" /\ d.port = c.port /\ d.at = c.at /\ d.got = c.got
    BY <1>3 DEF Rom
  <2> HIDE DEF d
  <2>4. Turns(h, d)
    <3>1. Oack(h, 1)
      BY <2>2, <1>2 DEF Oack, Port
    <3>2. wire' = [wire EXCEPT ![h] = Tail(@)]
      BY DEF Receive
    <3> QED
      BY <3>1, <3>2, <2>2, <2>3, <1>1 DEF Turns, Port
  <2>5. 0 \in Numbers /\ 0 # Chunks
    BY ImgdAssumption DEF Numbers
  <2>6. \E n \in Msg : Says(h, d, n) /\ n.op = "ack" /\ n.what = 0 /\ inbox' \in Sent(inbox, n, Cap)
    <3>1. client \in [Hosts -> Rom] /\ d \in Rom /\ h \in Hosts /\ h \in Known
      BY <1>1, <1>3, <2>3
    <3>2. client' = [client EXCEPT ![h] = d] /\ ToServer(h, "ack", 0) /\ 0 \in Numbers
      BY <2>1, <2>5
    <3> HIDE DEF c, m
    <3> QED
      BY <3>1, <3>2, AckIs
  <2>7. \E n \in Msg : Says(h, d, n) /\ inbox' \in Sent(inbox, n, Cap) /\ Honest(h, n)
    BY <2>5, <2>6 DEF Honest
  <2>8. Got(h)'
    <3>1. client'[h] = d
      BY <2>1, <1>1, <1>3
    <3>2. File(h)' = File(h)
      BY <3>1, <2>3 DEF File
    <3> QED
      BY <3>1, <3>2, <2>3 DEF HostInv, Got
  <2>9. has \subseteq has' /\ client[h].port <= d.port
    BY <1>3, <2>1, <2>3
  <2> QED
    BY <2>1, <2>3, <2>4, <2>7, <2>8, <2>9, <1>1, TakesHost
<1>8. CASE Understood(h, m) /\ DoWithout(h, m)
  <2> DEFINE d == [c EXCEPT !.phase = "next"]
  <2>1. client' = [client EXCEPT ![h] = d] /\ has' = has /\ inbox' = inbox
    BY <1>8 DEF DoWithout, Become
  <2>2. /\ d \in Rom /\ d.phase = "next" /\ d.port = c.port /\ d.at = c.at /\ d.got = c.got
    BY <1>3 DEF Rom
  <2> HIDE DEF d
  <2>3. Turns(h, d)
    BY <2>2 DEF Turns, Waits
  <2>4. Got(h)'
    <3>1. client'[h] = d
      BY <2>1, <1>1, <1>3
    <3>2. File(h)' = File(h)
      BY <3>1, <2>2 DEF File
    <3> QED
      BY <3>1, <3>2, <2>2 DEF HostInv, Got
  <2>5. has \subseteq has' /\ client[h].port <= d.port
    BY <1>3, <2>1, <2>2
  <2> QED
    BY <2>1, <2>2, <2>3, <2>4, <2>5, <1>1, TakesHost
<1> QED
  BY <1>k, <1>4, <1>5, <1>6, <1>7, <1>8

-----------------------------------------------------------------------------
(* Imgd: the others' steps, and the server's                               *)

\* A machine that the configuration does not list only sends.
LEMMA OthersHost ==
  ASSUME ImgdInv, OneHost, NEW h \in Known, HostInv(h), NEW g \in Hosts, g # h, Machine(g)
  PROVE  HostInv(h)'
<1>1. g \notin Known /\ client[g].phase = "off" /\ client \in [Hosts -> Rom] /\ h \in Hosts
  BY RomTyped, BuffersAre DEF OneHost, RomOk
<1>2. Stray(g) \/ Receive(g)
  BY <1>1 DEF Machine, Discover, Request, NoImage, Ask, Again, PowerCycle
<1>3. CASE Stray(g)
  <2>1. /\ UNCHANGED <<client, wire, has, fileName, busy>>
        /\ client' = [client EXCEPT ![g] = client[g]] /\ client[g] \in Rom
    BY <1>1, <1>3, RomTyped DEF Stray, table
  <2>2. PICK n \in Numbers \cup Others : ToServer(g, "ack", n)
    BY <1>3 DEF Stray
  <2>3. PICK m \in Msg : Says(g, client[g], m) /\ inbox' \in Sent(inbox, m, Cap)
    BY <1>1, <2>1, <2>2, AckIs
  <2>5. m.from.host = g
    BY <2>3 DEF Says
  <2>6. /\ inbox' \in Seq(Msg)
        /\ \A i \in DOMAIN inbox' : \/ i \in DOMAIN inbox /\ inbox'[i] = inbox[i]
                                    \/ inbox'[i] = m
    BY <2>3, BuffersAre, SentIs
  <2>7. DOMAIN inbox' \subseteq Nat
    BY <2>6, DomainIs
  <2>8. Moves(h, 0)
    BY <2>5, <2>6, <2>7 DEF Moves
  <2> QED
    BY <2>1, <2>7, <2>8, QuietHost
<1>4. CASE Receive(g)
  <2>1. UNCHANGED <<client, inbox, has>>
    BY <1>1, <1>4 DEF Receive, Understood, Due, Repeated, Reply
  <2>2. UNCHANGED <<fileName, busy>> /\ wire'[h] = wire[h]
    <3>1. wire' = [wire EXCEPT ![g] = Tail(@)] /\ UNCHANGED <<fileName, busy>>
      BY <1>4 DEF Receive, table
    <3>2. wire \in [Hosts -> Seq(Packet)]
      BY DEF ImgdInv, Types, NetTypes
    <3> QED
      BY <3>1, <3>2, <1>1
  <2>3. Moves(h, 0) /\ DOMAIN inbox' \subseteq Nat
    BY <2>1, BuffersAre DEF Moves
  <2> QED
    BY <2>1, <2>2, <2>3, QuietHost
<1> QED
  BY <1>2, <1>3, <1>4

\* A message that the server has read is taken from the front of its buffer.
LEMMA ReadMoves == ASSUME ImgdInv, Read, NEW h PROVE Moves(h, 1) /\ DOMAIN inbox' \subseteq Nat
BY ReadIs DEF Moves

\* What the server does keeps it: a message that is not understood,
LEMMA UnknownHost == ASSUME ImgdInv, NEW h \in Known, HostInv(h), Unknown PROVE HostInv(h)'
<1>1. UNCHANGED <<client, wire, has, fileName, busy>>
  BY DEF Unknown, table
<1>2. Moves(h, 1) /\ DOMAIN inbox' \subseteq Nat
  BY ReadMoves DEF Unknown
<1> QED
  BY <1>1, <1>2, QuietHost

\* the acknowledgement of the options, which starts the transfer,
LEMMA OptAckHost ==
  ASSUME ImgdInv, OneHost, NEW h \in Known, HostInv(h), OptAck PROVE HostInv(h)'
<1> DEFINE m == Head(inbox)
           t == [host |-> h, file |-> fileName[h], index |-> 1, retries |-> 0, to |-> m.from]
<1>1. m.from.host = h
  BY DEF OptAck, OneHost
<1>2. /\ m.from \in Address /\ m.from.port <= client[m.from.host].port
      /\ \/ UNCHANGED <<busy, wire>>
         \/ /\ t \in Transfer /\ 1 \in 1..Chunks /\ 0 \in 0..MaxRetries
            /\ SendChunk(t, 1, 0, m.from) /\ fileName[h] # NoFile
  BY <1>1, StartIs DEF OptAck
<1>3. UNCHANGED <<client, has, fileName>>
  BY DEF OptAck, table
<1>4. Moves(h, 1) /\ DOMAIN inbox' \subseteq Nat
  BY ReadMoves DEF OptAck
<1>5. CASE UNCHANGED <<busy, wire>>
  BY <1>3, <1>4, <1>5, QuietHost
<1>6. CASE /\ t \in Transfer /\ 1 \in 1..Chunks /\ 0 \in 0..MaxRetries
           /\ SendChunk(t, 1, 0, m.from) /\ fileName[h] # NoFile
  <2>1. Heard(h) => t.file = File(h)
    BY <1>6 DEF HostInv, Tuned
  <2>2. t.file = Initrd => Pending(h)
    BY DEF Pending
  <2>3. t.host = h
    OBVIOUS
  <2> HIDE DEF t, m
  <2> QED
    BY <2>1, <2>2, <2>3, <1>2, <1>3, <1>4, <1>6, ChunkHost
<1> QED
  BY <1>2, <1>5, <1>6

\* The transfer under way is the host's.
LEMMA BusyIs ==
  ASSUME ImgdInv, OneHost, NEW h \in Known, HostInv(h), busy # Idle
  PROVE  /\ busy \in Transfer /\ busy.host = h /\ (Heard(h) => busy.file = File(h))
         /\ (busy.file = Initrd => Pending(h))
<1>1. busy \in Transfer
  BY ServerTyped
<1>2. busy.host = h
  BY <1>1 DEF Transfer, OneHost
<1> QED
  BY <1>1, <1>2 DEF HostInv, Tuned, Pending

\* one of a chunk, which brings the next one or ends the transfer,
LEMMA AnswerHost ==
  ASSUME ImgdInv, OneHost, NEW h \in Known, HostInv(h), Answer PROVE HostInv(h)'
<1> DEFINE m == Head(inbox)
<1>1. /\ busy \in Transfer /\ m.from \in Address /\ m.from.port <= client[m.from.host].port
      /\ \/ Done(busy)
         \/ \E n \in 1..Chunks, r \in 0..MaxRetries : SendChunk(busy, n, r, m.from)
  BY AnswerIs
<1>2. UNCHANGED <<client, has, fileName>>
  BY DEF Answer, table
<1>3. Moves(h, 1) /\ DOMAIN inbox' \subseteq Nat
  BY ReadMoves DEF Answer
<1>4. CASE Done(busy)
  BY <1>2, <1>3, <1>4, QuietHost DEF Done
<1>5. CASE \E n \in 1..Chunks, r \in 0..MaxRetries : SendChunk(busy, n, r, m.from)
  <2>1. PICK n \in 1..Chunks, r \in 0..MaxRetries : SendChunk(busy, n, r, m.from)
    BY <1>5
  <2>2. /\ busy.host = h /\ (Heard(h) => busy.file = File(h))
        /\ (busy.file = Initrd => Pending(h))
    BY BusyIs DEF Answer
  <2> HIDE DEF m
  <2> QED
    BY <2>1, <2>2, <1>1, <1>2, <1>3, ChunkHost
<1> QED
  BY <1>1, <1>4, <1>5

\* a timeout, after which the chunk is sent again or the transfer given up;
LEMMA TimeoutHost ==
  ASSUME ImgdInv, OneHost, NEW h \in Known, HostInv(h), Timeout PROVE HostInv(h)'
<1>1. /\ busy \in Transfer /\ busy.to \in Address
      /\ busy.to.port <= client[busy.to.host].port
      /\ \/ busy' = Idle /\ wire' = wire
         \/ \E n \in 1..Chunks, r \in 0..MaxRetries : SendChunk(busy, n, r, busy.to)
  BY TimeoutIs
<1>2. UNCHANGED <<client, has, fileName, inbox>>
  BY DEF Timeout, table
<1>3. Moves(h, 0) /\ DOMAIN inbox' \subseteq Nat
  BY <1>2, BuffersAre DEF Moves
<1>4. CASE busy' = Idle /\ wire' = wire
  BY <1>2, <1>3, <1>4, QuietHost
<1>5. CASE \E n \in 1..Chunks, r \in 0..MaxRetries : SendChunk(busy, n, r, busy.to)
  <2>1. PICK n \in 1..Chunks, r \in 0..MaxRetries : SendChunk(busy, n, r, busy.to)
    BY <1>5
  <2>2. /\ busy.host = h /\ (Heard(h) => busy.file = File(h))
        /\ (busy.file = Initrd => Pending(h))
    BY BusyIs DEF Timeout
  <2> QED
    BY <2>1, <2>2, <1>1, <1>2, <1>3, ChunkHost
<1> QED
  BY <1>1, <1>4, <1>5

\* and what is done to the configuration, with new servers or without.
LEMMA ConfigHost ==
  ASSUME ImgdInv, NEW h \in Known, HostInv(h), UserSet \/ Started \/ UNCHANGED vars
  PROVE  HostInv(h)'
<1>1. /\ UNCHANGED <<client, wire>> /\ fileName'[h] \in {fileName[h], NoFile}
      /\ busy' \in {busy, Idle} /\ (has' = has \/ inbox' = <<>>)
  BY DEF UserSet, Started, vars, table, network
<1>2. inbox' = inbox \/ inbox' = <<>>
  BY DEF UserSet, Started, vars, network
<1>3. Moves(h, 0) /\ DOMAIN inbox' \subseteq Nat
  BY <1>2, BuffersAre DEF Moves
<1> QED
  BY <1>1, <1>3, QuietHost

-----------------------------------------------------------------------------
\* The invariant about all of them; with OneHost, there is one.
HostsInv == \A h \in Known : HostInv(h)

\* Nothing has been sent at first.
LEMMA InitHosts == Init => HostsInv
<1> SUFFICES ASSUME Init, NEW h \in Known PROVE HostInv(h)
  BY DEF HostsInv
<1>1. /\ h \in Hosts /\ client[h] = Off(0) /\ wire[h] = <<>> /\ inbox = <<>>
  BY ImgdAssumption DEF Init
<1>2. ~Heard(h) /\ client[h].got = <<>>
  BY <1>1 DEF Heard, Off
<1> QED
  BY <1>1, <1>2 DEF HostInv, InOrder, Tuned, Follow, Whole, Got

\* Every step keeps it.
LEMMA NextHosts == ASSUME OneHost PROVE ImgdInv /\ HostsInv /\ [Next]_vars => HostsInv'
<1> SUFFICES ASSUME ImgdInv, HostsInv, [Next]_vars, NEW h \in Known PROVE HostInv(h)'
  BY DEF HostsInv
<1>h. HostInv(h)
  BY DEF HostsInv
<1>1. ASSUME NEW g \in Hosts, Machine(g) PROVE HostInv(h)'
  <2>1. CASE g = h
    <3>1. ~Stray(h)
      BY DEF Stray
    <3> QED
      BY <1>h, <1>1, <2>1, <3>1, DiscoverHost, AskHost, ReceiveHost, AgainHost, PowerHost,
         ConfigHost DEF Machine, NoImage
  <2>2. CASE g # h
    BY <1>h, <1>1, <2>2, OthersHost
  <2> QED
    BY <2>1, <2>2
<1>2. CASE Server
  BY <1>h, <1>2, UnknownHost, ReadHost, OptAckHost, AnswerHost, TimeoutHost, ConfigHost
     DEF Server, DoneWithout
<1>3. CASE UserSet \/ Reload \/ UNCHANGED vars
  BY <1>h, <1>3, ConfigHost DEF Reload
<1> QED
  BY <1>1, <1>2, <1>3 DEF Next

\* It holds in every reachable state.
LEMMA HostsInvHolds == ASSUME OneHost PROVE Spec => [](ImgdInv /\ HostsInv)
<1>1. Init => ImgdInv /\ HostsInv
  BY InitImgd, InitHosts
<1>2. ImgdInv /\ HostsInv /\ [Next]_vars => (ImgdInv /\ HostsInv)'
  BY NextImgd, NextHosts
<1> QED
  BY <1>1, <1>2, PTL DEF Spec

(***************************************************************************)
(* What a host has received of the file it asked for is that file of its   *)
(* own image, from its first chunk on (tftpd.py, handleMsg), whatever is   *)
(* lost, comes late, is sent again or comes from machines that the server  *)
(* does not know. For one host in the configuration, because the server    *)
(* keeps one transfer for all of them and answers the sender of the last   *)
(* message; and one that waits for the options it has asked for, because   *)
(* without them a late chunk may be an earlier file's.                     *)
(***************************************************************************)
THEOREM RightFileHolds == ASSUME OneHost PROVE Spec => []RightFile
<1>1. ImgdInv /\ HostsInv => RightFile
  <2> SUFFICES ASSUME ImgdInv, HostsInv, NEW h \in Hosts, NEW k \in 1..Len(client[h].got)
               PROVE  client[h].got[k] = Chunk(h, Wanted[client[h].at], k)
    BY DEF RightFile
  <2>1. CASE h \in Known
    BY <2>1 DEF HostsInv, HostInv, Got, File
  <2>2. CASE h \notin Known
    <3>1. client[h].got = <<>>
      BY <2>2, RomTyped DEF RomOk
    <3> QED
      BY <3>1
  <2> QED
    BY <2>1, <2>2
<1> QED
  BY <1>1, HostsInvHolds, PTL

(***************************************************************************)
(* When the acknowledgement of a host makes the server take back the flag  *)
(* Serve, that host has received its whole initrd since the servers were   *)
(* started (tftpd.py, the end of handleMsg): it is not one that was cut    *)
(* off, restarted, or went on to another file. Nothing is said of what     *)
(* another message of the same number makes the server do.                 *)
(***************************************************************************)
THEOREM ServedMeansWholeHolds == ASSUME OneHost PROVE Spec => ServedMeansWhole
<1> DEFINE Served == \A h \in Known : (conf.Serve[h] /\ ~conf'.Serve[h] /\ edits' = edits) =>
              LET m == Head(inbox) IN m.op = "ack" /\ m.from.host = h => h \in has
<1>1. ImgdInv /\ HostsInv /\ [Next]_vars => [Served]_vars
  <2> DEFINE m == Head(inbox)
  <2> SUFFICES ASSUME ImgdInv, HostsInv, Next, NEW h \in Known,
                      conf.Serve[h], ~conf'.Serve[h], edits' = edits,
                      m.op = "ack", m.from.host = h
               PROVE  h \in has
    OBVIOUS
  <2>1. conf' # conf
    OBVIOUS
  <2>2. Answer
    <3>1. ~UserSet
      <4>1. edits \in Nat
        BY ServerTyped, ImgdAssumption
      <4>2. UserSet => edits' = edits + 1
        BY DEF UserSet
      <4> QED
        BY <4>1, <4>2
    <3>2. ~Started
      BY <2>1 DEF Started
    <3> QED
      BY <2>1, <3>1, <3>2 DEF Next, Machine, Discover, Request, NoImage, Stray, Ask, Receive,
         Again, PowerCycle, Server, Unknown, ReadRequest, OptAck, DoneWithout, Timeout, Reload,
         config
  <2>3. Answers(busy, m) /\ busy.index = Chunks /\ Done(busy)
    BY <2>1, <2>2, AnswerIs DEF config
  <2>4. busy.file = Initrd
    BY <2>1, <2>3 DEF Done, config
  <2>5. 1 \in DOMAIN inbox /\ m = inbox[1]
    BY <2>2, ReadIs DEF Answer
  <2>6. m.what = Chunks
    BY <2>3 DEF Answers, Number
  <2>8. Ends(h, 1)
    BY <2>2, <2>4 DEF Ends, Pending, Answer
  <2> QED
    BY <2>5, <2>6, <2>8 DEF HostsInv, HostInv, Whole, Mine
<1> QED
  BY <1>1, HostsInvHolds, PTL DEF Spec, ServedMeansWhole
=============================================================================
