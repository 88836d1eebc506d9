----------------------------- MODULE ReportLink -----------------------------
(***************************************************************************)
(* What one manager <-> client connection promises to the manager's        *)
(* tables: the connection is accepted, registers, and from then on is      *)
(* asked for at most one report at a time.  Every report it is asked for   *)
(* is delivered once, or the connection closes.                            *)
(*                                                                         *)
(* TrxConn, the packet-level model of the connection, implements this      *)
(* specification; TrxMgr, the model of the manager's tables, is built on   *)
(* these state changes.                                                    *)
(***************************************************************************)
VARIABLE link

LinkStates == {"closed", "new", "ready", "owing"}

Init == link = "closed"

Accept   == link = "closed" /\ link' = "new"
Register == link = "new"    /\ link' = "ready"
AskOk    == link = "ready"  /\ link' = "owing"
Deliver  == link = "owing"  /\ link' = "ready"
Close    == link # "closed" /\ link' = "closed"

Next == Accept \/ Register \/ AskOk \/ Deliver \/ Close

Spec == Init /\ [][Next]_link

(***************************************************************************)
(* A report that is owed is resolved: delivered, or the connection closes. *)
(***************************************************************************)
Resolve == Deliver \/ (link = "owing" /\ Close)

FairSpec == Spec /\ WF_link(Resolve)
=============================================================================
