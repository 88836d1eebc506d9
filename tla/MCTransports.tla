----------------------------- MODULE MCTransports -----------------------------
(***************************************************************************)
(* Transports on installations where one page may enter three shares (one  *)
(* of them without a user name), two pages two shares, a page two iSCSI    *)
(* targets, or a page a server and a share.                                *)
(***************************************************************************)
EXTENDS Transports

Par(t, x, u) == [type |-> t, target |-> x, user |-> u]
Named    == {Par("nas", 1, "bob"), Par("nas", 2, "bob")}
Shares   == Named \cup {Par("nas", 1, NoName)}
Devices2 == {Par("iscsi", 1, NoName), Par("iscsi", 2, NoName)}
Mixed    == {Par("ssh", 1, "bob"), Par("nas", 2, "bob")}

One == {CHOOSE p \in Pages : TRUE}
Here(c, p) == [params |-> c, pages |-> p]
Installations == {Here(Shares, One), Here(Named, Pages), Here(Devices2, One), Here(Mixed, One)}
=============================================================================
