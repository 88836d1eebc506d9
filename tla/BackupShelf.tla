----------------------------- MODULE BackupShelf -----------------------------
(***************************************************************************)
(* What the backup directory promises: there is one latest backup, older   *)
(* ones behind it, a new backup takes the latest one's place, and older    *)
(* ones are given up only while another older one remains.                 *)
(***************************************************************************)
EXTENDS Naturals, FiniteSets

CONSTANT Stamps

VARIABLES latest, older       \* latest is 0 before the first backup

shelf == <<latest, older>>

Init == latest = 0 /\ older = {}

Publish(s) ==
    /\ s \notin older \cup {latest}
    /\ latest' = s
    /\ older' = older \cup ({latest} \ {0})

Expire(s) ==
    /\ s \in older /\ older # {s}
    /\ older' = older \ {s}
    /\ UNCHANGED latest

Next == \E s \in Stamps : Publish(s) \/ Expire(s)

Spec == Init /\ [][Next]_shelf
=============================================================================
