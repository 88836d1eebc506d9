------------------------------- MODULE TryLock -------------------------------
(***************************************************************************)
(* What the scripts of the backup system rely on: a lock that at most one  *)
(* process owns, that is taken when it is free and given back by its owner *)
(* or by its owner's death.                                                *)
(***************************************************************************)
CONSTANTS Procs, None

VARIABLE owner

Init == owner = None

Acquire(p) == owner = None /\ owner' = p
Release(p) == owner = p /\ owner' = None

Next == \E p \in Procs : Acquire(p) \/ Release(p)

Spec == Init /\ [][Next]_owner
=============================================================================
