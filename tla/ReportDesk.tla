----------------------------- MODULE ReportDesk -----------------------------
(***************************************************************************)
(* What the manager promises to the people at its command lines: a report  *)
(* command is sent to clients one after the other, each client reports to  *)
(* one CLI at a time, and the CLI is given its prompt back, and may quit,  *)
(* when every client it waits for has reported.  The manager keeps a       *)
(* counter where this specification keeps the set of clients.              *)
(***************************************************************************)
CONSTANTS Slots, Clis, NoCli

VARIABLES
    open,      \* the CLI sessions that are open
    busy,      \* the CLI whose command is being carried out, or NoCli
    awaits     \* for each CLI, the clients whose report it waits for

desk == <<open, busy, awaits>>

Init == open = {} /\ busy = NoCli /\ awaits = [k \in Clis |-> {}]

Open(k) == k \notin open /\ open' = open \cup {k} /\ UNCHANGED <<busy, awaits>>

Quit(k) == /\ k \in open /\ busy = NoCli /\ awaits[k] = {}
           /\ open' = open \ {k}
           /\ UNCHANGED <<busy, awaits>>

Begin(k) == /\ k \in open /\ busy = NoCli /\ awaits[k] = {}
            /\ busy' = k
            /\ UNCHANGED <<open, awaits>>

Ask(k, i) == /\ busy = k
             /\ \A l \in Clis : i \notin awaits[l]
             /\ awaits' = [awaits EXCEPT ![k] = @ \cup {i}]
             /\ UNCHANGED <<open, busy>>

End == busy # NoCli /\ busy' = NoCli /\ UNCHANGED <<open, awaits>>

Answer(k, i) == /\ i \in awaits[k]
                /\ awaits' = [awaits EXCEPT ![k] = @ \ {i}]
                /\ UNCHANGED <<open, busy>>

\* the manager is gone, and every session with it
Down == open' = {} /\ busy' = NoCli /\ awaits' = [k \in Clis |-> {}]

Next == \/ \E k \in Clis : Open(k) \/ Quit(k) \/ Begin(k)
        \/ \E k \in Clis, i \in Slots : Ask(k, i) \/ Answer(k, i)
        \/ End \/ Down

Spec == Init /\ [][Next]_desk
=============================================================================
