--------------------------- MODULE AccountLifecycle ---------------------------
(***************************************************************************)
(* What apps/gdpr promises about the erasure of accounts: an account is    *)
(* gone only after its owner asked for it, the grace period elapsed on     *)
(* that request and a sweep found it pending and due; and gone is final.   *)
(***************************************************************************)
CONSTANT Users

VARIABLE stage    \* kept, leaving (grace running), due, condemned (in a sweep), gone

Stages == {"kept", "leaving", "due", "condemned", "gone"}

Init == stage = [u \in Users |-> "kept"]

Move(u, from, to) ==
    /\ stage[u] \in from
    /\ \E s \in to : stage' = [stage EXCEPT ![u] = s]

Ask(u) == Move(u, {"kept"}, {"leaving"})
Elapse(u) == Move(u, {"leaving"}, {"due"})
Cancel(u) == Move(u, {"leaving", "due"}, {"kept"})

\* A sweep lists every account that is due at that moment.
Sweep == stage' = [u \in Users |-> IF stage[u] = "due" THEN "condemned" ELSE stage[u]]

Purge(u) == Move(u, {"condemned"}, {"gone"})

\* The sweep failed on these accounts: each is back where its owner's calls left it.
Spare(S) ==
    /\ \A u \in S : stage[u] = "condemned"
    /\ stage' \in [Users -> Stages]
    /\ \A u \in Users : IF u \in S THEN stage'[u] \in {"kept", "leaving", "due"}
                                   ELSE stage'[u] = stage[u]

Next ==
    \/ \E u \in Users : Ask(u) \/ Elapse(u) \/ Cancel(u) \/ Purge(u)
    \/ Sweep
    \/ \E S \in SUBSET Users : Spare(S)

Spec == Init /\ [][Next]_stage
===============================================================================
