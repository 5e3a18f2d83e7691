---------------------------- MODULE RenderMetering ----------------------------
(***************************************************************************)
(* What the render pipeline promises about the monthly counter of an       *)
(* account (UserStats.renders_this_month): one delivery of a render job    *)
(* adds at most one unit to it, however often the job is retried, lost or  *)
(* started again.                                                          *)
(*                                                                         *)
(* A delivery is one message the broker handed out for a render.  It is    *)
(* open from the moment it is published until it is spent (it added one    *)
(* unit) or dropped (it ended without adding anything).                    *)
(***************************************************************************)
EXTENDS Naturals

CONSTANT Deliveries

VARIABLES phase,   \* what became of each delivery
          meter    \* units consumed since the last monthly reset

vars == <<phase, meter>>

Phases == {"unissued", "open", "spent", "dropped"}

Init ==
    /\ phase = [d \in Deliveries |-> "unissued"]
    /\ meter = 0

Issue(d) ==
    /\ phase[d] = "unissued"
    /\ phase' = [phase EXCEPT ![d] = "open"]
    /\ UNCHANGED meter

Spend(d) ==
    /\ phase[d] = "open"
    /\ phase' = [phase EXCEPT ![d] = "spent"]
    /\ meter' = meter + 1

Drop(d) ==
    /\ phase[d] = "open"
    /\ phase' = [phase EXCEPT ![d] = "dropped"]
    /\ UNCHANGED meter

StartMonth ==
    /\ meter' = 0
    /\ UNCHANGED phase

Next ==
    \/ \E d \in Deliveries : Issue(d) \/ Spend(d) \/ Drop(d)
    \/ StartMonth

Spec == Init /\ [][Next]_vars
===============================================================================
