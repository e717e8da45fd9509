---------------------------- MODULE PlanApproval ----------------------------
(***************************************************************************)
(* What the store of approval plans promises whoever answers one: a plan   *)
(* is offered, claimed by one answer, executed at most once and only while *)
(* claimed, and resolved once, as approved when it was executed and as     *)
(* rejected when it was not.                                               *)
(***************************************************************************)
EXTENDS Naturals

CONSTANT Plans

VARIABLES
    stage,    \* where each plan is
    runs      \* how often it has been executed

vars == <<stage, runs>>

Stages == {"unknown", "pending", "claimed", "approved", "rejected"}

Init ==
    /\ stage = [p \in Plans |-> "unknown"]
    /\ runs = [p \in Plans |-> 0]

Offer(p) ==
    /\ stage[p] = "unknown"
    /\ stage' = [stage EXCEPT ![p] = "pending"]
    /\ UNCHANGED runs

Claim(p) ==
    /\ stage[p] = "pending"
    /\ stage' = [stage EXCEPT ![p] = "claimed"]
    /\ UNCHANGED runs

Execute(p) ==
    /\ stage[p] = "claimed"
    /\ runs[p] = 0
    /\ runs' = [runs EXCEPT ![p] = 1]
    /\ UNCHANGED stage

Resolve(p) ==
    /\ stage[p] = "claimed"
    /\ stage' = [stage EXCEPT ![p] = IF runs[p] = 0 THEN "rejected" ELSE "approved"]
    /\ UNCHANGED runs

Next == \E p \in Plans : Offer(p) \/ Claim(p) \/ Execute(p) \/ Resolve(p)

Spec == Init /\ [][Next]_vars
=============================================================================
