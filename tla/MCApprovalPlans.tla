-------------------------- MODULE MCApprovalPlans --------------------------
(* Two plans offered and three answers, on a home without a key. *)
EXTENDS ApprovalPlans, TLC

Symmetry == Permutations(Plans) \cup Permutations(Approvals)
=============================================================================
