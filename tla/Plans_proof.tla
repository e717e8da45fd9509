----------------------------- MODULE Plans_proof -----------------------------
(***************************************************************************)
(* Proofs about the plans of a model.  ApprovalPlans: for any number of    *)
(* plans, answers, replays and interruptions, the store of plans           *)
(* implements PlanApproval, and its two-step lookup never denies a plan    *)
(* that was offered.  ModelPlanning: for any tasks and answers, a plan     *)
(* keeps to what it may write, and the narrow sequence tells what it did.  *)
(***************************************************************************)
EXTENDS ApprovalPlans, ModelPlanning, FiniteSetTheorems, SequenceTheorems,
        WellFoundedInduction, TLAPS

-----------------------------------------------------------------------------
(* The store of plans *)

Claimed == {"key", "minting", "storing", "sealing", "deciding", "rejecting",
            "executing", "approving", "unlinking"}

\* An answer that has taken its plan out of pending-plans and not resolved it.
Holds(r) == r \in Approvals /\ at[r] \in Claimed

\* A request is at work or has its reply.
RepliesEnd == \A r \in Requests : at[r] # "done" => reply[r] = None

\* A plan has left no file and run nothing before its offer was stored, ...
NewPlans ==
    \A p \in Plans : reply[p] # "approval_required" =>
        p \notin pending /\ p \notin executing /\ archive[p] = None /\ runs[p] = 0

\* ... and is in one of the directories ever after.
OfferedPlans == \A p \in Plans : reply[p] = "approval_required" => Stage(p) # "unknown"

\* Nothing has happened to a pending plan.
PendingPlans ==
    \A p \in pending : p \notin executing /\ archive[p] = None /\ runs[p] = 0

\* An answer is about a plan that was offered.
AnswersOffers ==
    \A r \in Approvals : at[r] # "start" =>
        about[r] \in Plans /\ reply[about[r]] = "approval_required"

\* Where an answer that holds a plan is tells what has happened to the plan.
HeldPlans ==
    \A r \in Approvals : Holds(r) =>
        /\ about[r] \in executing
        /\ about[r] \notin pending
        /\ archive[about[r]] = None <=> at[r] # "unlinking"
        /\ at[r] \in {"executing", "approving"} => runs[about[r]] = 1
        /\ at[r] \notin {"executing", "approving", "unlinking"} => runs[about[r]] = 0

\* No two answers hold the same plan.
HeldByOne ==
    \A r, s \in Approvals : Holds(r) /\ Holds(s) /\ about[r] = about[s] => r = s

\* What an answer that lost the race for a plan has found out.
Probes ==
    \A r \in Approvals :
        /\ at[r] \in {"probing", "probing2"} => about[r] \notin pending
        /\ at[r] = "probing2" => archive[about[r]] # None

StoreInv ==
    /\ StoreTypeOK
    /\ RepliesEnd /\ NewPlans /\ OfferedPlans /\ PendingPlans
    /\ AnswersOffers /\ HeldPlans /\ HeldByOne /\ Probes
    /\ OfferedPlanIsFound /\ ClaimsAreReleased

-----------------------------------------------------------------------------
\* Every step keeps the types.
LEMMA TypeStep ==
  ASSUME StoreTypeOK, AnswersOffers, [StoreNext]_storeVars
  PROVE  StoreTypeOK'
<1> USE DEF StoreTypeOK, AnswersOffers, Replies, Decisions, Requests, Keys, Reply,
        store
<1>1. ASSUME NEW p \in Plans, BeginOffer(p) PROVE StoreTypeOK'
  BY <1>1 DEF BeginOffer
<1>2. ASSUME NEW p \in Plans, persist_approval_plan(p) PROVE StoreTypeOK'
  BY <1>2 DEF persist_approval_plan
<1>3. ASSUME NEW p \in Plans, Expire(p) PROVE StoreTypeOK'
  BY <1>3 DEF Expire
<1>4. ASSUME NEW r \in Approvals, BeginAnswer(r) PROVE StoreTypeOK'
  BY <1>4 DEF BeginAnswer
<1>5. ASSUME NEW r \in Approvals, Claim(r) PROVE StoreTypeOK'
  BY <1>5 DEF Claim
<1>6. ASSUME NEW r \in Approvals, ClaimFails(r) PROVE StoreTypeOK'
  BY <1>6 DEF ClaimFails
<1>7. ASSUME NEW r \in Approvals, ProbeExecuting(r) PROVE StoreTypeOK'
  BY <1>7 DEF ProbeExecuting
<1>8. ASSUME NEW r \in Approvals, ProbeArchive(r) PROVE StoreTypeOK'
  BY <1>8 DEF ProbeArchive
<1>9. ASSUME NEW r \in Approvals, load_approval_plan_path(r) PROVE StoreTypeOK'
  BY <1>9 DEF load_approval_plan_path
<1>10. ASSUME NEW r \in Approvals, Refuse(r) PROVE StoreTypeOK'
  BY <1>10 DEF Refuse
<1>11. ASSUME NEW r \in Approvals, execute_model_plan(r) PROVE StoreTypeOK'
  BY <1>11 DEF execute_model_plan
<1>12. ASSUME NEW r \in Approvals, ExecutionEnds(r) PROVE StoreTypeOK'
  BY <1>12 DEF ExecutionEnds
<1>13. ASSUME NEW r \in Approvals, Archive(r) PROVE StoreTypeOK'
  BY <1>13 DEF Archive
<1>14. ASSUME NEW r \in Approvals, Unlink(r) PROVE StoreTypeOK'
  BY <1>14 DEF Unlink
<1>15. ASSUME NEW r \in Requests, LookupKey(r) PROVE StoreTypeOK'
  BY <1>15 DEF LookupKey
<1>16. ASSUME NEW r \in Requests, TruncateKey(r) PROVE StoreTypeOK'
  BY <1>16 DEF TruncateKey
<1>17. ASSUME NEW r \in Requests, StoreKey(r) PROVE StoreTypeOK'
  BY <1>17 DEF StoreKey
<1>18. ASSUME NEW r \in Requests, Interrupt(r) PROVE StoreTypeOK'
  BY <1>18 DEF Interrupt
<1>19. CASE UNCHANGED storeVars
  BY <1>19 DEF storeVars
<1>20. QED
  BY <1>1, <1>2, <1>3, <1>4, <1>5, <1>6, <1>7, <1>8, <1>9, <1>10, <1>11,
     <1>12, <1>13, <1>14, <1>15, <1>16, <1>17, <1>18, <1>19 DEF StoreNext,
     Offering, Answering

\* What is known of offers and of pending plans.
OfferInv == RepliesEnd /\ NewPlans /\ OfferedPlans /\ PendingPlans /\ AnswersOffers

\* Every step keeps what is known of offers and of pending plans: a plan enters
\* pending-plans once, when its offer is stored, and leaves it for executing-plans.
LEMMA OfferStep ==
  ASSUME StoreInv, [StoreNext]_storeVars
  PROVE  OfferInv'
<1> USE SetsAssumption DEF StoreInv, OfferInv, RepliesEnd, NewPlans, OfferedPlans,
        PendingPlans, AnswersOffers, HeldPlans, Holds, Claimed, Stage, StoreTypeOK,
        Replies, Decisions, Requests, Reply, store
<1>1. ASSUME NEW p \in Plans, BeginOffer(p) PROVE OfferInv'
  BY <1>1 DEF BeginOffer
<1>2. ASSUME NEW p \in Plans, persist_approval_plan(p) PROVE OfferInv'
  BY <1>2 DEF persist_approval_plan
<1>3. ASSUME NEW p \in Plans, Expire(p) PROVE OfferInv'
  BY <1>3 DEF Expire
<1>4. ASSUME NEW r \in Approvals, BeginAnswer(r) PROVE OfferInv'
  BY <1>4 DEF BeginAnswer
<1>5. ASSUME NEW r \in Approvals, Claim(r) PROVE OfferInv'
  BY <1>5 DEF Claim
<1>6. ASSUME NEW r \in Approvals, ClaimFails(r) PROVE OfferInv'
  BY <1>6 DEF ClaimFails
<1>7. ASSUME NEW r \in Approvals, ProbeExecuting(r) PROVE OfferInv'
  BY <1>7 DEF ProbeExecuting
<1>8. ASSUME NEW r \in Approvals, ProbeArchive(r) PROVE OfferInv'
  BY <1>8 DEF ProbeArchive
<1>9. ASSUME NEW r \in Approvals, load_approval_plan_path(r) PROVE OfferInv'
  BY <1>9 DEF load_approval_plan_path
<1>10. ASSUME NEW r \in Approvals, Refuse(r) PROVE OfferInv'
  BY <1>10 DEF Refuse
<1>11. ASSUME NEW r \in Approvals, execute_model_plan(r) PROVE OfferInv'
  BY <1>11 DEF execute_model_plan
<1>12. ASSUME NEW r \in Approvals, ExecutionEnds(r) PROVE OfferInv'
  BY <1>12 DEF ExecutionEnds
<1>13. ASSUME NEW r \in Approvals, Archive(r) PROVE OfferInv'
  BY <1>13 DEF Archive
<1>14. ASSUME NEW r \in Approvals, Unlink(r) PROVE OfferInv'
  BY <1>14 DEF Unlink
<1>15. ASSUME NEW r \in Requests, LookupKey(r) PROVE OfferInv'
  BY <1>15 DEF LookupKey
<1>16. ASSUME NEW r \in Requests, TruncateKey(r) PROVE OfferInv'
  BY <1>16 DEF TruncateKey
<1>17. ASSUME NEW r \in Requests, StoreKey(r) PROVE OfferInv'
  BY <1>17 DEF StoreKey
<1>18. ASSUME NEW r \in Requests, Interrupt(r) PROVE OfferInv'
  BY <1>18 DEF Interrupt
<1>19. CASE UNCHANGED storeVars
  BY <1>19 DEF storeVars
<1>20. QED
  BY <1>1, <1>2, <1>3, <1>4, <1>5, <1>6, <1>7, <1>8, <1>9, <1>10, <1>11,
     <1>12, <1>13, <1>14, <1>15, <1>16, <1>17, <1>18, <1>19 DEF StoreNext,
     Offering, Answering

\* Every step keeps what is known of the answers that hold a plan: the plan that
\* Claim takes was pending, so nobody held it.
LEMMA HoldStep ==
  ASSUME StoreInv, [StoreNext]_storeVars
  PROVE  (HeldPlans /\ HeldByOne)'
<1> USE SetsAssumption DEF StoreInv, HeldPlans, HeldByOne, Holds, Claimed,
        PendingPlans, AnswersOffers, RepliesEnd, NewPlans, StoreTypeOK, Replies,
        Decisions, Requests, Reply, store
<1>1. ASSUME NEW p \in Plans, BeginOffer(p) PROVE (HeldPlans /\ HeldByOne)'
  BY <1>1 DEF BeginOffer
<1>2. ASSUME NEW p \in Plans, persist_approval_plan(p) PROVE (HeldPlans /\ HeldByOne)'
  BY <1>2 DEF persist_approval_plan
<1>3. ASSUME NEW p \in Plans, Expire(p) PROVE (HeldPlans /\ HeldByOne)'
  BY <1>3 DEF Expire
<1>4. ASSUME NEW r \in Approvals, BeginAnswer(r) PROVE (HeldPlans /\ HeldByOne)'
  BY <1>4 DEF BeginAnswer
<1>5. ASSUME NEW r \in Approvals, Claim(r) PROVE (HeldPlans /\ HeldByOne)'
  BY <1>5 DEF Claim
<1>6. ASSUME NEW r \in Approvals, ClaimFails(r) PROVE (HeldPlans /\ HeldByOne)'
  BY <1>6 DEF ClaimFails
<1>7. ASSUME NEW r \in Approvals, ProbeExecuting(r) PROVE (HeldPlans /\ HeldByOne)'
  BY <1>7 DEF ProbeExecuting
<1>8. ASSUME NEW r \in Approvals, ProbeArchive(r) PROVE (HeldPlans /\ HeldByOne)'
  BY <1>8 DEF ProbeArchive
<1>9. ASSUME NEW r \in Approvals, load_approval_plan_path(r) PROVE (HeldPlans /\ HeldByOne)'
  BY <1>9 DEF load_approval_plan_path
<1>10. ASSUME NEW r \in Approvals, Refuse(r) PROVE (HeldPlans /\ HeldByOne)'
  BY <1>10 DEF Refuse
<1>11. ASSUME NEW r \in Approvals, execute_model_plan(r) PROVE (HeldPlans /\ HeldByOne)'
  BY <1>11 DEF execute_model_plan
<1>12. ASSUME NEW r \in Approvals, ExecutionEnds(r) PROVE (HeldPlans /\ HeldByOne)'
  BY <1>12 DEF ExecutionEnds
<1>13. ASSUME NEW r \in Approvals, Archive(r) PROVE (HeldPlans /\ HeldByOne)'
  BY <1>13 DEF Archive
<1>14. ASSUME NEW r \in Approvals, Unlink(r) PROVE (HeldPlans /\ HeldByOne)'
  BY <1>14 DEF Unlink
<1>15. ASSUME NEW r \in Requests, LookupKey(r) PROVE (HeldPlans /\ HeldByOne)'
  BY <1>15 DEF LookupKey
<1>16. ASSUME NEW r \in Requests, TruncateKey(r) PROVE (HeldPlans /\ HeldByOne)'
  BY <1>16 DEF TruncateKey
<1>17. ASSUME NEW r \in Requests, StoreKey(r) PROVE (HeldPlans /\ HeldByOne)'
  BY <1>17 DEF StoreKey
<1>18. ASSUME NEW r \in Requests, Interrupt(r) PROVE (HeldPlans /\ HeldByOne)'
  BY <1>18 DEF Interrupt
<1>19. CASE UNCHANGED storeVars
  BY <1>19 DEF storeVars
<1>20. QED
  BY <1>1, <1>2, <1>3, <1>4, <1>5, <1>6, <1>7, <1>8, <1>9, <1>10, <1>11,
     <1>12, <1>13, <1>14, <1>15, <1>16, <1>17, <1>18, <1>19 DEF StoreNext,
     Offering, Answering

\* Every step keeps what is known of the answers that lost the race: a plan that
\* has left pending-plans and is not in executing-plans is in the archive.
LEMMA ProbeStep ==
  ASSUME StoreInv, [StoreNext]_storeVars
  PROVE  (Probes /\ OfferedPlanIsFound)'
<1> USE SetsAssumption DEF StoreInv, Probes, OfferedPlanIsFound, OfferedPlans,
        HeldPlans, Holds, Claimed, Stage, AnswersOffers, RepliesEnd, StoreTypeOK,
        Replies, Decisions, Requests, Reply, store
<1>1. ASSUME NEW p \in Plans, BeginOffer(p) PROVE (Probes /\ OfferedPlanIsFound)'
  BY <1>1 DEF BeginOffer
<1>2. ASSUME NEW p \in Plans, persist_approval_plan(p) PROVE (Probes /\ OfferedPlanIsFound)'
  BY <1>2 DEF persist_approval_plan
<1>3. ASSUME NEW p \in Plans, Expire(p) PROVE (Probes /\ OfferedPlanIsFound)'
  BY <1>3 DEF Expire
<1>4. ASSUME NEW r \in Approvals, BeginAnswer(r) PROVE (Probes /\ OfferedPlanIsFound)'
  BY <1>4 DEF BeginAnswer
<1>5. ASSUME NEW r \in Approvals, Claim(r) PROVE (Probes /\ OfferedPlanIsFound)'
  BY <1>5 DEF Claim
<1>6. ASSUME NEW r \in Approvals, ClaimFails(r) PROVE (Probes /\ OfferedPlanIsFound)'
  BY <1>6 DEF ClaimFails
<1>7. ASSUME NEW r \in Approvals, ProbeExecuting(r) PROVE (Probes /\ OfferedPlanIsFound)'
  BY <1>7 DEF ProbeExecuting
<1>8. ASSUME NEW r \in Approvals, ProbeArchive(r) PROVE (Probes /\ OfferedPlanIsFound)'
  BY <1>8 DEF ProbeArchive
<1>9. ASSUME NEW r \in Approvals, load_approval_plan_path(r) PROVE (Probes /\ OfferedPlanIsFound)'
  BY <1>9 DEF load_approval_plan_path
<1>10. ASSUME NEW r \in Approvals, Refuse(r) PROVE (Probes /\ OfferedPlanIsFound)'
  BY <1>10 DEF Refuse
<1>11. ASSUME NEW r \in Approvals, execute_model_plan(r) PROVE (Probes /\ OfferedPlanIsFound)'
  BY <1>11 DEF execute_model_plan
<1>12. ASSUME NEW r \in Approvals, ExecutionEnds(r) PROVE (Probes /\ OfferedPlanIsFound)'
  BY <1>12 DEF ExecutionEnds
<1>13. ASSUME NEW r \in Approvals, Archive(r) PROVE (Probes /\ OfferedPlanIsFound)'
  BY <1>13 DEF Archive
<1>14. ASSUME NEW r \in Approvals, Unlink(r) PROVE (Probes /\ OfferedPlanIsFound)'
  BY <1>14 DEF Unlink
<1>15. ASSUME NEW r \in Requests, LookupKey(r) PROVE (Probes /\ OfferedPlanIsFound)'
  BY <1>15 DEF LookupKey
<1>16. ASSUME NEW r \in Requests, TruncateKey(r) PROVE (Probes /\ OfferedPlanIsFound)'
  BY <1>16 DEF TruncateKey
<1>17. ASSUME NEW r \in Requests, StoreKey(r) PROVE (Probes /\ OfferedPlanIsFound)'
  BY <1>17 DEF StoreKey
<1>18. ASSUME NEW r \in Requests, Interrupt(r) PROVE (Probes /\ OfferedPlanIsFound)'
  BY <1>18 DEF Interrupt
<1>19. CASE UNCHANGED storeVars
  BY <1>19 DEF storeVars
<1>20. QED
  BY <1>1, <1>2, <1>3, <1>4, <1>5, <1>6, <1>7, <1>8, <1>9, <1>10, <1>11,
     <1>12, <1>13, <1>14, <1>15, <1>16, <1>17, <1>18, <1>19 DEF StoreNext,
     Offering, Answering

\* Every step leaves a claimed file with the answer that took it, or with one that
\* failed.
LEMMA ReleaseStep ==
  ASSUME StoreInv, [StoreNext]_storeVars
  PROVE  ClaimsAreReleased'
<1> USE SetsAssumption DEF StoreInv, ClaimsAreReleased, HeldByOne, HeldPlans,
        RepliesEnd, Holds, Claimed, StoreTypeOK, Replies, Decisions, Requests,
        Reply, store
<1>1. ASSUME NEW p \in Plans, BeginOffer(p) PROVE ClaimsAreReleased'
  BY <1>1 DEF BeginOffer
<1>2. ASSUME NEW p \in Plans, persist_approval_plan(p) PROVE ClaimsAreReleased'
  BY <1>2 DEF persist_approval_plan
<1>3. ASSUME NEW p \in Plans, Expire(p) PROVE ClaimsAreReleased'
  BY <1>3 DEF Expire
<1>4. ASSUME NEW r \in Approvals, BeginAnswer(r) PROVE ClaimsAreReleased'
  BY <1>4 DEF BeginAnswer
<1>5. ASSUME NEW r \in Approvals, Claim(r) PROVE ClaimsAreReleased'
  BY <1>5 DEF Claim
<1>6. ASSUME NEW r \in Approvals, ClaimFails(r) PROVE ClaimsAreReleased'
  BY <1>6 DEF ClaimFails
<1>7. ASSUME NEW r \in Approvals, ProbeExecuting(r) PROVE ClaimsAreReleased'
  BY <1>7 DEF ProbeExecuting
<1>8. ASSUME NEW r \in Approvals, ProbeArchive(r) PROVE ClaimsAreReleased'
  BY <1>8 DEF ProbeArchive
<1>9. ASSUME NEW r \in Approvals, load_approval_plan_path(r) PROVE ClaimsAreReleased'
  BY <1>9 DEF load_approval_plan_path
<1>10. ASSUME NEW r \in Approvals, Refuse(r) PROVE ClaimsAreReleased'
  BY <1>10 DEF Refuse
<1>11. ASSUME NEW r \in Approvals, execute_model_plan(r) PROVE ClaimsAreReleased'
  BY <1>11 DEF execute_model_plan
<1>12. ASSUME NEW r \in Approvals, ExecutionEnds(r) PROVE ClaimsAreReleased'
  BY <1>12 DEF ExecutionEnds
<1>13. ASSUME NEW r \in Approvals, Archive(r) PROVE ClaimsAreReleased'
  BY <1>13 DEF Archive
<1>14. ASSUME NEW r \in Approvals, Unlink(r) PROVE ClaimsAreReleased'
  BY <1>14 DEF Unlink
<1>15. ASSUME NEW r \in Requests, LookupKey(r) PROVE ClaimsAreReleased'
  BY <1>15 DEF LookupKey
<1>16. ASSUME NEW r \in Requests, TruncateKey(r) PROVE ClaimsAreReleased'
  BY <1>16 DEF TruncateKey
<1>17. ASSUME NEW r \in Requests, StoreKey(r) PROVE ClaimsAreReleased'
  BY <1>17 DEF StoreKey
<1>18. ASSUME NEW r \in Requests, Interrupt(r) PROVE ClaimsAreReleased'
  BY <1>18 DEF Interrupt
<1>19. CASE UNCHANGED storeVars
  BY <1>19 DEF storeVars
<1>20. QED
  BY <1>1, <1>2, <1>3, <1>4, <1>5, <1>6, <1>7, <1>8, <1>9, <1>10, <1>11,
     <1>12, <1>13, <1>14, <1>15, <1>16, <1>17, <1>18, <1>19 DEF StoreNext,
     Offering, Answering

-----------------------------------------------------------------------------
(* The invariant *)

\* The initial state has the invariant.
LEMMA StoreStarts == StoreInit => StoreInv
<1> SUFFICES ASSUME StoreInit PROVE StoreInv
  OBVIOUS
<1> USE SetsAssumption, InterruptsAssumption DEF StoreInit
<1>1. StoreTypeOK
  BY DEF StoreTypeOK, Keys, Requests
<1>2. RepliesEnd /\ NewPlans /\ OfferedPlans /\ PendingPlans
  BY DEF RepliesEnd, NewPlans, OfferedPlans, PendingPlans, Requests, Replies
<1>3. AnswersOffers /\ HeldPlans /\ HeldByOne /\ Probes
  BY DEF AnswersOffers, HeldPlans, HeldByOne, Probes, Holds, Claimed, Requests
<1>4. OfferedPlanIsFound /\ ClaimsAreReleased
  BY DEF OfferedPlanIsFound, ClaimsAreReleased, Requests, Replies
<1>5. QED
  BY <1>1, <1>2, <1>3, <1>4 DEF StoreInv

\* Every step keeps the invariant.
LEMMA StoreKeeps == StoreInv /\ [StoreNext]_storeVars => StoreInv'
<1> SUFFICES ASSUME StoreInv, [StoreNext]_storeVars PROVE StoreInv'
  OBVIOUS
<1>1. StoreTypeOK'
  BY TypeStep DEF StoreInv
<1>2. OfferInv' /\ (HeldPlans /\ HeldByOne)' /\ (Probes /\ OfferedPlanIsFound)'
      /\ ClaimsAreReleased'
  BY OfferStep, HoldStep, ProbeStep, ReleaseStep
<1>3. QED
  BY <1>1, <1>2 DEF StoreInv, OfferInv

\* The invariant holds in every state of every behaviour.
THEOREM StoreInvariance == StoreSpec => []StoreInv
BY StoreStarts, StoreKeeps, PTL DEF StoreSpec

\* The variables keep their types.
THEOREM StoreTypes == StoreSpec => []StoreTypeOK
<1>1. StoreInv => StoreTypeOK
  BY DEF StoreInv
<1>2. QED
  BY <1>1, StoreInvariance, PTL

\* claim_approval_plan never tells a client that the plan it was offered does not
\* exist, whatever the other requests move between its two lookups.
THEOREM OfferedPlansAreFound == StoreSpec => []OfferedPlanIsFound
<1>1. StoreInv => OfferedPlanIsFound
  BY DEF StoreInv
<1>2. QED
  BY <1>1, StoreInvariance, PTL

\* A file stays in executing-plans only with the answer that moved it there, or
\* after that answer failed.
THEOREM ClaimsReleased == StoreSpec => []ClaimsAreReleased
<1>1. StoreInv => ClaimsAreReleased
  BY DEF StoreInv
<1>2. QED
  BY <1>1, StoreInvariance, PTL

-----------------------------------------------------------------------------
(* Keys that do not fit *)

\* Every key a request holds, a plan is sealed with or the file keeps is one
\* that some request generated.
KeysMinted ==
    /\ IsFiniteSet(minted)
    /\ key \in Requests => key \in minted
    /\ \A r \in Requests :
          /\ at[r] = "storing" => r \in minted
          /\ at[r] = "sealing" => mine[r] \in minted
    /\ \A p \in Plans : reply[p] = "approval_required" => seal[p] \in minted

\* A digest failed: two keys are there.
TwoKeys ==
    (\E r \in Approvals : reply[r] = "mismatch") => \E a, b \in minted : a # b

\* Keys come from where they are generated, and a refused digest is one made with
\* another key than the one that is looked up.
LEMMA KeyStep ==
  ASSUME StoreInv, KeysMinted, TwoKeys, [StoreNext]_storeVars
  PROVE  KeysMinted' /\ TwoKeys'
<1> USE SetsAssumption
<1>1. \A r \in Requests : IsFiniteSet(minted \cup {r})
  BY FS_AddElement DEF KeysMinted
<1>2. ASSUME NEW p \in Plans, BeginOffer(p) PROVE KeysMinted' /\ TwoKeys'
  BY <1>2 DEF BeginOffer, KeysMinted, TwoKeys, StoreInv, StoreTypeOK, Requests
<1>3. ASSUME NEW p \in Plans, persist_approval_plan(p) PROVE KeysMinted' /\ TwoKeys'
  BY <1>3 DEF persist_approval_plan, Reply, KeysMinted, TwoKeys, StoreInv, StoreTypeOK, Requests
<1>4. ASSUME NEW p \in Plans, Expire(p) PROVE KeysMinted' /\ TwoKeys'
  BY <1>4 DEF Expire, KeysMinted, TwoKeys
<1>5. ASSUME NEW r \in Approvals, BeginAnswer(r) PROVE KeysMinted' /\ TwoKeys'
  BY <1>5 DEF BeginAnswer, KeysMinted, TwoKeys, StoreInv, StoreTypeOK, Requests
<1>6. ASSUME NEW r \in Approvals, Claim(r) \/ ClaimFails(r) PROVE KeysMinted' /\ TwoKeys'
  BY <1>6 DEF Claim, ClaimFails, KeysMinted, TwoKeys, StoreInv, StoreTypeOK, Requests, store
<1>7. ASSUME NEW r \in Approvals, ProbeExecuting(r) \/ ProbeArchive(r) \/ Unlink(r)
      PROVE  KeysMinted' /\ TwoKeys'
  <2>1. CASE ProbeExecuting(r)
    BY <2>1 DEF ProbeExecuting, Reply, KeysMinted, TwoKeys, StoreInv, StoreTypeOK, Requests
  <2>2. CASE ProbeArchive(r)
    BY <2>2 DEF ProbeArchive, Reply, KeysMinted, TwoKeys, StoreInv, StoreTypeOK, Requests
  <2>3. CASE Unlink(r)
    <3>1. archive[about[r]] \notin {"approval_required", "mismatch"}
      BY <2>3 DEF Unlink, StoreInv, AnswersOffers, StoreTypeOK, Decisions, Replies
    <3>2. QED
      BY <2>3, <3>1 DEF Unlink, Reply, KeysMinted, TwoKeys, StoreInv, StoreTypeOK, Requests
  <2>4. QED
    BY <1>7, <2>1, <2>2, <2>3
<1>8. ASSUME NEW r \in Approvals, load_approval_plan_path(r) PROVE KeysMinted' /\ TwoKeys'
  <2>1. mine[r] \in minted
    BY <1>8 DEF load_approval_plan_path, KeysMinted, Requests
  <2>2. seal[about[r]] \in minted
    BY <1>8 DEF load_approval_plan_path, KeysMinted, StoreInv, AnswersOffers
  <2>3. UNCHANGED <<key, seal, mine, minted>>
    BY <1>8 DEF load_approval_plan_path
  <2>4. KeysMinted'
    BY <1>8, <2>3 DEF load_approval_plan_path, Reply, KeysMinted, StoreInv, StoreTypeOK, Requests
  <2>5. TwoKeys'
    BY <1>8, <2>1, <2>2, <2>3 DEF load_approval_plan_path, Reply, TwoKeys, StoreInv, StoreTypeOK, Requests
  <2>6. QED
    BY <2>4, <2>5
<1>9. ASSUME NEW r \in Approvals, Refuse(r) \/ execute_model_plan(r) \/ ExecutionEnds(r) \/ Archive(r)
      PROVE  KeysMinted' /\ TwoKeys'
  BY <1>9 DEF Refuse, execute_model_plan, ExecutionEnds, Archive, KeysMinted, TwoKeys, StoreInv,
     StoreTypeOK, Requests
<1>10. ASSUME NEW r \in Requests, LookupKey(r) \/ StoreKey(r) PROVE KeysMinted' /\ TwoKeys'
  BY <1>10 DEF LookupKey, StoreKey, KeysMinted, TwoKeys, StoreInv, StoreTypeOK
<1>11. ASSUME NEW r \in Requests, TruncateKey(r) PROVE KeysMinted' /\ TwoKeys'
  BY <1>1, <1>11 DEF TruncateKey, KeysMinted, TwoKeys, StoreInv, StoreTypeOK, Requests
<1>12. ASSUME NEW r \in Requests, Interrupt(r) PROVE KeysMinted' /\ TwoKeys'
  BY <1>12 DEF Interrupt, Reply, KeysMinted, TwoKeys, StoreInv, StoreTypeOK, Requests
<1>13. CASE UNCHANGED storeVars
  BY <1>13 DEF storeVars, KeysMinted, TwoKeys
<1>14. QED
  BY <1>2, <1>3, <1>4, <1>5, <1>6, <1>7, <1>8, <1>9, <1>10, <1>11, <1>12, <1>13
     DEF StoreNext, Offering, Answering

\* A digest that does not verify takes two requests that generated a key.
THEOREM MismatchTakesTwoKeys == StoreSpec => []MismatchNeedsTwoKeys
<1>1. StoreInit => KeysMinted /\ TwoKeys
  BY SetsAssumption, FS_EmptySet DEF StoreInit, KeysMinted, TwoKeys, Requests, Replies, Decisions
<1>2. StoreInv /\ KeysMinted /\ TwoKeys /\ [StoreNext]_storeVars => KeysMinted' /\ TwoKeys'
  BY KeyStep
<1>3. KeysMinted /\ TwoKeys => MismatchNeedsTwoKeys
  <2> SUFFICES ASSUME KeysMinted, TwoKeys, NEW r \in Approvals, reply[r] = "mismatch"
               PROVE  Cardinality(minted) > 1
    BY DEF MismatchNeedsTwoKeys
  <2>1. PICK a, b \in minted : a # b
    BY DEF TwoKeys
  <2>2. IsFiniteSet({a}) /\ Cardinality({a}) = 1
    BY FS_Singleton
  <2>3. Cardinality({a, b}) = 2 /\ IsFiniteSet({a, b})
    <3> DEFINE one == {a}
    <3>1. {a, b} = one \cup {b} /\ b \notin one
      BY <2>1
    <3>2. IsFiniteSet(one) /\ Cardinality(one) = 1
      BY <2>2
    <3> HIDE DEF one
    <3>3. IsFiniteSet(one \cup {b}) /\ Cardinality(one \cup {b}) = Cardinality(one) + 1
      BY <3>1, <3>2, FS_AddElement
    <3>4. QED
      BY <3>1, <3>2, <3>3
  <2>4. Cardinality({a, b}) <= Cardinality(minted) /\ Cardinality(minted) \in Nat
    BY <2>1, FS_Subset, FS_CardinalityType DEF KeysMinted
  <2>5. QED
    BY <2>3, <2>4
<1>4. QED
  BY <1>1, <1>2, <1>3, StoreInvariance, PTL DEF StoreSpec

-----------------------------------------------------------------------------
(* ApprovalPlans implements PlanApproval *)

\* No plan is known at first.
LEMMA AbstractInit == StoreInit => Abstract!Init
BY DEF StoreInit, Abstract!Init, Stage

\* A step changes the stage of at most the plan it is about, or executes it.
LEMMA AbstractStep ==
  ASSUME StoreInv, [StoreNext]_storeVars
  PROVE  [Abstract!Next]_(Abstract!vars)
<1> DEFINE stages == [p \in Plans |-> Stage(p)]
<1>1. ASSUME NEW p \in Plans, persist_approval_plan(p) PROVE Abstract!Offer(p)
  BY ZenonT(60), <1>1, SetsAssumption DEF persist_approval_plan, Abstract!Offer, Stage, StoreInv,
     NewPlans,
     RepliesEnd, Requests, Replies, StoreTypeOK
<1>2. ASSUME NEW r \in Approvals, Claim(r) PROVE Abstract!Claim(about[r])
  BY <1>2 DEF Claim, Abstract!Claim, Stage, StoreInv, PendingPlans, AnswersOffers, StoreTypeOK
<1>3. ASSUME NEW r \in Approvals, execute_model_plan(r) PROVE Abstract!Execute(about[r])
  <2>1. about[r] \in Plans /\ about[r] \in executing /\ archive[about[r]] = None /\ runs[about[r]] = 0
    BY <1>3 DEF execute_model_plan, StoreInv, HeldPlans, Holds, Claimed, AnswersOffers
  <2>2. stages[about[r]] = "claimed" /\ UNCHANGED stages
    BY <1>3, <2>1 DEF execute_model_plan, Stage, store
  <2>3. runs' = [runs EXCEPT ![about[r]] = 1]
    BY <1>3, <2>1 DEF execute_model_plan
  <2>4. QED
    BY <2>1, <2>2, <2>3 DEF Abstract!Execute
<1>4. ASSUME NEW r \in Approvals, Archive(r) PROVE Abstract!Resolve(about[r])
  BY <1>4, SetsAssumption DEF Archive, Abstract!Resolve, Stage, StoreInv, HeldPlans, Holds, Claimed,
     AnswersOffers, StoreTypeOK, Decisions, Replies
<1>5. ASSUME NEW r \in Approvals, Unlink(r) PROVE UNCHANGED <<stages, runs>>
  BY <1>5 DEF Unlink, Stage, StoreInv, HeldPlans, Holds, Claimed, StoreTypeOK
<1>6. ASSUME UNCHANGED <<store, runs>> PROVE UNCHANGED <<stages, runs>>
  BY <1>6 DEF Stage, store
<1>7. ASSUME NEW p \in Plans, BeginOffer(p) \/ Expire(p) PROVE UNCHANGED <<store, runs>>
  BY <1>7 DEF BeginOffer, Expire
<1>8. ASSUME NEW r \in Approvals,
             \/ BeginAnswer(r) \/ ClaimFails(r) \/ ProbeExecuting(r) \/ ProbeArchive(r)
             \/ load_approval_plan_path(r) \/ Refuse(r) \/ ExecutionEnds(r)
      PROVE  UNCHANGED <<store, runs>>
  BY <1>8 DEF BeginAnswer, ClaimFails, ProbeExecuting, ProbeArchive,
     load_approval_plan_path, Refuse, ExecutionEnds
<1>9. ASSUME NEW r \in Requests,
             LookupKey(r) \/ TruncateKey(r) \/ StoreKey(r) \/ Interrupt(r)
      PROVE  UNCHANGED <<store, runs>>
  BY <1>9 DEF LookupKey, TruncateKey, StoreKey, Interrupt
<1>10. UNCHANGED storeVars => UNCHANGED <<store, runs>>
  BY DEF storeVars
<1>11. \A r \in Approvals : at[r] # "start" => about[r] \in Plans
  BY DEF StoreInv, AnswersOffers
<1>12. CASE \E p \in Plans : Abstract!Offer(p) \/ Abstract!Claim(p)
                               \/ Abstract!Execute(p) \/ Abstract!Resolve(p)
  BY <1>12 DEF Abstract!Next
<1>13. CASE UNCHANGED <<stages, runs>>
  BY <1>13 DEF Abstract!vars
<1>14. QED
  <2>1. CASE \E p \in Plans : persist_approval_plan(p)
    BY <2>1, <1>1, <1>12
  <2>2. CASE \E r \in Approvals : Claim(r) \/ execute_model_plan(r) \/ Archive(r)
    BY <2>2, <1>2, <1>3, <1>4, <1>11, <1>12 DEF Claim, execute_model_plan, Archive
  <2>3. CASE UNCHANGED <<stages, runs>>
    BY <2>3, <1>13
  <2>4. CASE UNCHANGED <<store, runs>>
    BY <2>4, <1>6, <1>13
  <2>5. QED
    BY <2>1, <2>2, <2>3, <2>4, <1>5, <1>7, <1>8, <1>9, <1>10 DEF StoreNext, Offering, Answering

\* README.md:365-367: approval claims the plan, and a replay never executes it
\* again.  Every behaviour of the store is one of PlanApproval.
THEOREM AtMostOnce == StoreSpec => PlansRunAtMostOnce
<1>1. StoreInit => Abstract!Init
  BY AbstractInit
<1>2. StoreInv /\ [StoreNext]_storeVars => [Abstract!Next]_(Abstract!vars)
  BY AbstractStep
<1>3. QED
  BY <1>1, <1>2, StoreInvariance, PTL DEF StoreSpec, PlansRunAtMostOnce, Abstract!Spec

-----------------------------------------------------------------------------
(* Model planning *)

\* The files some paths name.
Files(paths) == {File(p) : p \in paths}

\* The assets of plans that completed.
WholeAssets == {w.path : w \in {w \in touched : w.by = "asset" /\ w.whole}}

\* The plan at hand is what may be left of an answer: its assets are no tests there
\* were, its steps write no tests, and unless it is the closing plan nothing of it
\* is taken for protected.
PlanIsLegal ==
    /\ IsSequence(plan.assets) /\ IsSequence(plan.patches)
    /\ Files(Range(plan.assets)) \cap PresetTests(before) = {}
    /\ \A c \in Calls(plan) : Writes(c.tool) => ~is_preset_test_path(c.path)
    /\ call.span # "close" =>
         /\ \A path \in Range(plan.assets) \cup Range(plan.patches) : ~IsProtected(path)
         /\ \A c \in Calls(plan) : ~IsProtected(c.path)

\* A plan is asked for, at hand or just executed.
Asking == pc \in {"post", "planned", "execute", "executed"}

\* Up to the closing call these have the assets of every plan that completed.
CountedUpTo(paths) == call.span # "close" => WholeAssets \subseteq paths

\* No file was written that must not be.
Unharmed ==
    task \in Tasks /\ before \subseteq files /\ ProtectedFilesAreKept /\ UnapprovedStaysInScope

\* The first plan belongs to no sequence, a further one is asked for while files
\* are missing; a plan at hand is legal, and in the first call needed no approval
\* where none can be given; what the sequence counts as written was written, and
\* up to the closing call it counts the assets of every plan that completed.
PlanningInv ==
    /\ task \in Tasks /\ before \subseteq files
    /\ slot \in Nat
    /\ pc \in {"idle", "post", "planned", "execute", "executed", "slot", "finish",
               "tests", "grade", "repair"}
    /\ DOMAIN call = {"span", "channel", "attempt", "again"}
    /\ call.span \in First \cup {"next", "close"}
    /\ pc = "idle" => call.span = "model-call" /\ slot = 0 /\ written = {}
    /\ Asking /\ call.span \in First => slot = 0 /\ written = {}
    /\ Asking /\ call.span = "next" => ~Landed
    /\ pc \in {"planned", "execute"} => PlanIsLegal
    /\ pc = "execute" /\ call.span \in First /\ task.explicit /\ ~task.asks =>
          ~RequiresApproval(plan)
    /\ pc \notin {"tests", "grade", "repair"} /\ ~excused =>
          Files(written) \subseteq PathsOf(touched)
    /\ pc = "executed" /\ result.status = "completed" /\ ~excused =>
          Files(Range(plan.assets)) \subseteq PathsOf(touched)
    /\ pc = "slot" => call.span # "close"
    /\ Asking \/ pc = "slot" =>
          CountedUpTo(IF pc = "executed" /\ result.status = "completed"
                      THEN written \cup Range(plan.assets) ELSE written)
    /\ ProtectedFilesAreKept /\ UnapprovedStaysInScope /\ SequenceTellsTheFiles

-----------------------------------------------------------------------------
(* Filtered sequences *)

\* A set of naturals that is not empty has a least member.
LEMMA LeastNat ==
  ASSUME NEW T \in SUBSET Nat, T # {}
  PROVE  \E m \in T : \A k \in T : m <= k
<1> DEFINE R == {ss \in Nat \X Nat : ss[1] < ss[2]}
<1>1. IsWellFoundedOn(R, Nat)
  BY NatLessThanWellFounded DEF OpToRel
<1>2. PICK m \in T : \A k \in T : ~(<<k, m>> \in R)
  <2> HIDE DEF R
  <2>1. QED
    BY <1>1, WFMin
<1>3. \A k \in T : ~(k < m)
  BY <1>2
<1>4. QED
  BY <1>3

\* A sequence over any set is one over what is in it.
LEMMA SequencesAre ==
  ASSUME NEW T, NEW seq \in Seq(T)
  PROVE  /\ IsSequence(seq) /\ Range(seq) \subseteq T
         /\ Len(seq) \in Nat /\ DOMAIN seq = 1 .. Len(seq)
<1>1. Len(seq) \in Nat /\ seq \in [1 .. Len(seq) -> T] /\ DOMAIN seq = 1 .. Len(seq)
  OBVIOUS
<1>2. seq \in [1 .. Len(seq) -> Range(seq)] /\ Range(seq) \subseteq T
  BY <1>1 DEF Range
<1>3. seq \in Seq(Range(seq))
  BY <1>1, <1>2, SeqDef
<1>4. QED
  BY <1>1, <1>2, <1>3 DEF IsSequence

\* Those is what its recursion says, and picks members of the sequence that are good.
LEMMA ThoseAreGood ==
  ASSUME NEW seq, IsSequence(seq), NEW good
  PROVE  IsSequence(Those(seq, good)) /\ Range(Those(seq, good)) \subseteq Range(seq) \cap good
<1> DEFINE S == Range(seq) \cap good
           Kept(g, k) ==
             g = [i \in 0 .. k |->
                    IF i = 0 THEN <<>>
                    ELSE IF seq[i] \in good THEN Append(g[i - 1], seq[i]) ELSE g[i - 1]]
           T == {k \in 0 .. Len(seq) : ~(\E g : Kept(g, k))}
<1>1. /\ Len(seq) \in Nat /\ DOMAIN seq = 1 .. Len(seq)
      /\ \A i \in 1 .. Len(seq) : seq[i] \in Range(seq)
  BY SequencesAre DEF IsSequence, Range
<1>2. \E g : Kept(g, 0)
  <2>1. Kept([i \in 0 .. 0 |-> <<>>], 0)
    OBVIOUS
  <2>2. QED
    BY <2>1
<1>3. ASSUME NEW m \in 1 .. Len(seq), \E g : Kept(g, m - 1) PROVE \E g : Kept(g, m)
  <2>1. PICK g : Kept(g, m - 1)
    BY <1>3
  <2> DEFINE last == IF seq[m] \in good THEN Append(g[m - 1], seq[m]) ELSE g[m - 1]
             h == [i \in 0 .. m |-> IF i = m THEN last ELSE g[i]]
  <2>2. m \in Nat /\ m # 0 /\ m - 1 \in 0 .. m - 1 /\ 0 .. m = (0 .. m - 1) \cup {m}
    BY <1>1
  <2>3. \A i \in 0 .. m - 1 : g[i] = IF i = 0 THEN <<>>
                                      ELSE IF seq[i] \in good THEN Append(g[i - 1], seq[i])
                                      ELSE g[i - 1]
    BY <2>1
  <2> HIDE DEF last
  <2>4. /\ h[m] = last /\ \A i \in 0 .. m - 1 : h[i] = g[i]
        /\ \A i \in 1 .. m - 1 : i - 1 \in 0 .. m - 1 /\ h[i - 1] = g[i - 1]
        /\ h[m - 1] = g[m - 1] /\ h = [i \in 0 .. m |-> h[i]]
    BY <2>2
  <2> HIDE DEF h
  <2>5. ASSUME NEW i \in 0 .. m
        PROVE  h[i] = IF i = 0 THEN <<>>
                      ELSE IF seq[i] \in good THEN Append(h[i - 1], seq[i]) ELSE h[i - 1]
    <3>1. CASE i = m
      BY <2>2, <2>4, <3>1 DEF last
    <3>2. CASE i = 0
      BY <2>2, <2>3, <2>4, <3>2
    <3>3. CASE i \in 1 .. m - 1
      <4>1. i \in 0 .. m - 1 /\ i # 0
        BY <2>2, <3>3
      <4>2. h[i] = g[i] /\ h[i - 1] = g[i - 1]
        BY <2>4, <3>3, <4>1
      <4>3. QED
        BY <2>3, <4>1, <4>2
    <3>4. QED
      BY <3>1, <3>2, <3>3
  <2>6. Kept(h, m)
    BY <2>4, <2>5
  <2>7. QED
    BY <2>6
<1>4. T = {}
  <2> SUFFICES ASSUME T # {} PROVE FALSE
    OBVIOUS
  <2>1. PICK m \in T : \A k \in T : m <= k
    <3>1. T \in SUBSET Nat
      OBVIOUS
    <3> HIDE DEF T
    <3>2. QED
      BY <3>1, LeastNat
  <2> HIDE DEF Kept
  <2>2. m \in 1 .. Len(seq) /\ m - 1 \in 0 .. Len(seq) /\ m - 1 \notin T
    <3>1. m \in 0 .. Len(seq) /\ Len(seq) \in Nat
      BY <1>1, <2>1
    <3>2. 0 \notin T
      BY <1>2
    <3>3. m # 0
      BY <2>1, <3>2
    <3> HIDE DEF T
    <3>4. m \in 1 .. Len(seq) /\ m - 1 \in 0 .. Len(seq) /\ ~(m <= m - 1)
      BY <3>1, <3>3
    <3>5. QED
      BY <2>1, <3>4
  <2>3. QED
    BY <1>3, <2>1, <2>2
<1> DEFINE f == CHOOSE g : Kept(g, Len(seq))
<1>5. Those(seq, good) = f[Len(seq)]
  BY DEF Those
<1>6. Kept(f, Len(seq))
  <2> HIDE DEF Kept
  <2>1. Len(seq) \in 0 .. Len(seq)
    BY <1>1
  <2>2. QED
    BY <1>4, <2>1
<1> HIDE DEF f
<1>7. /\ f[0] = <<>>
      /\ \A i \in 1 .. Len(seq) :
            f[i] = IF seq[i] \in good THEN Append(f[i - 1], seq[i]) ELSE f[i - 1]
  <2>1. f = [i \in 0 .. Len(seq) |->
               IF i = 0 THEN <<>>
               ELSE IF seq[i] \in good THEN Append(f[i - 1], seq[i]) ELSE f[i - 1]]
    BY <1>6
  <2>2. \A i \in 1 .. Len(seq) : i \in 0 .. Len(seq) /\ i # 0
    BY <1>1
  <2>3. 0 \in 0 .. Len(seq)
    BY <1>1
  <2>4. ASSUME NEW i \in 0 .. Len(seq)
        PROVE  f[i] = IF i = 0 THEN <<>>
                      ELSE IF seq[i] \in good THEN Append(f[i - 1], seq[i]) ELSE f[i - 1]
    BY <2>1
  <2> HIDE DEF S, T, Kept
  <2>5. QED
    BY <2>2, <2>3, <2>4
<1> DEFINE U == {i \in 0 .. Len(seq) : f[i] \notin Seq(S)}
<1>8. U = {}
  <2> SUFFICES ASSUME U # {} PROVE FALSE
    OBVIOUS
  <2>1. PICK m \in U : \A k \in U : m <= k
    <3>1. U \in SUBSET Nat
      OBVIOUS
    <3> HIDE DEF U
    <3>2. QED
      BY <3>1, LeastNat
  <2>2. m \in 1 .. Len(seq) /\ m - 1 \in 0 .. Len(seq) /\ m - 1 \notin U
    <3>1. m \in 0 .. Len(seq) /\ f[m] \notin Seq(S) /\ <<>> \in Seq(S)
      BY <2>1, EmptySeq
    <3> HIDE DEF S
    <3>2. m # 0
      BY <1>7, <3>1
    <3>3. m - 1 \in 0 .. Len(seq) /\ ~(m <= m - 1)
      BY <1>1, <3>1, <3>2
    <3>4. QED
      BY <1>1, <2>1, <3>1, <3>2, <3>3
  <2>3. f[m - 1] \in Seq(S) /\ (seq[m] \in good => seq[m] \in S)
    BY <1>1, <2>2
  <2> HIDE DEF S
  <2>4. f[m] \in Seq(S)
    <3>1. f[m] = IF seq[m] \in good THEN Append(f[m - 1], seq[m]) ELSE f[m - 1]
      BY <1>7, <2>2
    <3> HIDE DEF U
    <3>2. QED
      BY <2>3, <3>1
  <2>5. QED
    BY <2>1, <2>4
<1>9. Those(seq, good) \in Seq(S)
  BY <1>1, <1>5, <1>8
<1>10. QED
  BY <1>9, SequencesAre

-----------------------------------------------------------------------------
(* From an answer to a plan *)

\* The entries of a field are a sequence.
LEMMA ListedIsSequence ==
  ASSUME NEW field, NEW loose, IsSequence(field.items), IsSequence(loose),
         field.is \in {"absent", "null", "list", "other"}
  PROVE  IsSequence(Listed(field, loose))
<1>1. IsSequence(<<>>)
  BY SequencesAre, EmptySeq
<1>2. IsSequence(Those(field.items, {e \in Range(field.items) : IsEntry(e)}))
  BY ThoseAreGood
<1>3. QED
  BY <1>1, <1>2 DEF Listed

\* Mapping a sequence gives one.
LEMMA MappedIsSequence ==
  ASSUME NEW seq, IsSequence(seq), NEW image, DOMAIN image = DOMAIN seq,
         image = [i \in DOMAIN seq |-> image[i]]
  PROVE  IsSequence(image)
<1>1. Len(seq) \in Nat /\ DOMAIN seq = 1 .. Len(seq)
  BY SequencesAre DEF IsSequence
<1>2. image \in [1 .. Len(seq) -> Range(image)]
  BY <1>1 DEF Range
<1>3. image \in Seq(Range(image))
  BY <1>1, <1>2, SeqDef
<1>4. QED
  BY <1>3 DEF IsSequence

\* What an answer gives, when it gives a plan: no asset is a test there is, and no
\* step writes a test.
LEMMA ReadingIsLegal ==
  ASSUME NEW api, NEW answer \in Answers, NEW there,
         Reading(api, answer, there).verdict = "plan"
  PROVE  LET p == Reading(api, answer, there).plan IN
         /\ IsSequence(p.assets) /\ IsSequence(p.patches) /\ IsSequence(p.steps)
         /\ p = [assets |-> p.assets, patches |-> p.patches, steps |-> p.steps,
                 no_action |-> p.no_action]
         /\ Files(Range(p.assets)) \cap PresetTests(there) = {}
         /\ \A step \in Range(p.steps) : \A c \in Range(step.calls) :
               Writes(c.tool) => ~is_preset_test_path(c.path)
<1> DEFINE payload == answer.payload
           n == Normalized(payload)
           p == PlanOf(n)
<1>1. /\ answer.text \in {"whole", "within", "cut", "broken", "prose", "list"}
      /\ IsSequence(payload.assets.items) /\ IsSequence(payload.patches.items)
      /\ IsSequence(payload.loose.assets) /\ IsSequence(payload.loose.patches)
      /\ payload.assets.is \in {"absent", "null", "list", "other"}
      /\ payload.patches.is \in {"absent", "null", "list", "other"}
      /\ DOMAIN payload.plan = {"is", "extra", "steps"}
      /\ IsSequence(payload.plan.steps)
  BY AnswersAssumption
<1>2. /\ n.assets = Listed(payload.assets, payload.loose.assets)
      /\ DOMAIN n.patches = DOMAIN Listed(payload.patches, payload.loose.patches)
      /\ n.patches = [i \in DOMAIN n.patches |-> n.patches[i]]
      /\ n.plan.steps = payload.plan.steps
  BY <1>1 DEF Normalized
<1>3. Reading(api, answer, there).plan = p /\ Verdict(n, there) = "plan"
  BY <1>1 DEF Reading, TextOutcome, ObjectIn
<1>4. /\ ~AssetsAreRefused(n.assets, there)
      /\ n.plan.is = "absent" \/ ~StepsAreRefused(n.plan)
  BY <1>3 DEF Verdict
<1> HIDE DEF n
<1>5. /\ p.assets = [i \in DOMAIN n.assets |-> n.assets[i].path]
      /\ p.patches = [i \in DOMAIN n.patches |-> n.patches[i].path]
      /\ p.steps = IF n.plan.is = "absent" THEN <<>> ELSE n.plan.steps
      /\ p = [assets |-> p.assets, patches |-> p.patches, steps |-> p.steps,
              no_action |-> p.no_action]
  BY DEF PlanOf
<1> HIDE DEF p
<1>6. IsSequence(n.assets) /\ IsSequence(n.patches)
  BY <1>1, <1>2, ListedIsSequence, MappedIsSequence
<1>7. IsSequence(p.assets) /\ IsSequence(p.patches)
  BY <1>5, <1>6, MappedIsSequence
<1>8. IsSequence(p.steps)
  <2>1. CASE n.plan.is = "absent"
    <3>1. <<>> \in Seq({}) /\ p.steps = <<>>
      BY <1>5, <2>1, EmptySeq
    <3>2. QED
      BY <3>1, SequencesAre
  <2>2. CASE n.plan.is # "absent"
    <3>1. p.steps = payload.plan.steps
      BY <1>2, <1>5, <2>2
    <3>2. QED
      BY <1>1, <3>1
  <2>3. QED
    BY <2>1, <2>2
<1>9. Files(Range(p.assets)) \cap PresetTests(there) = {}
  <2>1. ASSUME NEW i \in DOMAIN n.assets
        PROVE  File(n.assets[i].path) \notin PresetTests(there)
    <3>1. File(n.assets[i].path).dir = "tests" => n.assets[i].path.dir = "tests"
      BY DEF File
    <3>2. QED
      BY <1>4, <3>1
         DEF AssetsAreRefused, new_test_asset_allowed, PresetTests, is_preset_test_path
  <2>2. QED
    BY <1>5, <2>1 DEF Range, Files
<1>10. ASSUME NEW step \in Range(p.steps), NEW c \in Range(step.calls), Writes(c.tool)
       PROVE  ~is_preset_test_path(c.path)
  <2>1. n.plan.is # "absent" /\ p.steps = n.plan.steps
    BY <1>5 DEF Range
  <2>2. PICK i \in DOMAIN n.plan.steps : step = n.plan.steps[i]
    BY <2>1 DEF Range
  <2>3. PICK k \in DOMAIN step.calls : c = step.calls[k]
    BY DEF Range
  <2>4. ~CallIsRefused(c)
    BY <1>4, <2>1, <2>2, <2>3 DEF StepsAreRefused
  <2>5. QED
    BY <1>10, <2>4 DEF CallIsRefused
<1>11. QED
  BY <1>3, <1>5, <1>7, <1>8, <1>9, <1>10

\* What is left of a plan has nothing that is taken for protected, and only what the
\* plan had.
LEMMA DroppedIsLegal ==
  ASSUME NEW p, IsSequence(p.assets), IsSequence(p.patches), IsSequence(p.steps),
         p = [assets |-> p.assets, patches |-> p.patches, steps |-> p.steps,
              no_action |-> p.no_action]
  PROVE  LET q == DropProtected(p) IN
         /\ IsSequence(q.assets) /\ IsSequence(q.patches)
         /\ Range(q.assets) \subseteq Range(p.assets)
         /\ \A path \in Range(q.assets) \cup Range(q.patches) : ~IsProtected(path)
         /\ Calls(q) \subseteq Calls(p) /\ \A c \in Calls(q) : ~IsProtected(c.path)
<1> DEFINE Free(paths) == {path \in Range(paths) : ~IsProtected(path)}
           steps == {step \in Range(p.steps) :
                       \A c \in Range(step.calls) : ~IsProtected(c.path)}
           q == DropProtected(p)
<1>1. /\ q.assets = Those(p.assets, Free(p.assets))
      /\ q.patches = Those(p.patches, Free(p.patches))
      /\ q.steps = Those(p.steps, steps)
  BY DEF DropProtected
<1> HIDE DEF q
<1>2. IsSequence(q.assets) /\ Range(q.assets) \subseteq Range(p.assets) \cap Free(p.assets)
  BY <1>1, ThoseAreGood
<1>3. IsSequence(q.patches) /\ Range(q.patches) \subseteq Free(p.patches)
  BY <1>1, ThoseAreGood
<1>4. Range(q.steps) \subseteq Range(p.steps) \cap steps
  BY <1>1, ThoseAreGood
<1>5. \A path \in Range(q.assets) \cup Range(q.patches) : ~IsProtected(path)
  BY <1>2, <1>3
<1>6. Calls(q) \subseteq Calls(p) /\ \A c \in Calls(q) : ~IsProtected(c.path)
  BY <1>4 DEF Calls
<1>7. QED
  BY <1>2, <1>3, <1>5, <1>6 DEF q

-----------------------------------------------------------------------------
(* The steps *)

\* A step that writes nothing.
LEMMA NothingWritten ==
  ASSUME PlanningInv, UNCHANGED <<task, touched, before>>, files \subseteq files'
  PROVE  Unharmed'
BY DEF PlanningInv, Unharmed, ProtectedFilesAreKept, UnapprovedStaysInScope, NameIsProtected,
       PresetTests

\* A task returns: its plan and its sequence are gone.
LEMMA ReturnKeeps ==
  ASSUME NEW value, Return(value), Unharmed'
  PROVE  PlanningInv'
<1>1. /\ pc' = "idle" /\ call' = Call("model-call") /\ slot' = 0 /\ written' = {}
  BY DEF Return
<1>2. call'.span = "model-call" /\ DOMAIN call' = {"span", "channel", "attempt", "again"}
  BY <1>1 DEF Call
<1>3. SequenceTellsTheFiles'
  BY <1>1 DEF SequenceTellsTheFiles
<1>4. QED
  BY <1>1, <1>2, <1>3 DEF PlanningInv, Unharmed, Asking, First, Files

\* Where the sequence counts every asset of a completed plan, it has counted all the
\* files once each was given whole; and the files it counts are those on its list.
LEMMA GivenIsLanded ==
  ASSUME task \in Tasks
  PROVE  /\ WholeAssets \subseteq written /\ task.required # {}
            /\ (\A p \in task.required : GivenWhole(p)) => Landed
         /\ Landed /\ Files(written) \subseteq PathsOf(touched) =>
              task.required \subseteq PathsOf(touched)
<1>1. \A p \in task.required : GivenWhole(p) => p \in WholeAssets
  BY DEF GivenWhole, WholeAssets
<1>2. \A p \in task.required : File(p) = p
  <2>1. task.required \subseteq Paths
    BY TasksAssumption
  <2>2. QED
    BY <2>1, BoundsAssumption DEF File
<1>3. QED
  BY <1>1, <1>2 DEF Landed, Files

\* The sequence is closed.
LEMMA CloseKeeps ==
  ASSUME PlanningInv, NEW status, NEW reason, Close(status, reason),
         UNCHANGED <<task, touched, before, files, call, slot, written>>,
         excused => excused',
         slot > 0 => /\ status = "completed" => Landed \/ excused'
                     /\ Landed /\ status # "completed" => call.span = "close",
         \/ pc \in {"post", "planned", "slot"}
         \/ pc = "executed" /\ (result.status # "completed" \/ call.span = "close")
  PROVE  PlanningInv'
<1>1. pc' = "finish" /\ result'.status = status
  BY DEF Close, Outcome
<1>2. Unharmed'
  BY NothingWritten
<1>3. task \in Tasks /\ (~excused' => Files(written) \subseteq PathsOf(touched))
  BY DEF PlanningInv
<1>4. call.span # "close" => WholeAssets \subseteq written
  BY DEF PlanningInv, Asking, CountedUpTo
<1>5. (\A p \in task.required : GivenWhole(p))' <=> \A p \in task.required : GivenWhole(p)
  BY DEF GivenWhole
<1>6. SequenceTellsTheFiles'
  BY <1>1, <1>3, <1>4, <1>5, GivenIsLanded DEF SequenceTellsTheFiles, PathsOf
<1>7. QED
  BY <1>1, <1>2, <1>3, <1>6 DEF PlanningInv, Unharmed, Asking, PathsOf

\* Another call is made for the same plan.
LEMMA CallKeeps ==
  ASSUME PlanningInv, pc = "post", pc' = "post",
         UNCHANGED <<task, touched, before, files, slot, written, excused>>,
         DOMAIN call' = {"span", "channel", "attempt", "again"},
         call'.span = call.span \/ (call.span \in First /\ call'.span \in First)
  PROVE  PlanningInv'
<1>1. Unharmed'
  BY NothingWritten
<1>2. QED
  BY <1>1 DEF PlanningInv, Unharmed, Asking, First, SequenceTellsTheFiles, Landed, PathsOf,
             CountedUpTo, WholeAssets

\* A call that failed.
LEMMA UnplannedKeeps ==
  ASSUME PlanningInv, pc = "post", NEW kind, Unplanned(kind)
  PROVE  PlanningInv'
<1>1. UNCHANGED <<task, files, touched, before, excused>>
  BY DEF Unplanned, history
<1>2. \/ /\ call.span = "model-call"
         /\ call' = Call("model-narrow-1") \/ call' = Call("model-call-probe-1")
         /\ pc' = "post" /\ UNCHANGED held
      \/ call.span \in {"next", "close"} /\ Close("halted", kind) /\ UNCHANGED <<held, call>>
      \/ Ends("halted", kind)
  BY DEF Unplanned
<1>3. CASE /\ call.span = "model-call"
           /\ call' = Call("model-narrow-1") \/ call' = Call("model-call-probe-1")
           /\ pc' = "post" /\ UNCHANGED held
  BY <1>1, <1>3, CallKeeps DEF Call, First, held
<1>4. CASE call.span \in {"next", "close"} /\ Close("halted", kind) /\ UNCHANGED <<held, call>>
  <2>1. Landed => call.span = "close"
    BY <1>4 DEF PlanningInv, Asking
  <2>2. QED
    BY <1>1, <1>4, <2>1, CloseKeeps DEF held
<1>5. CASE Ends("halted", kind)
  BY <1>1, <1>5, NothingWritten, ReturnKeeps DEF Ends
<1>6. QED
  BY <1>2, <1>3, <1>4, <1>5

\* Every way a call fails.
LEMMA FailuresKeep ==
  ASSUME PlanningInv,
         (\E code \in Codes : HttpFails(code)) \/ Unreachable \/ Unreadable \/ Dropped
  PROVE  PlanningInv'
<1>1. pc = "post"
  BY DEF HttpFails, Unreachable, Unreadable, Dropped
<1>2. ASSUME NEW kind, ChannelFails(kind) PROVE PlanningInv'
  <2>1. CASE task.fallback /\ call.channel = "main"
    <3>1. /\ call' = [call EXCEPT !.channel = "fallback", !.attempt = 0]
          /\ UNCHANGED <<pc, taskVars, result, files, ledger, tasks, history>>
      BY <1>2, <2>1 DEF ChannelFails
    <3>2. DOMAIN call' = {"span", "channel", "attempt", "again"} /\ call'.span = call.span
      BY <3>1 DEF PlanningInv
    <3>3. QED
      BY <1>1, <3>1, <3>2, CallKeeps DEF taskVars, history
  <2>2. CASE ~(task.fallback /\ call.channel = "main")
    BY <1>1, <1>2, <2>2, UnplannedKeeps DEF ChannelFails
  <2>3. QED
    BY <2>1, <2>2
<1>3. ASSUME NEW kind, AttemptFails(kind) PROVE PlanningInv'
  <2>1. CASE call.attempt < 2
    <3>1. /\ call' = [call EXCEPT !.attempt = @ + 1]
          /\ UNCHANGED <<pc, taskVars, result, files, ledger, tasks, history>>
      BY <1>3, <2>1 DEF AttemptFails
    <3>2. DOMAIN call' = {"span", "channel", "attempt", "again"} /\ call'.span = call.span
      BY <3>1 DEF PlanningInv
    <3>3. QED
      BY <1>1, <3>1, <3>2, CallKeeps DEF taskVars, history
  <2>2. CASE ~(call.attempt < 2)
    BY <1>2, <1>3, <2>2 DEF AttemptFails
  <2>3. QED
    BY <2>1, <2>2
<1>4. CASE Dropped
  BY <1>4, NothingWritten, ReturnKeeps DEF Dropped, Ends, history
<1>5. CASE Unreachable
  BY <1>3, <1>5 DEF Unreachable
<1>6. CASE Unreadable
  BY <1>2, <1>6 DEF Unreadable
<1>7. ASSUME NEW code \in Codes, HttpFails(code) PROVE PlanningInv'
  BY <1>2, <1>3, <1>7 DEF HttpFails
<1>8. QED
  BY <1>4, <1>5, <1>6, <1>7

\* An answer is read.
LEMMA AnsweredKeeps ==
  ASSUME PlanningInv, NEW answer \in Answers, Answered(answer)
  PROVE  PlanningInv'
<1> DEFINE reading == Reading(task.api, answer, files)
<1>1. pc = "post"
  BY DEF Answered
<1>2. \/ /\ reading.verdict = "plan" /\ pc' = "planned"
         /\ plan' = IF call.span = "close" THEN reading.plan ELSE DropProtected(reading.plan)
         /\ UNCHANGED <<task, call, slot, written, files, history>>
      \/ /\ call' = [Call(call.span) EXCEPT !.again = TRUE]
         /\ UNCHANGED <<pc, taskVars, files, history>>
      \/ Unplanned(FailureKind(reading.verdict))
  BY DEF Answered
<1> HIDE DEF reading
<1>3. CASE /\ reading.verdict = "plan" /\ pc' = "planned"
           /\ plan' = IF call.span = "close" THEN reading.plan ELSE DropProtected(reading.plan)
           /\ UNCHANGED <<task, call, slot, written, files, history>>
  <2> DEFINE p == reading.plan
  <2>1. /\ IsSequence(p.assets) /\ IsSequence(p.patches) /\ IsSequence(p.steps)
        /\ p = [assets |-> p.assets, patches |-> p.patches, steps |-> p.steps,
                no_action |-> p.no_action]
        /\ Files(Range(p.assets)) \cap PresetTests(files) = {}
        /\ \A step \in Range(p.steps) : \A c \in Range(step.calls) :
              Writes(c.tool) => ~is_preset_test_path(c.path)
    BY <1>3, ReadingIsLegal DEF reading
  <2> HIDE DEF p
  <2>2. \A c \in Calls(p) : Writes(c.tool) => ~is_preset_test_path(c.path)
    BY <2>1 DEF Calls
  <2>3. Files(Range(p.assets)) \cap PresetTests(before) = {}
    BY <2>1 DEF PlanningInv, PresetTests
  <2>4. PlanIsLegal'
    <3>1. CASE call.span = "close"
      <4>1. plan' = p
        BY <1>3, <3>1 DEF p
      <4>2. QED
        BY <1>3, <2>1, <2>2, <2>3, <3>1, <4>1 DEF PlanIsLegal, history
    <3>2. CASE call.span # "close"
      <4>1. plan' = DropProtected(p)
        BY <1>3, <3>2 DEF p
      <4>2. /\ IsSequence(plan'.assets) /\ IsSequence(plan'.patches)
            /\ Range(plan'.assets) \subseteq Range(p.assets)
            /\ \A path \in Range(plan'.assets) \cup Range(plan'.patches) : ~IsProtected(path)
            /\ Calls(plan') \subseteq Calls(p) /\ \A c \in Calls(plan') : ~IsProtected(c.path)
        BY <2>1, <4>1, DroppedIsLegal
      <4>3. QED
        <5>1. Files(Range(plan'.assets)) \subseteq Files(Range(p.assets))
          BY <4>2 DEF Files
        <5>2. QED
          BY <1>3, <2>2, <2>3, <4>2, <5>1
             DEF PlanIsLegal, history, IsProtected, NameIsProtected
    <3>3. QED
      BY <3>1, <3>2
  <2>5. Unharmed'
    BY <1>3, NothingWritten DEF history
  <2>6. QED
    BY <1>1, <1>3, <2>4, <2>5
       DEF PlanningInv, Unharmed, Asking, SequenceTellsTheFiles, Landed, PathsOf, history,
           CountedUpTo, WholeAssets
<1>4. CASE /\ call' = [Call(call.span) EXCEPT !.again = TRUE]
           /\ UNCHANGED <<pc, taskVars, files, history>>
  BY <1>1, <1>4, CallKeeps DEF Call, taskVars, history
<1>5. CASE Unplanned(FailureKind(reading.verdict))
  BY <1>1, <1>5, UnplannedKeeps
<1>6. QED
  BY <1>2, <1>3, <1>4, <1>5

\* A plan is put before the approval, and before the user.
LEMMA PlannedKeeps ==
  ASSUME PlanningInv, FirstPlanned \/ NextPlanned
  PROVE  PlanningInv'
<1>1. UNCHANGED <<task, files, touched, before>> /\ pc = "planned"
  BY DEF FirstPlanned, NextPlanned, taskVars, history
<1>2. Unharmed'
  BY <1>1, NothingWritten
<1>3. ASSUME pc' = "execute", UNCHANGED <<call, plan, slot, written, excused>>,
             call.span \in First /\ task.explicit /\ ~task.asks => ~RequiresApproval(plan)
      PROVE  PlanningInv'
  <2>1. /\ PlanIsLegal'
        /\ call'.span \in First /\ task'.explicit /\ ~task'.asks => ~RequiresApproval(plan)'
    BY <1>1, <1>3 DEF PlanningInv, PlanIsLegal, IsProtected, NameIsProtected, RequiresApproval
  <2>2. QED
    BY <1>1, <1>2, <1>3, <2>1
       DEF PlanningInv, Unharmed, Asking, SequenceTellsTheFiles, Landed, PathsOf, CountedUpTo,
           WholeAssets
<1>4. CASE FirstPlanned
  <2>1. \/ \E status, reason : Ends(status, reason)
        \/ /\ pc' = "execute" /\ UNCHANGED Locals
           /\ ~(~task.asks /\ task.explicit /\ RequiresApproval(plan))
    BY <1>4 DEF FirstPlanned
  <2>2. CASE \E status, reason : Ends(status, reason)
    BY <1>2, <2>2, ReturnKeeps DEF Ends
  <2>3. CASE /\ pc' = "execute" /\ UNCHANGED Locals
             /\ ~(~task.asks /\ task.explicit /\ RequiresApproval(plan))
    BY <1>3, <1>4, <2>3 DEF Locals, FirstPlanned, history
  <2>4. QED
    BY <2>1, <2>2, <2>3
<1>5. CASE NextPlanned
  <2>1. UNCHANGED <<call, plan, slot, written>> /\ call.span \notin First
    BY <1>5 DEF NextPlanned, taskVars
  <2>2. \/ Close("completed", "none") /\ excused' = TRUE
        \/ Close("halted", "invalid_model_plan") /\ call.span = "next" /\ UNCHANGED excused
        \/ pc' = "execute" /\ UNCHANGED excused
    BY <1>5 DEF NextPlanned
  <2>3. call.span = "next" => ~Landed
    BY <1>1 DEF PlanningInv, Asking
  <2>4. QED
    BY <1>1, <1>3, <2>1, <2>2, <2>3, CloseKeeps
<1>6. QED
  BY <1>4, <1>5

\* What a plan has for run_task to write.
LEMMA ActionsAre ==
  ASSUME IsSequence(plan.assets), IsSequence(plan.patches)
  PROVE  /\ IsSequence(Actions) /\ Len(Actions) \in Nat /\ DOMAIN Actions = 1 .. Len(Actions)
         /\ \A w \in Range(Actions) :
               \/ w.by = "asset" /\ w.path \in Range(plan.assets)
               \/ w.by = "patch" /\ w.path \in Range(plan.patches)
         /\ Files(Range(plan.assets)) \subseteq PathsOf(Range(Actions))
         /\ plan.assets = <<>> /\ plan.patches = <<>> => Range(Actions) = {}
<1> DEFINE as_ == By(plan.assets, "asset")
           ps == By(plan.patches, "patch")
<1>1. /\ DOMAIN as_ = DOMAIN plan.assets /\ as_ = [i \in DOMAIN plan.assets |-> as_[i]]
      /\ DOMAIN ps = DOMAIN plan.patches /\ ps = [i \in DOMAIN plan.patches |-> ps[i]]
      /\ \A i \in DOMAIN plan.assets : as_[i] = [path |-> plan.assets[i], by |-> "asset"]
      /\ \A i \in DOMAIN plan.patches : ps[i] = [path |-> plan.patches[i], by |-> "patch"]
      /\ Actions = as_ \o ps
  BY DEF By, Actions
<1> HIDE DEF as_, ps
<1>2. IsSequence(as_) /\ IsSequence(ps)
  BY <1>1, MappedIsSequence
<1> DEFINE W == Range(as_) \cup Range(ps)
<1>3. /\ as_ \in Seq(W) /\ ps \in Seq(W) /\ Len(as_) \in Nat /\ Len(ps) \in Nat
      /\ DOMAIN as_ = 1 .. Len(as_) /\ DOMAIN ps = 1 .. Len(ps)
  <2>1. \A seq : IsSequence(seq) /\ Range(seq) \subseteq W => seq \in Seq(W)
    <3> SUFFICES ASSUME NEW seq, IsSequence(seq), Range(seq) \subseteq W PROVE seq \in Seq(W)
      OBVIOUS
    <3>1. seq \in [1 .. Len(seq) -> Range(seq)] /\ Len(seq) \in Nat
      BY DEF IsSequence
    <3>2. seq \in [1 .. Len(seq) -> W]
      BY <3>1
    <3>3. QED
      BY <3>1, <3>2, SeqDef
  <2>2. QED
    BY <1>2, <2>1, SequencesAre DEF IsSequence
<1>4. Actions \in Seq(W) /\ Len(Actions) = Len(as_) + Len(ps)
  BY <1>1, <1>3, ConcatProperties
<1>5. \A i \in 1 .. Len(as_) : Actions[i] = as_[i] /\ i \in DOMAIN Actions
  BY <1>1, <1>3, <1>4, ConcatProperties
<1>6. IsSequence(Actions) /\ Range(Actions) \subseteq W /\ Len(Actions) \in Nat
      /\ DOMAIN Actions = 1 .. Len(Actions)
  BY <1>4, SequencesAre
<1>7. ASSUME NEW w \in W
      PROVE  \/ w.by = "asset" /\ w.path \in Range(plan.assets)
             \/ w.by = "patch" /\ w.path \in Range(plan.patches)
  <2>1. CASE w \in Range(as_)
    <3>1. PICK i \in DOMAIN plan.assets : w = as_[i]
      BY <1>1, <2>1 DEF Range
    <3>2. w = [path |-> plan.assets[i], by |-> "asset"] /\ plan.assets[i] \in Range(plan.assets)
      BY <1>1, <3>1 DEF Range
    <3>3. QED
      BY <3>2
  <2>2. CASE w \in Range(ps)
    <3>1. PICK i \in DOMAIN plan.patches : w = ps[i]
      BY <1>1, <2>2 DEF Range
    <3>2. w = [path |-> plan.patches[i], by |-> "patch"] /\ plan.patches[i] \in Range(plan.patches)
      BY <1>1, <3>1 DEF Range
    <3>3. QED
      BY <3>2
  <2>3. QED
    BY <2>1, <2>2
<1>8. Files(Range(plan.assets)) \subseteq PathsOf(Range(Actions))
  <2> SUFFICES ASSUME NEW i \in DOMAIN plan.assets
               PROVE  File(plan.assets[i]) \in PathsOf(Range(Actions))
    BY DEF Range, Files
  <2>1. i \in DOMAIN Actions /\ Actions[i] = [path |-> plan.assets[i], by |-> "asset"]
    BY <1>1, <1>3, <1>5
  <2>2. Actions[i] \in Range(Actions) /\ Actions[i].path = plan.assets[i]
    BY <2>1 DEF Range
  <2>3. QED
    BY <2>2 DEF PathsOf
<1>9. plan.assets = <<>> /\ plan.patches = <<>> => W = {}
  <2>1. DOMAIN <<>> = {}
    OBVIOUS
  <2>2. QED
    BY <1>1, <2>1 DEF Range
<1>10. QED
  BY <1>6, <1>7, <1>8, <1>9

\* What the engine writes for a plan.
LEMMA EngineWritesAre ==
  ASSUME IsSequence(plan.assets), IsSequence(plan.patches)
  PROVE  /\ \A w \in EngineWrites :
               \/ w.by = "asset" /\ w.path \in Range(plan.assets)
               \/ w.by = "patch" /\ w.path \in Range(plan.patches)
               \/ /\ w.by \in {"patch", "step"}
                  /\ \E c \in Calls(plan) : Writes(c.tool) /\ c.path = w.path
         /\ ~(Mutate /\ Actions # <<>>) =>
               Files(Range(plan.assets)) \subseteq PathsOf(EngineWrites)
<1>1. CASE Mutate
  <2>1. EngineWrites =
          {[path |-> c.path, by |-> IF c.tool = "patch_text" THEN "patch" ELSE "step"] :
             c \in {c \in Calls(plan) : Writes(c.tool)}}
    BY <1>1 DEF EngineWrites
  <2>2. Actions = <<>> => Files(Range(plan.assets)) = {}
    BY ActionsAre DEF Range, PathsOf
  <2>3. QED
    BY <1>1, <2>1, <2>2
<1>2. CASE ~Mutate
  BY <1>2, ActionsAre DEF EngineWrites
<1>3. QED
  BY <1>1, <1>2

\* An execution that writes what the plan has, and where nobody approved it only
\* what needs no approval.
LEMMA TracedKeeps ==
  ASSUME PlanningInv, pc = "execute", NEW writes, NEW trace, NEW lists, NEW status, NEW reason,
         NEW failed, NEW surplus, Traced(trace, writes, lists, status, reason, failed, surplus),
         excused => excused',
         \A w \in writes :
            \/ w.by = "asset" /\ w.path \in Range(plan.assets)
            \/ w.by = "patch" /\ w.path \in Range(plan.patches)
            \/ /\ w.by \in {"patch", "step"}
               /\ \E c \in Calls(plan) : Writes(c.tool) /\ c.path = w.path
            \/ w.by = "command",
         task.explicit /\ ~task.asks =>
            \A w \in writes : task.mode = "scoped_auto" /\ w.path.dir = "src" /\ w.by # "command",
         status = "completed" /\ ~excused' => Files(Range(plan.assets)) \subseteq PathsOf(writes)
  PROVE  PlanningInv'
<1> DEFINE Entry(w) == [path |-> w.path, by |-> w.by, closing |-> call.span = "close",
                        whole |-> status = "completed"]
           new == {Entry(w) : w \in writes}
<1>1. /\ files' = files \cup PathsOf(writes) /\ touched' = touched \cup new
      /\ result'.status = status /\ pc' = "executed"
      /\ UNCHANGED <<call, task, plan, slot, written, before>>
  BY DEF Traced, Outcome
<1>2. PlanIsLegal /\ ProtectedFilesAreKept /\ UnapprovedStaysInScope
  BY DEF PlanningInv
<1>3. ASSUME NEW w \in new, w.by # "command"
      PROVE  /\ NameIsProtected(w.path) => w.closing
             /\ File(w.path) \in task.protected => w.closing \/ w.path.spelled # "plain"
             /\ File(w.path) \in PresetTests(before) => w.by = "patch"
  <2>1. PICK v \in writes : w = Entry(v)
    OBVIOUS
  <2>2. w.path = v.path /\ w.by = v.by /\ (w.closing <=> call.span = "close")
    BY <2>1
  <2> HIDE DEF Entry
  <2>3. IsProtected(w.path) => w.closing
    BY <1>2, <1>3, <2>2 DEF PlanIsLegal
  <2>4. File(w.path) \in PresetTests(before) => w.by = "patch"
    <3>1. File(w.path).dir = w.path.dir
      BY DEF File
    <3>2. QED
      BY <1>2, <1>3, <2>2, <3>1 DEF PlanIsLegal, PresetTests, is_preset_test_path, Files
  <2>5. w.path.spelled = "plain" => File(w.path) = w.path
    BY DEF File
  <2>6. QED
    BY <1>3, <2>3, <2>4, <2>5 DEF IsProtected
<1>4. ProtectedFilesAreKept'
  BY <1>1, <1>2, <1>3 DEF ProtectedFilesAreKept, NameIsProtected
<1>5. UnapprovedStaysInScope'
  BY <1>1, <1>2 DEF UnapprovedStaysInScope
<1>6. PathsOf(writes) \subseteq PathsOf(touched') /\ PathsOf(touched) \subseteq PathsOf(touched')
  <2>1. ASSUME NEW w \in writes PROVE File(w.path) \in PathsOf(touched')
    <3>1. PICK v \in new : v = Entry(w)
      OBVIOUS
    <3>2. v \in touched' /\ v.path = w.path
      BY <1>1, <3>1
    <3>3. QED
      BY <3>2 DEF PathsOf
  <2>2. QED
    BY <1>1, <2>1 DEF PathsOf
<1>7. WholeAssets' \subseteq WholeAssets \cup
         (IF status = "completed" THEN Range(plan.assets) ELSE {})
  <2>1. ASSUME NEW w \in new, w.by = "asset", w.whole
        PROVE  status = "completed" /\ w.path \in Range(plan.assets)
    <3>1. PICK v \in writes : w = Entry(v)
      OBVIOUS
    <3>2. w.path = v.path /\ v.by = "asset" /\ status = "completed"
      BY <2>1, <3>1
    <3>3. QED
      BY <3>2
  <2> HIDE DEF new
  <2>2. QED
    BY <1>1, <2>1 DEF WholeAssets
<1>8. CountedUpTo(IF pc = "executed" /\ result.status = "completed"
                  THEN written \cup Range(plan.assets) ELSE written)'
  BY <1>1, <1>7 DEF PlanningInv, Asking, CountedUpTo
<1>9. /\ ~excused' => Files(written') \subseteq PathsOf(touched')
      /\ status = "completed" /\ ~excused' => Files(Range(plan'.assets)) \subseteq PathsOf(touched')
  BY <1>1, <1>6 DEF PlanningInv
<1>10. task' \in Tasks /\ before' \subseteq files'
  BY <1>1 DEF PlanningInv
<1>11. SequenceTellsTheFiles'
  BY <1>1 DEF SequenceTellsTheFiles
<1>12. QED
  BY <1>1, <1>4, <1>5, <1>8, <1>9, <1>10, <1>11
     DEF PlanningInv, Asking, First, Landed

\* Without an approval a plan of the first call may do what needs none, and one
\* of a further call nothing.
LEMMA ScopeOfPlan ==
  ASSUME PlanningInv, pc = "execute", task.explicit, ~task.asks, call.span \in First
  PROVE  /\ \A c \in Calls(plan) : c.tool # "run_command"
         /\ task.mode = "strict" => /\ plan.assets = <<>> /\ plan.patches = <<>>
                                    /\ \A c \in Calls(plan) : ~Writes(c.tool)
         /\ task.mode # "strict" =>
              /\ \A path \in Range(plan.assets) \cup Range(plan.patches) : path.dir = "src"
              /\ \A c \in Calls(plan) : Writes(c.tool) => c.path.dir = "src"
BY DEF PlanningInv, RequiresApproval, Mutating, Writes, InScope

\* Nothing is written: the plan is refused, or nobody approves it.
LEMMA NothingExecuted ==
  ASSUME PlanningInv, pc = "execute", NEW reason, NEW failed,
         Executed(<<>>, "halted", reason, failed), excused => excused'
  PROVE  PlanningInv'
<1>1. Range(<<>>) = {}
  BY DEF Range
<1>2. QED
  BY <1>1, TracedKeeps DEF Executed

\* run_task.
LEMMA RunTaskKeeps ==
  ASSUME PlanningInv, RunTask
  PROVE  PlanningInv'
<1>1. pc = "execute" /\ UNCHANGED excused /\ ~(Explicit /\ Callback = "none")
  BY DEF RunTask, Ready
<1>2. IsSequence(plan.assets) /\ IsSequence(plan.patches)
  BY <1>1 DEF PlanningInv, PlanIsLegal
<1>3. /\ IsSequence(Actions) /\ Len(Actions) \in Nat /\ DOMAIN Actions = 1 .. Len(Actions)
      /\ \A w \in Range(Actions) :
            \/ w.by = "asset" /\ w.path \in Range(plan.assets)
            \/ w.by = "patch" /\ w.path \in Range(plan.patches)
      /\ Files(Range(plan.assets)) \subseteq PathsOf(Range(Actions))
  BY <1>2, ActionsAre
<1>4. ASSUME NEW n \in 0 .. Len(Actions), NEW status, NEW reason, NEW failed,
             Executed(SubSeq(Actions, 1, n), status, reason, failed),
             status = "completed" => n = Len(Actions)
      PROVE  PlanningInv'
  <2> DEFINE applied == SubSeq(Actions, 1, n)
  <2>1. /\ \A i \in 1 .. n : applied[i] = Actions[i] /\ i \in DOMAIN Actions
        /\ DOMAIN applied = 1 .. n
    BY <1>3 DEF IsSequence
  <2>2. Range(applied) \subseteq Range(Actions)
    BY <2>1 DEF Range
  <2>3. n = Len(Actions) => Range(Actions) \subseteq Range(applied)
    BY <1>3, <2>1 DEF Range
  <2>4. Traced({}, Range(applied), Record(listed, applied), status, reason, failed, FALSE)
    BY <1>4 DEF Executed
  <2> HIDE DEF applied
  <2>5. status = "completed" => Files(Range(plan.assets)) \subseteq PathsOf(Range(applied))
    BY <1>3, <1>4, <2>3 DEF PathsOf
  <2>6. ASSUME task.explicit, ~task.asks, NEW w \in Range(applied)
        PROVE  task.mode = "scoped_auto" /\ w.path.dir = "src" /\ w.by # "command"
    <3>1. call.span \in First /\ task.mode = "scoped_auto"
      BY <1>1, <2>6 DEF Explicit, Callback
    <3>2. QED
      BY <1>1, <1>3, <2>2, <2>6, <3>1, ScopeOfPlan
  <2>7. QED
    BY <1>1, <1>3, <2>2, <2>4, <2>5, <2>6, TracedKeeps
<1>5. \/ Executed(<<>>, "halted", "run_exception", TRUE)
      \/ \E n \in 0 .. Len(Actions) :
            \/ n = Len(Actions) /\ Executed(SubSeq(Actions, 1, n), "completed", "none", FALSE)
            \/ Executed(SubSeq(Actions, 1, n), "halted", "action_failed", TRUE)
  BY DEF RunTask
<1>6. CASE Executed(<<>>, "halted", "run_exception", TRUE)
  BY <1>1, <1>6, NothingExecuted
<1>7. ASSUME NEW n \in 0 .. Len(Actions),
             \/ n = Len(Actions) /\ Executed(SubSeq(Actions, 1, n), "completed", "none", FALSE)
             \/ Executed(SubSeq(Actions, 1, n), "halted", "action_failed", TRUE)
      PROVE  PlanningInv'
  <2>1. CASE n = Len(Actions) /\ Executed(SubSeq(Actions, 1, n), "completed", "none", FALSE)
    BY <1>4, <2>1
  <2>2. CASE Executed(SubSeq(Actions, 1, n), "halted", "action_failed", TRUE)
    <3>1. "halted" = "completed" => n = Len(Actions)
      OBVIOUS
    <3>2. QED
      BY <1>4, <2>2, <3>1
  <2>3. QED
    BY <1>7, <2>1, <2>2
<1>8. QED
  BY <1>5, <1>6, <1>7

\* The engine.
LEMMA EngineKeeps ==
  ASSUME PlanningInv, Engine
  PROVE  PlanningInv'
<1>1. pc = "execute" /\ excused' = (excused \/ (Mutate /\ Actions # <<>>))
  BY DEF Engine, Ready
<1>2. IsSequence(plan.assets) /\ IsSequence(plan.patches)
  BY <1>1 DEF PlanningInv, PlanIsLegal
<1> DEFINE guarded == Mutate \/ EngineWrites # {}
           refused == guarded /\ Explicit /\ Callback = "none"
           Writing(did, astray) == did \cup {[path |-> p, by |-> "command"] : p \in astray}
           Ran(did, astray, read, status, reason, failed, surplus) ==
             Traced(PathsOf(did) \cup read, Writing(did, astray),
                    Age(listed, PathsOf(Writing(did, astray))), status, reason, failed, surplus)
<1>3. PICK did \in SUBSET EngineWrites, astray \in Stray(Paths), read \in SUBSET Reads :
        /\ refused => did = {}
        /\ astray = {} \/ (~refused /\ \E c \in Calls(plan) : c.tool = "run_command")
        /\ \/ did = EngineWrites
              /\ Ran(did, astray, read, "completed", "none", FALSE, ~Mutate /\ Actions # <<>>)
           \/ \E failed \in BOOLEAN :
                 Ran(did, astray, read, "halted", "approval_rejected", failed, FALSE)
           \/ Ran(did, astray, read, "halted",
                  IF refused THEN "approval_required" ELSE "step_failed", TRUE, FALSE)
  <2>1. PICK did \in SUBSET EngineWrites, astray \in Stray(Paths), read \in SUBSET Reads :
          LET assets == {w \in EngineWrites : w.by = "asset"}
              there == files \cup PathsOf({w \in did : w.by # "patch"})
          IN
          /\ \A w \in did : Applies(w, there)
          /\ ~Mutate /\ (\E w \in did : w.by = "patch") => assets \subseteq did
          /\ refused => did = {}
          /\ \/ astray = {}
             \/ ~refused /\ \E c \in Calls(plan) : c.tool = "run_command"
          /\ \/ /\ did = EngineWrites /\ ~refused
                /\ Ran(did, astray, read, "completed", "none", FALSE, ~Mutate /\ Actions # <<>>)
                /\ Counted(astray)
             \/ /\ Callback = "asks" /\ guarded
                /\ \E failed \in BOOLEAN :
                      Ran(did, astray, read, "halted", "approval_rejected", failed, FALSE)
                /\ Counted(astray)
             \/ /\ Ran(did, astray, read, "halted",
                       IF refused THEN "approval_required" ELSE "step_failed", TRUE, FALSE)
                /\ IF \/ refused
                      \/ \E w \in EngineWrites \ did : ~Applies(w, there)
                   THEN Counted(astray) ELSE Fault
    BY DEF Engine
  <2> HIDE DEF guarded, refused, Ran
  <2>2. QED
    BY <2>1
<1> DEFINE writes == Writing(did, astray)
<1>4. \A w \in EngineWrites :
        \/ w.by = "asset" /\ w.path \in Range(plan.assets)
        \/ w.by = "patch" /\ w.path \in Range(plan.patches)
        \/ /\ w.by \in {"patch", "step"}
           /\ \E c \in Calls(plan) : Writes(c.tool) /\ c.path = w.path
  BY <1>2, EngineWritesAre
<1>5. \A w \in writes : w \in EngineWrites \/ (w.by = "command" /\ astray # {})
  OBVIOUS
<1>6. ~excused' => Files(Range(plan.assets)) \subseteq PathsOf(EngineWrites)
  BY <1>1, <1>2, EngineWritesAre
<1>7. ASSUME task.explicit, ~task.asks, NEW w \in writes
      PROVE  task.mode = "scoped_auto" /\ w.path.dir = "src" /\ w.by # "command"
  <2>1. CASE Explicit /\ Callback = "none"
    <3>1. refused \/ (~Mutate /\ EngineWrites = {})
      BY <2>1
    <3>2. did = {}
      BY <1>3, <3>1
    <3>3. astray = {}
      BY <1>3, <2>1, <3>1 DEF Mutate, Mutating
    <3>4. QED
      BY <3>2, <3>3
  <2>2. CASE ~(Explicit /\ Callback = "none")
    <3>1. call.span \in First /\ task.mode = "scoped_auto"
      BY <1>7, <2>2 DEF Explicit, Callback
    <3>2. /\ \A c \in Calls(plan) : c.tool # "run_command"
          /\ \A path \in Range(plan.assets) \cup Range(plan.patches) : path.dir = "src"
          /\ \A c \in Calls(plan) : Writes(c.tool) => c.path.dir = "src"
      BY <1>1, <1>7, <3>1, ScopeOfPlan
    <3>3. astray = {}
      BY <1>3, <3>2
    <3>4. QED
      BY <1>4, <1>5, <3>1, <3>2, <3>3
  <2>3. QED
    BY <2>1, <2>2
<1>8. EngineWrites \subseteq did => PathsOf(EngineWrites) \subseteq PathsOf(writes)
  BY DEF PathsOf
<1>9. \A w \in writes :
        \/ w.by = "asset" /\ w.path \in Range(plan.assets)
        \/ w.by = "patch" /\ w.path \in Range(plan.patches)
        \/ /\ w.by \in {"patch", "step"}
           /\ \E c \in Calls(plan) : Writes(c.tool) /\ c.path = w.path
        \/ w.by = "command"
  BY <1>4, <1>5
<1>10. ASSUME NEW status, NEW reason, NEW failed, NEW surplus,
              Ran(did, astray, read, status, reason, failed, surplus),
              status = "completed" => did = EngineWrites
       PROVE  PlanningInv'
  <2>1. status = "completed" /\ ~excused' => Files(Range(plan.assets)) \subseteq PathsOf(writes)
    BY <1>6, <1>8, <1>10
  <2>2. Traced(PathsOf(did) \cup read, writes, Age(listed, PathsOf(writes)),
               status, reason, failed, surplus)
    BY <1>10
  <2> HIDE DEF writes
  <2>3. QED
    BY <1>1, <1>7, <1>9, <2>1, <2>2, TracedKeeps
<1> HIDE DEF Ran, refused
<1>11. CASE /\ did = EngineWrites
            /\ Ran(did, astray, read, "completed", "none", FALSE, ~Mutate /\ Actions # <<>>)
  BY <1>10, <1>11
<1>12. ASSUME NEW reason, NEW failed, Ran(did, astray, read, "halted", reason, failed, FALSE)
       PROVE  PlanningInv'
  <2>1. "halted" = "completed" => did = EngineWrites
    OBVIOUS
  <2>2. QED
    BY <1>10, <1>12, <2>1
<1>13. CASE \E failed \in BOOLEAN :
               Ran(did, astray, read, "halted", "approval_rejected", failed, FALSE)
  BY <1>12, <1>13
<1>14. CASE Ran(did, astray, read, "halted",
                IF refused THEN "approval_required" ELSE "step_failed", TRUE, FALSE)
  BY <1>12, <1>14
<1>15. QED
  BY <1>3, <1>11, <1>13, <1>14

\* The plan was executed: what was asked for is counted, and the sequence goes on
\* or is summed up.
LEMMA ExecutedKeeps ==
  ASSUME PlanningInv, FirstExecuted \/ NextExecuted
  PROVE  PlanningInv'
<1>1. UNCHANGED <<task, files, touched, before, excused, call>> /\ pc = "executed"
  BY DEF FirstExecuted, NextExecuted, history
<1>2. Unharmed'
  BY <1>1, NothingWritten
<1>3. result.status = "completed" /\ ~excused =>
        Files(written \cup Range(plan.assets)) \subseteq PathsOf(touched)
  BY <1>1 DEF PlanningInv, Files
<1>4. CASE FirstExecuted
  <2>1. slot = 0 /\ written = {} /\ call.span # "close"
    BY <1>1, <1>4 DEF FirstExecuted, PlanningInv, Asking, First
  <2>2. \/ pc' = "slot" /\ slot' = 2 /\ written' = Range(plan.assets) /\ result.status = "completed"
        \/ pc' \in {"finish", "repair"} /\ UNCHANGED <<slot, written>>
    BY <1>4 DEF FirstExecuted
  <2>3. QED
    BY <1>1, <1>2, <1>3, <2>1, <2>2
       DEF PlanningInv, Unharmed, Asking, SequenceTellsTheFiles, PathsOf, Files, CountedUpTo,
           WholeAssets
<1>5. CASE NextExecuted
  <2>1. \/ call.span = "close" /\ Sum /\ UNCHANGED <<slot, written>>
        \/ /\ call.span # "close" /\ result.status # "completed"
           /\ Close(result.status, result.reason) /\ UNCHANGED <<slot, written>>
        \/ /\ call.span # "close" /\ result.status = "completed"
           /\ pc' = "slot" /\ slot' = slot + 1 /\ written' = written \cup Range(plan.assets)
    BY <1>5 DEF NextExecuted
  <2>2. call.span # "close" => ~Landed
    BY <1>1, <1>5 DEF NextExecuted, PlanningInv, Asking
  <2>3. CASE call.span = "close" /\ Sum /\ UNCHANGED <<slot, written>>
    BY <1>1, <2>3, CloseKeeps DEF Sum
  <2>4. CASE /\ call.span # "close" /\ result.status # "completed"
             /\ Close(result.status, result.reason) /\ UNCHANGED <<slot, written>>
    BY <1>1, <2>2, <2>4, CloseKeeps
  <2>5. CASE /\ call.span # "close" /\ result.status = "completed"
             /\ pc' = "slot" /\ slot' = slot + 1 /\ written' = written \cup Range(plan.assets)
    <3>1. /\ ~excused' => Files(written') \subseteq PathsOf(touched')
          /\ WholeAssets' \subseteq written'
      BY <1>1, <1>3, <2>5 DEF PlanningInv, Asking, PathsOf, CountedUpTo, WholeAssets
    <3>2. /\ slot' \in Nat /\ call'.span \in First \cup {"next", "close"}
          /\ call'.span # "close" /\ DOMAIN call' = {"span", "channel", "attempt", "again"}
      BY <1>1, <2>5 DEF PlanningInv
    <3>3. QED
      BY <1>2, <2>5, <3>1, <3>2
         DEF PlanningInv, Unharmed, Asking, SequenceTellsTheFiles, CountedUpTo
  <2>6. QED
    BY <2>1, <2>3, <2>4, <2>5
<1>6. QED
  BY <1>4, <1>5

\* The next file of the sequence.
LEMMA NextSlotKeeps ==
  ASSUME PlanningInv, NextSlot
  PROVE  PlanningInv'
<1>1. UNCHANGED <<task, files, touched, before, excused, slot, written>> /\ pc = "slot"
  BY DEF NextSlot, taskVars, history
<1>2. Unharmed'
  BY <1>1, NothingWritten
<1>3. \/ Landed /\ Close("completed", "none") /\ UNCHANGED call
      \/ /\ call' = Call("next") \/ call' = Call("close")
         /\ pc' = "post" /\ (call'.span = "next" => ~Landed)
      \/ Sum /\ UNCHANGED call
  BY DEF NextSlot, Call
<1>4. CASE Landed /\ Close("completed", "none") /\ UNCHANGED call
  BY <1>1, <1>4, CloseKeeps
<1>5. CASE Sum /\ UNCHANGED call
  BY <1>1, <1>5, CloseKeeps DEF Sum
<1>6. CASE /\ call' = Call("next") \/ call' = Call("close")
           /\ pc' = "post" /\ (call'.span = "next" => ~Landed)
  <2>1. /\ DOMAIN call' = {"span", "channel", "attempt", "again"}
        /\ call'.span \in {"next", "close"}
    BY <1>6 DEF Call
  <2>2. QED
    BY <1>1, <1>2, <1>6, <2>1
       DEF PlanningInv, Unharmed, Asking, First, SequenceTellsTheFiles, Landed, PathsOf,
           CountedUpTo, WholeAssets
<1>7. QED
  BY <1>3, <1>4, <1>5, <1>6

\* The missing data files, the tests and the grade.
LEMMA FinishKeeps ==
  ASSUME PlanningInv, Artifacts \/ Untested \/ TestsPass \/ TestsFail \/ Graded
  PROVE  PlanningInv'
<1>1. CASE Artifacts
  <2>1. /\ pc' = "tests" /\ touched' = {} /\ files \subseteq files'
        /\ UNCHANGED <<call, task, slot, written, before>>
    BY <1>1 DEF Artifacts
  <2>2. QED
    BY <2>1
       DEF PlanningInv, Unharmed, Asking, ProtectedFilesAreKept, UnapprovedStaysInScope,
           SequenceTellsTheFiles
<1>2. CASE Untested \/ TestsPass \/ TestsFail
  <2>1. pc' = "grade" /\ UNCHANGED <<call, task, slot, written, files, before, touched>>
    BY <1>2 DEF Untested, TestsPass, TestsFail, Tested, taskVars, history
  <2>2. Unharmed'
    BY <2>1, NothingWritten
  <2>3. QED
    BY <2>1, <2>2 DEF PlanningInv, Unharmed, Asking, SequenceTellsTheFiles
<1>3. CASE Graded
  <2>1. UNCHANGED <<task, files, before, touched, excused>>
    BY <1>3 DEF Graded, history
  <2>2. Unharmed'
    BY <2>1, NothingWritten
  <2>3. \/ \E value : Return(value)
        \/ pc' = "repair" /\ UNCHANGED Locals
    BY <1>3 DEF Graded
  <2>4. CASE \E value : Return(value)
    BY <2>2, <2>4, ReturnKeeps
  <2>5. CASE pc' = "repair" /\ UNCHANGED Locals
    BY <2>1, <2>2, <2>5 DEF PlanningInv, Unharmed, Asking, SequenceTellsTheFiles, Locals
  <2>6. QED
    BY <2>3, <2>4, <2>5
<1>4. QED
  BY <1>1, <1>2, <1>3

\* A task begins, a user edits.
LEMMA BetweenTasksKeeps ==
  ASSUME PlanningInv, Begin \/ \E p \in Paths : Edit(p)
  PROVE  PlanningInv'
<1>1. call.span = "model-call" /\ slot = 0 /\ written = {} /\ pc = "idle"
  BY DEF PlanningInv, Begin, Edit
<1>2. CASE Begin
  <2>1. before' = files /\ touched' = {} /\ UNCHANGED files
    BY <1>2 DEF Begin
  <2>2. Unharmed'
    BY <1>2, <2>1 DEF Unharmed, ProtectedFilesAreKept, UnapprovedStaysInScope, Begin
  <2>3. \/ \E status, reason : Ends(status, reason)
        \/ pc' = "post" /\ UNCHANGED Locals
    BY <1>2 DEF Begin
  <2>4. CASE \E status, reason : Ends(status, reason)
    BY <2>2, <2>4, ReturnKeeps DEF Ends
  <2>5. CASE pc' = "post" /\ UNCHANGED Locals
    BY <1>1, <2>1, <2>2, <2>5
       DEF PlanningInv, Unharmed, Asking, First, SequenceTellsTheFiles, Locals, CountedUpTo,
           WholeAssets, Files
  <2>6. QED
    BY <2>3, <2>4, <2>5
<1>3. CASE \E p \in Paths : Edit(p)
  <2>1. /\ UNCHANGED <<pc, taskVars, result, history>> /\ files \subseteq files'
        /\ UNCHANGED <<call, task, plan, slot, written, before, touched, excused>>
    BY <1>3 DEF Edit, taskVars, history
  <2>2. Unharmed'
    BY <2>1, NothingWritten
  <2>3. QED
    BY <1>1, <2>1, <2>2
       DEF PlanningInv, Unharmed, Asking, SequenceTellsTheFiles
<1>4. QED
  BY <1>2, <1>3

\* Init establishes the invariant.
LEMMA PlanningStarts == Init => PlanningInv
<1> SUFFICES ASSUME Init PROVE PlanningInv
  OBVIOUS
<1>1. /\ pc = "idle" /\ call = Call("model-call") /\ slot = 0 /\ written = {}
      /\ before = files /\ touched = {}
  BY DEF Init
<1>2. call.span = "model-call" /\ DOMAIN call = {"span", "channel", "attempt", "again"}
  BY <1>1 DEF Call
<1>3. QED
  BY <1>1, <1>2 DEF Init, PlanningInv, Asking, First, ProtectedFilesAreKept,
                    UnapprovedStaysInScope, SequenceTellsTheFiles, Files

\* Every step keeps it.
LEMMA PlanningKeeps == PlanningInv /\ [Next]_vars => PlanningInv'
<1> SUFFICES ASSUME PlanningInv, [Next]_vars PROVE PlanningInv'
  OBVIOUS
<1>1. CASE Degraded
  BY <1>1, NothingExecuted DEF Degraded
<1>2. CASE NotApproved
  BY <1>2, NothingExecuted DEF NotApproved, Ready
<1>3. CASE UNCHANGED vars
  <2>1. UNCHANGED <<pc, call, task, plan, slot, written, result, files, before, touched, excused>>
    BY <1>3 DEF vars, taskVars, history
  <2>2. Unharmed'
    BY <2>1, NothingWritten
  <2>3. PlanIsLegal => PlanIsLegal'
    BY <2>1 DEF PlanIsLegal, IsProtected, NameIsProtected
  <2>4. RequiresApproval(plan)' = RequiresApproval(plan)
    BY <2>1 DEF RequiresApproval
  <2>5. QED
    BY <2>1, <2>2, <2>3, <2>4
       DEF PlanningInv, Unharmed, Asking, SequenceTellsTheFiles, GivenWhole, Landed, PathsOf,
           CountedUpTo, WholeAssets
<1>4. CASE \E answer \in Answers : Answered(answer)
  BY <1>4, AnsweredKeeps
<1>5. CASE (\E code \in Codes : HttpFails(code)) \/ Unreachable \/ Unreadable \/ Dropped
  BY <1>5, FailuresKeep
<1>6. QED
  BY <1>1, <1>2, <1>3, <1>4, <1>5, PlannedKeeps, RunTaskKeeps, EngineKeeps, ExecutedKeeps,
     NextSlotKeeps, FinishKeeps, BetweenTasksKeeps DEF Next, Work, Done

\* The invariant holds in every state of every behaviour.
LEMMA PlanningHolds == Spec => []PlanningInv
BY PlanningStarts, PlanningKeeps, PTL DEF Spec

\* Whatever the model answers, and in whichever call, no plan but the closing one
\* writes a file the task protects by its name, or by its path where the plan spells
\* it plainly, and none writes over a test there was unless with a patch, however it
\* is spelled: these are the gaps of _drop_protected_changes, and there is no other.
THEOREM ProtectedFiles == Spec => []ProtectedFilesAreKept
<1>1. PlanningInv => ProtectedFilesAreKept
  BY DEF PlanningInv
<1>2. QED
  BY <1>1, PlanningHolds, PTL

\* Where an approval is demanded and nobody can give it, nothing is written in
\* strict mode, and only files under src/ in scoped_auto mode, by run_task and by
\* the engine alike, and no program of the plan runs.
THEOREM UnapprovedPlans == Spec => []UnapprovedStaysInScope
<1>1. PlanningInv => UnapprovedStaysInScope
  BY DEF PlanningInv
<1>2. QED
  BY <1>1, PlanningHolds, PTL

\* _write_following_narrow_files, however many calls fail on the way: it completes
\* only with all the files written that it was asked for, and it does not halt
\* before the closing call where plans that completed gave each of them as an asset
\* under its own name.
THEOREM SequencesTell == Spec => []SequenceTellsTheFiles
<1>1. PlanningInv => SequenceTellsTheFiles
  BY DEF PlanningInv
<1>2. QED
  BY <1>1, PlanningHolds, PTL
=============================================================================
