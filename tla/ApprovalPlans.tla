--------------------------- MODULE ApprovalPlans ---------------------------
(***************************************************************************)
(* Approval plans kept as files that move between pending-plans,           *)
(* executing-plans and approval-plans, sealed with a key that whoever      *)
(* needs it first creates, and the HTTP requests that offer and answer     *)
(* them on threads of their own (kernel/approval_plans.py,                 *)
(* web/api_handlers.py).                                                   *)
(*                                                                         *)
(* A plan bears the name of the request that offered it, a key the name of *)
(* the request that generated it: both are random in the code.             *)
(***************************************************************************)
EXTENDS Naturals, FiniteSets

CONSTANTS
    Plans,         \* requests that offer a plan: pending_approval_result
    Approvals,     \* requests that answer one: handle_onecode_plan_approval
    MaxInterrupts, \* bound on requests that die, or raise, where they are
    Short,         \* a key file of fewer than 32 bytes
    None

Decisions == {"approved", "rejected"}
Replies == Decisions \cup {"approval_required", "in_progress", "already_resolved", "not_found",
                           "mismatch", "expired", "invalid", "died"}

ASSUME SetsAssumption ==
    /\ Plans \cap Approvals = {}
    /\ {Short, None} \cap (Plans \cup Approvals) = {}
    /\ Short # None
    /\ None \notin Replies
ASSUME InterruptsAssumption == MaxInterrupts \in Nat

Requests == Plans \cup Approvals

VARIABLES
    key,          \* approval-plan.key
    seal,         \* the key each plan's digest was computed with
    pending,      \* pending-plans/
    executing,    \* executing-plans/
    archive,      \* approval-plans/: the recorded decision
    expired,      \* plans older than max_age_seconds
    at,           \* where each request is
    about,        \* the plan an answer is about
    mine,         \* the key the request holds
    reply,        \* what the client was told, "died" when nothing
    runs,         \* how often each plan was executed
    minted,       \* history: requests that generated a key
    interrupts    \* bound: interruptions so far

store     == <<pending, executing, archive>>
storeVars == <<key, seal, store, expired, at, about, mine, reply, runs, minted, interrupts>>

Keys == Requests \cup {Short, None}

StoreInit ==
    /\ key = None
    /\ seal = [p \in Plans |-> None]
    /\ pending = {}
    /\ executing = {}
    /\ archive = [p \in Plans |-> None]
    /\ expired = {}
    /\ at = [r \in Requests |-> "start"]
    /\ about = [r \in Approvals |-> None]
    /\ mine = [r \in Requests |-> None]
    /\ reply = [r \in Requests |-> None]
    /\ runs = [p \in Plans |-> 0]
    /\ minted = {}
    /\ interrupts = 0

\* The request is answered.
Reply(r, text) ==
    /\ at' = [at EXCEPT ![r] = "done"]
    /\ reply' = [reply EXCEPT ![r] = text]

-----------------------------------------------------------------------------
(* _plan_mac_key, for a plan to seal or to verify *)

\* Mutant: any key file that exists will do.
LookupKey_Short(r) ==
    /\ at[r] = "key"
    /\ \/ /\ key # None
          /\ mine' = [mine EXCEPT ![r] = key]
          /\ at' = [at EXCEPT ![r] = "sealing"]
       \/ /\ key = None
          /\ at' = [at EXCEPT ![r] = "minting"]
          /\ UNCHANGED mine
    /\ UNCHANGED <<key, seal, store, expired, about, reply, runs, minted, interrupts>>

\* A key file that is missing, or shorter than a key, is written anew.
LookupKey(r) ==
    /\ at[r] = "key"
    /\ \/ /\ key \in Requests
          /\ mine' = [mine EXCEPT ![r] = key]
          /\ at' = [at EXCEPT ![r] = "sealing"]
       \/ /\ key \notin Requests
          /\ at' = [at EXCEPT ![r] = "minting"]
          /\ UNCHANGED mine
    /\ UNCHANGED <<key, seal, store, expired, about, reply, runs, minted, interrupts>>

\* os.open(path, O_CREAT | O_TRUNC) empties the file, whoever wrote it.
TruncateKey(r) ==
    /\ at[r] = "minting"
    /\ key' = Short
    /\ minted' = minted \cup {r}
    /\ at' = [at EXCEPT ![r] = "storing"]
    /\ UNCHANGED <<seal, store, expired, about, mine, reply, runs, interrupts>>

StoreKey(r) ==
    /\ at[r] = "storing"
    /\ key' = r
    /\ mine' = [mine EXCEPT ![r] = r]
    /\ at' = [at EXCEPT ![r] = "sealing"]
    /\ UNCHANGED <<seal, store, expired, about, reply, runs, minted, interrupts>>

-----------------------------------------------------------------------------
(* persist_approval_plan *)

BeginOffer(p) ==
    /\ at[p] = "start"
    /\ at' = [at EXCEPT ![p] = "key"]
    /\ UNCHANGED <<key, seal, store, expired, about, mine, reply, runs, minted, interrupts>>

persist_approval_plan(p) ==
    /\ at[p] = "sealing"
    /\ seal' = [seal EXCEPT ![p] = mine[p]]
    /\ pending' = pending \cup {p}
    /\ Reply(p, "approval_required")
    /\ UNCHANGED <<key, executing, archive, expired, about, mine, runs, minted, interrupts>>

\* The plan's age passes max_age_seconds.
Expire(p) ==
    /\ reply[p] = "approval_required"
    /\ p \notin expired
    /\ expired' = expired \cup {p}
    /\ UNCHANGED <<key, seal, store, at, about, mine, reply, runs, minted, interrupts>>

-----------------------------------------------------------------------------
(* claim_approval_plan *)

\* A client answers a plan it was offered, for the first time or again.
BeginAnswer(r) ==
    /\ at[r] = "start"
    /\ \E p \in Plans :
         /\ reply[p] = "approval_required"
         /\ about' = [about EXCEPT ![r] = p]
    /\ at' = [at EXCEPT ![r] = "claiming"]
    /\ UNCHANGED <<key, seal, store, expired, mine, reply, runs, minted, interrupts>>

\* Mutant: the pending file is copied, and removed only when the plan is resolved.
Claim_Copy(r) ==
    /\ at[r] = "claiming"
    /\ about[r] \in pending
    /\ executing' = executing \cup {about[r]}
    /\ at' = [at EXCEPT ![r] = "key"]
    /\ UNCHANGED <<key, seal, pending, archive, expired, about, mine, reply, runs, minted, interrupts>>

\* pending.replace(claimed)
Claim(r) ==
    /\ at[r] = "claiming"
    /\ about[r] \in pending
    /\ pending' = pending \ {about[r]}
    /\ executing' = executing \cup {about[r]}
    /\ at' = [at EXCEPT ![r] = "key"]
    /\ UNCHANGED <<key, seal, archive, expired, about, mine, reply, runs, minted, interrupts>>

\* FileNotFoundError.
ClaimFails(r) ==
    /\ at[r] = "claiming"
    /\ about[r] \notin pending
    /\ at' = [at EXCEPT ![r] = "probing"]
    /\ UNCHANGED <<key, seal, store, expired, about, mine, reply, runs, minted, interrupts>>

\* claimed.exists(), then archived.exists().
ProbeExecuting(r) ==
    /\ at[r] = "probing"
    /\ \/ about[r] \in executing /\ Reply(r, "in_progress")
       \/ /\ about[r] \notin executing
          /\ at' = [at EXCEPT ![r] = "probing2"]
          /\ UNCHANGED reply
    /\ UNCHANGED <<key, seal, store, expired, about, mine, runs, minted, interrupts>>

ProbeArchive(r) ==
    /\ at[r] = "probing2"
    /\ Reply(r, IF archive[about[r]] # None THEN "already_resolved" ELSE "not_found")
    /\ UNCHANGED <<key, seal, store, expired, about, mine, runs, minted, interrupts>>

\* _load_approval_plan_path: the digest, then the age, then the plan itself,
\* against the modules and tests the workspace has by now.
load_approval_plan_path(r) ==
    /\ r \in Approvals
    /\ at[r] = "sealing"
    /\ \/ /\ seal[about[r]] = mine[r]
          /\ about[r] \notin expired
          /\ at' = [at EXCEPT ![r] = "deciding"]
          /\ UNCHANGED reply
       \/ /\ seal[about[r]] = mine[r]
          /\ about[r] \notin expired
          /\ Reply(r, "invalid")
       \/ /\ seal[about[r]] # mine[r]
          /\ Reply(r, "mismatch")
       \/ /\ seal[about[r]] = mine[r]
          /\ about[r] \in expired
          /\ Reply(r, "expired")
    /\ UNCHANGED <<key, seal, store, expired, about, mine, runs, minted, interrupts>>

-----------------------------------------------------------------------------
(* handle_onecode_plan_approval *)

\* The client said no, or what it staged, or the workspace, is not what the
\* ledger has.
Refuse(r) ==
    /\ at[r] = "deciding"
    /\ at' = [at EXCEPT ![r] = "rejecting"]
    /\ UNCHANGED <<key, seal, store, expired, about, mine, reply, runs, minted, interrupts>>

execute_model_plan(r) ==
    /\ at[r] = "deciding"
    /\ runs' = [runs EXCEPT ![about[r]] = @ + 1]
    /\ at' = [at EXCEPT ![r] = "executing"]
    /\ UNCHANGED <<key, seal, store, expired, about, mine, reply, minted, interrupts>>

\* The plan has been executed, verified and its follow-up offered.
ExecutionEnds(r) ==
    /\ at[r] = "executing"
    /\ at' = [at EXCEPT ![r] = "approving"]
    /\ UNCHANGED <<key, seal, store, expired, about, mine, reply, runs, minted, interrupts>>

\* Mutant: the claimed file is removed before the archive is written.
Archive_UnlinkFirst(r) ==
    /\ at[r] \in {"rejecting", "approving"}
    /\ \/ /\ about[r] \in executing
          /\ executing' = executing \ {about[r]}
          /\ UNCHANGED <<archive, at>>
       \/ /\ about[r] \notin executing
          /\ archive' = [archive EXCEPT ![about[r]] =
                            IF at[r] = "rejecting" THEN "rejected" ELSE "approved"]
          /\ at' = [at EXCEPT ![r] = "unlinking"]
          /\ UNCHANGED executing
    /\ UNCHANGED <<key, seal, pending, expired, about, mine, reply, runs, minted, interrupts>>

\* finalize_approval_plan: the archive is written, then the claimed file removed.
Archive(r) ==
    /\ \/ /\ at[r] = "rejecting"
          /\ archive' = [archive EXCEPT ![about[r]] = "rejected"]
       \/ /\ at[r] = "approving"
          /\ archive' = [archive EXCEPT ![about[r]] = "approved"]
    /\ at' = [at EXCEPT ![r] = "unlinking"]
    /\ UNCHANGED <<key, seal, pending, executing, expired, about, mine, reply, runs, minted, interrupts>>

\* Mutant: the claimed file stays.
Unlink_Keep(r) ==
    /\ at[r] = "unlinking"
    /\ Reply(r, archive[about[r]])
    /\ UNCHANGED <<key, seal, store, expired, about, mine, runs, minted, interrupts>>

Unlink(r) ==
    /\ at[r] = "unlinking"
    /\ executing' = executing \ {about[r]}
    /\ Reply(r, archive[about[r]])
    /\ UNCHANGED <<key, seal, pending, archive, expired, about, mine, runs, minted, interrupts>>

\* The request dies with its server, or an exception nobody handles ends it:
\* nothing undoes its claim.
Interrupt(r) ==
    /\ at[r] \notin {"start", "done"}
    /\ interrupts < MaxInterrupts
    /\ interrupts' = interrupts + 1
    /\ Reply(r, "died")
    /\ UNCHANGED <<key, seal, store, expired, about, mine, runs, minted>>

-----------------------------------------------------------------------------
Offering(p) == BeginOffer(p) \/ persist_approval_plan(p) \/ Expire(p)

Answering(r) ==
    \/ BeginAnswer(r) \/ Claim(r) \/ ClaimFails(r) \/ ProbeExecuting(r) \/ ProbeArchive(r)
    \/ load_approval_plan_path(r) \/ Refuse(r) \/ execute_model_plan(r)
    \/ ExecutionEnds(r) \/ Archive(r) \/ Unlink(r)

StoreNext ==
    \/ \E p \in Plans : Offering(p)
    \/ \E r \in Approvals : Answering(r)
    \/ \E r \in Requests : LookupKey(r) \/ TruncateKey(r) \/ StoreKey(r) \/ Interrupt(r)

StoreSpec == StoreInit /\ [][StoreNext]_storeVars

-----------------------------------------------------------------------------
(* Properties *)

StoreTypeOK ==
    /\ key \in Keys
    /\ seal \in [Plans -> Keys]
    /\ pending \in SUBSET Plans
    /\ executing \in SUBSET Plans
    /\ archive \in [Plans -> Decisions \cup {None}]
    /\ expired \in SUBSET Plans
    /\ at \in [Requests -> {"start", "key", "minting", "storing", "sealing", "claiming",
                            "probing", "probing2", "deciding", "rejecting", "executing",
                            "approving", "unlinking", "done"}]
    /\ about \in [Approvals -> Plans \cup {None}]
    /\ mine \in [Requests -> Keys]
    /\ reply \in [Requests -> Replies \cup {None}]
    /\ runs \in [Plans -> Nat]
    /\ minted \in SUBSET Requests
    /\ interrupts \in Nat

\* The files and the executions as PlanApproval sees them.
Stage(p) ==
    IF archive[p] # None THEN archive[p]
    ELSE IF p \in executing THEN "claimed"
    ELSE IF p \in pending THEN "pending" ELSE "unknown"

Abstract == INSTANCE PlanApproval WITH stage <- [p \in Plans |-> Stage(p)]

\* However offers, answers and replays interleave, and wherever a request dies,
\* a plan is claimed once, executed at most once, and archived with the decision
\* that tells whether it was (README.md:365-367).
PlansRunAtMostOnce == Abstract!Spec

\* An answer about a plan that was offered is never told that there is none,
\* although the claimed file and the archive are looked up one after the other
\* while another request moves the plan from the one to the other.
OfferedPlanIsFound == \A r \in Approvals : reply[r] # "not_found"

\* A plan stays in executing-plans without a request at work on it only when the
\* claim was refused at loading or its request died: finalize_approval_plan
\* leaves no claimed file behind.
ClaimsAreReleased ==
    \A p \in executing : \E r \in Approvals :
        /\ about[r] = p
        /\ at[r] \in {"key", "minting", "storing", "sealing", "deciding", "rejecting",
                      "executing", "approving", "unlinking"}
           \/ reply[r] \in {"mismatch", "expired", "invalid", "died"}

\* A digest that does not verify means that two requests generated a key: one
\* request alone, even one that dies between emptying the key file and writing
\* it, costs no plan.
MismatchNeedsTwoKeys ==
    (\E r \in Approvals : reply[r] = "mismatch") => Cardinality(minted) > 1
=============================================================================
