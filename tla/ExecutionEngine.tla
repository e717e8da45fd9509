--------------------------- MODULE ExecutionEngine ---------------------------
(***************************************************************************)
(* execute_plan: the steps of an execution plan in rounds.  A round takes  *)
(* the steps whose dependencies have completed, asks for the approvals,    *)
(* drops what the rule surface restrains, puts off what conflicts, runs    *)
(* the rest on threads and books their results in plan order until one of  *)
(* them breaks the plan off (kernel/execution_engine.py,                   *)
(* kernel/execution_guardrails.py).                                        *)
(*                                                                         *)
(* A step is its index in the plan.  What its tool calls do is abstracted  *)
(* to the paths they name, as plan_action normalises them, and to the      *)
(* result they end with; what run_task does is RunTask.                    *)
(***************************************************************************)
EXTENDS StatusAlgebra, Sequences, FiniteSets

CONSTANTS
    Plans,                   \* sequences of steps
    Paths,
    MaxSteps,                \* GuardrailConfig.max_steps
    MaxConsecutiveFailures,  \* GuardrailConfig.max_consecutive_failures
    None

\* deps: depends_on, which may name no step; gate: no approval needed, approval
\* needed, or an MCP tool; tag: the status code its calls carry; breach: a path
\* outside the workspace; malformed: parameters plan_action raises over.
Steps == [deps : SUBSET Nat, reads : SUBSET Paths, writes : SUBSET Paths,
          gate : {"open", "guarded", "mcp"}, tag : StatusCodes \cup {None},
          breach : BOOLEAN, malformed : BOOLEAN, forbidden : BOOLEAN]

ASSUME PlansAssumption == \A plan \in Plans : plan \in Seq(Steps)
ASSUME LimitsAssumption ==
    MaxSteps \in Nat \ {0} /\ MaxConsecutiveFailures \in Nat \ {0}

\* The result of a step.
Reasons == {NoReason, "action_exception", "permission_denied", "sovereignty_breach",
            "time_budget_exceeded", "dependencies_not_met", "approval_required",
            "approval_rejected", "restrained"}
StepResults == [status : {"completed", "failed", "skipped"}, reason : Reasons]
ASSUME NoneAssumption == None \notin StepResults

VARIABLES
    plan,       \* the steps
    approver,   \* what decides approvals: "callback", "implicit" or "none"
    pc,         \* "top" of a round, its "layer" running, "end" or "raised"
    layer,      \* the steps of the round that run
    thread,     \* where the thread of each step is
    outcome,    \* what execute_step returned for it
    results,    \* the step results booked so far
    processed,
    completed,
    failures,   \* consecutive failures
    answers     \* history: the last answer to an approval of each step

vars == <<plan, approver, pc, layer, thread, outcome, results, processed, completed,
          failures, answers>>

Indices == 1..Len(plan)
Result(status, reason) == [status |-> status, reason |-> reason]
SAFETY_BREAK_REASONS == {"sovereignty_breach", "permission_denied"}

\* validate_plan
Valid(steps) == Len(steps) <= MaxSteps /\ \A i \in DOMAIN steps : ~steps[i].forbidden

Init ==
    /\ plan \in Plans
    /\ approver \in {"callback", "implicit", "none"}
    /\ pc = IF Valid(plan) THEN "top" ELSE "end"
    /\ layer = {}
    /\ thread = [i \in Indices |-> "none"]
    /\ outcome = [i \in Indices |-> None]
    /\ results = [i \in Indices |-> None]
    /\ processed = {}
    /\ completed = {}
    /\ failures = 0
    /\ answers = [i \in Indices |-> None]

-----------------------------------------------------------------------------
(* What a round is made of *)

Unprocessed == Indices \ processed

\* Mutant: a dependency need only have been dealt with.
ready_layer_Processed == {i \in Unprocessed : plan[i].deps \subseteq processed}

ready_layer == {i \in Unprocessed : plan[i].deps \subseteq completed}

\* A guarded step without anyone to ask.  Without require_explicit_approval
\* only MCP tools need somebody.
ApprovalMissing(i) ==
    \/ plan[i].gate # "open" /\ approver = "none"
    \/ plan[i].gate = "mcp" /\ approver = "implicit"
Asked(i) == plan[i].gate # "open" /\ approver = "callback"

step_restrained_by_relation(i) ==
    /\ plan[i].tag # None
    /\ action_ruling(plan[i].tag, plan[i].writes = {} /\ plan[i].reads # {}) = "refuse"

PathsOf(i) == plan[i].reads \cup plan[i].writes

\* Mutant: only two writes conflict.
Conflict_WritesOnly(i, j) == plan[i].writes \cap plan[j].writes # {}

Conflict(i, j) ==
    \/ plan[i].writes \cap PathsOf(j) # {}
    \/ PathsOf(i) \cap plan[j].writes # {}

\* The first step is taken, and each next one that conflicts with none taken.
_partition_non_conflicting_steps(steps) ==
    LET chosen[i \in 0..Len(plan)] ==
            IF i = 0 THEN {}
            ELSE IF i \in steps /\ \A j \in chosen[i - 1] : ~Conflict(i, j)
                 THEN chosen[i - 1] \cup {i}
                 ELSE chosen[i - 1]
    IN chosen[Len(plan)]

\* A step that leaves the workspace runs alone, the first of them.
PathBreaches(steps) == {i \in steps : plan[i].breach}
Scheduled(steps) ==
    IF PathBreaches(steps) # {}
    THEN {CHOOSE i \in PathBreaches(steps) : \A j \in PathBreaches(steps) : i <= j}
    ELSE _partition_non_conflicting_steps(steps)

-----------------------------------------------------------------------------
(* Rounds *)

\* time_budget_exceeded, looked at between rounds: the first step left is
\* booked, the others are not.
TimeBudget ==
    /\ pc = "top" /\ Unprocessed # {}
    /\ results' = [results EXCEPT ![CHOOSE i \in Unprocessed : \A j \in Unprocessed : i <= j] =
                      Result("failed", "time_budget_exceeded")]
    /\ pc' = "end"
    /\ UNCHANGED <<plan, approver, layer, thread, outcome, processed, completed, failures,
                   answers>>

\* Mutant: the blocked steps are left out of the trace.
BlockedSteps_Unbooked ==
    /\ pc = "top" /\ Unprocessed # {}
    /\ ready_layer = {}
    /\ processed' = Indices
    /\ pc' = "end"
    /\ UNCHANGED <<plan, approver, layer, thread, outcome, results, completed, failures, answers>>

\* Mutant: steps are given up when a dependency of one of them has failed.
BlockedSteps_AfterFailure ==
    /\ pc = "top" /\ Unprocessed # {}
    /\ ready_layer = {}
    /\ \E i \in Unprocessed : plan[i].deps \cap (processed \ completed) # {}
    /\ results' = [i \in Indices |-> IF i \in Unprocessed
                                     THEN Result("skipped", "dependencies_not_met")
                                     ELSE results[i]]
    /\ processed' = Indices
    /\ pc' = "end"
    /\ UNCHANGED <<plan, approver, layer, thread, outcome, completed, failures, answers>>

\* No step is ready: the others wait for a dependency that will not complete.
BlockedSteps ==
    /\ pc = "top" /\ Unprocessed # {}
    /\ ready_layer = {}
    /\ results' = [i \in Indices |-> IF i \in Unprocessed
                                     THEN Result("skipped", "dependencies_not_met")
                                     ELSE results[i]]
    /\ processed' = Indices
    /\ pc' = "end"
    /\ UNCHANGED <<plan, approver, layer, thread, outcome, completed, failures, answers>>

\* A layer: approvals are asked anew for a step put off in an earlier round.
Round ==
    /\ pc = "top" /\ Unprocessed # {}
    /\ ready_layer # {}
    /\ \E rejected \in SUBSET {i \in ready_layer : Asked(i)} :
         LET missing == {i \in ready_layer : ApprovalMissing(i)}
             approved == ready_layer \ (missing \cup rejected)
             restrained == {i \in approved : step_restrained_by_relation(i)}
             remaining == approved \ restrained
         IN /\ \A i \in approved : ~plan[i].malformed
            /\ answers' = [i \in Indices |-> IF i \in ready_layer /\ Asked(i)
                                             THEN i \notin rejected ELSE answers[i]]
            /\ results' = [i \in Indices |->
                  IF i \in missing THEN Result("failed", "approval_required")
                  ELSE IF i \in rejected THEN Result("skipped", "approval_rejected")
                  ELSE IF i \in restrained THEN Result("failed", "restrained")
                  ELSE results[i]]
            /\ processed' = processed \cup missing \cup rejected \cup restrained
            /\ layer' = Scheduled(remaining)
            /\ thread' = [i \in Indices |-> IF i \in Scheduled(remaining)
                                            THEN "submitted" ELSE thread[i]]
            /\ pc' = IF remaining # {} THEN "layer"
                     ELSE IF processed' = Indices THEN "end" ELSE "top"
    /\ UNCHANGED <<plan, approver, outcome, completed, failures>>

\* plan_action raises over the parameters of a step that was let through, or
\* the approval callback raises: execute_plan is left with an exception.
RoundRaises ==
    /\ pc = "top" /\ Unprocessed # {}
    /\ \E i \in ready_layer : ~ApprovalMissing(i) /\ (plan[i].malformed \/ Asked(i))
    /\ pc' = "raised"
    /\ UNCHANGED <<plan, approver, layer, thread, outcome, results, processed, completed,
                   failures, answers>>

-----------------------------------------------------------------------------
(* The threads: execute_step *)

StartStep(i) ==
    /\ pc = "layer" /\ thread[i] = "submitted"
    /\ thread' = [thread EXCEPT ![i] = "running"]
    /\ UNCHANGED <<plan, approver, pc, layer, outcome, results, processed, completed, failures,
                   answers>>

\* The tool calls run one after the other until one fails.  Path breaches are
\* found by PathGuard; a tool may raise what execute_step does not catch.
EndStep(i) ==
    /\ thread[i] = "running"
    /\ \/ /\ thread' = [thread EXCEPT ![i] = "done"]
          /\ \E result \in {Result("completed", NoReason),
                            Result("failed", "action_exception"),
                            Result("failed", "permission_denied"),
                            Result("failed", "sovereignty_breach")} :
                /\ plan[i].breach <=> result.reason = "sovereignty_breach"
                /\ outcome' = [outcome EXCEPT ![i] = result]
       \/ /\ thread' = [thread EXCEPT ![i] = "raised"]
          /\ UNCHANGED outcome
    /\ UNCHANGED <<plan, approver, pc, layer, results, processed, completed, failures, answers>>

-----------------------------------------------------------------------------
(* Booking the results of a layer *)

LayerDone == \A i \in layer : thread[i] \in {"done", "raised"}

\* The consecutive failures after the first steps of the plan.
FailuresAfter ==
    LET count[i \in 0..Len(plan)] ==
            IF i = 0 THEN failures
            ELSE IF i \notin layer THEN count[i - 1]
            ELSE IF outcome[i].status = "completed" THEN 0
            ELSE count[i - 1] + 1
    IN count

\* The results that end the plan.
Breaks(i) ==
    /\ outcome[i].status # "completed"
    /\ \/ outcome[i].reason \in SAFETY_BREAK_REASONS
       \/ FailuresAfter[i] >= MaxConsecutiveFailures

\* The results are booked in plan order up to the first that breaks the plan
\* off; the rest of the layer has run and is dropped.
Collect ==
    /\ pc = "layer" /\ LayerDone
    /\ \A i \in layer : thread[i] = "done"
    /\ LET broken == \E i \in layer : Breaks(i)
           booked == {i \in layer : \A j \in layer : j < i => ~Breaks(j)}
       IN /\ results' = [i \in Indices |-> IF i \in booked THEN outcome[i] ELSE results[i]]
          /\ processed' = processed \cup booked
          /\ completed' = completed \cup {i \in booked : outcome[i].status = "completed"}
          /\ pc' = IF broken \/ processed' = Indices THEN "end" ELSE "top"
    /\ failures' = FailuresAfter[Len(plan)]
    /\ UNCHANGED <<plan, approver, layer, thread, outcome, answers>>

\* future.result() raises; the executor has waited for the other threads.
CollectRaises ==
    /\ pc = "layer" /\ LayerDone
    /\ \E i \in layer : thread[i] = "raised"
    /\ pc' = "raised"
    /\ UNCHANGED <<plan, approver, layer, thread, outcome, results, processed, completed,
                   failures, answers>>

-----------------------------------------------------------------------------
Advance == BlockedSteps \/ Round \/ RoundRaises \/ Collect \/ CollectRaises

Next == TimeBudget \/ Advance \/ \E i \in Indices : StartStep(i) \/ EndStep(i)

Spec == Init /\ [][Next]_vars

\* The engine goes on, also without the time budget to end it, and a tool call
\* ends: run_task and the commands have timeouts of their own.
FairSpec ==
    /\ Spec
    /\ WF_vars(Advance)
    /\ WF_vars(\E i \in Indices : StartStep(i) \/ EndStep(i))

\* _build_execution_trace: success.
Success ==
    /\ pc = "end"
    /\ \E i \in Indices : results[i] # None
    /\ \A i \in Indices : results[i] # None => results[i].status = "completed"

-----------------------------------------------------------------------------
(* Properties *)

TypeOK ==
    /\ plan \in Plans
    /\ approver \in {"callback", "implicit", "none"}
    /\ pc \in {"top", "layer", "end", "raised"}
    /\ layer \subseteq Indices
    /\ thread \in [Indices -> {"none", "submitted", "running", "done", "raised"}]
    /\ outcome \in [Indices -> StepResults \cup {None}]
    /\ results \in [Indices -> StepResults \cup {None}]
    /\ completed \subseteq processed /\ processed \subseteq Indices
    /\ failures \in Nat
    /\ answers \in [Indices -> BOOLEAN \cup {None}]

Ran(i) == thread[i] \in {"running", "done", "raised"}

\* Two steps that run at the same time never name a path that one of them
\* writes, whichever of them was ready first or was put off before.
ConflictsRunApart ==
    \A i, j \in Indices :
        i # j /\ thread[i] = "running" /\ thread[j] = "running"
        => plan[i].writes \cap PathsOf(j) = {}

\* A step that ran had every dependency completed and on the trace, also when
\* its layer was split or a result of an earlier layer was dropped; and it was
\* approved by the last answer given for it: a step that was put off and then
\* rejected does not run on its first answer.
RunsAreCleared ==
    \A i \in Indices : Ran(i) =>
        /\ \A d \in plan[i].deps :
              d \in Indices /\ results[d] = Result("completed", NoReason)
        /\ plan[i].gate # "open" =>
              \/ approver = "callback" /\ answers[i] = TRUE
              \/ approver = "implicit" /\ plan[i].gate = "guarded"

\* A trace reports success only if every step of the plan ran and completed;
\* a step that ran and is missing from the trace of a plan that ended was in
\* the last layer, behind the result that broke the plan off.
TraceIsWhole ==
    /\ Success => completed = Indices
    /\ pc = "end" => \A i \in Indices : Ran(i) /\ results[i] = None =>
          i \in layer /\ \E j \in layer : j < i /\ results[j] # None
                                          /\ results[j].status = "failed"

\* Every plan comes to an end: steps that are put off get their turn, steps that
\* wait for each other or for nothing are given up.
PlanEnds == <>(pc \in {"end", "raised"})
=============================================================================
