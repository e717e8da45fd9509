--------------------------- MODULE ZiweiGovernance ---------------------------
(***************************************************************************)
(* How the status code of a failed run governs its repair: how long an     *)
(* attempt waits, the mode its plan runs in and what that mode refuses     *)
(* (model_repair.py, model_planning.py).  RepairLoop models the scores,    *)
(* budgets and snapshots of the loop; here an attempt ends in any way that *)
(* the loop can meet.                                                      *)
(*                                                                         *)
(* The task is about one file.  A plan gives it by an asset, by a patch of *)
(* all of its text ("whole") or of some of its lines ("lines"), or leaves  *)
(* it alone ("other").                                                     *)
(***************************************************************************)
EXTENDS StatusAudit

CONSTANTS
    Tasks,          \* records as in TasksAssumption
    MaxAttempts     \* max_repair_attempts

Modes == {"autonomous", "guarded", "degraded"}
ASSUME TasksAssumption ==
    \A t \in Tasks :
        /\ t.scale \in Nat                  \* what resolve_task_bureau measures
        /\ t.environment \in Modes          \* ONECODE_GOVERNANCE_MODE, or its default
        /\ t.exists \in BOOLEAN             \* the file is there from the start
        /\ t.testing \in BOOLEAN            \* it is a test, of a task that asks for tests
        /\ t.long \in BOOLEAN               \* it is longer than a micro patch may be
        /\ t.grader \in {"none", "sandbox", "host"}
ASSUME AttemptsAssumption == MaxAttempts \in Nat

VARIABLES
    task,
    phase,       \* "plan", "failed", "asked" or "done"
    attempt,     \* repairs asked for
    exists,      \* the file is there and not empty
    codes,       \* [iching, task]: status codes of the current result
    cooldown,    \* milliseconds waited before the attempt
    mode         \* the governance mode its plan runs in

governanceVars == <<task, phase, attempt, exists, codes, cooldown, mode>>

Shapes == {"asset", "whole", "lines", "other"}
NoCode == -1

----------------------------------------------------------------------------
(* Status codes *)

OutcomeCode(status, reason) == CodeOf(TransitionCode(classify_outcome(status, reason)))

Halted(reason) == [iching |-> OutcomeCode("halted", reason), task |-> NoCode]

\* The codes of a failed result.  A verifier in the sandbox puts its own
\* there; the host's grade leaves those of the run that completed.  Without a
\* grader they are those of the step that failed, of each kind of reason.
FailedCodes ==
    CASE task.grader = "sandbox" ->
            {[iching |-> OutcomeCode("halted", "verifier_failed"),
              task |-> OutcomeCode("halted", "verifier_failed")]}
      [] task.grader = "host" -> {[iching |-> OutcomeCode("completed", "none"), task |-> NoCode]}
      [] task.grader = "none" ->
            {Halted(r) : r \in {"patch_search_not_found", "tool_failed", "http_timeout",
                                "path_not_found"}}

\* The code 0 counts as none where the code takes the first that is true.
failed_code(n) ==
    IF n >= 2 THEN 47
    ELSE IF codes.iching \notin {NoCode, 0} THEN codes.iching
    ELSE IF codes.task # NoCode THEN codes.task ELSE 32

----------------------------------------------------------------------------
(* An attempt *)

EffectiveAttempts == Min({MaxAttempts, TurnBudget(BureauOf(task.scale))})

\* _compute_repair_cooldown, with the relief of recovery_status for a failed
\* verifier or provider and the attempts before this one.
Cooldown(n) ==
    LET sha == ShaOfScenario("verifier_failure")
        base == IF n >= 2 THEN Min({200, 50 * (n - 1)}) ELSE 0
    IN IF Neutralized(sha, n - 1) # {} THEN (100 * base) \div Damping(n - 1) ELSE base

\* Mutant: every repair is taken for the first one.
RepairMode_First(n) == GovernanceMode(failed_code(1), "none")

\* _build_repair_metadata; the coupling of a code can only lengthen the pause
\* that the metadata reports, after it was taken.
RepairMode(n) ==
    IF n >= 2 THEN "degraded" ELSE GovernanceMode(failed_code(n), "none")

\* synthesize_single_asset_repair: an asset for a file that is there becomes
\* a patch of the lines that differ, or of all of it; tests stay as they are.
Synthesized(shape) ==
    IF shape = "asset" /\ exists /\ ~task.testing THEN {"lines", "whole"} ELSE {shape}

\* _validate_repair_plan_safety, of a plan for this file.
Safe(shape, micro) ==
    /\ shape = "asset" => task.testing
    /\ shape = "whole" => ~(micro /\ task.long)

\* execute_model_plan: the degraded mode refuses to rewrite an existing file.
Gated(shape, governance) == governance = "degraded" /\ shape = "asset" /\ exists

----------------------------------------------------------------------------
GovernanceInit ==
    /\ task \in Tasks
    /\ phase = "plan" /\ attempt = 0 /\ exists = task.exists
    /\ codes = [iching |-> NoCode, task |-> NoCode]
    /\ cooldown = 0 /\ mode = task.environment

\* The result is returned, or fails and is repaired while attempts are left.
Fails(next) ==
    /\ phase' = IF attempt < EffectiveAttempts THEN "failed" ELSE "done"
    /\ codes' = next

\* A plan that does not complete: with a grader, a repair leaves the codes as
\* they were, and a first plan is returned unless the host grades it.
Halts(next) ==
    IF task.grader = "sandbox" /\ attempt = 0 THEN phase' = "done" /\ UNCHANGED codes
    ELSE Fails(IF task.grader # "none" /\ attempt > 0 THEN codes ELSE next)

Refused(shape) ==
    /\ Gated(shape, mode)
    /\ Halts([iching |-> NoCode, task |-> NoCode])
    /\ UNCHANGED exists

\* A step fails before the file is changed.
Breaks ==
    /\ \E r \in {"tool_failed", "http_timeout"} : Halts(Halted(r))
    /\ UNCHANGED exists

\* A grader's lower score puts the files of an earlier plan back.
Restored == IF task.grader = "host" /\ attempt > 0 THEN {exists, task.exists} ELSE {}

Runs(shape) ==
    /\ ~Gated(shape, mode)
    /\ shape \in {"whole", "lines"} => exists
    /\ \/ phase' = "done" /\ UNCHANGED <<exists, codes>>
       \/ /\ \E next \in FailedCodes : Fails(next)
          /\ exists' \in {exists \/ shape = "asset"} \cup Restored

\* The first plan takes its mode from the environment, as its metadata has
\* neither a mode nor a code.
FirstPlan ==
    /\ phase = "plan"
    /\ \E shape \in Shapes : Refused(shape) \/ Breaks \/ Runs(shape)
    /\ UNCHANGED <<task, attempt, cooldown, mode>>

AskForRepair ==
    /\ phase = "failed"
    /\ attempt' = attempt + 1
    /\ cooldown' = Cooldown(attempt + 1)
    /\ mode' = RepairMode(attempt + 1)
    /\ phase' = "asked"
    /\ UNCHANGED <<task, exists, codes>>

\* No plan, or one that is not safe: asked again while attempts are left.
PlanRefused ==
    /\ phase = "asked"
    /\ Fails(codes)
    /\ UNCHANGED <<task, attempt, exists, cooldown, mode>>

Repair ==
    /\ phase = "asked"
    /\ \E answer \in Shapes, micro \in BOOLEAN : \E shape \in Synthesized(answer) :
        /\ Safe(shape, micro /\ task.grader = "host")
        /\ Refused(shape) \/ Breaks \/ Runs(shape)
    /\ UNCHANGED <<task, attempt, cooldown, mode>>

Done == phase = "done" /\ UNCHANGED governanceVars

GovernanceNext == FirstPlan \/ AskForRepair \/ PlanRefused \/ Repair \/ Done
GovernanceSpec == GovernanceInit /\ [][GovernanceNext]_governanceVars

----------------------------------------------------------------------------
\* What the kernel computes of its 64 codes agrees with itself: every certificate
\* of the ring and of the charts, those of the transitions (each code settles
\* at once and not on a higher energy, no dangerous outcome gets a code that
\* goes on), the classical tables, and what the tests ask of the hexagrams,
\* reasons and codes derived from one another by different rules.
AuditPasses ==
    /\ math_audit /\ canonical_encoding_certificate /\ derived_hexagrams_certificate
    /\ mutation_certificate /\ profile_certificate /\ migration_certificate
    /\ reasons_come_back /\ run_control_agrees

\* What failed by itself is never repaired in the mode that trusts the model: in
\* the autonomous mode a repair is only asked for after a run that completed and
\* was overruled by the host's grade, whose codes still say that it completed,
\* and only the first time, whatever steps, graders and refused plans the codes
\* come from (_build_repair_metadata, governance_mode).
OnlyOverruledIsTrusted ==
    phase = "asked" /\ mode = "autonomous" =>
        /\ attempt = 1 /\ task.grader = "host"
        /\ codes.iching = OutcomeCode("completed", "none")
=============================================================================
