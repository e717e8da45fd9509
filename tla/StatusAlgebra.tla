--------------------------- MODULE StatusAlgebra ---------------------------
(***************************************************************************)
(* The rule surface every runtime outcome is collapsed into: an outcome    *)
(* (status, reason) becomes one of the 64 status codes, the code becomes a *)
(* transition, and the transition decides whether a run dispatches its     *)
(* next action, what the agent cycle does next, whether a tagged write     *)
(* runs and what the process exits with (kernel/hexagram.py,               *)
(* kernel/hexagram_profile.py, kernel/hexagram_certificates.py,            *)
(* kernel/outcome_policy.py).  Operators only: RunTask, ExecutionEngine    *)
(* and AgentCycle ask them.                                                *)
(*                                                                         *)
(* A status code is the pair <<outer, inner>> of its trigrams.  The        *)
(* reasons a transition carries along for the reader are left out.         *)
(***************************************************************************)
EXTENDS Naturals

Trigrams == {"kun", "zhen", "kan", "dui", "gen", "li", "xun", "qian"}
StatusCodes == Trigrams \X Trigrams

\* The yang lines of a trigram, of a status code.
YangLines == [kun |-> 0, zhen |-> 1, kan |-> 1, gen |-> 1,
              dui |-> 2, li |-> 2, xun |-> 2, qian |-> 3]
yang_count(code) == YangLines[code[1]] + YangLines[code[2]]

TRIGRAM_ELEMENTS == [kun |-> "earth", gen |-> "earth", dui |-> "metal", qian |-> "metal",
                     zhen |-> "wood", xun |-> "wood", kan |-> "water", li |-> "fire"]
GENERATES == [wood |-> "fire", fire |-> "earth", earth |-> "metal",
              metal |-> "water", water |-> "wood"]
CONTROLS == [wood |-> "earth", earth |-> "water", water |-> "fire",
             fire |-> "metal", metal |-> "wood"]

OuterElement(code) == TRIGRAM_ELEMENTS[code[1]]
InnerElement(code) == TRIGRAM_ELEMENTS[code[2]]

\* What the outer element does to the inner one.
element_cross_relation(source, target) ==
    IF source = target THEN "same"
    ELSE IF GENERATES[source] = target THEN "generates"
    ELSE IF CONTROLS[source] = target THEN "controls"
    ELSE IF GENERATES[target] = source THEN "generated_by"
    ELSE "controlled_by"
CrossRelation(code) == element_cross_relation(OuterElement(code), InnerElement(code))

\* How one element controls another: fire suppresses metal, water quenches
\* fire, metal prunes wood, earth dams water, wood breaks the ground.
RUNTIME_CONTROL_MODULATION_POLICY ==
    [fire |-> "halt", water |-> "halt", metal |-> "prune",
     earth |-> "throttle", wood |-> "activate"]
RUNTIME_RELATION_POLICY ==
    [generates |-> "accelerate", same |-> "continue",
     generated_by |-> "recover", controlled_by |-> "checkpoint"]
runtime_relation_policy(code) ==
    IF CrossRelation(code) = "controls"
    THEN RUNTIME_CONTROL_MODULATION_POLICY[OuterElement(code)]
    ELSE RUNTIME_RELATION_POLICY[CrossRelation(code)]

HardControl(code) == OuterElement(code) = "fire" /\ InnerElement(code) = "metal"
RecoverySeed(code) == OuterElement(code) = "water" /\ InnerElement(code) = "wood"
YangOverload(code) == yang_count(code) >= 5
YinExcess(code) == yang_count(code) \in {1, 2}

\* The first rule that applies; the code is lowered by the two rules that
\* collapse it, fire over metal and the yang overload.
TransitionAction(code) ==
    IF code = <<"kun", "kun">> THEN "discover"
    ELSE IF HardControl(code) \/ code[1] = "li" THEN "halt"
    ELSE IF code = <<"gen", "kun">> THEN "checkpoint"
    ELSE IF YangOverload(code) THEN "cooldown"
    ELSE IF RecoverySeed(code) THEN "checkpoint"
    ELSE IF YinExcess(code) /\ code[2] # "kun" /\ CrossRelation(code) = "same" THEN "activate"
    ELSE runtime_relation_policy(code)
TransitionCode(code) ==
    IF HardControl(code) THEN <<"li", "kun">>
    ELSE IF TransitionAction(code) = "cooldown" THEN <<"gen", code[2]>>
    ELSE code

-----------------------------------------------------------------------------
(* classify_outcome *)

BoundaryReasons ==
    {"sovereignty_breach", "permission_denied", "malformed_input", "oversized_input",
     "resource_budget_exceeded", "time_budget_exceeded", "repeated_action",
     "approval_required", "approval_rejected", "user_rejected_diff", "no_progress",
     "no_actionable_plan", "dependencies_not_met", "invalid_intent",
     "invalid_model_plan", "model_provider_error", "repair_plan_must_use_patches_only",
     "verifier_failed", "self_audit_check_failed"}
TimeoutReasons ==
    {"http_timeout", "verifier_timeout", "model_provider_timeout", "image_platform_mismatch"}
SOFT_MISS_REASONS ==
    {"search_miss", "path_not_found", "read_target_not_file", "list_target_not_found",
     "safe_read_skip"}
ExecutorFaults ==
    {"action_exception", "run_exception", "tool_not_found", "tool_failed",
     "sandbox_required", "docker_not_found", "docker_daemon_unavailable",
     "interpreter_not_found"}

\* _schedule_status: a transition's reason, coming back as an outcome's.
ScheduleStatus ==
    [rule_gap_requires_discovery                |-> <<"kun", "kun">>,
     earth_dams_water_flow                      |-> <<"kun", "kan">>,
     controlled_by_relation_requires_verifier   |-> <<"kun", "zhen">>,
     yang_overload_cooldown                     |-> <<"qian", "qian">>,
     sovereignty_fire_suppresses_asset          |-> <<"li", "qian">>,
     sovereignty_fire_boundary_halt             |-> <<"li", "kun">>,
     water_quenches_fire_boundary               |-> <<"kan", "li">>,
     metal_prunes_wood_scope                    |-> <<"dui", "zhen">>,
     network_water_preserves_resume_seed        |-> <<"kan", "zhen">>,
     mountain_contains_local_executor_fault     |-> <<"gen", "kun">>,
     wood_breaks_inert_ground                   |-> <<"zhen", "gen">>,
     generating_relation_accelerates_execution  |-> <<"kun", "dui">>,
     generated_by_relation_recovers_execution   |-> <<"kun", "li">>]

NoReason == "none"

\* The reason is looked at first; without a known one the status decides.
classify_outcome(status, reason) ==
    IF reason \in BoundaryReasons THEN <<"li", "kun">>
    ELSE IF reason \in TimeoutReasons THEN <<"kan", "zhen">>
    ELSE IF reason \in SOFT_MISS_REASONS THEN <<"kun", "kun">>
    ELSE IF reason \in ExecutorFaults THEN <<"gen", "kun">>
    ELSE IF reason \in DOMAIN ScheduleStatus THEN ScheduleStatus[reason]
    ELSE IF status = "skipped" THEN <<"qian", "dui">>
    ELSE IF status = "completed" THEN <<"qian", "qian">>
    ELSE <<"li", "kun">>

-----------------------------------------------------------------------------
(* What is decided from a transition *)

\* dispatch_decision: a run goes on to its next action or stops.
Dispatches(action) == action \notin {"halt", "checkpoint", "discover"}
RunContinues(status, reason) == Dispatches(TransitionAction(classify_outcome(status, reason)))

\* agent_cycle_decision reads the transition, and the schedule of the code
\* the transition left.
agent_cycle_decision(status, reason) ==
    LET code == classify_outcome(status, reason)
        action == TransitionAction(code)
        schedule == TransitionAction(TransitionCode(code))
    IN IF schedule \in {"halt", "throttle", "prune"} \/ action = "halt" THEN "stop"
       ELSE IF action = "checkpoint" THEN "verify"
       ELSE IF action = "discover" THEN "read_only_continue"
       ELSE "model_continue"

\* write_ruling: control, halt, checkpoint and rest refuse a tagged write.  The
\* other actions write whatever their bandwidth, so that no code is refused
\* for a zero bandwidth.
write_ruling(code) ==
    IF TransitionAction(code) \in
           {"throttle", "prune", "halt", "checkpoint", "cooldown", "discover"}
    THEN "refuse" ELSE "write"

\* action_ruling: looking is allowed at rest, commands and writes follow the
\* write ruling.
action_ruling(code, observing) ==
    IF observing /\ TransitionAction(code) \in {"discover", "cooldown"} THEN "allow"
    ELSE IF observing /\ write_ruling(code) = "write" THEN "allow"
    ELSE write_ruling(code)

\* skip_decision: an asset is skipped when ready and without fire outside.
should_skip(code) == code[1] # "li" /\ code[2] = "dui"

process_exit_code(status, reason) ==
    IF status \in {"halted", "denied"} \/ ~RunContinues(status, reason) THEN 1 ELSE 0

=============================================================================
