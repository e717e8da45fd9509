----------------------------- MODULE StatusAudit -----------------------------
(***************************************************************************)
(* What the kernel says about its own 64 codes: where their transitions    *)
(* lead, what a sequence of codes amounts to, that no dangerous outcome    *)
(* gets a code that lets work go on (hexagram_dynamics.py), and the audit  *)
(* that the command math-audit prints (cli_commands/read_only.py).         *)
(* Operators only; ZiweiGovernance checks them.                            *)
(*                                                                         *)
(* A sequence of codes has at most five members where its entropy is asked *)
(* for, so that the logarithms are compared as whole numbers.              *)
(***************************************************************************)
EXTENDS Hexagrams, ZiweiCertificates

\* The code that a transition leaves, of every code.
transition_graph == [code \in Codes |-> CodeOf(TransitionCode(StatusOf(code)))]
Nuclear == [code \in Codes |-> nuclear_hexagram(code)]

----------------------------------------------------------------------------
(* The reason that a transition gives, by the rule that applies first. *)

ControlReason ==
    [fire |-> "sovereignty_fire_suppresses_asset", water |-> "water_quenches_fire_boundary",
     metal |-> "metal_prunes_wood_scope", earth |-> "earth_dams_water_flow",
     wood |-> "wood_breaks_inert_ground"]
RelationReason ==
    [generates |-> "generating_relation_accelerates_execution", same |-> NoReason,
     generated_by |-> "generated_by_relation_recovers_execution",
     controlled_by |-> "controlled_by_relation_requires_verifier"]
PolicyReason(status) ==
    IF CrossRelation(status) = "controls" THEN ControlReason[OuterElement(status)]
    ELSE RelationReason[CrossRelation(status)]

TransitionReason(status) ==
    IF status = <<"kun", "kun">> THEN "rule_gap_requires_discovery"
    ELSE IF HardControl(status) THEN "sovereignty_fire_suppresses_asset"
    ELSE IF status[1] = "li" THEN "sovereignty_fire_boundary_halt"
    ELSE IF status = <<"gen", "kun">> THEN "mountain_contains_local_executor_fault"
    ELSE IF YangOverload(status) THEN "yang_overload_cooldown"
    ELSE IF RecoverySeed(status) THEN "network_water_preserves_resume_seed"
    ELSE IF YinExcess(status) /\ status[2] # "kun" /\ CrossRelation(status) = "same"
         THEN "yin_excess_requires_activation"
    ELSE PolicyReason(status)

----------------------------------------------------------------------------
(* What a code becomes after an event, and several codes together. *)

target_status_for_event(event) ==
    CASE event \in {"completed", "write_completed", "patch_completed"} -> <<"qian", "qian">>
      [] event \in {"skipped", "resumed_asset_ready"} -> <<"qian", "dui">>
      [] event \in {"http_timeout", "network_timeout"} -> <<"kan", "zhen">>
      [] event \in {"action_exception", "run_exception", "local_executor_fault"} ->
            <<"gen", "kun">>
      [] event \in {"sovereignty_breach", "permission_denied", "invalid_intent"} ->
            <<"li", "kun">>
      [] OTHER -> <<"kun", "kun">>
change_mask_for_event(code, event) == Xor(code, CodeOf(target_status_for_event(event)))
apply_event(code, event) == Xor(code, change_mask_for_event(code, event))
apply_balanced_event(code, event) == Xor(apply_event(code, event), balance_mask(code))

\* The outer trigrams are joined, the inner ones cut.
aggregate_status(codes) ==
    IF codes = <<>> THEN 0
    ELSE state_for_bits([i \in Lines |->
            IF i < 3 THEN Min({Line(codes[k], i) : k \in DOMAIN codes})
            ELSE Max({Line(codes[k], i) : k \in DOMAIN codes})])

\* The entropy of a share of yang lines is under one half outside of 0.110028
\* to 0.889972.
AllYang(codes) == MapThenSumSet(LAMBDA k : YangCount(codes[k]), DOMAIN codes)
LowEntropy(codes) ==
    LET all == 6 * Len(codes)
        yang == AllYang(codes)
    IN codes = <<>> \/ 1000000 * Min({yang, all - yang}) < 110028 * all

ROLLBACK_STATUS == 17
entropy_regulated_status(codes) ==
    IF LowEntropy(codes) /\ AllYang(codes) <= 3 * Len(codes) THEN ROLLBACK_STATUS
    ELSE aggregate_status(codes)

\* state_distribution_entropy of n codes, over that of as many distinct ones,
\* is more than one half: n^2n > distinct^n * the product of count^2count.
HighEntropy(codes) ==
    LET n == Len(codes)
        distinct == {codes[k] : k \in DOMAIN codes}
        count(code) == Cardinality({k \in DOMAIN codes : codes[k] = code})
    IN n^(2 * n) > Cardinality(distinct)^n
                     * FoldSet(LAMBDA code, product : product * count(code)^(2 * count(code)),
                               1, distinct)

entropy_gate_certificate(codes) ==
    LET actions == {Action(codes[k]) : k \in DOMAIN codes}
    IN CASE codes = <<>> \/ HighEntropy(codes) -> "observe"
         [] codes # <<>> /\ ~HighEntropy(codes) ->
               IF "halt" \in actions THEN "sovereignty_halt"
               ELSE IF "checkpoint" \in actions THEN "checkpoint" ELSE "continue"

hysteresis_gate(value, previous, low, high) ==
    IF value <= low THEN 0 ELSE IF value >= high THEN 1 ELSE previous

\* Of the line values 6, 7, 8 and 9, in sixteenths.
DAYAN_PROBABILITIES == <<1, 5, 7, 3>>

----------------------------------------------------------------------------
(* What is known to come in, and what becomes of it. *)

classify_resume_audit(status, reason) ==
    IF status = "ready" THEN <<"qian", "dui">>
    ELSE IF reason \in {"missing_file", "sha256_mismatch"} THEN <<"kan", "zhen">>
    ELSE <<"li", "kun">>

\* A skill found in the project or in the user's directories.
classify_skill_context(status, reason) ==
    CASE status = "blocked" \/ reason \in {"unsafe_executable_skill", "outside_project"} ->
            <<"li", "kun">>
      [] status = "warning" \/ reason \in {"invalid_manifest", "duplicate_name"} -> <<"kan", "gen">>
      [] status = "ok" -> <<"kan", "zhen">>
      [] OTHER -> <<"li", "kun">>

\* totality_samples: <<kind, status, reason>>, those that may go on and those
\* that are dangerous.
HarmlessSamples ==
    {<<"runtime", "completed", NoReason>>, <<"runtime", "skipped", "resumed_asset_ready">>,
     <<"resume", "ready", NoReason>>}
DangerousSamples ==
    ({"runtime"} \X {"halted"} \X
        {"sovereignty_breach", "invalid_intent", "self_audit_check_failed", "http_timeout",
         "action_exception", "run_exception", "resource_budget_exceeded"})
    \cup ({"runtime"} \X {"unknown"} \X {"malformed_input", "oversized_input"})
    \cup {<<"runtime", "denied", "permission_denied">>}
    \cup ({"resume"} \X {"ignored"} \X
        {"path_outside_workspace", "missing_file", "sha256_mismatch", "malformed_manifest",
         "invalid_checkpoint_evidence", "checkpoint_sha_mismatch"})
classify_known_input(sample) ==
    CodeOf(IF sample[1] = "resume" THEN classify_resume_audit(sample[2], sample[3])
           ELSE classify_outcome(sample[2], sample[3]))

GoesOn == {"continue", "accelerate", "activate"}
totality_certificate ==
    \A sample \in HarmlessSamples \cup DangerousSamples : classify_known_input(sample) \in Codes
safety_dominance_certificate ==
    \A sample \in DangerousSamples : Action(classify_known_input(sample)) \notin GoesOn
collision_risk_certificate ==
    \A harmless \in HarmlessSamples, dangerous \in DangerousSamples :
        classify_known_input(harmless) = classify_known_input(dangerous) =>
            Action(classify_known_input(harmless)) \notin GoesOn

----------------------------------------------------------------------------
(* The audit of the transitions. *)

\* Every code settles, and none of the ends is a cycle.
stability_analysis ==
    \A code \in Codes :
        /\ Cardinality(Attractor(transition_graph, code)) = 1
        /\ StepsToAttractor(transition_graph, code) <= 1
topology_certificate == \A code \in Codes : transition_graph[code] \in Codes
lyapunov_certificate ==
    \A code \in Codes : lyapunov_energy(transition_graph[code]) <= lyapunov_energy(code)
entropy_gate_probes ==
    /\ entropy_gate_certificate(<<40, 40, 40>>) = "sovereignty_halt"
    /\ entropy_gate_certificate(<<0, 40, 17, 63>>) = "observe"

math_audit ==
    /\ ziwei_mathematical_audit /\ iching_classical_correspondence_certificate
    /\ stability_analysis /\ topology_certificate /\ lyapunov_certificate /\ entropy_gate_probes
    /\ totality_certificate /\ safety_dominance_certificate /\ collision_risk_certificate

----------------------------------------------------------------------------
(* What the tests of the kernel ask of it besides (tests/test_iching_kernel.py),
   of every code. *)

\* The derived hexagrams: three involutions, and the nuclear one, which ends
\* within two steps in Kun, in Qian or in the cycle of Ji Ji and Wei Ji.
derived_hexagrams_certificate ==
    \A code \in Codes :
        /\ opposite_hexagram(opposite_hexagram(code)) = code
        /\ inverse_hexagram(inverse_hexagram(code)) = code
        /\ exchange_hexagram(exchange_hexagram(code)) = code
        /\ Attractor(Nuclear, code) \in {{0}, {63}, {21, 42}}
        /\ StepsToAttractor(Nuclear, code) <= 2

\* A mutation between two codes is undone by the same lines, and an event
\* takes every code to the event's own.
mutation_certificate ==
    /\ \A before \in Codes, after \in Codes :
          /\ mutate_lines(before, changed_lines(before, after)) = after
          /\ before # after => ChangedBands(before, after) # {}
    /\ \A code \in Codes, event \in {"completed", "skipped", "http_timeout", "run_exception",
                                     "permission_denied", "unknown"} :
          apply_event(code, event) = CodeOf(target_status_for_event(event))

\* Two ways of deriving the same thing: the elements by their order and by
\* their tables, the windows and the micro relations, the pressure and the
\* mask, the named pairs of elements and the policy of the transition.
profile_certificate ==
    /\ \A source \in Elements :
          /\ generate_element(source) = GENERATES[source] /\ control_element(source) = CONTROLS[source]
          /\ \A target \in Elements :
                element_relation(source, target) \in
                    {element_cross_relation(source, target), "neutral"}
    /\ \A code \in Codes :
          LET relations == micro_relations(code) IN
          /\ relations.cheng + relations.sheng + relations.bi = 5
          /\ relations.bi = SymbolCount(code, {"tai_yin", "tai_yang"})
          /\ balance_mask(code) = 32 => balance_pressure(code) = "cooldown"
          /\ balance_mask(code) = 1 => balance_pressure(code) = "activate"
          /\ Amplified(code) => YangCount(code) # 3
          /\ (Modulation(code) = "recovery_seed") = RecoverySeed(StatusOf(code))
          /\ Modulation(code) \in {"quench", "prune", "dam", "break_ground"} =>
                harmony_score(code) = -1
          /\ diagnostic_sihua(code) = "ji" => pattern_state(code) = "broken"
    /\ {code \in Codes : FoundationBroken(code)} = {10, 23, 52, 53, 54, 55}
    /\ Cardinality({code \in Codes : pattern_state(code) = "broken"}) = 15
    /\ Cardinality({code \in Codes : pattern_state(code) = "reinforced"}) = 17
    /\ DAYAN_PROBABILITIES[1] + DAYAN_PROBABILITIES[3] = DAYAN_PROBABILITIES[2] + DAYAN_PROBABILITIES[4]

\* A code of the old schema becomes one that converts back, and another one
\* exactly when a trigram of it is in the scopes reported.
migration_certificate ==
    \A code \in Codes :
        /\ convert_status(convert_status(code, "v1", "v2"), "v2", "v1") = code
        /\ (convert_status(code, "v1", "v2") = code) = (affected_scopes(code, "v1") = {})

\* A reason that a transition gave comes back as an outcome that has the same
\* transition and gives the same reason.
reasons_come_back ==
    \A status \in StatusCodes : TransitionReason(status) \in DOMAIN ScheduleStatus =>
        LET back == classify_outcome("halted", TransitionReason(status)) IN
        /\ TransitionReason(back) = TransitionReason(status)
        /\ TransitionAction(back) = TransitionAction(status)

\* The run control of one outcome stops where its own transition stops.
run_control_agrees ==
    \A sample \in HarmlessSamples \cup DangerousSamples :
        LET code == classify_known_input(sample)
        IN Dispatches(Action(entropy_regulated_status(<<code>>))) = Dispatches(Action(code))
=============================================================================
