---------------------------- MODULE ZiweiRuntime ----------------------------
(***************************************************************************)
(* What hexagram_ziwei_a.py makes of a run's turn, status code and         *)
(* signals: the size of the task, the formation it is in, the brightness   *)
(* that permits or forbids, the relief of its faults.  Operators only;     *)
(* ZiweiGovernance runs a task under them.                                 *)
(*                                                                         *)
(* Energies and factors are whole numbers of a unit named at each; "yes",  *)
(* "no" and "unknown" are the values of verifier_passed.                   *)
(***************************************************************************)
EXTENDS ZiweiChart

\* _evaluate_task_bureau, from the scale of a task (log of its lines times
\* the root of its files) in hundredths.
BureauOf(scale) ==
    IF scale < 400 THEN 2 ELSE IF scale < 800 THEN 3
    ELSE IF scale < 1400 THEN 4 ELSE IF scale < 2200 THEN 5 ELSE 6
Bureaus == 2..6
TurnBudget(bureau) == <<0, 3, 4, 5, 6, 8>>[bureau]
TimeoutSeconds(bureau) == <<0, 45, 60, 90, 120, 180>>[bureau]
PreviewLimit(bureau) == <<0, 4000, 6000, 8000, 10000, 14000>>[bureau]
RepairFileLimit(bureau) == <<0, 6, 8, 10, 12, 16>>[bureau]

\* _evaluate_self_sihua, of a turn with its count of modified files, whether
\* it ran tests and passed, its action, whether it has a traceback and what
\* it read, after the turns recent.
IdleTurn(turn) == turn.modified = 0 /\ ~turn.tested
SelfSihua(turn, recent) ==
    {tag \in {"ji", "lu", "quan", "ke"} :
        \/ tag = "ji" /\ IdleTurn(turn)
           /\ \E i \in DOMAIN recent : i > Len(recent) - 2 /\ IdleTurn(recent[i])
        \/ tag = "lu" /\ turn.action \in {"complete", "continue", "finish"}
                      /\ turn.modified = 0 /\ ~turn.passed
        \/ tag = "quan" /\ turn.modified > 8
        \/ tag = "ke" /\ turn.action \in {"audit", "checkpoint"}
                      /\ ~turn.traced /\ turn.read}

\* _evaluate_causal_origin: the last turn that modified a file the traceback
\* names, as the turn to go back to; NoOrigin when there is none.
NoOrigin == -1
RollbackPoint(named, history) ==
    LET Guilty == {i \in DOMAIN history : history[i].files \cap named # {}}
        last == CHOOSE i \in Guilty : \A j \in Guilty : j <= i
    IN IF Guilty = {} THEN NoOrigin
       ELSE IF history[last].id > 1 THEN history[last].id - 1 ELSE 0

----------------------------------------------------------------------------
(* The formations of a run, with the signals it gives: ast_valid, budget_ok,
   verified, environment_ok, read_stalls, syntax_errors, undefined, fatal,
   repair_stalls. *)

Asleep(code) == Hexagram(code) \in {0, 32}

\* _evaluate_triad_consensus, of the four points of the square.
TriadLevel(code, s) ==
    LET ming == s.ast_valid /\ ~Asleep(code)
        guan == s.verified = "yes"
    IN IF ~guan /\ ~s.budget_ok THEN "broken"
       ELSE IF ~s.environment_ok THEN "caution"
       ELSE IF guan /\ ming /\ s.budget_ok THEN "excellent"
       ELSE IF guan /\ ming THEN "reinforced"
       ELSE IF ~guan THEN "caution" ELSE "balanced"

\* _evaluate_ziwei_pattern: the first formation that holds.
ZiweiPattern(code, s) ==
    IF s.verified = "no" /\ ~s.budget_ok THEN "switch_to_surgical_diff"
    ELSE IF s.fatal THEN "rollback"
    ELSE IF s.syntax_errors >= 2 /\ s.verified # "yes" THEN "cooldown"
    ELSE IF s.undefined > 0 THEN "reanchor"
    ELSE IF ~s.environment_ok THEN "retry"
    ELSE IF s.read_stalls >= 2 THEN "synthesize"
    ELSE IF s.verified = "no" /\ s.repair_stalls >= 1 THEN "pivot_hypothesis"
    ELSE IF s.verified = "no" THEN "repair"
    ELSE IF s.ast_valid /\ s.budget_ok /\ s.verified = "yes" /\ Hexagram(code) = 63 THEN "commit"
    ELSE IF s.ast_valid /\ s.budget_ok /\ s.verified = "yes" THEN "approve"
    ELSE "continue"
LevelOfPattern(action) ==
    IF action \in {"switch_to_surgical_diff", "cooldown"} THEN "broken"
    ELSE IF action = "rollback" THEN "critical"
    ELSE IF action = "commit" THEN "excellent"
    ELSE IF action = "approve" THEN "reinforced"
    ELSE IF action = "continue" THEN "balanced" ELSE "caution"

\* _evaluate_shen_gong_anchorage: where a run in trouble shelters.
Anchorage(s, tests_exist, risks) ==
    IF s.verified = "no" \/ (tests_exist /\ s.verified = "unknown" /\ ~s.ast_valid) THEN 8
    ELSE IF ~s.budget_ok THEN 4
    ELSE IF ~s.environment_ok THEN 6
    ELSE IF "architecture" \in risks THEN 10
    ELSE IF "interop" \in risks THEN 2 ELSE 0

\* _evaluate_temporal_superposition: what an error means at a macro stage.
SuperposedAction(stage, code, failed) ==
    IF ~failed /\ ~Asleep(code)
    THEN [exploration |-> "discover", implementation |-> "continue",
          verification |-> "checkpoint", delivery |-> "halt"][stage]
    ELSE [exploration |-> "discover", implementation |-> "repair",
          verification |-> "rollback", delivery |-> "rollback"][stage]

----------------------------------------------------------------------------
(* The energy of a code, and the brightness that permits. *)

\* In 1/300.
Bandwidth(code) ==
    IF /\ OuterElement(StatusOf(code)) # InnerElement(StatusOf(code))
       /\ <<OuterElement(StatusOf(code)), InnerElement(StatusOf(code))>> \in
             {<<"metal", "wood">>, <<"wood", "water">>, <<"wood", "earth">>, <<"water", "metal">>,
              <<"water", "fire">>, <<"fire", "metal">>, <<"earth", "fire">>}
    THEN 0 ELSE 300
ActionPenalty ==
    [continue |-> 0, recover |-> 0, accelerate |-> 30, activate |-> 60, cooldown |-> 105,
     throttle |-> 135, prune |-> 165, checkpoint |-> 225, discover |-> 255, halt |-> 300]
lyapunov_energy(code) ==
    LET off == YangCount(code) - 3 IN
    (IF off < 0 THEN -off ELSE off) * 100 + ActionPenalty[TransitionAction(StatusOf(code))]
        + 300 - Bandwidth(code)

\* _evaluate_star_brightness, level "none" when no formation is given.
Brightness(code, level) ==
    IF level \in {"broken", "critical"} \/ lyapunov_energy(code) > 480 \/ Asleep(code) THEN "dim"
    ELSE IF level = "excellent" \/ lyapunov_energy(code) <= 180 THEN "bright" ELSE "normal"
GovernanceMode(code, level) ==
    [dim |-> "degraded", normal |-> "guarded", bright |-> "autonomous"][Brightness(code, level)]
PermittedActions(mode) ==
    CASE mode = "degraded" -> {"read", "diagnose", "minimal_patch"}
      [] mode = "guarded" -> {"read", "patch", "test"}
      [] mode = "autonomous" -> {"read", "write", "patch", "bash", "commit"}

\* _evaluate_star_dynamic_energy, in tenths: what helps, less what harms.
LuckyEnergy(consensus, s, cached, duration) ==
    (IF consensus >= 75 THEN 10 ELSE IF consensus >= 50 THEN 5 ELSE 0)
    + (IF s.ast_valid /\ s.syntax_errors = 0 /\ s.undefined = 0 THEN 10
       ELSE IF s.ast_valid THEN 5 ELSE 0)
    + (IF s.environment_ok THEN 10 ELSE 0)
    + (IF cached \/ duration < 50 THEN 10 ELSE IF duration < 200 THEN 5 ELSE 0)
ShaWeight == [qing_yang |-> 15, tuo_luo |-> 15, tuo_luo_once |-> 8, huo_xing |-> 12,
              ling_xing |-> 12, di_kong |-> 10, di_jie |-> 10]
EnergyState(differential) ==
    IF differential >= 10 THEN "harmonic_dominance"
    ELSE IF differential >= -5 THEN "guarded_equilibrium" ELSE "sha_overload"

\* _evaluate_triadic_synthesis, in hundredths.
\* The code adds floats: a sum of exactly 240 comes out below 0.80.
TianPotential(code) == IF YangCount(code) >= 6 THEN 100 ELSE 40 + 10 * YangCount(code)
DiPotential(environment_ok, path_ok) == IF environment_ok /\ path_ok THEN 100 ELSE 20
RenPotential(verified, ast_valid, surgical) ==
    IF verified = "yes" /\ ast_valid THEN 100
    ELSE IF verified = "no" THEN (IF surgical THEN 30 ELSE 10)
    ELSE IF ~ast_valid THEN 20 ELSE (IF surgical THEN 75 ELSE 50)
TriadicSum(code, environment_ok, path_ok, verified, ast_valid, surgical) ==
    TianPotential(code) + DiPotential(environment_ok, path_ok)
        + RenPotential(verified, ast_valid, surgical)
TriadicRegime(sum) ==
    IF sum > 240 THEN "triadic_harmony"
    ELSE IF sum >= 165 THEN "dialectical_equilibrium" ELSE "physical_remediation"

----------------------------------------------------------------------------
(* _evaluate_jie_shen_relief: at most two faults, on a retry one, are
   relieved, first in the order of their names. *)

ShaStars == <<"di_jie", "di_kong", "huo_xing", "ling_xing", "qing_yang", "tuo_luo">>
ShaOfScenario(scenario) ==
    CASE scenario \in {"resume_conflict", "write_collision"} -> {"qing_yang"}
      [] scenario \in {"deadlock", "no_progress", "read_stall"} -> {"tuo_luo"}
      [] scenario \in {"verifier_failure", "provider_failure"} -> {"huo_xing"}
      [] scenario \in {"syntax_error", "config_partial_invalid"} -> {"ling_xing"}
      [] scenario = "resource_budget_exceeded" -> {"di_jie"}
      [] OTHER -> {}
Damping(attempt) == IF attempt <= 1 THEN 75 ELSE IF attempt = 2 THEN 60
                    ELSE IF attempt = 3 THEN 45 ELSE 40
Neutralized(sha, attempt) ==
    {ShaStars[i] : i \in {j \in DOMAIN ShaStars :
        /\ ShaStars[j] \in sha
        /\ Cardinality({k \in 1..j : ShaStars[k] \in sha}) <= (IF attempt <= 1 THEN 2 ELSE 1)}}
ReliefAction(sha, attempt) ==
    LET calmed == Neutralized(sha, attempt) IN
    IF calmed = {} /\ sha # {} THEN "sovereignty_halt"
    ELSE IF "tuo_luo" \in calmed THEN "force_micro_patch"
    ELSE IF "qing_yang" \in calmed THEN "sandbox_quarantine_retry"
    ELSE IF "huo_xing" \in calmed THEN "cooldown_and_retry"
    ELSE IF "ling_xing" \in calmed THEN "ast_trace_inspect"
    ELSE IF "di_jie" \in calmed THEN "compact_and_continue"
    ELSE "rollback_checkpoint"

\* _evaluate_twelve_deities, for an anchor or, without one, for the turn's.
DeityDirective(palace, anchor) ==
    LET sui == SuiShen(palace, anchor) IN
    IF sui = "suipo" THEN "barrier_synchronization_isolate_subtask"
    ELSE IF sui = "baihu" THEN "exception_quarantine_rollback"
    ELSE IF sui = "guansuo" THEN "break_circular_dependency"
    ELSE IF sui \in {"tiande", "longde"} THEN "baseline_guarded_continue"
    ELSE IF JiangShen(palace, anchor) \in {"jiangxing", "panan"} THEN "accelerate_direct_dispatch"
    ELSE "standard_pipeline"

----------------------------------------------------------------------------
(* _evaluate_flying_sihua_cascade: where the stars a turn's stem, a stage's
   stem and the baseline transform fall, seen from the active palace. *)

StarPalace(star, active) == On(active + STAR_CANONICAL_INDEX[star])
FlyingAction(turn, code, stage) ==
    LET stem == TurnIndex(turn) % 10
        active == On(code)
        turnJi == StarPalace(Ji(stem), active)
        stageJi == StarPalace(Ji(STAGE_STEM_TABLE[stage]), active)
    IN IF turnJi = stageJi THEN "cascade_halt_quarantine"
       ELSE IF Opposite(active) \in {turnJi, stageJi} THEN "isolate_external_boundary"
       ELSE IF Opposite(StarPalace(Lu(stem), active)) = turnJi THEN "rollback_corrupted_gain"
       ELSE IF turnJi = active THEN "force_micro_patch"
       ELSE IF \A star \in {Lu(stem), Quan(stem), Ke(stem)} :
                  StarPalace(star, active) \in Square(active) THEN "autonomous_high_throughput"
       ELSE "standard_pipeline"
FlyingDamping(action) ==
    CASE action = "cascade_halt_quarantine" -> 25
      [] action \in {"isolate_external_boundary", "rollback_corrupted_gain"} -> 50
      [] action = "force_micro_patch" -> 65
      [] action = "standard_pipeline" -> 85
      [] action = "autonomous_high_throughput" -> 100

\* _evaluate_yang_tuo_clamping, around the lu cun of the turn's stem.
ClampAction(turn, code, has_ji) ==
    LET stem == TurnIndex(turn) % 10 IN
    IF On(code) = LuCun(stem)
    THEN IF has_ji THEN "break_deadlock_clamp_with_micro_patch" ELSE "preserve_sheltered_gain"
    ELSE IF On(code) = QingYang(stem) THEN "suppress_cutting_edge_overwrite"
    ELSE IF On(code) = TuoLuo(stem) THEN "accelerate_lagging_execution" ELSE "standard_pipeline"
=============================================================================
