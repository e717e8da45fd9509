---------------------------- MODULE ZiweiPatterns ----------------------------
(***************************************************************************)
(* The formations a run falls into, how the bright stars and the harmful   *)
(* ones qualify them, and the illnesses, channels and pressures a status   *)
(* code stands for (hexagram_ziwei_b.py, _c.py, _d.py).  Operators only.   *)
(*                                                                         *)
(* Scores and damping factors are in hundredths.                           *)
(***************************************************************************)
EXTENDS ZiweiStars

(* _detect_breaking_patterns and _detect_auspicious_patterns, of a ming
   palace, a code and the signals of a run. *)
BreakingPatterns(s) ==
    {p \in {"lingchang_tuowu", "yangtuo_jiaji", "huoling_jiaming", "kongjie_jiaming",
            "huaji_ru_qianyi", "zi_huaji", "huaji_ru_guanlu"} :
        \/ p = "lingchang_tuowu" /\ s.fatal
        \/ p = "yangtuo_jiaji"   /\ ~s.verified /\ ~s.budget_ok
        \/ p = "huoling_jiaming" /\ s.syntax_errors >= 2
        \/ p = "kongjie_jiaming" /\ s.undefined >= 1
        \/ p = "huaji_ru_qianyi" /\ ~s.environment_ok
        \/ p = "zi_huaji"        /\ s.read_stalls >= 2
        \/ p = "huaji_ru_guanlu" /\ ~s.verified /\ ~s.fatal /\ s.budget_ok}
SupremePatterns(ming, code, s) ==
    {p \in {"zifu_tonggong", "junchen_qinghui", "fuxiang_chaoyuan", "sanqi_jiahui"} :
        /\ s.ast_valid /\ s.budget_ok /\ s.verified /\ s.environment_ok
        /\ \/ p = "zifu_tonggong"    /\ ming \in {2, 8} /\ Hexagram(code) \in {7, 56}
           \/ p = "junchen_qinghui"  /\ ming \in {2, 6, 8} /\ Hexagram(code) = 63
           \/ p = "fuxiang_chaoyuan" /\ ming \in {0, 4, 8}
           \/ p = "sanqi_jiahui"     /\ Hexagram(code) = 63}
HarmonicPatterns(ming, s) ==
    {p \in {"riyue_tonggong", "juri_tonggong", "kequan_shuanghui"} :
        /\ s.ast_valid /\ s.environment_ok
        /\ \/ p = "riyue_tonggong"   /\ ming \in {1, 7}
           \/ p = "juri_tonggong"    /\ ming \in {2, 8} /\ s.verified
           \/ p = "kequan_shuanghui" /\ s.verified /\ s.budget_ok}

\* _evaluate_classical_patterns: one breaking formation overrules the rest.
CompositeLevel(ming, code, s) ==
    IF BreakingPatterns(s) # {} THEN "caution"
    ELSE IF SupremePatterns(ming, code, s) # {} THEN "excellent"
    ELSE IF HarmonicPatterns(ming, s) # {} THEN "good" ELSE "neutral"
Directive(level) == [caution |-> "defensive_minimal_diff_and_step_freeze",
                     excellent |-> "high_speed_autonomous_pipeline",
                     good |-> "standard_assisted_pipeline",
                     neutral |-> "guarded_step_verifier"][level]

\* The signals a caller who gives none of them is taken to have.
Sound == [fatal |-> FALSE, verified |-> TRUE, budget_ok |-> TRUE, syntax_errors |-> 0,
          undefined |-> 0, environment_ok |-> TRUE, read_stalls |-> 0, ast_valid |-> TRUE]

\* _evaluate_full_palace_patterns, over the twelve palaces.
Equilibrium(s) ==
    LET broken == Cardinality({p \in Branches : BreakingPatterns(s) # {}}) IN
    IF broken = 0 THEN "stable" ELSE IF broken <= 2 THEN "cautious" ELSE "critical"

----------------------------------------------------------------------------
(* _evaluate_expanded_classical_patterns: more formations, from where the
   stars stand, listed after those above.  The action recommended is the one
   of the first of the list, the level that of the gravest. *)

BaseOrder == << <<"lingchang_tuowu", "rollback">>,
                <<"yangtuo_jiaji", "switch_to_surgical_unified_diff">>,
                <<"huoling_jiaming", "cooldown">>, <<"kongjie_jiaming", "reanchor">>,
                <<"huaji_ru_qianyi", "retry">>, <<"zi_huaji", "synthesize">>,
                <<"huaji_ru_guanlu", "repair">>,
                <<"zifu_tonggong", "high_speed_autonomous_pipeline">>,
                <<"junchen_qinghui", "autonomous_commit">>,
                <<"fuxiang_chaoyuan", "standard_assisted_pipeline">>, <<"sanqi_jiahui", "commit">>,
                <<"riyue_tonggong", "dual_plane_assisted">>,
                <<"juri_tonggong", "guided_step_verifier">>,
                <<"kequan_shuanghui", "standard_assisted_pipeline">> >>
ExtraOrder == << <<"yangliang_changlu", "academic_linter_authoritative_cert">>,
                 <<"huotan", "burst_acceleration_dispatch">>,
                 <<"wutan", "endurance_refactor_delayed_success">>,
                 <<"shizhong_yinyu", "deep_domain_specialist_inspection">>,
                 <<"mingzhu_chuhai", "cross_boundary_holistic_convergence">>,
                 <<"matou_daijian", "decisive_boundary_strike_and_sandbox">>,
                 <<"lianshayang", "strict_minimal_diff_conflict_quarantine">>,
                 <<"juhuoyang", "gentle_linter_deescalate_contention">>,
                 <<"fubi_jiaming", "collaborative_pair_shield">> >>
ExtraPatterns(turn, code) ==
    LET ming == On(turn - 1)
        h == Hexagram(code)
        Faces(star) == Position(star, h) \in Square(ming)
        Holds == [yangliang_changlu |-> Faces("taiyang") /\ Faces("tianliang") /\ h = 7,
                  huotan |-> Faces("tanlang") /\ h \in {7, 11, 19, 34},
                  wutan |-> {Position("wuqu", h), Position("tanlang", h)} \subseteq {1, 7},
                  shizhong_yinyu |-> ming \in {0, 6} /\ Position("jumen", h) = ming /\ h # 0,
                  mingzhu_chuhai |-> /\ ming = 7
                                     /\ {Position("taiyang", h), Position("taiyin", h)} = {1},
                  matou_daijian |-> ming = 6 /\ h \in {0, 32, 40},
                  lianshayang |-> Faces("lianzhen") /\ Faces("qisha") /\ h = 0,
                  juhuoyang |-> Faces("jumen") /\ h \in {0, 40},
                  fubi_jiaming |-> {On(ming - 1), On(ming + 1)} = {On(3 + turn), On(11 - turn)}]
    IN {p \in DOMAIN Holds : Holds[p]}
ExtraBreaking == {"matou_daijian", "lianshayang", "juhuoyang"}
ExtraSupreme == {"yangliang_changlu", "shizhong_yinyu", "mingzhu_chuhai", "fubi_jiaming"}

ExpandedLevel(turn, code, s) ==
    LET extra == ExtraPatterns(turn, code) IN
    IF BreakingPatterns(s) # {} \/ extra \cap ExtraBreaking # {} THEN "caution"
    ELSE IF SupremePatterns(On(turn - 1), code, s) # {} \/ extra \cap ExtraSupreme # {}
    THEN "excellent" ELSE "good"
RecommendedAction(turn, code, s) ==
    LET found == BreakingPatterns(s) \cup SupremePatterns(On(turn - 1), code, s)
                   \cup HarmonicPatterns(On(turn - 1), s) \cup ExtraPatterns(turn, code)
        all == BaseOrder \o ExtraOrder
        Found == {i \in DOMAIN all : all[i][1] \in found}
    IN IF Found = {} THEN "standard_step" ELSE all[Min(Found)][2]

----------------------------------------------------------------------------
(* _evaluate_pattern_breaking_matrix, of the default formation, which every
   harmful star can break; in hundredths, rounded down. *)

Shas(code) == {sha \in {"qingyang", "dikong", "huaji"} :
                  \/ sha = "qingyang" /\ code % 2 = 1
                  \/ sha = "dikong"   /\ (code \div 2) % 2 = 1
                  \/ sha = "huaji"    /\ (code \div 4) % 2 = 1}
HealthOf(hits, bonus, relief) ==
    (100 * (100 + 15 * bonus)) \div (100 + (IF relief THEN 30 ELSE 40) * hits)
FormationHealth(code, relief) ==
    HealthOf(Cardinality(Shas(code)), (code \div 8) % 2, relief)
ExecutionPosture(code, relief) ==
    IF FormationHealth(code, relief) >= 100 THEN "intact_full_execution"
    ELSE IF FormationHealth(code, relief) >= 60 THEN "partially_broken_degraded"
    ELSE "severely_broken_quarantine"

(* _evaluate_quanshu_star_brightness: the mean of the stars around ming. *)
QUANSHU_BRIGHTNESS_WEIGHTS ==
    [miao |-> 100, wang |-> 90, de |-> 80, li |-> 75, ping |-> 65, bu |-> 45, xian |-> 25]
QUANSHU_FOURTEEN_STARS_BRIGHTNESS ==
    LET A == "miao" B == "wang" C == "de" D == "li" E == "ping" F == "bu" G == "xian" IN
    [ziwei     |-> <<E, A, A, B, C, B, A, A, B, B, C, B>>,
     tianji    |-> <<A, G, C, B, A, E, A, G, C, B, A, E>>,
     taiyang   |-> <<G, F, B, A, B, B, A, C, C, G, F, G>>,
     wuqu      |-> <<B, A, C, D, A, E, B, A, C, D, A, E>>,
     tiantong  |-> <<B, F, B, E, E, A, F, F, B, E, E, A>>,
     lianzhen  |-> <<E, D, A, E, D, G, E, D, A, E, D, G>>,
     tianfu    |-> <<A, A, A, C, B, C, B, A, C, B, B, C>>,
     taiyin    |-> <<A, A, G, G, G, G, G, F, D, B, B, A>>,
     tanlang   |-> <<E, A, F, E, C, E, E, A, F, E, C, D>>,
     jumen     |-> <<B, F, A, A, G, B, B, F, A, A, G, B>>,
     tianxiang |-> <<A, A, A, E, C, C, A, C, A, E, C, C>>,
     tianliang |-> <<A, B, A, C, A, G, A, B, G, C, C, G>>,
     qisha     |-> <<B, A, A, B, A, E, B, A, A, B, A, E>>,
     pojun     |-> <<A, B, C, G, B, E, A, B, C, G, B, E>>]
StarScore(star, code) ==
    QUANSHU_BRIGHTNESS_WEIGHTS[At(QUANSHU_FOURTEEN_STARS_BRIGHTNESS[star], Position(star, code))]
GovernanceTier(code, ming) ==
    LET Seen == {star \in Majors : Position(star, code) \in Square(ming)}
        Score(star) == StarScore(star, code)
        total == MapThenSumSet(Score, Seen)
    IN IF Seen = {} THEN "cautious_xian"
       ELSE IF total >= 85 * Cardinality(Seen) THEN "supreme_miao"
       ELSE IF total >= 70 * Cardinality(Seen) THEN "balanced_wang_de" ELSE "cautious_xian"
Illumination(tier) ==
    [supreme_miao |-> 100, balanced_wang_de |-> 80, cautious_xian |-> 40][tier]

----------------------------------------------------------------------------
(* Illnesses.  An error is the kind of its text that a keyword tells. *)

\* _evaluate_system_pathology
PathologyByError == [syntax |-> <<"metal", 90>>, deadlock |-> <<"wood", 85>>,
                     memory |-> <<"water", 80>>, loop |-> <<"fire", 75>>, cache |-> <<"earth", 65>>]
Pathology(code, error) ==
    IF error \in DOMAIN PathologyByError THEN PathologyByError[error]
    ELSE IF code = 0 THEN <<"metal", 85>>
    ELSE IF code \in {40, 42} THEN <<"fire", 70>>
    ELSE IF code \in {17, 29} THEN <<"water", 75>>
    ELSE IF code \in {32, 52} THEN <<"earth", 60>>
    ELSE IF code \in {49, 51} THEN <<"wood", 60>>
    ELSE IF code = 7 THEN <<"balanced", 0>>
    ELSE <<At(<<"water", "wood", "fire", "earth", "metal">>, code % 5), 50>>
PathologyDamping ==
    [fire |-> 50, wood |-> 40, earth |-> 60, metal |-> 25, water |-> 35, balanced |-> 100]
PathologyEquilibrium(p) ==
    IF p[1] = "balanced" THEN "optimal" ELSE IF p[2] >= 80 THEN "degraded" ELSE "cautious"

\* _evaluate_six_channel_healing
Channels == <<"taiyang", "yangming", "shaoyang", "taiyin", "shaoyin", "jueyin">>
ChannelByError == [deadlock |-> "jueyin", panic |-> "shaoyin", stall |-> "taiyin",
                   memory |-> "yangming", agent |-> "shaoyang", syntax |-> "taiyang"]
Channel(code, error) ==
    IF code = 7 /\ error = "none" THEN "harmonious"
    ELSE IF error \in DOMAIN ChannelByError THEN ChannelByError[error] ELSE At(Channels, code % 6)
Severity == [harmonious |-> 0, taiyang |-> 20, shaoyang |-> 40, yangming |-> 50,
             taiyin |-> 60, shaoyin |-> 80, jueyin |-> 95]
ChannelDamping == [harmonious |-> 100, taiyang |-> 85, shaoyang |-> 70, yangming |-> 50,
                   taiyin |-> 60, shaoyin |-> 30, jueyin |-> 20]
ChannelEquilibrium(channel) ==
    IF channel = "harmonious" THEN "optimal" ELSE IF Severity[channel] >= 80 THEN "critical"
    ELSE IF Severity[channel] >= 50 THEN "degraded" ELSE "cautious"

\* _evaluate_partner_star_contract: how many may work at once.
ConcurrencyLimit ==
    [ziwei |-> 4, tianji |-> 3, taiyang |-> 5, wuqu |-> 2, tiantong |-> 4, lianzhen |-> 1,
     tianfu |-> 3, taiyin |-> 3, tanlang |-> 4, jumen |-> 2, tianxiang |-> 4, tianliang |-> 2,
     qisha |-> 1, pojun |-> 1]
\* _evaluate_sandbox_fengshui: the essentials that hold.
Fengshui(essentials) ==
    CASE Cardinality(essentials) = 3 -> "auspicious_secure"
      [] Cardinality(essentials) = 2 -> "guarded_warning"
      [] OTHER -> "breached_critical"
\* _evaluate_palace_as_star_and_ingress
SensitivePalaces == {0, 5, 8, 9}
IngressDamped(branch) == On(branch) \in SensitivePalaces

----------------------------------------------------------------------------
(* _evaluate_systemic_parameter_coupling: the pressure of a code's yang lines,
   and the parameters a code stands for when none are given. *)

Pressure(code) ==
    IF YangCount(code) >= 5 THEN "yang_overload_cooldown_governance"
    ELSE IF YangCount(code) <= 1 THEN "yin_excess_checkpoint_preservation"
    ELSE "harmonic_elemental_equilibrium"
PressureMode(code) ==
    IF Pressure(code) = "harmonic_elemental_equilibrium" THEN "autonomous" ELSE "degraded"
BudgetDamping(code) == IF YangCount(code) >= 5 THEN 85 ELSE 100
ForceSync(code) == YangCount(code) <= 1
Parameters(code) ==
    LET h == Hexagram(code) IN
    [stem |-> (h \div 8) % 10, branch |-> On(h), month |-> On(h) + 1,
     day |-> (h % 30) + 1, hour |-> On(h \div 2)]
=============================================================================
