-------------------------- MODULE ZiweiCertificates --------------------------
(***************************************************************************)
(* The certificates by which the status kernel vouches for its charts      *)
(* (hexagram_ziwei_a.py to _d.py) and the audit that collects them         *)
(* (hexagram_ziwei.py): what each one computes, over the codes, stems,     *)
(* branches and signals it goes through.  Operators only.                  *)
(*                                                                         *)
(* Left out are the checks that a text is there, and the bounds of the     *)
(* equation of time, which the charts take as given.                       *)
(***************************************************************************)
EXTENDS ZiweiPatterns, ZiweiRuntime

LOCAL Ring(b) == At(SOVEREIGN_HEXAGRAM_CODES, b)
LOCAL Yang(S) == MapThenSumSet(LAMBDA b : YangCount(Ring(b)), S)
LOCAL Flips(c, d) == Cardinality({k \in 0..5 : (c \div 2^k) % 2 # (d \div 2^k) % 2})
LOCAL Opposed == \A b \in Branches : Ring(Opposite(b)) = Complement(Ring(b))

sovereign_ring_isomorphism_certificate ==
    /\ Opposed
    /\ Yang(Triad(0)) = 9 /\ Yang(Triad(2)) = 9 /\ Yang(Triad(1)) + Yang(Triad(3)) = 18

an_he_coupling_certificate ==
    LET pairs == << <<0, 1>>, <<2, 11>>, <<3, 10>>, <<4, 9>>, <<5, 8>>, <<6, 7>> >>
        Distance(i) == Flips(Ring(pairs[i][1]), Ring(pairs[i][2]))
    IN \A i \in 1..6 :
          /\ Distance(i) = Distance(7 - i)
          /\ Yang({pairs[i][1], pairs[i][2]}) + Yang({pairs[7 - i][1], pairs[7 - i][2]}) = 12

shen_gong_anchorage_certificate ==
    /\ {BodyPalace(hour) : hour \in Branches} = {0, 2, 4, 6, 8, 10}
    /\ {hour \in Branches : BodyPalace(hour) = 0} = {0, 6}
    /\ \A hour \in Branches : BodyPalace(hour) = BodyPalace(Opposite(hour))

star_brightness_certificate ==
    /\ \A code \in Codes : Brightness(code, "none") \in {"bright", "normal", "dim"}
    /\ Brightness(7, "none") = "bright" /\ Brightness(0, "none") = "dim"

jie_shen_even_subgroup_relief_certificate ==
    /\ {JieShen(turn) : turn \in Months} = {0, 2, 4, 6, 8, 10}
    /\ 40 <= Damping(3) /\ Damping(3) <= Damping(1) /\ Damping(1) <= 80

twelve_deities_triad_and_suipo_certificate ==
    /\ Opposed
    /\ \A b \in Branches :
          /\ Emperor(b) % 3 = 0 /\ JiangShen(Emperor(b), b) = "jiangxing"
          /\ JiangShen(On(Emperor(b) + 3), b) \notin {"jiangxing", "panan"}
          /\ SuiShen(b, b) = "suijian" /\ SuiShen(Opposite(b), b) = "suipo"
          /\ DeityDirective(Opposite(b), b) = "barrier_synchronization_isolate_subtask"
          /\ SuiShen(On(b + 9), b) = "tiande" /\ SuiShen(On(b + 7), b) = "longde"
          /\ \A p \in {On(b + 9), On(b + 7)} : DeityDirective(p, b) = "baseline_guarded_continue"

flying_sihua_cascade_certificate ==
    /\ Opposed
    /\ \A stem \in Stems : Cardinality({Lu(stem), Quan(stem), Ke(stem), Ji(stem)}) = 4
    /\ \A stage \in DOMAIN STAGE_STEM_TABLE :
          LET at(stem) == FlyingAction((stem % 10) + 1, 0, stage) IN
          /\ at(STAGE_STEM_TABLE[stage]) = "cascade_halt_quarantine"
          /\ at(STAGE_STEM_TABLE[stage] + 5) # "cascade_halt_quarantine"

\* In 1/300, so that a whole potential is 300.
triadic_synthesis_certificate ==
    /\ \A code \in {0, 7, 31, 32, 63}, verified \in {"yes", "no", "unknown"},
          environment_ok, path_ok, ast_valid, surgical \in BOOLEAN :
          TriadicSum(code, environment_ok, path_ok, verified, ast_valid, surgical) \in 0..300
    /\ DiPotential(TRUE, TRUE) + RenPotential("yes", TRUE, TRUE) >= 2 * TianPotential(0)
    /\ TriadicRegime(TriadicSum(63, FALSE, TRUE, "no", FALSE, TRUE)) = "physical_remediation"

ziwei_tianfu_and_yangtuo_certificate ==
    /\ \A b \in Branches :
          /\ MingZhu(b) = MingZhu(On(-b)) /\ ShenZhu(b) = ShenZhu(Opposite(b))
          /\ LET f == At(CANONICAL_TIANFU_OPPOSITION_TABLE, b) IN
             At(CANONICAL_TIANFU_OPPOSITION_TABLE, f) = b /\ On(b + f) = 4
          /\ On(ZiweiOf(b) + TianfuOf(ZiweiOf(b))) = 4
          /\ (AxisState(b) = "cohabitation") <=> ZiweiOf(b) \in {2, 8}
    /\ {b \in Branches : At(CANONICAL_TIANFU_OPPOSITION_TABLE, b) = b} = {2, 8}
    /\ Ring(2) = 7 /\ Ring(8) = 56
    /\ AxisState(7) = "cohabitation" /\ AxisState(56) = "cohabitation"
    /\ \A t \in Stems : /\ QingYang(t) = At(CLASSICAL_QINGYANG_BY_STEM, t)
                        /\ TuoLuo(t) = At(CLASSICAL_TUOLUO_BY_STEM, t)
                        /\ On(QingYang(t) - TuoLuo(t)) = 2
                        /\ On(QingYang(t) + TuoLuo(t)) = On(2 * LuCun(t))

solar_equation_and_zishi_certificate ==
    /\ \A b \in Branches : Cardinality({m \in 0..1439 : DoubleHour(60 * m) = b}) = 120
    /\ \A longitude \in {600, 900, 1100, 1200, 1350} :
          LongitudeCorrection(longitude, 480) = 24 * (longitude - 1200)

school_divergence_consensus_certificate ==
    /\ {stem \in Stems : SchoolConsensus(stem) = 100} = {0, 1, 2, 3, 4, 5, 9}
    /\ \A v \in DOMAIN GENG_SIHUA_VARIANTS :
          GENG_SIHUA_VARIANTS[v][1] = "taiyang" /\ GENG_SIHUA_VARIANTS[v][2] = "wuqu"
    /\ SchoolConsensus(0) > SchoolConsensus(7) /\ SchoolConsensus(7) > SchoolConsensus(6)

classical_patterns_certificate ==
    /\ \A s \in {[Sound EXCEPT !.fatal = TRUE],
                 [Sound EXCEPT !.verified = FALSE, !.budget_ok = FALSE],
                 [Sound EXCEPT !.syntax_errors = 2], [Sound EXCEPT !.undefined = 1],
                 [Sound EXCEPT !.environment_ok = FALSE], [Sound EXCEPT !.read_stalls = 2]} :
          CompositeLevel(0, 63, s) = "caution"
    /\ CompositeLevel(2, 7, Sound) = "excellent"
    /\ "zifu_tonggong" \in SupremePatterns(2, 7, Sound)
    /\ SupremePatterns(0, 63, Sound) # {}

auxiliary_polarity_and_yunxian_certificate ==
    /\ {DaHao(b) : b \in Branches} = Branches /\ \A b \in Branches : DaHao(b) # b
    /\ \A stem \in Stems : /\ JieKong(stem) - FuJie(stem) \in {1, -1, 11, -11}
                           /\ JieKong(stem) % 2 = stem % 2
    /\ \A i \in DOMAIN Views : ScopeRank(Views[i]) = i - 1

heming_synastry_and_noble_stars_certificate ==
    /\ \A s \in Stems : LET kui == At(TIANKUI_BY_STEM, s)  yue == At(TIANYUE_BY_STEM, s) IN
          /\ {kui, yue} \cap {4, 10} = {}
          /\ IF s \in {0, 4, 6} THEN Apart(kui, yue) = 6 ELSE On(kui + yue) = 8
    /\ \A y \in Branches : At(TIANMA_BY_BRANCH, y) \in {2, 5, 8, 11}
    /\ \A y \in {2, 5, 8, 11} : At(TIANMA_BY_BRANCH, At(TIANMA_BY_BRANCH, y)) = y
    /\ \A y \in Branches : /\ y \notin {HongLuan(y), TianXi(y)}
                           /\ NobleMultiplier(0, y, HongLuan(y), FALSE) >= 105
                           /\ NobleMultiplier(0, y, At(TIANMA_BY_BRANCH, y), TRUE) = 50

deep_computation_and_graph_certificate ==
    /\ MapThenSumSet(LAMBDA p : InDegree(0, p, 7), Branches) = 48
    /\ \A stem \in Stems : PalaceStem(stem, 0) = PalaceStem(stem, 2)
                           /\ PalaceStem(stem, 1) = PalaceStem(stem, 3)
    /\ IsDst(1988, 6, 1)

pathology_and_environmental_certificate ==
    /\ {Pathology(0, error)[1] : error \in DOMAIN PathologyByError}
          = {"fire", "wood", "earth", "metal", "water"}
    /\ PathologyDamping[Pathology(0, "syntax")[1]] <= PathologyDamping[Pathology(7, "none")[1]]
    /\ Majors \subseteq DOMAIN ConcurrencyLimit
    /\ Fengshui({"gate", "master", "kitchen"}) = "auspicious_secure"
    /\ Fengshui({"gate"}) = "breached_critical"

six_channel_and_empty_palace_certificate ==
    LET order == <<"taiyang", "shaoyang", "yangming", "taiyin", "shaoyin", "jueyin">>
        damped == <<"taiyang", "shaoyang", "taiyin", "yangming", "shaoyin", "jueyin">>
    IN /\ \A i \in 1..5 : /\ Severity[order[i]] <= Severity[order[i + 1]]
                          /\ ChannelDamping[damped[i]] >= ChannelDamping[damped[i + 1]]
       /\ \A code \in Branches : \A p \in Branches :
             /\ ~({p, Opposite(p)} \subseteq EmptyPalaces(code))
             /\ Effective(p, code) # {}
       /\ \A bureau \in Bureaus :
             Cardinality({i \in 0..59 : NaYinBureau(i % 10, i % 12) = bureau}) = 12
       /\ \A d \in Stems, h \in Branches :
             /\ TimeStem(d, h) = (TimeStem(d, 0) + h) % 10 /\ TimeStem(d, h) % 2 = h % 2
             /\ TimeStem((d + 5) % 10, h) = TimeStem(d, h)
       /\ \A d, e \in 0..4 : TimeStem((d + e) % 5, 0) = (TimeStem(d, 0) + TimeStem(e, 0)) % 10
       /\ {On(z - 1) : z \in {y \in Branches : On(y - 1) = On(9 - y)}} = {4, 10}

doujun_and_solar_boundary_certificate ==
    /\ \A y \in Branches :
          /\ {Doujun(y, m, h) : m \in Months, h \in Branches} = Branches
          /\ \A m \in Months, h \in Branches :
                FlowingHour(Doujun(y, m, h), 1, 1, 0) = Doujun(y, m, h)
    /\ \A y \in 0..2, day \in {13, 25} :
          FlowingHour(Doujun(y, 1, 0), 1, day, 0) = FlowingHour(Doujun(y, 1, 0), 1, 1, 0)
    /\ \A bureau \in Bureaus : /\ \A age \in 1..(bureau - 1) : IsChildhood(bureau, age)
                               /\ ~IsChildhood(bureau, bureau)
                               /\ ChildhoodDamping(bureau, bureau) = 100
    /\ PriorYear(2, 4, 160, 4, 1196) /\ ~PriorYear(2, 4, 1320, 4, 1196)
    /\ \A month \in 1..3, day \in {1, 4, 15} :
          TrackSkew(2026, 2026, PriorYear(month, day, 720, 4, 1196)) \in -1..1

auxiliary_pairs_and_city_solar_certificate ==
    /\ \A month \in Months : On(TianXing(month) - TianYao(month)) = 8
    /\ \A month \in Months, day \in {1, 15, 30} : On(SanTai(month, day) + BaZuo(month, day)) = 2
    /\ \A hour \in {0, 3, 6, 9}, day \in {1, 15, 30} :
          On(TianGui(hour, day) - EnGuang(hour, day)) = On(6 + 2 * hour)
    /\ \A ming \in Branches : On(TianShang(ming) + 1) = Opposite(ming)
                              /\ On(TianShi(ming) - 1) = Opposite(ming)
    /\ \A i \in DOMAIN MajorCitiesLongitude :
          /\ MajorCitiesLongitude[i] \in 870..1270
          /\ \A eot \in {-960, 1050} :
                LongitudeCorrection(MajorCitiesLongitude[i], 480) + eot \in -9000..3000
    /\ IsDst(1988, 6, 1)

changsheng_and_expanded_patterns_certificate ==
    /\ {CHANGSHENG_ORIGIN[bureau] : bureau \in Bureaus} = {2, 5, 8, 11}
    /\ \A bureau \in Bureaus : {StageAt(bureau, TRUE, 0, p) : p \in Branches} = Branches
    /\ \A b \in Branches : /\ Apart(GuChen(b), GuaSu(b)) = 4
                           /\ HuaGai(b) \in {1, 4, 7, 10} /\ XianChi(b) \in {0, 3, 6, 9}
    /\ ExpandedLevel(1, 0, [Sound EXCEPT !.fatal = TRUE]) = "caution"
    /\ ExpandedLevel(1, 7, Sound) \in {"good", "excellent"}

ziwu_liuzhu_and_shengke_certificate ==
    /\ \A peak \in Branches : MapThenSumSet(LAMBDA b : Diurnal(b, peak), Branches) = 1440
    /\ \A a \in 0..4 : /\ ShengKe(a, (a + 1) % 5) = 115 /\ ShengKe(a, (a + 2) % 5) = 80
                       /\ MapThenSumSet(LAMBDA b : ShengKe(a, b), 0..4) = 465
    /\ GovernanceTier(7, 2) = "supreme_miao" /\ GovernanceTier(0, 0) # "supreme_miao"

dipper_axes_and_sha_po_lang_certificate ==
    \A code \in Codes :
        /\ \A pair \in DipperAxes : Balanced(pair, code, 4)
        /\ \A pair \in AuxiliaryPairs : Balanced(pair, code, 2)
        /\ \E p \in Branches : ShaPoLang(code) = Triad(p)

ming_zhu_shen_zhu_and_void_stars_certificate ==
    /\ \A b \in Branches : MingZhu(b) = MingZhu(On(-b)) /\ ShenZhu(b) = ShenZhu(Opposite(b))
    /\ \A stem \in Stems, b \in Branches :
          /\ JieKongByRhyme(stem) = JieKong(stem) /\ Apart(JieKong(stem), FuJie(stem)) = 1
          /\ Apart(DaHao(b), Opposite(b)) = 1

pattern_breaking_and_resonance_certificate ==
    /\ HealthOf(0, 0, FALSE) > HealthOf(1, 0, FALSE) /\ HealthOf(1, 0, FALSE) > HealthOf(2, 0, FALSE)
    /\ \A y \in Branches :
          LET origin == XiaoXianOrigin(y) IN
          /\ XiaoXian(1, TRUE, y) = origin /\ XiaoXian(1, FALSE, y) = origin
          /\ origin = At(XIAOXIAN_ORIGIN_BY_BRANCH, y)
          /\ \A age \in {2, 7, 12, 20, 36, 60} :
                On(XiaoXian(age, TRUE, y) + XiaoXian(age, FALSE, y)) = On(2 * origin)

systemic_parameter_coupling_certificate ==
    /\ \A code \in Codes, k \in 0..5 :
          LET flipped == IF (code \div 2^k) % 2 = 1 THEN code - 2^k ELSE code + 2^k IN
          YangCount(flipped) - YangCount(code) \in {1, -1}
    /\ \A m \in Months, h \in Branches :
          On(Ming(m, h) + Shen(m, h)) = On(2 * (m + 1)) /\ On(Shen(m, h) - Ming(m, h)) = On(2 * h)
    /\ \A bureau \in Bureaus, day \in 1..30 :
          LET z == ZiweiByDay(day, bureau) IN
          On(z + At(CANONICAL_TIANFU_OPPOSITION_TABLE, z)) = 4
    /\ \A h \in Branches, pair \in AuxiliaryPairs : Balanced(pair, h, 2)
    /\ HealthOf(0, 0, FALSE) > HealthOf(1, 0, TRUE) /\ HealthOf(1, 0, TRUE) > HealthOf(1, 0, FALSE) + 4

ziwei_mathematical_audit ==
    /\ sovereign_ring_isomorphism_certificate /\ an_he_coupling_certificate
    /\ shen_gong_anchorage_certificate /\ star_brightness_certificate
    /\ jie_shen_even_subgroup_relief_certificate /\ twelve_deities_triad_and_suipo_certificate
    /\ flying_sihua_cascade_certificate /\ triadic_synthesis_certificate
    /\ ziwei_tianfu_and_yangtuo_certificate /\ solar_equation_and_zishi_certificate
    /\ school_divergence_consensus_certificate /\ classical_patterns_certificate
    /\ auxiliary_polarity_and_yunxian_certificate /\ heming_synastry_and_noble_stars_certificate
    /\ deep_computation_and_graph_certificate /\ pathology_and_environmental_certificate
    /\ six_channel_and_empty_palace_certificate /\ doujun_and_solar_boundary_certificate
    /\ auxiliary_pairs_and_city_solar_certificate /\ changsheng_and_expanded_patterns_certificate
    /\ ziwu_liuzhu_and_shengke_certificate /\ dipper_axes_and_sha_po_lang_certificate
    /\ ming_zhu_shen_zhu_and_void_stars_certificate /\ pattern_breaking_and_resonance_certificate
    /\ systemic_parameter_coupling_certificate
=============================================================================
