----------------------------- MODULE ZiweiStars -----------------------------
(***************************************************************************)
(* The stars that a status code, a year and a month place on the ring, the *)
(* transformations that fly between palaces, and what pairs of agents make *)
(* of each other's stars (hexagram_ziwei_b.py, _c.py, _d.py).  Operators   *)
(* only.                                                                   *)
(***************************************************************************)
EXTENDS ZiweiCalendar, FiniteSetsExt

\* _compute_canonical_major_star_positions
Position(star, code) ==
    LET z == ZiweiOf(code)
        f == TianfuOf(z)
        c == On(code)
    IN On([ziwei |-> z, tianji |-> z - 1, taiyang |-> z - 3, wuqu |-> z - 4,
           tiantong |-> z - 5, lianzhen |-> z - 8, tianfu |-> f, taiyin |-> f + 1,
           tanlang |-> f + 2, jumen |-> f + 3, tianxiang |-> f + 4, tianliang |-> f + 5,
           qisha |-> f + 6, pojun |-> f + 10, wenchang |-> 10 - c, wenqu |-> 4 + c,
           zuofu |-> 4 + c, youbi |-> 10 - c][star])

\* _evaluate_empty_palace_borrowing: an empty palace borrows from its opposite.
Native(palace, code) == {star \in Majors : Position(star, code) = palace}
EmptyPalaces(code) == {p \in Branches : Native(p, code) = {}}
Effective(palace, code) ==
    IF palace \in EmptyPalaces(code) THEN Native(Opposite(palace), code) ELSE Native(palace, code)

\* _evaluate_dipper_axis_invariants: pairs that add up to 4, and to 2.
DipperAxes == {<<"ziwei", "tianfu">>, <<"tianji", "taiyin">>, <<"taiyang", "jumen">>,
               <<"wuqu", "tianxiang">>, <<"tiantong", "tianliang">>}
AuxiliaryPairs == {<<"wenchang", "wenqu">>, <<"zuofu", "youbi">>}
Balanced(pair, code, sum) == On(Position(pair[1], code) + Position(pair[2], code)) = sum

\* _evaluate_sha_po_lang_triad
ShaPoLang(code) == {Position(star, code) : star \in {"qisha", "pojun", "tanlang"}}
SplActive(code, ming) ==
    ming \in ShaPoLang(code) \/ Cardinality(Square(ming) \cap ShaPoLang(code)) >= 2

\* _evaluate_ming_zhu_shen_zhu, of the lower and the upper three bits.
MingZhu(branch) == At(MING_ZHU_TABLE, branch)
ShenZhu(branch) == At(SHEN_ZHU_TABLE, branch)

----------------------------------------------------------------------------
(* Stars of the year. *)

TIANKUI_BY_STEM == <<1, 0, 11, 11, 1, 0, 1, 6, 3, 3>>
TIANYUE_BY_STEM == <<7, 8, 9, 9, 7, 8, 7, 2, 5, 5>>
TIANMA_BY_BRANCH == <<2, 11, 8, 5, 2, 11, 8, 5, 2, 11, 8, 5>>
HongLuan(yearBranch) == On(3 - yearBranch)
TianXi(yearBranch) == Opposite(HongLuan(yearBranch))

\* _evaluate_noble_horse_stars; the multiplier in hundredths.
NobleMultiplier(stem, branch, palace, hindered) ==
    LET ma == At(TIANMA_BY_BRANCH, branch)
        lu == LuCun(stem)
    IN IF palace = ma /\ hindered THEN 50
       ELSE IF \/ palace = lu /\ ma \in {palace, Opposite(palace)}
               \/ palace = ma /\ Opposite(palace) = lu THEN 125
       ELSE IF palace \in {At(TIANKUI_BY_STEM, stem), At(TIANYUE_BY_STEM, stem)} THEN 110
       ELSE IF palace \in {HongLuan(branch), TianXi(branch)} THEN 105
       ELSE IF palace \in {4, 10} THEN 75 ELSE 100

\* _evaluate_auxiliary_stars_polarity and _evaluate_void_and_consumption_stars,
\* which compute the same stars in two ways.
DaHao(branch) == On(Opposite(branch) + (IF branch % 2 = 0 THEN 1 ELSE 11))
JieKong(stem) == On(2 * ((4 - (stem % 5)) % 6) + (stem % 2))
FuJie(stem) == On(2 * ((4 - (stem % 5)) % 6) + 1 - (stem % 2))
JieKongByRhyme(stem) == On(On(8 - 2 * (stem % 5)) + (stem % 2))
XunKong(stem, branch) == On(10 - 2 * (On(branch - stem) \div 2))
FuXun(stem, branch) ==
    LET x == XunKong(stem, branch) IN IF x % 2 = 0 THEN On(x + 1) ELSE On(x - 1)
TianShang(ming) == On(ming - 7)
TianShi(ming) == On(ming - 5)
VoidDamping(stem, branch, ming) == ming \in {JieKong(stem), DaHao(branch)}

\* _evaluate_guchen_guasu_huagai
Season(branch) == ((branch + 1) \div 3) % 4
GuChen(branch) == On(3 * Season(branch) + 2)
GuaSu(branch) == On(3 * Season(branch) - 2)
HuaGai(branch) == At(<<4, 1, 10, 7>>, branch % 4)
XianChi(branch) == At(<<9, 6, 3, 0>>, branch % 4)

\* _evaluate_auxiliary_stars_pairs, of a birth's month, day and hour.
TianXing(month) == On(8 + month)
TianYao(month) == On(month)
SanTai(month, day) == On(3 + month + day - 1)
BaZuo(month, day) == On(11 - month - (day - 1))
EnGuang(hour, day) == On(10 - hour + day - 2)
TianGui(hour, day) == On(4 + hour + day - 2)

----------------------------------------------------------------------------
(* _evaluate_full_sihua_graph: the four rays of each palace. *)

Kinds == 1..4
Ray(yearStem, palace, kind, code) ==
    Position(At(SI_HUA_TABLE, PalaceStem(yearStem, palace))[kind], code)
InDegree(yearStem, palace, code) ==
    Cardinality({ray \in Branches \X Kinds : Ray(yearStem, ray[1], ray[2], code) = palace})
JiCycles(yearStem, code) ==
    {e \in Branches \X Branches :
        /\ e[1] < e[2]
        /\ Ray(yearStem, e[1], 4, code) = e[2] /\ Ray(yearStem, e[2], 4, code) = e[1]}

\* _evaluate_bipartite_synastry_tensor: rays of one agent's palaces to the
\* other one's stars, which stand where the code plus three puts them.
Alignment(i, j) ==
    LET d == On(i - j) IN
    IF d = 0 THEN 100 ELSE IF d \in {4, 8} THEN 85 ELSE IF On(i + j) = 1 THEN 90
    ELSE IF d = 6 THEN 40 ELSE 60
CrossDeadlocks(stemA, stemB, code) ==
    {e \in Branches \X Branches :
        /\ Ray(stemA, e[1], 4, (code + 3) % 64) = e[2]
        /\ Ray(stemB, e[2], 4, code) = e[1]}

\* _evaluate_multi_agent_synastry, of agents with a stem, a ming palace, a
\* partner palace, the palaces of their stars, and whether their fude is broken.
Core(agent) == {agent.ming, agent.partner, On(agent.ming + 4)}
Hits(a, b) == b.place[Ji(a.stem)] \in Core(b)
Synastry(a, b) ==
    LET match == {a.partner = b.ming, b.partner = a.ming} IN
    IF Hits(a, b) /\ Hits(b, a) THEN "one_star"
    ELSE IF a.broken \/ b.broken THEN "two_stars"
    ELSE IF match = {TRUE} THEN "five_stars"
    ELSE IF TRUE \in match THEN "four_stars" ELSE "three_stars"
IsolationRequired(a, b) == Synastry(a, b) = "one_star"

\* _evaluate_school_consensus, in hundredths: the stems the schools dispute.
SchoolConsensus(stem) ==
    IF stem = 6 THEN 60 ELSE IF stem \in {7, 8} THEN 85 ELSE 100
GENG_SIHUA_VARIANTS ==
    [GYWYT |-> <<"taiyang", "wuqu", "taiyin", "tiantong">>,
     GYWTY |-> <<"taiyang", "wuqu", "tiantong", "taiyin">>,
     GYWFT |-> <<"taiyang", "wuqu", "tianfu", "tiantong">>,
     GYWFX |-> <<"taiyang", "wuqu", "tianfu", "tianxiang">>,
     GYWTX |-> <<"taiyang", "wuqu", "tiantong", "tianxiang">>]

\* _evaluate_dual_sihua_superposition of the transformations in one palace.
MayWrite(transformations) ==
    \/ {"quan", "ji"} \subseteq transformations
    \/ {"lu", "ke"} \subseteq transformations
    \/ {"lu", "quan"} \subseteq transformations
    \/ ~({"ke", "ji"} \subseteq transformations \/ {"lu", "ji"} \subseteq transformations)
MustAudit(transformations) ==
    /\ "ji" \in transformations
    /\ \/ "quan" \in transformations
       \/ transformations \cap {"ke", "lu"} # {} /\ ~({"lu", "ke"} \subseteq transformations)

\* _evaluate_five_elements_shengke: the gain from one element to another,
\* in hundredths, by their distance in the generating cycle.
ShengKe(a, b) == <<100, 115, 80, 50, 120>>[((b - a) % 5) + 1]
=============================================================================
