----------------------------- MODULE ZiweiChart -----------------------------
(***************************************************************************)
(* The ring of twelve palaces and what is placed on it: the tables of      *)
(* hexagram_ziwei_tables.py and the placements of hexagram_ziwei_a.py      *)
(* through hexagram_ziwei_d.py.  Operators only.                           *)
(*                                                                         *)
(* A palace or branch is a member of 0..11, a stem of 0..9, a status code  *)
(* a number whose lower six bits are a hexagram.  Stars go by their names  *)
(* without accents.                                                        *)
(***************************************************************************)
EXTENDS Integers, Sequences, FiniteSets, StatusAlgebra

Branches == 0..11
Stems == 0..9
Codes == 0..63

At(table, i) == table[i + 1]
On(n) == n % 12
Opposite(b) == On(b + 6)
Triad(b) == {b, On(b + 4), On(b + 8)}
Square(b) == Triad(b) \cup {Opposite(b)}             \* san fang si zheng
Apart(a, b) == LET d == On(a - b) IN IF d > 6 THEN 12 - d ELSE d
Hexagram(code) == code % 64
Complement(code) == 63 - code

\* A number as the pair of trigrams it stands for.
TrigramByNumber == <<"kun", "zhen", "kan", "dui", "gen", "li", "xun", "qian">>
StatusOf(code) == <<At(TrigramByNumber, Hexagram(code) \div 8), At(TrigramByNumber, code % 8)>>
YangCount(code) == yang_count(StatusOf(code))

\* SOVEREIGN_HEXAGRAM_CODES: the hexagram of each branch.
SOVEREIGN_HEXAGRAM_CODES == <<1, 3, 7, 15, 31, 63, 62, 60, 56, 48, 32, 0>>

Majors == {"ziwei", "tianji", "taiyang", "wuqu", "tiantong", "lianzhen", "tianfu",
           "taiyin", "tanlang", "jumen", "tianxiang", "tianliang", "qisha", "pojun"}

\* _SI_HUA_TABLE: the stars that each stem transforms into lu, quan, ke, ji.
SI_HUA_TABLE ==
    << <<"lianzhen", "pojun", "wuqu", "taiyang">>,
       <<"tianji", "tianliang", "ziwei", "taiyin">>,
       <<"tiantong", "tianji", "wenchang", "lianzhen">>,
       <<"taiyin", "tiantong", "tianji", "jumen">>,
       <<"tanlang", "taiyin", "youbi", "tianji">>,
       <<"wuqu", "tanlang", "tianliang", "wenqu">>,
       <<"taiyang", "wuqu", "taiyin", "tiantong">>,
       <<"jumen", "taiyang", "wenqu", "wenchang">>,
       <<"tianliang", "ziwei", "zuofu", "wuqu">>,
       <<"pojun", "jumen", "taiyin", "tanlang">> >>
Lu(stem) == At(SI_HUA_TABLE, stem)[1]
Quan(stem) == At(SI_HUA_TABLE, stem)[2]
Ke(stem) == At(SI_HUA_TABLE, stem)[3]
Ji(stem) == At(SI_HUA_TABLE, stem)[4]

STAR_CANONICAL_INDEX ==
    [ziwei |-> 0, tianji |-> 1, taiyang |-> 2, wuqu |-> 3, tiantong |-> 4,
     lianzhen |-> 5, tianfu |-> 6, taiyin |-> 7, tanlang |-> 8, jumen |-> 9,
     tianxiang |-> 10, tianliang |-> 11, qisha |-> 0, pojun |-> 4,
     wenchang |-> 8, wenqu |-> 10, zuofu |-> 4, youbi |-> 10]

LUCUN_BRANCH_BY_STEM == <<2, 3, 5, 6, 5, 6, 8, 9, 11, 0>>
LuCun(stem) == At(LUCUN_BRANCH_BY_STEM, stem)
MING_ZHU_TABLE == <<"tanlang", "jumen", "lucun", "wenqu", "lianzhen", "wuqu",
                    "pojun", "wuqu", "lianzhen", "wenqu", "lucun", "jumen">>
SHEN_ZHU_TABLE == <<"huoxing", "tianxiang", "tianliang", "tiantong", "wenchang", "tianji",
                    "huoxing", "tianxiang", "tianliang", "tiantong", "wenchang", "tianji">>
CLASSICAL_QINGYANG_BY_STEM == <<3, 4, 6, 7, 6, 7, 9, 10, 0, 1>>
CLASSICAL_TUOLUO_BY_STEM == <<1, 2, 4, 5, 4, 5, 7, 8, 10, 11>>
CANONICAL_TIANFU_OPPOSITION_TABLE == <<4, 3, 2, 1, 0, 11, 10, 9, 8, 7, 6, 5>>
STAGE_STEM_TABLE == [exploration |-> 0, implementation |-> 2, verification |-> 6,
                     delivery |-> 8]

----------------------------------------------------------------------------
(* The twelve deities that three counts around the ring name. *)

JIANG_QIAN_SHEN == <<"jiangxing", "panan", "suiyi", "xishen", "huagai", "jiesha",
                     "zaisha", "tiansha", "zhibei", "xianchi", "yuesha", "wangshen">>
SUI_QIAN_SHEN == <<"suijian", "huiqi", "sangmen", "guansuo", "guanfu", "xiaohao",
                   "suipo", "longde", "baihu", "tiande", "diaoke", "bingfu">>
BOSHI_SHEN == <<"boshi", "lishi", "qinglong", "xiaohao", "jiangjun", "zoushu",
                "feilian", "xishen", "bingfu", "dahao", "fubing", "guanfu">>

\* The palace where the jiang count of an anchor begins (its triad's emperor).
Emperor(anchor) == At(<<0, 9, 6, 3>>, anchor % 4)
\* Yang stems count clockwise, yin stems the other way.
Turning(stem, steps) == IF stem % 2 = 0 THEN On(steps) ELSE On(-steps)

JiangShen(palace, anchor) == At(JIANG_QIAN_SHEN, On(palace - Emperor(anchor)))
SuiShen(palace, anchor) == At(SUI_QIAN_SHEN, On(palace - anchor))
BoshiShen(palace, stem) == At(BOSHI_SHEN, Turning(stem, palace - LuCun(stem)))

----------------------------------------------------------------------------
(* Where a turn and a status code place things. *)

\* range(1, ...) of turns: the first turn is 1, and 0 or less counts as 1.
TurnIndex(turn) == IF turn > 1 THEN turn - 1 ELSE 0

\* The palace that shelters the body at an hour.
BodyPalace(hour) == On(-2 * hour)

\* _evaluate_ziwei_tianfu_duality: Tai and Pi have palaces of their own.
ZiweiOf(code) == IF code = 7 THEN 2 ELSE IF code = 56 THEN 8 ELSE On(code)
TianfuOf(ziwei) == On(4 - ziwei)
AxisState(code) ==
    LET z == ZiweiOf(code) IN
    IF z = TianfuOf(z) THEN "cohabitation"
    ELSE IF Apart(z, TianfuOf(z)) = 6 THEN "opposite" ELSE "resonance"

\* Mutant: both blades stand on the same side.
TuoLuo_Ahead(stem) == On(LuCun(stem) + 1)

QingYang(stem) == On(LuCun(stem) + 1)
TuoLuo(stem) == On(LuCun(stem) - 1)

JieShen(turn) == On(8 + 2 * (On(turn - 1) \div 2))
=============================================================================
