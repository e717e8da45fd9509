------------------------------ MODULE Hexagrams ------------------------------
(***************************************************************************)
(* A status code as a hexagram: its six lines, the hexagrams derived from  *)
(* it, the relation of its two trigrams, and the classical tables that     *)
(* name it (hexagram_profile.py, hexagram_certificates.py,                 *)
(* hexagram_classical.py, iching_encoding.py).  Operators only; the        *)
(* profiles are what a checkpoint reports of its code.                     *)
(*                                                                         *)
(* Line 0 is the bottom one; 1 is yang.  Fractions of three are counted in *)
(* thirds: the polarity of a code is YangCount - 3.                        *)
(***************************************************************************)
EXTENDS ZiweiRuntime, FiniteSetsExt

Lines == 0..5
Line(code, i) == (code \div 2^i) % 2
Yang(code) == {i \in Lines : Line(code, i) = 1}
state_for_bits(line) == MapThenSumSet(LAMBDA i : line[i] * 2^i, Lines)

mutate_lines(code, indexes) ==
    state_for_bits([i \in Lines |-> IF i \in indexes THEN 1 - Line(code, i) ELSE Line(code, i)])
changed_lines(before, after) == {i \in Lines : Line(before, i) # Line(after, i)}
hamming_distance(left, right) == Cardinality(changed_lines(left, right))
Xor(left, right) == mutate_lines(left, Yang(right))
compute_status(outer, inner) == 8 * outer + inner
CanonicalNumber(trigram) == CHOOSE n \in 0..7 : At(TrigramByNumber, n) = trigram
CodeOf(status) == compute_status(CanonicalNumber(status[1]), CanonicalNumber(status[2]))

----------------------------------------------------------------------------
(* The hexagrams derived from one. *)

opposite_hexagram(code) == Complement(code)
inverse_hexagram(code) == state_for_bits([i \in Lines |-> Line(code, 5 - i)])
exchange_hexagram(code) == compute_status(code % 8, code \div 8)

\* The lines 2-4 under the lines 3-5.
nuclear_hexagram(code) ==
    state_for_bits([i \in Lines |-> Line(code, At(<<1, 2, 3, 2, 3, 4>>, i))])

\* What comes after n steps of a map of codes, and where its steps end up.
After(step, code) ==
    LET after[n \in 0..128] == IF n = 0 THEN code ELSE step[after[n - 1]] IN after
Attractor(step, code) == LET after == After(step, code) IN {after[n] : n \in 64..128}
StepsToAttractor(step, code) ==
    LET after == After(step, code)
    IN Min({n \in 0..64 : after[n] \in Attractor(step, code)})

----------------------------------------------------------------------------
(* Its lines in their places. *)

TRIADIC_BANDS == [earth |-> {0, 1}, human |-> {2, 3}, heaven |-> {4, 5}]
ChangedBands(before, after) ==
    {band \in DOMAIN TRIADIC_BANDS : TRIADIC_BANDS[band] \cap changed_lines(before, after) # {}}

\* Yang belongs on lines 0, 2 and 4; the second line of each trigram is central.
ProperLines(code) == {i \in Lines : Line(code, i) = (i + 1) % 2}
MiddleAlignment(code) == {1, 4} \subseteq ProperLines(code)
ResponsivePairs(code) == {i \in 0..2 : Line(code, i) # Line(code, i + 3)}
SamePairs(code) == {i \in 0..4 : Line(code, i) = Line(code, i + 1)}
micro_relations(code) ==
    [cheng |-> Cardinality({i \in 0..4 : Line(code, i) < Line(code, i + 1)}),
     sheng |-> Cardinality({i \in 0..4 : Line(code, i) > Line(code, i + 1)}),
     bi |-> Cardinality(SamePairs(code)),
     ying |-> Cardinality(ResponsivePairs(code))]

FOUR_SYMBOLS == <<"tai_yin", "shao_yin", "shao_yang", "tai_yang">>
Symbol(code, i) == At(FOUR_SYMBOLS, Line(code, i) + 2 * Line(code, i + 1))
four_symbols(code) == [pair \in 0..2 |-> Symbol(code, 2 * pair)]
overlapping_four_symbols(code) == [i \in 0..4 |-> Symbol(code, i)]
SymbolCount(code, symbols) ==
    Cardinality({i \in 0..4 : overlapping_four_symbols(code)[i] \in symbols})
Overflow(code) ==
    SymbolCount(code, {"tai_yang"}) > SymbolCount(code, {"shao_yang", "shao_yin"})

\* Of six lines, or of the three of a trigram.
yin_yang_balance(yang, width) ==
    CASE yang = width -> "pure_yang"
      [] yang = 0 -> "pure_yin"
      [] yang \in 1..width - 1 /\ (width < 6 \/ yang \in {3, 4}) -> "balanced"
      [] yang = 5 -> "yang_excess"
      [] OTHER -> "yin_excess"
balance_pressure(code) ==
    [pure_yang |-> "cooldown", yang_excess |-> "cooldown", pure_yin |-> "activate",
     yin_excess |-> "activate", balanced |-> "stable"][yin_yang_balance(YangCount(code), 6)]

\* A polarity of more than a third: its top or its bottom line is turned.
balance_mask(code) ==
    IF YangCount(code) - 3 > 1 THEN 32 ELSE IF YangCount(code) - 3 < -1 THEN 1 ELSE 0

----------------------------------------------------------------------------
(* The elements of its trigrams. *)

ELEMENT_GENERATION_ORDER == <<"wood", "fire", "earth", "metal", "water">>
Elements == DOMAIN GENERATES
ElementIndex(element) == CHOOSE i \in 0..4 : At(ELEMENT_GENERATION_ORDER, i) = element
generate_element(element) == At(ELEMENT_GENERATION_ORDER, (ElementIndex(element) + 1) % 5)
control_element(element) == At(ELEMENT_GENERATION_ORDER, (ElementIndex(element) + 2) % 5)
element_distance(source, target) == (ElementIndex(target) - ElementIndex(source)) % 5
element_relation(source, target) ==
    At(<<"same", "generates", "controls", "neutral", "neutral">>, element_distance(source, target))

HARMONY_RELATION_SCORES ==
    [generates |-> 2, same |-> 1, generated_by |-> 1, controls |-> -1, controlled_by |-> -2]
harmony_score(code) == HARMONY_RELATION_SCORES[CrossRelation(StatusOf(code))]

\* element_dynamics: the pairs that have a name of their own.
Modulation(code) ==
    LET pair == <<OuterElement(StatusOf(code)), InnerElement(StatusOf(code))>>
    IN CASE pair = <<"fire", "metal">> -> "hard_control"
         [] pair = <<"water", "wood">> -> "recovery_seed"
         [] pair = <<"water", "fire">> -> "quench"
         [] pair = <<"metal", "wood">> -> "prune"
         [] pair = <<"wood", "fire">> -> "fuel"
         [] pair = <<"earth", "water">> -> "dam"
         [] pair = <<"wood", "earth">> -> "break_ground"
         [] OTHER -> "normal"

\* A trigram of two or three yang lines is positive; of a code that leans to
\* yang, what goes from a positive trigram to a negative one is amplified,
\* and the other way round.
element_polarity(trigram) == IF YangLines[trigram] >= 2 THEN 1 ELSE -1
Amplified(code) ==
    /\ Bandwidth(code) > 0
    /\ element_polarity(StatusOf(code)[1]) # element_polarity(StatusOf(code)[2])
    /\ (YangCount(code) - 3) * element_polarity(StatusOf(code)[1]) > 0

----------------------------------------------------------------------------
(* What a code is reported as. *)

Action(code) == TransitionAction(StatusOf(code))
FoundationBroken(code) == Dispatches(Action(code)) /\ Action(nuclear_hexagram(code)) = "halt"

diagnostic_sihua(code) ==
    CASE Action(code) = "halt" -> "ji"
      [] Action(code) \in {"checkpoint", "discover"} -> "ke"
      [] Action(code) \in {"activate", "throttle", "prune", "cooldown"} -> "quan"
      [] OTHER -> "lu"

pattern_state(code) ==
    IF FoundationBroken(code) \/ Action(code) = "halt" THEN "broken"
    ELSE IF CrossRelation(StatusOf(code)) \in {"generates", "generated_by"} THEN "reinforced"
    ELSE "balanced"

sovereign_ring_profile(cycle) ==
    LET code == At(SOVEREIGN_HEXAGRAM_CODES, cycle % 12)
    IN [status_code |-> code, opposite |-> opposite_hexagram(code), inverse |-> inverse_hexagram(code)]

\* cross_cutting_profile takes the action of the relation of the trigrams, but
\* for water over wood, where the transition goes before it.
ReportedPolicy(code) ==
    IF RecoverySeed(StatusOf(code)) /\ Action(code) = "checkpoint" THEN "checkpoint"
    ELSE runtime_relation_policy(StatusOf(code))

----------------------------------------------------------------------------
(* The classical order of the hexagrams and their palaces. *)

\* KING_WEN_CANONICAL_TABLE: outer and inner trigram, in order.
KING_WEN_CANONICAL_TABLE ==
    <<77, 0, 21, 42, 27, 72, 2, 20, 67, 73, 7, 70, 75, 57, 4, 10,
      31, 46, 3, 60, 51, 45, 40, 1, 71, 47, 41, 36, 22, 55, 34, 16,
      74, 17, 50, 5, 65, 53, 24, 12, 43, 61, 37, 76, 30, 6, 32, 26,
      35, 56, 11, 44, 64, 13, 15, 54, 66, 33, 62, 23, 63, 14, 25, 52>>
KingWen(order) ==
    LET pair == KING_WEN_CANONICAL_TABLE[order] IN compute_status(pair \div 10, pair % 10)

\* Two that follow each other are a pair: one turned over, or else its opposite.
PairedOrder(order) == IF order % 2 = 1 THEN order + 1 ELSE order - 1
PairType(order) ==
    LET first == order - ((order + 1) % 2)
    IN IF inverse_hexagram(KingWen(first)) = KingWen(first + 1) THEN "fandui" ELSE "pangtong"

\* _JING_FANG_PALACE_CONFIGS and the eight ranks: which lines of the doubled
\* trigram have changed, and where shi and ying stand.
JING_FANG_PALACES == <<7, 2, 4, 1, 6, 5, 0, 3>>
JING_FANG_RANKS ==
    << [changed |-> {}, shi |-> 5, ying |-> 2],
       [changed |-> {0}, shi |-> 0, ying |-> 3],
       [changed |-> {0, 1}, shi |-> 1, ying |-> 4],
       [changed |-> {0, 1, 2}, shi |-> 2, ying |-> 5],
       [changed |-> {0, 1, 2, 3}, shi |-> 3, ying |-> 0],
       [changed |-> {0, 1, 2, 3, 4}, shi |-> 4, ying |-> 1],
       [changed |-> {0, 1, 2, 4}, shi |-> 3, ying |-> 0],
       [changed |-> {4}, shi |-> 2, ying |-> 5] >>
JingFang(palace, rank) ==
    mutate_lines(compute_status(palace, palace), JING_FANG_RANKS[rank].changed)

\* The hexagram that the moving lines lead to, and what to do in it.
zhigua_evolution(code, moving) ==
    LET next == mutate_lines(code, moving \cap Lines)
        outer == next \div 8
    IN [resulting |-> next,
        proper_delta |-> Cardinality(ProperLines(next)) - Cardinality(ProperLines(code)),
        central |-> MiddleAlignment(next),
        action |-> CASE outer \in {2, 4} -> "checkpoint" [] outer = 5 -> "inspect"
                     [] outer \in {1, 7} -> "accelerate" [] OTHER -> "continue"]

iching_classical_correspondence_certificate ==
    LET fandui == {n \in 1..64 : n % 2 = 1 /\ inverse_hexagram(KingWen(n)) = KingWen(n + 1)}
        pangtong == {n \in 1..64 : n % 2 = 1 /\ opposite_hexagram(KingWen(n)) = KingWen(n + 1)} \ fandui
        ranked == {JingFang(JING_FANG_PALACES[p], r) : p \in 1..8, r \in 1..8}
    IN /\ {KingWen(n) : n \in 1..64} = Codes
       /\ Cardinality(fandui) = 28 /\ Cardinality(pangtong) = 4
       /\ ranked = Codes
       /\ \A r \in 1..8 : (JING_FANG_RANKS[r].shi + 3) % 6 = JING_FANG_RANKS[r].ying
       /\ {c \in Codes : ProperLines(c) = Lines} = {21}
       /\ {c \in Codes : ProperLines(c) = {}} = {42}

----------------------------------------------------------------------------
(* The encoding of a trigram in the two rule schemas. *)

LEGACY_TRIGRAMS == <<"kun", "zhen", "kan", "dui", "gen", "xun", "li", "qian">>
CANONICAL_LINE_PATTERNS ==
    [kun |-> <<0, 0, 0>>, zhen |-> <<1, 0, 0>>, kan |-> <<0, 1, 0>>, dui |-> <<1, 1, 0>>,
     gen |-> <<0, 0, 1>>, li |-> <<1, 0, 1>>, xun |-> <<0, 1, 1>>, qian |-> <<1, 1, 1>>]
CANONICAL_COMPLEMENT_PAIRS ==
    {<<"kun", "qian">>, <<"zhen", "xun">>, <<"kan", "li">>, <<"dui", "gen">>}
LegacyNumber(trigram) == CHOOSE n \in 0..7 : At(LEGACY_TRIGRAMS, n) = trigram
TrigramTable(schema) == IF schema = "v1" THEN LEGACY_TRIGRAMS ELSE TrigramByNumber
NumberIn(schema, trigram) ==
    IF schema = "v1" THEN LegacyNumber(trigram) ELSE CanonicalNumber(trigram)

\* A run recorded under the first schema is read in the second.
convert_trigram(number, from, to) == NumberIn(to, At(TrigramTable(from), number))
convert_status(code, from, to) ==
    compute_status(convert_trigram(code \div 8, from, to), convert_trigram(code % 8, from, to))

\* audit_status_migration: the trigrams of an old code that have another number.
affected_scopes(code, from) ==
    {scope \in {"inner", "outer"} :
        LET number == IF scope = "inner" THEN code % 8 ELSE code \div 8
        IN convert_trigram(number, from, "v2") # number}

canonical_encoding_certificate ==
    /\ \A trigram \in Trigrams, i \in 0..2 :
          Line(CanonicalNumber(trigram), i) = CANONICAL_LINE_PATTERNS[trigram][i + 1]
    /\ \A pair \in CANONICAL_COMPLEMENT_PAIRS :
          CanonicalNumber(pair[1]) + CanonicalNumber(pair[2]) = 7
=============================================================================
