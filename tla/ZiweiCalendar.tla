---------------------------- MODULE ZiweiCalendar ----------------------------
(***************************************************************************)
(* Time as the ring of palaces sees it: true solar time and the double     *)
(* hours, daylight saving and the turn of the year, the pillars, and the   *)
(* ages and flows that walk around the ring (hexagram_ziwei_b.py, _c.py,   *)
(* _d.py).  Operators only.                                                *)
(*                                                                         *)
(* The equation of time, a sum of sines, is a parameter, in seconds.       *)
(***************************************************************************)
EXTENDS ZiweiChart

Months == 1..12
Clamp(n, low, high) == IF n < low THEN low ELSE IF n > high THEN high ELSE n

IsLeap(year) == year % 4 = 0 /\ (year % 100 # 0 \/ year % 400 = 0)
DaysBefore == <<0, 31, 59, 90, 120, 151, 181, 212, 243, 273, 304, 334>>
DayOfYear(year, month, day) ==
    DaysBefore[month] + day + (IF IsLeap(year) /\ month > 2 THEN 1 ELSE 0)
EquationOfTime == -960..1050          \* what the 10th certificate bounds it by

----------------------------------------------------------------------------
(* _evaluate_true_solar_time, _evaluate_china_dst and the clock's drift. *)

\* In seconds; the longitude in tenths of a degree, the zone in minutes.
LongitudeCorrection(longitude, offset) == 24 * longitude - 60 * offset
SolarSecond(clock, correction) == (60 * clock + correction) % 86400
DayOffset(clock, correction) == (60 * clock + correction) \div 86400
DoubleHour(second) ==
    IF second >= 82800 \/ second < 3600 THEN 0 ELSE (second - 3600) \div 7200 + 1
LateZishi(second) == second >= 82800
EarlyZishi(second) == second < 3600

ClockDrift(seconds) ==
    LET drift == IF seconds < 0 THEN -seconds ELSE seconds IN
    IF drift > 900 THEN "critical_drift" ELSE IF drift > 60 THEN "moderate_drift" ELSE "nominal"

MajorCitiesLongitude ==
    <<1164, 1215, 1172, 1066, 1133, 1141, 1202, 1188, 1143, 1041, 1089, 1234, 1266, 876, 911,
      1027, 1193, 1215, 1142, 1135, 1136, 1130, 1170, 1253, 1173, 1159, 1067, 1125, 1083,
      1103, 1018, 1063, 1117, 1038>>

Summer(years, from, to) == {<<y, from[1], from[2], to[1], to[2]>> : y \in years}
XLS_CN_TABLE ==
    Summer(1935..1951 \cup {1955, 1956}, <<5, 1>>, <<9, 30>>)
    \cup Summer({1952}, <<3, 1>>, <<10, 31>>)
    \cup Summer({1953, 1954, 1974, 1975}, <<4, 1>>, <<10, 31>>)
    \cup Summer(1957..1959, <<4, 1>>, <<9, 30>>)
    \cup Summer({1960, 1961}, <<6, 1>>, <<9, 30>>)
    \cup Summer({1979}, <<7, 1>>, <<9, 30>>)
    \cup {<<1986, 5, 4, 9, 14>>, <<1987, 4, 12, 9, 13>>, <<1988, 4, 10, 9, 11>>,
          <<1989, 4, 16, 9, 17>>, <<1990, 4, 15, 9, 16>>, <<1991, 4, 14, 9, 15>>}
IsDst(year, month, day) ==
    \E row \in XLS_CN_TABLE :
        /\ row[1] = year
        /\ \/ row[2] < month /\ month < row[4]
           \/ month = row[2] /\ day >= row[3]
           \/ month = row[4] /\ month # row[2] /\ day <= row[5]

\* _evaluate_city_true_solar_precision: the clock put back an hour in
\* summer, then corrected for the place and the sun.
StandardClock(clock, dst) == (clock - (IF dst THEN 60 ELSE 0)) % 1440
CityHour(longitude, year, month, day, clock, eot) ==
    DoubleHour(SolarSecond(StandardClock(clock, IsDst(year, month, day)),
                           LongitudeCorrection(longitude, 480) + eot))

\* _evaluate_solar_lichun_boundary: the solar year turns at a minute of the
\* second month.
PriorYear(month, day, minute, lichunDay, lichunMinute) ==
    \/ month < 2
    \/ month = 2 /\ (day < lichunDay \/ (day = lichunDay /\ minute < lichunMinute))
TrackSkew(year, lunarYear, prior) == (IF prior THEN year - 1 ELSE year) - lunarYear

----------------------------------------------------------------------------
(* Pillars, and the palaces of month, hour and day. *)

WUXING_JU_MATRIX == << <<2, 6, 3, 5, 4, 6>>, <<6, 5, 4, 3, 2, 5>>, <<5, 3, 2, 4, 6, 3>>,
                       <<3, 4, 6, 2, 5, 4>>, <<4, 2, 5, 6, 3, 2>> >>
NaYinBureau(stem, branch) == WUXING_JU_MATRIX[(stem % 5) + 1][(branch \div 2) + 1]
TimeStem(dayStem, hour) == ((dayStem % 5) * 2 + hour) % 10       \* five rats
YinStem(yearStem) == ((yearStem % 5) * 2 + 2) % 10               \* five tigers
PalaceStem(yearStem, branch) == (YinStem(yearStem) + On(branch - 2)) % 10

Ming(month, hour) == On(month - hour + 1)
Shen(month, hour) == On(month + hour + 1)
\* _evaluate_systemic_parameter_coupling has no On around branch - 2 here.
BureauOfMing(yearStem, ming) == NaYinBureau((YinStem(yearStem) + ming - 2) % 10, ming)

\* _calculate_ziwei_branch: the least number of days that makes the day a
\* multiple of the bureau is stepped forward when even, back when odd.
ZiweiByDay(day, bureau) ==
    LET b == Clamp(bureau, 2, 6)
        d == Clamp(day, 1, 30)
        k == (-d) % b
        q == (d + k) \div b
    IN IF k % 2 = 0 THEN On(1 + q + k) ELSE On(1 + q - k)

----------------------------------------------------------------------------
(* Flows and ages around the ring. *)

\* _evaluate_doujun_chronology_chain
Doujun(yearBranch, month, hour) == On(yearBranch + Clamp(month, 1, 12) - 1 - On(hour))
FlowingHour(doujun, month, day, hour) ==
    On(doujun + Clamp(month, 1, 12) - 1 + (IF day < 1 THEN 1 ELSE day) - 1 + On(hour))
Resonance(hourBranch, ming) ==
    LET delta == On(hourBranch - ming) IN
    IF delta = 0 THEN "direct_anchor_focus" ELSE IF delta = 6 THEN "opposite_clash_suipo"
    ELSE IF delta \in {4, 8} THEN "triad_harmony_resonance" ELSE "harmonic_flank"
ResonanceDamping == [direct_anchor_focus |-> 100, opposite_clash_suipo |-> 50,
                     triad_harmony_resonance |-> 90, harmonic_flank |-> 75]

\* _evaluate_childhood_guard: before the age of its bureau.
CHILDHOOD_MING_OFFSET == <<0, -4, -5, -2, 2>>
IsChildhood(bureau, age) == (IF age < 1 THEN 1 ELSE age) < Clamp(bureau, 2, 6)
ChildhoodPalace(bureau, age, ming) ==
    IF IsChildhood(bureau, age) THEN On(ming + CHILDHOOD_MING_OFFSET[IF age < 1 THEN 1 ELSE age])
    ELSE On(ming)
ChildhoodDamping(bureau, age) ==
    IF IsChildhood(bureau, age) THEN 40 + 10 * (IF age < 1 THEN 1 ELSE age) ELSE 100

\* _evaluate_changsheng_lifecycle: twelve stages from the bureau's origin,
\* forward for a man of a yang and a woman of a yin year.
CHANGSHENG_ORIGIN == <<0, 8, 11, 5, 8, 2>>
Throttle == <<85, 75, 90, 100, 100, 70, 50, 25, 60, 30, 50, 75>>
Forward(male, yang) == male = yang
StageAt(bureau, male, stem, palace) ==
    LET origin == CHANGSHENG_ORIGIN[Clamp(bureau, 2, 6)] IN
    IF Forward(male, stem % 2 = 0) THEN On(palace - origin) ELSE On(origin - palace)

\* _evaluate_tri_level_time_flow: ten-year, one-year and calendar palace.
DaXian(age, bureau, ming, forward) ==
    LET decade == IF age < bureau THEN 0 ELSE (age - bureau) \div 10 IN
    On(IF forward THEN ming + decade ELSE ming - decade)
XiaoXianOrigin(yearBranch) == On(10 - 3 * (yearBranch % 4))
XIAOXIAN_ORIGIN_BY_BRANCH == <<10, 7, 4, 1, 10, 7, 4, 1, 10, 7, 4, 1>>
XiaoXian(age, male, yearBranch) ==
    On(XiaoXianOrigin(yearBranch) + (IF male THEN age - 1 ELSE 1 - age))
\* In tenths.
TimeFlowGain(age, male, yearBranch, bureau, ming, calendar) ==
    LET big == DaXian(age, bureau, On(ming), Forward(male, yearBranch % 2 = 0))
        small == XiaoXian(age, male, yearBranch)
        year == On(calendar)
    IN IF big = small /\ small = year THEN 20
       ELSE IF {Apart(big, small), Apart(small, year), Apart(big, year)} \subseteq {0, 4}
       THEN 15 ELSE 10

\* _evaluate_nested_yunxian_temporal; an unknown view counts as liunian.
Views == <<"mingpan", "daxian", "liunian", "xiaoxian", "liuyue", "liuri", "liushi">>
ScopeRank(view) ==
    IF \E i \in DOMAIN Views : Views[i] = view
    THEN (CHOOSE i \in DOMAIN Views : Views[i] = view) - 1 ELSE 2
Containment(rank) ==
    IF rank <= 1 THEN "macro_governance" ELSE IF rank <= 3 THEN "cycle_governance" ELSE "micro_action"

\* _evaluate_ziwu_liuzhu_chronobiology: the energy of a double hour while
\* another one is at its peak, in 1/150.
Diurnal(at, peak) == 150 - 10 * Apart(at, peak)
=============================================================================
