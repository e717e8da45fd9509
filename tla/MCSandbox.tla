----------------------------- MODULE MCSandbox -----------------------------
EXTENDS Harness, TLC

CONSTANTS a1, a2, b1, v1, v2, g1, n1, s1, s2, agent, other, slim, full

HostOf == (a1 :> agent) @@ (a2 :> agent) @@ (b1 :> other)
ImageOf == (agent :> slim) @@ (other :> full)
PolicyOf == (g1 :> "container") @@ (n1 :> "native") @@ (s1 :> "scheduler") @@ (s2 :> "scheduler")
TogetherOrAlone == {{a1, a2, b1}, {a1, v1}, {v2}, {g1}, {n1}, {s1, s2}}

\* The same task twice: what the first grading left running meets the second.
TaskOf == (s1 :> "task") @@ (s2 :> "task")
Twice == <<s1, s2>>

Run(code, tests_, ok, unittest) ==
    [code |-> code, tests |-> tests_, ok |-> ok, unittest |-> unittest]
SomeRuns == {Run(code, t, ok, unittest) :
                code \in {0, 1}, t \in {Nothing, 0, 2}, ok \in BOOLEAN, unittest \in BOOLEAN}

\* Floats that add up to almost 1.0, scores within the ratio's slack, and one
\* outside the range.
AllRewards == {0, One \div 2, One - 100000, One - 1, One, One + 20}
Counted(counts, overall, failed, t) ==
    [passed |-> counts[1], total |-> counts[2], overall |-> overall,
     failed |-> failed, tests |-> t]
AllReports ==
    {Counted(counts, overall, Nothing, t) :
        counts \in {<<Nothing, Nothing>>, <<0, 0>>, <<1, 2>>, <<99, 100>>, <<2, 2>>},
        overall \in {Nothing, One}, t \in {"absent", "match", "differ"}}
    \cup {Counted(<<2, 2>>, One, 1, "match"), Counted(<<2, 2>>, One - 1, 0, "match")}
FewRewards == {One \div 2, One}
FewReports == {Counted(<<1, 2>>, Nothing, Nothing, "absent"), Counted(<<2, 2>>, One, 0, "match")}

\* All combinations where a grading is alone.
SomeRewards == [c \in Gradings |-> IF c \in {s1, s2} THEN FewRewards ELSE AllRewards]
SomeReports == [c \in Gradings |-> IF c \in {s1, s2} THEN FewReports ELSE AllReports]
=============================================================================
