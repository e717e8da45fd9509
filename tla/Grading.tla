------------------------------ MODULE Grading ------------------------------
(***************************************************************************)
(* What a verifier's run is worth: the reward policies of verifier.py and  *)
(* of the benchmark scheduler, and the verdict on a unittest run in a      *)
(* container.  Operators only; Sandbox runs the verifiers.                 *)
(*                                                                         *)
(* A reward is a number of units of 10^-7: a score summed from floats may  *)
(* be one unit off.  A number outside 0..One stands for one that is not in *)
(* the closed range, not finite ones included.                             *)
(***************************************************************************)
EXTENDS Integers

One == 10000000
Tolerance == 10                   \* 1e-6
RatioSlack == 200000              \* 0.02
Nothing == -1                     \* an absent number, or one of another type
NoCode == -2                      \* no exit code: the process was killed

Distance(a, b) == IF a > b THEN a - b ELSE b - a

\* reward.json, as far as the policy looks at it: assertion counts, the
\* overall score, the failed count, and the list of test records ("absent",
\* "match" when it has one passing record per counted test, else "differ").
Details == [passed : Int, total : Int, overall : Int, failed : Int,
            tests : {"absent", "match", "differ"}]
NoDetail == [passed |-> Nothing, total |-> Nothing, overall |-> Nothing,
             failed |-> Nothing, tests |-> "absent"]

HasCounts(d) == d.passed # Nothing /\ d.total # Nothing
IsFull(reward) == Distance(reward, One) < Tolerance

RatioProblem(reward, d) ==
    /\ HasCounts(d)
    /\ \/ d.total <= 0 \/ d.passed < 0 \/ d.passed > d.total
       \/ Distance(reward * d.total, d.passed * One) > RatioSlack * d.total

FullScoreUnproved(d) ==
    ~HasCounts(d) \/ d.total <= 0 \/ d.passed # d.total \/ d.tests = "differ"

\* full_score_problem: the evidence disagrees with the score.
FullScoreProblem(code, reward, d) ==
    \/ code \notin {NoCode, 0} /\ reward > 0
    \/ reward \notin 0..One
    \/ d.overall # Nothing /\ Distance(d.overall, reward) > Tolerance
    \/ RatioProblem(reward, d)
    \/ d.failed > 0 /\ IsFull(reward)
    \/ code = 0 /\ IsFull(reward) /\ FullScoreUnproved(d)

\* apply_host_reward_policy, with Ungraded where reward.txt was missing or
\* not a number.  It passes an exact 1.0 only.
Ungraded == -3
HostPolicy(code, reward, d, timedOut) ==
    IF timedOut THEN [reward |-> reward, passed |-> FALSE]
    ELSE IF reward # Ungraded /\ FullScoreProblem(code, reward, d)
         THEN [reward |-> 0, passed |-> FALSE]
         ELSE [reward |-> reward, passed |-> code = 0 /\ reward = One]

\* assess_staged_reward of the scheduler, for which a timeout is the exit
\* code 124 and only a missing reward.txt is ungraded (a text that is no
\* number reads as zero).  It passes a score within the tolerance of 1.0.
TimeoutCode == 124
StagedPolicy(code, reward, d) ==
    IF reward = Ungraded \/ FullScoreProblem(code, reward, d)
    THEN [reward |-> 0, passed |-> FALSE]
    ELSE [reward |-> reward, passed |-> code = 0 /\ IsFull(reward)]

\* What a container run of a verifier gives: its exit code, how many tests
\* its output reports (Nothing: no report), whether it reports OK.
UnittestVerdict(run) ==
    IF run.tests = 0 THEN "skipped"
    ELSE IF run.tests > 0 /\ run.ok THEN "passed" ELSE "failed"

\* run_verifier's status for a finished run: only a unittest command is asked
\* for a report.
VerifierStatus(run) ==
    IF run.code # 0 THEN "failed"
    ELSE IF run.unittest THEN UnittestVerdict(run) ELSE "passed"
=============================================================================
