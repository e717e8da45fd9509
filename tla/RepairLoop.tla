----------------------------- MODULE RepairLoop -----------------------------
(***************************************************************************)
(* What happens to a model task after its first plan ran                   *)
(* (kernel/model_repair.py, entered from kernel/model_loop.py): the loop   *)
(* that asks the model for repairs, has the host grade each of them and    *)
(* keeps the best-scored files, the loop without a grader, and the         *)
(* clarifying question a stalled loop leaves behind, answered through the  *)
(* web API.                                                                *)
(*                                                                         *)
(* The readable files of the workspace are one `text`, a number in order   *)
(* of appearance; files that do not decode as UTF-8 are `binary`, and a    *)
(* snapshot does not hold them.  The host's score depends on both; whether *)
(* a call of the grader yields a number at all does not.  Scores are       *)
(* hundredths.                                                             *)
(***************************************************************************)
EXTENDS Integers, Sequences, FiniteSetsExt

CONSTANTS
    Tasks,       \* what a task is run with, records as in TasksAssumption
    Marks,       \* the scores of a text without (FALSE) and with (TRUE) the
                 \* undecodable files
    MaxTexts,    \* bound on the different texts of the workspace
    MaxSilent,   \* bound on the grader calls that yield no number
    MaxFailed    \* bound on the restores that fail in part

NoScore == -1
ASSUME TasksAssumption ==
    \A t \in Tasks :
        /\ t.max_repair_attempts \in Nat /\ t.bureau_turn_budget \in Nat
        /\ t.graded \in BOOLEAN        \* a host verifier outside the workspace
        /\ t.sandbox \in BOOLEAN       \* a sandbox to run the tests in
        /\ t.testing \in BOOLEAN       \* a task that only asks for tests
        /\ t.binary \in BOOLEAN        \* the workspace holds undecodable files
ASSUME MarksAssumption == Marks \subseteq [BOOLEAN -> 0 .. 100] /\ Marks # {}
ASSUME BoundsAssumption ==
    MaxTexts \in Nat \ {0} /\ MaxSilent \in Nat /\ MaxFailed \in Nat

VARIABLES
    task,
    pc,          \* "start", "graded" or "plain" loop, "stop", "done", "answered"
    ws,          \* the workspace: [text, binary]
    scores,      \* the scores of each text that has appeared, one of Marks
    current,     \* current_checked; the result of the task once done
    best,        \* best_checked
    bestText,    \* best_snapshot; initial_snapshot is the first text
    previous,    \* prev_reward
    flat,        \* flat_rounds
    budget,      \* effective_attempts
    attempt,
    macroDone,
    question,    \* the pending clarify_decision_reason approval
    silent,      \* grader calls that yielded no number
    failed,      \* restores that failed in part
    bestBinary,  \* history: the best was measured with the undecodable files
    lossy,       \* history: the last restore of the best left other files
    astray,      \* history: a regrade gave no number, or one above the best
    peak         \* history: the highest grade so far

loopVars == <<best, bestText, bestBinary, previous, flat, budget, attempt, macroDone>>
files == <<ws, scores, failed, lossy>>
grading == <<silent, astray, peak>>
vars == <<task, pc, files, current, loopVars, question, grading>>

Outcome(status, reason, reward) ==
    [status |-> status, reason |-> reason, reward |-> reward]
NoQuestion == Outcome("none", "none", NoScore)

----------------------------------------------------------------------------
\* Files, tests and grades.

\* The scores after a plan or an answer has left `text`: one of before, or a
\* new one, whose scores differ only where there are undecodable files.
After(known, text) ==
    IF text \in 1 .. Len(known) THEN {known}
    ELSE IF text = Len(known) + 1 /\ text <= MaxTexts
    THEN {Append(known, m) : m \in {m \in Marks : task.binary \/ m[TRUE] = m[FALSE]}}
    ELSE {}

\* _restore_workspace_snapshot writes the files of the snapshot and removes every
\* other one, the undecodable ones too.  A file that could not be read when the
\* snapshot was taken, or cannot be written or removed now, is passed over: the
\* workspace then holds a mixture.
Restore(text, known) ==
    \/ /\ ws' = [text |-> text, binary |-> FALSE]
       /\ scores' = known
       /\ UNCHANGED failed
    \/ /\ failed < MaxFailed
       /\ failed' = failed + 1
       /\ \E left \in 1 .. MaxTexts, binary \in {FALSE, ws.binary} :
            /\ ws' = [text |-> left, binary |-> binary]
            /\ scores' \in After(known, left)

\* The best is put back; its score is kept, whatever the files are now.
RestoreBest(known) ==
    /\ Restore(bestText, known)
    /\ lossy' = (ws' # [text |-> bestText, binary |-> bestBinary])

\* The host grades a workspace: its score, or no number; without a host, none.
Grade(score, g) ==
    \/ /\ task.graded /\ g = score
       /\ peak' = Max({peak, g})
       /\ UNCHANGED silent
    \/ /\ task.graded /\ g = NoScore /\ silent < MaxSilent
       /\ silent' = silent + 1
       /\ UNCHANGED peak
    \/ ~task.graded /\ g = NoScore /\ UNCHANGED <<silent, peak>>

\* The files a plan leaves.
Leaves(text, known) ==
    /\ scores' = known
    /\ ws' = [ws EXCEPT !.text = text]
    /\ lossy' = FALSE
    /\ UNCHANGED failed

Rewards == {m[b] : m \in Marks, b \in BOOLEAN}
Grades == Rewards \cup {NoScore}
Question == [snapshot : 1 .. Len(scores), stalled : Grades]

Sandboxed(result, verdict) ==
    IF task.sandbox /\ result.status = "completed" /\ verdict # "passed"
    THEN [result EXCEPT !.status = "halted", !.reason = verdict]
    ELSE result

Graded(result, score) ==
    IF score = NoScore THEN result
    ELSE IF score = 100 THEN Outcome("completed", "none", 100)
    ELSE Outcome("halted", "verifier_failed", score)

Verdicts == {"passed", "verifier_failed", "verifier_timeout"}
GradeReady == task.graded \/ task.sandbox
InitialBudget == Min({task.max_repair_attempts, task.bureau_turn_budget})

----------------------------------------------------------------------------
\* What the loop makes of a score.

Macro(reward) == reward # NoScore /\ reward < 40 /\ ~task.testing

\* repair_budget_after_score: [budget, flat, stop].
BudgetAfter(score) ==
    LET rise == score - previous IN
    CASE previous = NoScore -> [budget |-> budget, flat |-> 0, stop |-> FALSE]
      [] previous # NoScore /\ rise <= 0 ->
            [budget |-> budget, flat |-> flat + 1, stop |-> flat + 1 >= 2]
      [] previous # NoScore /\ rise > 0 ->
            [budget |-> IF rise >= 15 \/ score >= 90
                        THEN Min({5, budget + 1}) ELSE budget,
             flat |-> 0, stop |-> FALSE]

\* The last step of _deliver_best_repair: a score makes the result completed.
Partial(result) ==
    CASE result.reward = NoScore -> result
      [] result.reward = 100 -> Outcome("completed", "none", 100)
      [] OTHER -> [result EXCEPT
            !.status = "completed",
            !.reason = IF @ = "none" THEN "verifier_failed" ELSE @]

\* Mutant: the loop returns whatever it holds last.
BetterThan_Never(result) == FALSE

BetterThan(result) == best.reward # NoScore /\ best.reward > result.reward

Deliver(result) ==
    /\ IF BetterThan(result) THEN RestoreBest(scores) ELSE UNCHANGED files
    /\ current' = Partial(IF BetterThan(result) THEN best ELSE result)

----------------------------------------------------------------------------
Init ==
    /\ task \in Tasks
    /\ pc = "start"
    /\ ws = [text |-> 1, binary |-> task.binary]
    /\ scores \in After(<<>>, 1)
    /\ current = NoQuestion /\ best = NoQuestion
    /\ bestText = 1 /\ previous = NoScore /\ flat = 0
    /\ budget = 0 /\ attempt = 1 /\ macroDone = FALSE
    /\ question = NoQuestion /\ silent = 0 /\ astray = FALSE /\ peak = NoScore
    /\ failed = 0 /\ bestBinary = task.binary /\ lossy = FALSE

Loop(kind, checked) ==
    /\ pc' = kind
    /\ current' = checked /\ best' = checked
    /\ previous' = checked.reward
    /\ budget' = InitialBudget
    /\ UNCHANGED <<task, files, bestText, bestBinary, flat, attempt, macroDone,
                   question, astray>>

\* The first plan ran: the workspace holds its files.  A completed, narrowed
\* or gradable run is checked; only a verifier failure enters the loop.
Checked(result, narrowed) ==
    /\ narrowed \/ result.status = "completed"
          \/ task.max_repair_attempts = 0 \/ GradeReady
    /\ \E verdict \in Verdicts, g \in Grades :
        /\ Grade(scores[1][ws.binary], g)
        /\ LET checked == Graded(Sandboxed(result, verdict), g) IN
           Loop(IF checked.reason = "verifier_failed" /\ GradeReady
                      /\ task.max_repair_attempts > 0
                   THEN "graded" ELSE "done", checked)

Unchecked(result, narrowed) ==
    /\ ~narrowed /\ result.status # "completed"
    /\ task.max_repair_attempts > 0 /\ ~GradeReady
    /\ Loop("plain", result)
    /\ UNCHANGED <<silent, peak>>

FirstPlanRan ==
    /\ pc = "start"
    /\ \E narrowed \in BOOLEAN,
          result \in {Outcome("completed", "none", NoScore),
                      Outcome("halted", "step_failed", NoScore)} :
        Checked(result, narrowed) \/ Unchecked(result, narrowed)

----------------------------------------------------------------------------
\* One attempt.

MacroDue == pc = "graded" /\ Macro(current.reward) /\ ~macroDone
Asking == pc \in {"graded", "plain"} /\ attempt <= budget /\ ~MacroDue

\* The first low score throws the repairs away and starts from the first text;
\* what the restore leaves is graded.
MacroReset ==
    /\ MacroDue /\ attempt <= budget
    /\ macroDone' = TRUE
    /\ IF ws.text = 1
       THEN UNCHANGED <<pc, files, current, grading>>
       ELSE \E g \in Grades :
            /\ Restore(1, scores) /\ Grade(scores'[ws'.text][ws'.binary], g)
            /\ lossy' = FALSE
            /\ current' = Graded(current, g)
            /\ astray' = (astray \/ g = NoScore \/ g > best.reward)
            /\ pc' = IF current'.reason = "verifier_failed" THEN "graded" ELSE "done"
    /\ UNCHANGED <<task, best, bestText, bestBinary, previous, flat, budget, attempt,
                   question>>

\* Mutant: an attempt that leaves no score is not counted.
CountAttempt_Scored == attempt' = IF current.reward = NoScore THEN attempt ELSE attempt + 1

CountAttempt == attempt' = attempt + 1

NextAttempt ==
    /\ CountAttempt
    /\ UNCHANGED <<task, pc, files, current, best, bestText, bestBinary, previous, flat,
                   budget, macroDone, question, grading>>

Ends == /\ pc' = "done"
        /\ UNCHANGED <<task, loopVars, question, grading>>

\* No usable plan: a malformed answer is asked again while attempts are left.
PlanFails ==
    /\ Asking
    /\ \E malformed \in BOOLEAN :
        IF malformed /\ attempt < budget THEN NextAttempt
        ELSE LET unplanned == Outcome("halted", "plan_failed", current.reward) IN
             /\ Ends
             /\ IF pc = "graded" /\ BetterThan(unplanned)
                THEN Deliver(unplanned)
                ELSE current' = unplanned /\ UNCHANGED files

\* _validate_repair_plan_safety refuses the plan.
PlanRefused ==
    /\ Asking
    /\ IF attempt < budget THEN NextAttempt
       ELSE LET rejected == Outcome("halted", "repair_plan_refused", current.reward) IN
            /\ Ends
            /\ IF pc = "graded" THEN Deliver(rejected)
               ELSE current' = rejected /\ UNCHANGED files

\* The plan's execution does not complete; some of its files may be written.
ExecutionFails ==
    /\ Asking
    /\ IF pc = "graded"
       THEN RestoreBest(scores) /\ UNCHANGED current
       ELSE /\ \E text \in 1 .. MaxTexts : \E known \in After(scores, text) : Leaves(text, known)
            /\ current' = Outcome("halted", "step_failed", NoScore)
    /\ CountAttempt
    /\ UNCHANGED <<task, pc, best, bestText, bestBinary, previous, flat, budget,
                   macroDone, question, grading>>

\* Without a number the tested result is kept and nothing is restored.
KeepUnscored(tested) ==
    /\ current' = tested
    /\ pc' = "graded"
    /\ UNCHANGED <<best, bestText, bestBinary, previous, flat, budget>>

\* Mutant: a better score is kept without taking its snapshot.
ApplyScore_OldSnapshot(text, known, tested) ==
    LET after == BudgetAfter(tested.reward) IN
    /\ budget' = after.budget /\ flat' = after.flat
    /\ pc' = IF after.stop THEN "stop" ELSE "graded"
    /\ UNCHANGED <<bestText, bestBinary>>
    /\ IF best.reward = NoScore \/ tested.reward > best.reward
       THEN /\ Leaves(text, known)
            /\ current' = tested /\ best' = tested
            /\ previous' = tested.reward
       ELSE /\ RestoreBest(known)
            /\ current' = best /\ previous' = best.reward
            /\ UNCHANGED best

ApplyScore(text, known, tested) ==
    LET after == BudgetAfter(tested.reward) IN
    /\ budget' = after.budget /\ flat' = after.flat
    /\ pc' = IF after.stop THEN "stop" ELSE "graded"
    /\ IF best.reward = NoScore \/ tested.reward > best.reward
       THEN /\ Leaves(text, known)
            /\ current' = tested /\ best' = tested
            /\ bestText' = text /\ bestBinary' = ws.binary
            /\ previous' = tested.reward
       ELSE /\ RestoreBest(known)
            /\ current' = best /\ previous' = best.reward
            /\ UNCHANGED <<best, bestText, bestBinary>>

\* The repair ran and was checked; anything but a verifier failure is returned.
RepairRan ==
    /\ Asking /\ pc = "graded"
    /\ \E text \in 1 .. MaxTexts, verdict \in Verdicts, g \in Grades :
       \E known \in After(scores, text) :
        /\ Grade(known[text][ws.binary], g)
        /\ LET tested == Graded(Sandboxed(Outcome("completed", "none", NoScore), verdict), g)
           IN CASE tested.reason # "verifier_failed" ->
                    /\ Leaves(text, known)
                    /\ pc' = "done" /\ current' = tested
                    /\ UNCHANGED <<best, bestText, bestBinary, previous, flat, budget,
                                   attempt>>
                [] tested.reason = "verifier_failed" /\ tested.reward = NoScore ->
                    Leaves(text, known) /\ KeepUnscored(tested) /\ CountAttempt
                [] tested.reason = "verifier_failed" /\ tested.reward # NoScore ->
                    /\ ApplyScore(text, known, tested)
                    /\ IF pc' = "stop" THEN UNCHANGED attempt ELSE CountAttempt
    /\ UNCHANGED <<task, macroDone, question, astray>>

\* The loop without a grader returns the first plan that completes.
PlainRepairRan ==
    /\ Asking /\ pc = "plain"
    /\ \E text \in 1 .. MaxTexts : \E known \in After(scores, text) : Leaves(text, known)
    /\ current' = Outcome("completed", "none", NoScore)
    /\ pc' = "done"
    /\ UNCHANGED <<task, loopVars, question, grading>>

AttemptsSpent ==
    /\ pc \in {"graded", "plain"} /\ attempt > budget
    /\ Ends
    /\ IF pc = "graded" THEN Deliver(current) ELSE UNCHANGED <<files, current>>

\* Two flat rounds: deliver, and leave a question if the contract names no codes.
StopStalled ==
    /\ pc = "stop"
    /\ pc' = "done"
    /\ IF BetterThan(current) THEN RestoreBest(scores) ELSE UNCHANGED files
    /\ LET delivered == Partial(IF BetterThan(current) THEN best ELSE current) IN
       \/ current' = delivered /\ UNCHANGED question
       \/ /\ current' = [delivered EXCEPT !.status = "halted", !.reason = "approval_required"]
          /\ question' = [snapshot |-> bestText, stalled |-> best.reward]
    /\ UNCHANGED <<task, loopVars, grading>>

----------------------------------------------------------------------------
\* The answer to the question, any time after.

\* The snapshot of the question is put back and the answer written into its
\* files; undecodable ones are left by a restore that fails, or is not done
\* because the snapshot is empty.
RestoreAndWrite(text) ==
    /\ scores' \in After(scores, text)
    /\ \/ ws' = [text |-> text, binary |-> FALSE] /\ UNCHANGED failed
       \/ /\ failed < MaxFailed /\ failed' = failed + 1
          /\ ws' = [ws EXCEPT !.text = text]
    /\ lossy' = FALSE

AnswerQuestion ==
    /\ pc = "done" /\ question # NoQuestion
    /\ \E text \in 1 .. MaxTexts, g \in Grades :
        /\ RestoreAndWrite(text) /\ Grade(scores'[text][ws'.binary], g)
        /\ LET score == IF g = NoScore THEN question.stalled ELSE g IN
           current' = Partial(Outcome("completed", "none", score))
        /\ astray' = (astray \/ g = NoScore)
    /\ question' = NoQuestion
    /\ pc' = "answered"
    /\ UNCHANGED <<task, loopVars>>

RejectQuestion ==
    /\ pc = "done" /\ question # NoQuestion
    /\ question' = NoQuestion
    /\ pc' = "answered"
    /\ UNCHANGED <<task, files, current, loopVars, grading>>

LoopStep ==
    \/ FirstPlanRan \/ MacroReset
    \/ PlanFails \/ PlanRefused \/ ExecutionFails \/ RepairRan \/ PlainRepairRan
    \/ AttemptsSpent \/ StopStalled

\* A finished task stays finished; a question may stay unanswered.
Finished == pc \in {"done", "answered"} /\ UNCHANGED vars

Next == LoopStep \/ AnswerQuestion \/ RejectQuestion \/ Finished
Spec == Init /\ [][Next]_vars

\* The loop is one thread whose provider, tests and grader all have timeouts.
FairSpec == Spec /\ WF_vars(LoopStep)

----------------------------------------------------------------------------
Results == {Outcome("none", "none", NoScore)} \cup
    [status : {"completed", "halted"},
     reason : {"none", "step_failed", "plan_failed", "repair_plan_refused",
               "approval_required"} \cup Verdicts,
     reward : Grades]

\* The types of the loop's state.
TypeOK ==
    /\ task \in Tasks
    /\ pc \in {"start", "graded", "plain", "stop", "done", "answered"}
    /\ ws \in [text : 1 .. Len(scores), binary : BOOLEAN]
    /\ scores \in Seq(Marks)
    /\ current \in Results /\ best \in Results
    /\ bestText \in 1 .. Len(scores)
    /\ previous \in Grades /\ peak \in Grades
    /\ {flat, budget, attempt, silent, failed} \subseteq Nat
    /\ question = NoQuestion \/ question \in Question
    /\ macroDone \in BOOLEAN /\ astray \in BOOLEAN
    /\ bestBinary \in BOOLEAN /\ lossy \in BOOLEAN

\* A score and the files it is said of belong together: of the snapshot the
\* loop restores and the undecodable files that lay beside it, of the one a
\* question carries to its answer, and of the files a finished task leaves on
\* every way out (failed or refused plan, spent or stalled attempts, an answer).
\* Three gaps are named: a regrade gave no number (the older score stays with
\* other files) or beat the best (which the loop does not record), and a restore
\* of the best left other files than it was measured on, because it failed in
\* part or because it removes what does not decode, and its score was kept.
ScoresAreOfTheirFiles ==
    /\ best.reward # NoScore => scores[bestText][bestBinary] = best.reward
    /\ question # NoQuestion /\ question.stalled # NoScore =>
          scores[question.snapshot][bestBinary] = question.stalled
    /\ pc \in {"done", "answered"} /\ current.reward # NoScore /\ ~astray /\ ~lossy =>
          scores[ws.text][ws.binary] = current.reward

\* No repair the host scored higher is lost: a task that reports a score
\* reports the highest one measured, whatever the later attempts did, except
\* after such a regrade.  Of the score only: for the files see above.
BestIsDelivered ==
    pc = "done" /\ current.reward # NoScore /\ ~astray => current.reward = peak

\* The loop ends: malformed plans, failed executions and rising scores that
\* extend the budget cannot go on for ever.
LoopEnds == <>(pc = "done")

=============================================================================
