-------------------------- MODULE TaskLoops_proof --------------------------
(***************************************************************************)
(* Proofs about the two loops of a model task, which share no state.       *)
(*                                                                         *)
(* RepairLoop, for any tasks, scores and bounds: types, that a score       *)
(* belongs to the files it is kept with unless a regrade or a restore      *)
(* parted them, and that the best score is the one delivered.              *)
(* TerminalSession, for any sessions, commands, file ranges and turns:     *)
(* types, that a completed session is earned, and that nothing is carried  *)
(* out a third time unless something lay between that starts the count.    *)
(***************************************************************************)
EXTENDS RepairLoop, TerminalSession, SequenceTheorems, TLAPS

----------------------------------------------------------------------------
(* The repair loop *)

\* Before the first plan ran nothing is graded or best, and before the end
\* nothing is asked.
Begins ==
    /\ pc # "done" => question = NoQuestion
    /\ pc = "start" =>
        /\ ws.text = 1 /\ bestText = 1 /\ bestBinary = ws.binary
        /\ peak = NoScore /\ ~astray /\ best.reward = NoScore

\* The loop without a grader has no scores.
Ungraded == pc = "plain" => current.reward = NoScore

\* In the graded loop the best is the highest grade, and what the loop holds is
\* either worse, and will be replaced, or as good and the score of its files,
\* unless a restore left others.
Held ==
    pc \in {"graded", "stop"} /\ ~astray =>
        /\ peak = best.reward
        /\ current.reward <= best.reward
        /\ current.reward = best.reward /\ best.reward # NoScore /\ ~lossy =>
              scores[ws.text][ws.binary] = best.reward

\* The inductive invariant.
IInv ==
    TypeOK /\ Begins /\ Ungraded /\ Held /\ ScoresAreOfTheirFiles /\ BestIsDelivered

-----------------------------------------------------------------------------
(* Scores and results *)

\* A grade is a number the loop can compare.
LEMMA GradesAreNumbers == Grades \subseteq -1 .. 100 /\ Rewards \subseteq Grades \ {NoScore}
<1>1. \A m \in Marks, b \in BOOLEAN : m[b] \in 0 .. 100
  BY MarksAssumption
<1>2. Rewards \subseteq 0 .. 100
  BY <1>1 DEF Rewards
<1>3. QED
  BY <1>2 DEF Grades, NoScore

\* The greater of two numbers.
LEMMA MaxOfTwo ==
  ASSUME NEW a \in Int, NEW b \in Int
  PROVE  Max({a, b}) = IF a >= b THEN a ELSE b
BY DEF Max

\* The smaller of two numbers.
LEMMA MinOfTwo ==
  ASSUME NEW a \in Int, NEW b \in Int
  PROVE  Min({a, b}) = IF a <= b THEN a ELSE b
BY DEF Min

\* A grade is the score of the graded text and moves the peak, or is no number.
LEMMA GradeMeans ==
  ASSUME TypeOK, NEW score \in Rewards, NEW g \in Grades, Grade(score, g)
  PROVE  /\ g # NoScore => g = score /\ peak' = (IF peak >= g THEN peak ELSE g)
         /\ g = NoScore => peak' = peak
         /\ peak' \in Grades /\ silent' \in Nat
<1>1. peak \in Int /\ g \in Int /\ score # NoScore
  <2>1. peak \in -1 .. 100 /\ g \in -1 .. 100
    BY GradesAreNumbers DEF TypeOK
  <2>2. peak \in Int /\ g \in Int
    BY <2>1
  <2>3. score # NoScore
    BY GradesAreNumbers
  <2>4. QED
    BY <2>2, <2>3
<1>2. Max({peak, g}) = IF peak >= g THEN peak ELSE g
  BY <1>1, MaxOfTwo
<1>3. silent' \in Nat
  BY DEF TypeOK, Grade
<1>4. QED
  BY <1>1, <1>2, <1>3 DEF TypeOK, Grade

\* The results but for the one that is none yet.
Reasons == {"none", "step_failed", "plan_failed", "repair_plan_refused",
            "approval_required", "passed", "verifier_failed", "verifier_timeout"}
TestedResults == [status : {"completed", "halted"}, reason : Reasons, reward : Grades]

\* Only the result that is none yet is not among them, and it has no score.
LEMMA CompletedIsTested ==
  ASSUME NEW outcome \in Results, outcome.status = "completed" \/ outcome.reward # NoScore
  PROVE  outcome \in TestedResults
BY DEF Results, Outcome, TestedResults, Reasons, Verdicts

\* Another status and reason make another result with the same score.
LEMMA ResultChanged ==
  ASSUME NEW outcome \in Results, NEW status \in {"completed", "halted"},
         NEW reason \in Reasons,
         NEW new, new = [outcome EXCEPT !.status = status, !.reason = reason]
  PROVE  new \in TestedResults /\ new \in Results /\ new.reward = outcome.reward
<1>1. new \in TestedResults /\ new.reward = outcome.reward
  <2>1. outcome \in [status : {"none", "completed", "halted"}, reason : Reasons,
                   reward : Grades]
    BY DEF Results, Outcome, Reasons, Verdicts, Grades
  <2>2. QED
    BY <2>1 DEF TestedResults
<1>2. TestedResults \subseteq Results
  BY DEF TestedResults, Results, Reasons, Verdicts
<1>3. QED
  BY <1>1, <1>2

\* What the sandbox, the grader and the delivery make of a result is a result.
LEMMA SandboxedMeans ==
  ASSUME NEW outcome \in Results, NEW verdict \in Verdicts
  PROVE  Sandboxed(outcome, verdict) \in Results
         /\ Sandboxed(outcome, verdict).reward = outcome.reward
<1>1. CASE outcome.status = "completed" /\ task.sandbox /\ verdict # "passed"
  <2>1. Sandboxed(outcome, verdict) =
          [outcome EXCEPT !.status = "halted", !.reason = verdict]
    BY <1>1 DEF Sandboxed
  <2>2. outcome \in TestedResults
    BY <1>1, CompletedIsTested
  <2>3. verdict \in Reasons
    BY DEF Verdicts, Reasons
  <2>4. QED
    BY <2>1, <2>2, <2>3, ResultChanged
<1>2. CASE ~(outcome.status = "completed" /\ task.sandbox /\ verdict # "passed")
  BY <1>2 DEF Sandboxed
<1>3. QED
  BY <1>1, <1>2

\* A grade becomes the result's score; only the full score completes it.
LEMMA GradedMeans ==
  ASSUME NEW outcome \in Results, NEW g \in Grades
  PROVE  /\ Graded(outcome, g) \in Results
         /\ g = NoScore => Graded(outcome, g) = outcome
         /\ g # NoScore => Graded(outcome, g).reward = g
         /\ g # NoScore /\ Graded(outcome, g).reason # "verifier_failed" => g = 100
BY GradesAreNumbers DEF Graded, Results, Outcome, Verdicts

\* The delivery keeps the score.
LEMMA PartialMeans ==
  ASSUME NEW outcome \in Results
  PROVE  Partial(outcome) \in Results /\ Partial(outcome).reward = outcome.reward
<1>1. CASE outcome.reward = NoScore
  <2>1. outcome.reward # 100
    BY <1>1 DEF NoScore
  <2>2. Partial(outcome) = outcome
    BY <1>1, <2>1 DEF Partial
  <2>3. QED
    BY <2>2
<1>2. CASE outcome.reward = 100
  <2>1. 100 # NoScore /\ 100 \in Grades
    BY <1>2 DEF NoScore, Results, Outcome
  <2>2. Partial(outcome) = Outcome("completed", "none", 100)
    BY <1>2, <2>1 DEF Partial
  <2>3. QED
    BY <1>2, <2>1, <2>2 DEF Results, Outcome
<1>3. CASE outcome.reward # NoScore /\ outcome.reward # 100
  <2>1. Partial(outcome) = [outcome EXCEPT !.status = "completed",
                             !.reason = IF @ = "none" THEN "verifier_failed" ELSE @]
    BY <1>3 DEF Partial
  <2>2. outcome \in TestedResults
    BY <1>3, CompletedIsTested
  <2> DEFINE reason == IF outcome.reason = "none" THEN "verifier_failed" ELSE outcome.reason
  <2>3. reason \in Reasons
    BY <2>2 DEF TestedResults, Reasons
  <2>4. Partial(outcome) = [outcome EXCEPT !.status = "completed", !.reason = reason]
    BY <2>1, <2>2 DEF TestedResults
  <2> HIDE DEF reason
  <2>5. QED
    BY <2>2, <2>3, <2>4, ResultChanged
<1>4. QED
  BY <1>1, <1>2, <1>3

\* The scores of the texts of before stay.
Extends(known, after) ==
    /\ after \in Seq(Marks) /\ 1 .. Len(known) \subseteq 1 .. Len(after)
    /\ \A i \in 1 .. Len(known) : after[i] = known[i]

\* A text of before, or a new one, has its scores.
LEMMA AfterMeans ==
  ASSUME NEW known \in Seq(Marks), NEW text \in 1 .. MaxTexts, NEW after \in After(known, text)
  PROVE  Extends(known, after) /\ text \in 1 .. Len(after)
<1>1. Len(known) \in Nat
  BY LenProperties
<1>2. CASE text \in 1 .. Len(known)
  BY <1>2, ElementOfSeq DEF After, Extends
<1>3. CASE text \notin 1 .. Len(known)
  <2>1. text = Len(known) + 1 /\ text <= MaxTexts
    BY <1>3 DEF After
  <2>2. PICK m \in Marks : after = Append(known, m)
    BY <1>3, <2>1 DEF After
  <2>3. /\ after \in Seq(Marks) /\ Len(after) = text
        /\ \A i \in 1 .. Len(known) : after[i] = known[i]
    BY <1>1, <2>1, <2>2, AppendProperties
  <2>4. 1 .. Len(known) \subseteq 1 .. Len(after) /\ text \in 1 .. Len(after)
    BY <1>1, <2>1, <2>3
  <2>5. QED
    BY <2>3, <2>4 DEF Extends
<1>4. QED
  BY <1>2, <1>3

\* The scores of a text are scores.
LEMMA ScoreIsReward ==
  ASSUME NEW known \in Seq(Marks), NEW text \in 1 .. Len(known), NEW b \in BOOLEAN
  PROVE  known[text][b] \in Rewards
<1>1. known[text] \in Marks
  BY ElementOfSeq
<1>2. QED
  BY <1>1 DEF Rewards

\* What a plan leaves has a score, and nothing was lost.
LEMMA LeavesMeans ==
  ASSUME TypeOK, NEW text \in 1 .. MaxTexts, NEW known \in After(scores, text),
         Leaves(text, known)
  PROVE  /\ scores' = known /\ Extends(scores, known) /\ text \in 1 .. Len(known)
         /\ ws' \in [text : 1 .. Len(known), binary : BOOLEAN]
         /\ ws'.text = text /\ ws'.binary = ws.binary
         /\ ~lossy' /\ lossy' \in BOOLEAN /\ failed' \in Nat
<1>1. Extends(scores, known) /\ text \in 1 .. Len(known)
  BY AfterMeans DEF TypeOK
<1>2. ws \in [text : 1 .. Len(scores), binary : BOOLEAN] /\ failed \in Nat
  BY DEF TypeOK
<1>3. ws' = [ws EXCEPT !.text = text] /\ lossy' = FALSE /\ failed' = failed /\ scores' = known
  BY DEF Leaves
<1>4. QED
  BY <1>1, <1>2, <1>3

\* What a restore leaves has a score, be it the snapshot or a mixture.
LEMMA RestoreMeans ==
  ASSUME TypeOK, NEW known \in Seq(Marks), NEW text \in 1 .. Len(known), Restore(text, known)
  PROVE  /\ Extends(known, scores') /\ failed' \in Nat
         /\ ws' \in [text : 1 .. Len(scores'), binary : BOOLEAN]
<1>1. CASE ws' = [text |-> text, binary |-> FALSE] /\ scores' = known /\ UNCHANGED failed
  BY <1>1 DEF TypeOK, Extends
<1>2. CASE /\ failed' = failed + 1
           /\ \E left \in 1 .. MaxTexts, binary \in {FALSE, ws.binary} :
                /\ ws' = [text |-> left, binary |-> binary]
                /\ scores' \in After(known, left)
  <2>1. PICK left \in 1 .. MaxTexts, binary \in {FALSE, ws.binary} :
          /\ ws' = [text |-> left, binary |-> binary]
          /\ scores' \in After(known, left)
    BY <1>2
  <2>2. PICK after : after = scores'
    OBVIOUS
  <2>3. Extends(known, after) /\ left \in 1 .. Len(after)
    BY <2>1, <2>2, AfterMeans
  <2>4. binary \in BOOLEAN /\ failed \in Nat
    BY DEF TypeOK
  <2>5. QED
    BY <1>2, <2>1, <2>2, <2>3, <2>4
<1>3. QED
  BY <1>1, <1>2 DEF Restore

\* So does the restore of the best, which is the best unless files were lost.
LEMMA RestoreBestMeans ==
  ASSUME TypeOK, NEW known \in Seq(Marks), bestText \in 1 .. Len(known), RestoreBest(known)
  PROVE  /\ Extends(known, scores') /\ failed' \in Nat
         /\ ws' \in [text : 1 .. Len(scores'), binary : BOOLEAN]
         /\ lossy' \in BOOLEAN
         /\ ~lossy' => ws'.text = bestText /\ ws'.binary = bestBinary
<1>1. Restore(bestText, known) /\ lossy' = (ws' # [text |-> bestText, binary |-> bestBinary])
  BY DEF RestoreBest
<1>2. PICK text \in 1 .. Len(known) : text = bestText
  OBVIOUS
<1>3. /\ Extends(known, scores') /\ failed' \in Nat
      /\ ws' \in [text : 1 .. Len(scores'), binary : BOOLEAN]
  BY <1>1, <1>2, RestoreMeans
<1>4. lossy' \in BOOLEAN /\ (~lossy' => ws' = [text |-> bestText, binary |-> bestBinary])
  BY <1>1
<1>5. QED
  BY <1>3, <1>4

\* Results whose score the loop compares.
LEMMA RewardsOfResults ==
  ASSUME NEW outcome \in Results PROVE outcome.reward \in Grades /\ outcome.reward \in -1 .. 100
BY GradesAreNumbers DEF Results, Outcome, Grades
-----------------------------------------------------------------------------
(* Facts of the loop *)

\* What the state's types say of its parts.
LEMMA Parts ==
  ASSUME TypeOK
  PROVE  /\ scores \in Seq(Marks) /\ Len(scores) \in Nat
         /\ current \in Results /\ best \in Results
         /\ current.reward \in -1 .. 100 /\ best.reward \in -1 .. 100
         /\ peak \in -1 .. 100
         /\ ws.text \in 1 .. Len(scores) /\ ws.binary \in BOOLEAN
         /\ bestText \in 1 .. Len(scores) /\ bestBinary \in BOOLEAN
<1>1. scores \in Seq(Marks) /\ Len(scores) \in Nat
  BY LenProperties DEF TypeOK
<1>2. current \in Results /\ best \in Results
  BY DEF TypeOK
<1>3. current.reward \in -1 .. 100 /\ best.reward \in -1 .. 100
  BY <1>2, RewardsOfResults
<1>4. peak \in -1 .. 100
  BY GradesAreNumbers DEF TypeOK
<1>5. QED
  BY <1>1, <1>2, <1>3, <1>4 DEF TypeOK

\* A question carries the score of its snapshot.
Carries(q, known) ==
    /\ q = NoQuestion \/ q \in [snapshot : 1 .. Len(known), stalled : Grades]
    /\ q # NoQuestion /\ q.stalled # NoScore => known[q.snapshot][bestBinary] = q.stalled

\* The best and the question stay the scores of their texts as texts are added.
LEMMA BestStays ==
  ASSUME IInv, NEW known, Extends(scores, known)
  PROVE  /\ best.reward # NoScore => known[bestText][bestBinary] = best.reward
         /\ bestText \in 1 .. Len(known)
         /\ Carries(question, known)
<1>1. bestText \in 1 .. Len(scores)
  BY Parts DEF IInv
<1>2. question # NoQuestion => question.snapshot \in 1 .. Len(scores)
  BY DEF IInv, TypeOK, Question
<1>3. question \in Question => question \in [snapshot : 1 .. Len(known), stalled : Grades]
  BY DEF Question, Extends
<1>4. QED
  BY <1>1, <1>2, <1>3 DEF IInv, TypeOK, ScoresAreOfTheirFiles, Extends, Carries

\* A finished task satisfies the invariant if its score is that of its files,
\* unless a restore lost some, and the highest.
LEMMA Finishing ==
  ASSUME IInv, pc' = "done", UNCHANGED <<task, loopVars, grading>>,
         NEW known, known = scores', Extends(scores, known),
         failed' \in Nat, lossy' \in BOOLEAN,
         current' \in Results, ws' \in [text : 1 .. Len(known), binary : BOOLEAN],
         ~astray /\ current'.reward # NoScore =>
            /\ current'.reward = peak
            /\ ~lossy' => known[ws'.text][ws'.binary] = current'.reward,
         NEW q, q = question', Carries(q, known)
  PROVE  IInv'
<1>1. /\ best.reward # NoScore => known[bestText][bestBinary] = best.reward
      /\ bestText \in 1 .. Len(known)
  BY BestStays
<1>2. known \in Seq(Marks)
  BY DEF Extends
<1>3. TypeOK'
  BY <1>1, <1>2 DEF IInv, TypeOK, loopVars, grading, Question, Carries
<1>4. ScoresAreOfTheirFiles' /\ BestIsDelivered'
  BY <1>1 DEF ScoresAreOfTheirFiles, BestIsDelivered, loopVars, grading, Carries
<1>5. Begins' /\ Ungraded' /\ Held'
  BY DEF Begins, Ungraded, Held
<1>6. QED
  BY <1>3, <1>4, <1>5 DEF IInv

\* Files that stay are files the invariant knows.
LEMMA FilesStay ==
  ASSUME IInv, UNCHANGED files
  PROVE  /\ Extends(scores, scores') /\ failed' \in Nat /\ lossy' \in BOOLEAN
         /\ ws' \in [text : 1 .. Len(scores'), binary : BOOLEAN]
BY DEF IInv, TypeOK, files, Extends

\* What the delivery hands out has the highest score and comes with its files,
\* unless a restore lost some.
LEMMA Delivering ==
  ASSUME IInv, pc \in {"graded", "stop"}, NEW outcome \in Results,
         outcome.reward = current.reward,
         NEW out, out = (IF BetterThan(outcome) THEN best ELSE outcome),
         IF BetterThan(outcome) THEN RestoreBest(scores) ELSE UNCHANGED files
  PROVE  /\ Partial(out) \in Results
         /\ Extends(scores, scores') /\ failed' \in Nat /\ lossy' \in BOOLEAN
         /\ ws' \in [text : 1 .. Len(scores'), binary : BOOLEAN]
         /\ ~astray /\ Partial(out).reward # NoScore =>
              /\ Partial(out).reward = peak
              /\ ~lossy' => scores'[ws'.text][ws'.binary] = Partial(out).reward
<1>1. /\ best \in Results /\ bestText \in 1 .. Len(scores) /\ scores \in Seq(Marks)
      /\ current.reward \in -1 .. 100 /\ best.reward \in -1 .. 100
  BY Parts DEF IInv
<1>2. out \in Results /\ Partial(out) \in Results /\ Partial(out).reward = out.reward
  BY <1>1, PartialMeans
<1>3. CASE BetterThan(outcome)
  <2>1. best.reward # NoScore /\ out = best /\ RestoreBest(scores)
    BY <1>3 DEF BetterThan
  <2>2. /\ Extends(scores, scores') /\ failed' \in Nat /\ lossy' \in BOOLEAN
        /\ ws' \in [text : 1 .. Len(scores'), binary : BOOLEAN]
        /\ ~lossy' => ws'.text = bestText /\ ws'.binary = bestBinary
    BY <1>1, <2>1, RestoreBestMeans DEF IInv
  <2>3. PICK known : known = scores'
    OBVIOUS
  <2>4. known[bestText][bestBinary] = best.reward
    BY <2>1, <2>2, <2>3, BestStays
  <2>5. ~astray => best.reward = peak
    BY DEF IInv, Held
  <2>6. QED
    BY <1>2, <2>1, <2>2, <2>3, <2>4, <2>5
<1>4. CASE ~BetterThan(outcome)
  <2>1. out = outcome /\ UNCHANGED files
    BY <1>4
  <2>2. /\ Extends(scores, scores') /\ failed' \in Nat /\ lossy' \in BOOLEAN
        /\ ws' \in [text : 1 .. Len(scores'), binary : BOOLEAN]
    BY <2>1, FilesStay
  <2>3. ASSUME ~astray, out.reward # NoScore
        PROVE  out.reward = peak /\ (~lossy => scores[ws.text][ws.binary] = out.reward)
    <3>1. /\ peak = best.reward /\ current.reward <= best.reward
          /\ current.reward = best.reward /\ best.reward # NoScore /\ ~lossy =>
                scores[ws.text][ws.binary] = best.reward
      BY <2>3 DEF IInv, Held
    <3>a. current.reward \in -1 .. 100 /\ best.reward \in -1 .. 100
      BY <1>1
    <3>b. current.reward <= best.reward
      BY <3>1
    <3>2. current.reward # NoScore
      BY <2>1, <2>3
    <3>3. current.reward > -1
      BY <3>a, <3>2 DEF NoScore
    <3>4. best.reward # NoScore
      BY <3>a, <3>b, <3>3 DEF NoScore
    <3>5. ~(best.reward > current.reward)
      BY <1>4, <3>4 DEF BetterThan
    <3>6. current.reward = best.reward
      BY SMTT(60), <3>a, <3>b, <3>5
    <3>7. QED
      BY <2>1, <3>1, <3>4, <3>6
  <2>4. ws' = ws /\ scores' = scores /\ lossy' = lossy
    BY <2>1 DEF files
  <2>5. QED
    BY <1>2, <2>2, <2>3, <2>4
<1>5. QED
  BY <1>3, <1>4

\* So a step that delivers and ends keeps the invariant.
LEMMA DeliverEnds ==
  ASSUME IInv, pc = "graded", NEW outcome \in Results, outcome.reward = current.reward,
         Ends, Deliver(outcome)
  PROVE  IInv'
<1> DEFINE out == IF BetterThan(outcome) THEN best ELSE outcome
<1>1. /\ current' = Partial(out)
      /\ IF BetterThan(outcome) THEN RestoreBest(scores) ELSE UNCHANGED files
  BY DEF Deliver
<1> HIDE DEF out
<1>2. /\ current' \in Results
      /\ Extends(scores, scores') /\ failed' \in Nat /\ lossy' \in BOOLEAN
      /\ ws' \in [text : 1 .. Len(scores'), binary : BOOLEAN]
      /\ ~astray /\ current'.reward # NoScore =>
           /\ current'.reward = peak
           /\ ~lossy' => scores'[ws'.text][ws'.binary] = current'.reward
  BY <1>1, Delivering DEF out
<1>3. PICK known, q : known = scores' /\ q = question'
  OBVIOUS
<1>4. Carries(q, known)
  BY <1>2, <1>3, BestStays DEF Ends
<1>5. QED
  BY <1>2, <1>3, <1>4, Finishing DEF Ends

\* So does one that ends with the result as it is, if the best is not better.
LEMMA EndsAsIs ==
  ASSUME IInv, pc \in {"graded", "plain"}, NEW outcome \in Results,
         outcome.reward = current.reward, pc = "graded" => ~BetterThan(outcome),
         Ends, current' = outcome, UNCHANGED files
  PROVE  IInv'
<1>1. /\ Extends(scores, scores') /\ failed' \in Nat /\ lossy' \in BOOLEAN
      /\ ws' \in [text : 1 .. Len(scores'), binary : BOOLEAN]
  BY FilesStay
<1>2. ~astray /\ current'.reward # NoScore =>
        /\ current'.reward = peak
        /\ ~lossy' => scores'[ws'.text][ws'.binary] = current'.reward
  <2>1. CASE pc = "plain"
    BY <2>1 DEF IInv, Ungraded
  <2>2. CASE pc = "graded"
    <3>1. ~astray /\ Partial(outcome).reward # NoScore =>
            /\ Partial(outcome).reward = peak
            /\ ~lossy' => scores'[ws'.text][ws'.binary] = Partial(outcome).reward
      BY <2>2, Delivering
    <3>2. QED
      BY <3>1, PartialMeans
  <2>3. QED
    BY <2>1, <2>2
<1>3. PICK known, q : known = scores' /\ q = question'
  OBVIOUS
<1>4. Carries(q, known)
  BY <1>1, <1>3, BestStays DEF Ends
<1>5. QED
  BY <1>1, <1>2, <1>3, <1>4, Finishing DEF Ends

\* A lost attempt changes nothing the invariant speaks of.
LEMMA NextAttemptKeeps == ASSUME IInv, NextAttempt PROVE IInv'
<1>1. attempt' \in Nat
  BY DEF NextAttempt, CountAttempt, IInv, TypeOK
<1>2. TypeOK'
  BY <1>1 DEF NextAttempt, IInv, TypeOK, files, grading, Question
<1>3. ScoresAreOfTheirFiles' /\ BestIsDelivered' /\ Begins' /\ Ungraded' /\ Held'
  BY DEF NextAttempt, IInv, ScoresAreOfTheirFiles, BestIsDelivered, Begins, Ungraded,
         Held, files, grading
<1>4. QED
  BY <1>2, <1>3 DEF IInv
-----------------------------------------------------------------------------
(* The steps *)

\* The first plan's result is the best there is, with the score of the first text.
LEMMA FirstPlanKeeps == ASSUME IInv, FirstPlanRan PROVE IInv'
<1>1. /\ pc = "start"
      /\ ws.text = 1 /\ bestText = 1 /\ bestBinary = ws.binary
      /\ peak = NoScore /\ ~astray
      /\ best.reward = NoScore /\ question = NoQuestion
  BY DEF FirstPlanRan, IInv, Begins
<1>2. /\ Len(scores) \in Nat /\ scores \in Seq(Marks) /\ ws.binary \in BOOLEAN
      /\ 1 \in 1 .. Len(scores)
  BY <1>1, Parts DEF IInv
<1>3. scores[1][ws.binary] \in Rewards
  BY <1>2, ScoreIsReward
<1>4. PICK narrowed \in BOOLEAN,
           outcome \in {Outcome("completed", "none", NoScore),
                      Outcome("halted", "step_failed", NoScore)} :
        Checked(outcome, narrowed) \/ Unchecked(outcome, narrowed)
  BY DEF FirstPlanRan
<1>5. outcome \in Results /\ outcome.reward = NoScore
  BY DEF Results, Outcome, Grades
<1>6. ASSUME NEW checked \in Results, NEW g \in Grades, checked.reward = g,
             g # NoScore => g = scores[1][ws.binary],
             peak' = g, silent' \in Nat,
             NEW kind \in {"graded", "plain", "done"}, Loop(kind, checked),
             kind = "plain" => g = NoScore
      PROVE  IInv'
  <2>1. budget' \in Nat
    <3>1. task.max_repair_attempts \in Nat /\ task.bureau_turn_budget \in Nat
      BY TasksAssumption DEF IInv, TypeOK
    <3>2. QED
      BY <1>6, <3>1, MinOfTwo DEF Loop, InitialBudget
  <2>2. /\ pc' = kind /\ current' = checked /\ best' = checked
        /\ previous' = g /\ bestText' = 1 /\ ws' = ws /\ ws'.text = 1
        /\ bestBinary' = ws.binary /\ scores' = scores
        /\ question' = NoQuestion
        /\ UNCHANGED <<task, flat, attempt, macroDone, astray, failed, lossy>>
    BY <1>1, <1>6 DEF Loop, files
  <2>3. TypeOK'
    BY <1>1, <1>2, <1>6, <2>1, <2>2 DEF IInv, TypeOK
  <2>4. ScoresAreOfTheirFiles' /\ BestIsDelivered'
    BY <1>1, <1>6, <2>2 DEF ScoresAreOfTheirFiles, BestIsDelivered
  <2>5. Begins' /\ Ungraded'
    BY <1>6, <2>2 DEF Begins, Ungraded
  <2>6. Held'
    <3>1. g \in -1 .. 100
      BY <1>6, GradesAreNumbers
    <3>2. g <= g
      BY <3>1
    <3>3. QED
      BY <1>1, <1>6, <2>2, <3>2 DEF Held
  <2>7. QED
    BY <2>3, <2>4, <2>5, <2>6 DEF IInv
<1>7. CASE Checked(outcome, narrowed)
  <2>1. PICK verdict \in Verdicts, g \in Grades :
          /\ Grade(scores[1][ws.binary], g)
          /\ Loop(IF Graded(Sandboxed(outcome, verdict), g).reason = "verifier_failed"
                       /\ GradeReady /\ task.max_repair_attempts > 0
                  THEN "graded" ELSE "done", Graded(Sandboxed(outcome, verdict), g))
    BY <1>7 DEF Checked
  <2>2. /\ Graded(Sandboxed(outcome, verdict), g) \in Results
        /\ Graded(Sandboxed(outcome, verdict), g).reward = g
    BY <1>5, SandboxedMeans, GradedMeans
  <2>3. /\ g # NoScore => g = scores[1][ws.binary] /\ peak' = (IF peak >= g THEN peak ELSE g)
        /\ g = NoScore => peak' = peak
        /\ silent' \in Nat
    BY <1>3, <2>1, GradeMeans DEF IInv
  <2>4. peak' = g
    <3>1. g \in -1 .. 100
      BY GradesAreNumbers
    <3>2. QED
      BY <1>1, <2>3, <3>1 DEF NoScore
  <2>5. QED
    BY <1>6, <2>1, <2>2, <2>3, <2>4
<1>8. CASE Unchecked(outcome, narrowed)
  <2>1. NoScore \in Grades /\ silent' \in Nat /\ peak' = NoScore
    BY <1>1, <1>8 DEF Unchecked, Grades, IInv, TypeOK
  <2>2. QED
    BY <1>5, <1>6, <1>8, <2>1 DEF Unchecked
<1>9. QED
  BY <1>4, <1>7, <1>8

\* Going back to the first text leaves a state no better than the best, unless the
\* regrade goes astray.
LEMMA MacroKeeps == ASSUME IInv, MacroReset PROVE IInv'
<1>1. /\ pc = "graded" /\ current.reward # NoScore /\ macroDone' = TRUE
      /\ UNCHANGED <<task, best, bestText, bestBinary, previous, flat, budget, attempt,
                     question>>
  BY DEF MacroReset, MacroDue, Macro
<1>2. CASE UNCHANGED <<pc, files, current, grading>>
  <2>1. TypeOK'
    BY <1>1, <1>2 DEF IInv, TypeOK, files, grading, Question
  <2>2. ScoresAreOfTheirFiles' /\ BestIsDelivered' /\ Begins' /\ Ungraded' /\ Held'
    BY <1>1, <1>2 DEF IInv, ScoresAreOfTheirFiles, BestIsDelivered, Begins, Ungraded,
                      Held, files, grading
  <2>3. QED
    BY <2>1, <2>2 DEF IInv
<1>3. ASSUME NEW g \in Grades, Restore(1, scores), Grade(scores'[ws'.text][ws'.binary], g),
             lossy' = FALSE, current' = Graded(current, g),
             astray' = (astray \/ g = NoScore \/ g > best.reward),
             pc' = IF current'.reason = "verifier_failed" THEN "graded" ELSE "done"
      PROVE  IInv'
  <2>1. /\ Len(scores) \in Nat /\ scores \in Seq(Marks) /\ 1 \in 1 .. Len(scores)
        /\ best.reward \in -1 .. 100 /\ peak \in -1 .. 100 /\ current \in Results
        /\ g \in -1 .. 100
    BY Parts, GradesAreNumbers DEF IInv
  <2>a. PICK known, there, score :
          known = scores' /\ there = ws' /\ score = known[there.text][there.binary]
    OBVIOUS
  <2>b. /\ Extends(scores, known) /\ failed' \in Nat
        /\ there \in [text : 1 .. Len(known), binary : BOOLEAN]
    BY <1>3, <2>1, <2>a, RestoreMeans DEF IInv
  <2>c. /\ best.reward # NoScore => known[bestText][bestBinary] = best.reward
        /\ bestText \in 1 .. Len(known) /\ Carries(question, known)
        /\ known \in Seq(Marks)
    BY <2>b, BestStays DEF Extends
  <2>2. score \in Rewards
    BY <2>a, <2>b, <2>c, ScoreIsReward
  <2>3. /\ g # NoScore => g = score /\ peak' = (IF peak >= g THEN peak ELSE g)
        /\ peak' \in Grades /\ silent' \in Nat
    BY <1>3, <2>a, <2>2, GradeMeans DEF IInv
  <2>4. /\ current' \in Results
        /\ g # NoScore => current'.reward = g
        /\ g # NoScore /\ current'.reason # "verifier_failed" => g = 100
    BY <1>3, <2>1, GradedMeans
  <2>5. ASSUME ~astray'
        PROVE  /\ g # NoScore /\ g <= best.reward /\ current'.reward = g
               /\ peak = best.reward /\ peak' = best.reward /\ score = g
    <3>1. ~astray /\ g # NoScore /\ ~(g > best.reward)
      BY <1>3, <2>5
    <3>2. peak = best.reward
      BY <1>1, <3>1 DEF IInv, Held
    <3>3. QED
      BY <2>1, <2>3, <2>4, <3>1, <3>2
  <2>7. TypeOK'
    <3>1. pc' \in {"graded", "done"} /\ astray' \in BOOLEAN /\ lossy' \in BOOLEAN
      BY <1>3 DEF IInv, TypeOK
    <3>2. QED
      BY <1>1, <2>3, <2>4, <2>a, <2>b, <2>c, <3>1 DEF IInv, TypeOK, Question, Carries
  <2>8. Begins' /\ Ungraded'
    BY <1>1, <1>3 DEF IInv, Begins, Ungraded
  <2>9. Held'
    BY <1>1, <2>5, <2>a DEF Held
  <2>10. ScoresAreOfTheirFiles'
    BY <1>1, <2>5, <2>a, <2>c DEF ScoresAreOfTheirFiles, Carries
  <2>11. BestIsDelivered'
    <3> SUFFICES ASSUME pc' = "done", ~astray' PROVE current'.reward = peak'
      BY DEF BestIsDelivered
    <3>1. g = 100
      BY <1>3, <2>4, <2>5
    <3>2. g <= best.reward /\ current'.reward = g /\ peak' = best.reward
      BY <2>5
    <3>3. best.reward \in -1 .. 100
      BY <2>1
    <3>4. QED
      BY <3>1, <3>2, <3>3
  <2>12. QED
    BY <2>7, <2>8, <2>9, <2>10, <2>11 DEF IInv
<1>4. QED
  BY <1>2, <1>3 DEF MacroReset

\* A plan that fails costs its attempt or ends the loop with the best.
LEMMA PlanFailsKeeps == ASSUME IInv, PlanFails PROVE IInv'
<1> DEFINE unplanned == Outcome("halted", "plan_failed", current.reward)
<1>1. unplanned \in Results /\ unplanned.reward = current.reward
  <2>1. current.reward \in Grades
    BY RewardsOfResults DEF IInv, TypeOK
  <2>2. QED
    BY <2>1 DEF Results, Outcome
<1> HIDE DEF unplanned
<1>2. /\ pc \in {"graded", "plain"}
      /\ \/ NextAttempt
         \/ pc = "graded" /\ Ends /\ Deliver(unplanned)
         \/ Ends /\ current' = unplanned /\ UNCHANGED files /\ ~(pc = "graded" /\ BetterThan(unplanned))
  BY DEF PlanFails, Asking, unplanned
<1>3. QED
  BY <1>1, <1>2, NextAttemptKeeps, DeliverEnds, EndsAsIs

\* So does one that is refused.
LEMMA PlanRefusedKeeps == ASSUME IInv, PlanRefused PROVE IInv'
<1> DEFINE rejected == Outcome("halted", "repair_plan_refused", current.reward)
<1>1. rejected \in Results /\ rejected.reward = current.reward
  <2>1. current.reward \in Grades
    BY RewardsOfResults DEF IInv, TypeOK
  <2>2. QED
    BY <2>1 DEF Results, Outcome
<1> HIDE DEF rejected
<1>2. /\ pc \in {"graded", "plain"}
      /\ \/ NextAttempt
         \/ pc = "graded" /\ Ends /\ Deliver(rejected)
         \/ pc = "plain" /\ Ends /\ current' = rejected /\ UNCHANGED files
  BY DEF PlanRefused, Asking, rejected
<1>3. QED
  BY <1>1, <1>2, NextAttemptKeeps, DeliverEnds, EndsAsIs

\* When the attempts are spent the best is delivered.
LEMMA AttemptsSpentKeeps == ASSUME IInv, AttemptsSpent PROVE IInv'
<1>1. current \in Results
  BY DEF IInv, TypeOK
<1>2. CASE pc = "graded"
  BY <1>1, <1>2, DeliverEnds DEF AttemptsSpent
<1>3. CASE pc = "plain"
  BY <1>1, <1>3, EndsAsIs DEF AttemptsSpent
<1>4. QED
  BY <1>2, <1>3 DEF AttemptsSpent
\* A failed execution puts the best back, or has no score to keep.
LEMMA ExecutionFailsKeeps == ASSUME IInv, ExecutionFails PROVE IInv'
<1>1. /\ UNCHANGED <<task, pc, best, bestText, bestBinary, previous, flat, budget,
                     macroDone, question, grading>>
      /\ attempt' = attempt + 1 /\ attempt' \in Nat
      /\ pc \in {"graded", "plain"}
  BY DEF ExecutionFails, CountAttempt, Asking, IInv, TypeOK
<1>2. PICK known, there : known = scores' /\ there = ws'
  OBVIOUS
<1>3. ASSUME Extends(scores, known), there \in [text : 1 .. Len(known), binary : BOOLEAN],
             failed' \in Nat, lossy' \in BOOLEAN, current' \in Results
      PROVE  TypeOK' /\ ScoresAreOfTheirFiles' /\ BestIsDelivered' /\ Begins'
  <2>1. /\ best.reward # NoScore => known[bestText][bestBinary] = best.reward
        /\ bestText \in 1 .. Len(known) /\ Carries(question, known)
        /\ known \in Seq(Marks)
    BY <1>3, BestStays DEF Extends
  <2>2. TypeOK'
    BY <1>1, <1>2, <1>3, <2>1 DEF IInv, TypeOK, grading, Question, Carries
  <2>3. ScoresAreOfTheirFiles' /\ BestIsDelivered' /\ Begins'
    BY <1>1, <1>2, <2>1
    DEF IInv, ScoresAreOfTheirFiles, BestIsDelivered, Begins, Carries
  <2>4. QED
    BY <2>2, <2>3
<1>4. CASE pc = "graded"
  <2>1. RestoreBest(scores) /\ UNCHANGED current
    BY <1>4 DEF ExecutionFails
  <2>2. /\ Extends(scores, known) /\ failed' \in Nat
        /\ there \in [text : 1 .. Len(known), binary : BOOLEAN] /\ lossy' \in BOOLEAN
        /\ ~lossy' => there.text = bestText /\ there.binary = bestBinary
    BY <1>2, <2>1, RestoreBestMeans, Parts DEF IInv
  <2>3. current' \in Results
    BY <2>1, Parts DEF IInv
  <2>4. best.reward # NoScore => known[bestText][bestBinary] = best.reward
    BY <2>2, BestStays
  <2>5. Ungraded' /\ Held'
    BY <1>1, <1>2, <1>4, <2>1, <2>2, <2>4 DEF IInv, Held, Ungraded, grading
  <2>6. QED
    BY <1>3, <2>2, <2>3, <2>5 DEF IInv
<1>5. CASE pc = "plain"
  <2>1. PICK text \in 1 .. MaxTexts : \E after \in After(scores, text) : Leaves(text, after)
    BY <1>5 DEF ExecutionFails
  <2>2. PICK after \in After(scores, text) : Leaves(text, after)
    BY <2>1
  <2>3. /\ Extends(scores, known) /\ failed' \in Nat
        /\ there \in [text : 1 .. Len(known), binary : BOOLEAN] /\ lossy' \in BOOLEAN
    BY <1>2, <2>2, LeavesMeans DEF IInv
  <2>4. current' = Outcome("halted", "step_failed", NoScore)
    BY <1>5 DEF ExecutionFails
  <2>5. current' \in Results /\ current'.reward = NoScore
    BY <2>4 DEF Results, Outcome, Grades
  <2>6. Ungraded' /\ Held'
    BY <1>1, <1>5, <2>5 DEF Held, Ungraded
  <2>7. QED
    BY <1>3, <2>3, <2>5, <2>6 DEF IInv
<1>6. QED
  BY <1>1, <1>4, <1>5

\* A plain repair has no score.
LEMMA PlainKeeps == ASSUME IInv, PlainRepairRan PROVE IInv'
<1>1. /\ UNCHANGED <<task, loopVars, question, grading>> /\ pc' = "done"
      /\ current' = Outcome("completed", "none", NoScore)
  BY DEF PlainRepairRan
<1>2. PICK text \in 1 .. MaxTexts : \E known \in After(scores, text) : Leaves(text, known)
  BY DEF PlainRepairRan
<1>3. PICK known \in After(scores, text) : Leaves(text, known)
  BY <1>2
<1>4. /\ Extends(scores, known) /\ known = scores' /\ failed' \in Nat /\ lossy' \in BOOLEAN
      /\ ws' \in [text : 1 .. Len(known), binary : BOOLEAN]
  BY <1>3, LeavesMeans DEF IInv
<1>5. PICK q : q = question'
  OBVIOUS
<1>6. Carries(q, known)
  BY <1>1, <1>4, <1>5, BestStays
<1>7. current' \in Results /\ current'.reward = NoScore
  BY <1>1 DEF Results, Outcome, Grades
<1>8. QED
  BY <1>1, <1>4, <1>5, <1>6, <1>7, Finishing

\* A stalled loop delivers the best, and asks with it.
LEMMA StopStalledKeeps == ASSUME IInv, StopStalled PROVE IInv'
<1> DEFINE out == IF BetterThan(current) THEN best ELSE current
           delivered == Partial(out)
<1>1. /\ pc = "stop" /\ pc' = "done" /\ UNCHANGED <<task, loopVars, grading>>
      /\ IF BetterThan(current) THEN RestoreBest(scores) ELSE UNCHANGED files
      /\ \/ current' = delivered /\ UNCHANGED question
         \/ /\ current' = [delivered EXCEPT !.status = "halted", !.reason = "approval_required"]
            /\ question' = [snapshot |-> bestText, stalled |-> best.reward]
  BY DEF StopStalled
<1>2. /\ delivered \in Results
      /\ Extends(scores, scores') /\ failed' \in Nat /\ lossy' \in BOOLEAN
      /\ ws' \in [text : 1 .. Len(scores'), binary : BOOLEAN]
      /\ ~astray /\ delivered.reward # NoScore =>
           /\ delivered.reward = peak
           /\ ~lossy' => scores'[ws'.text][ws'.binary] = delivered.reward
  <2>1. current \in Results
    BY DEF IInv, TypeOK
  <2> HIDE DEF out
  <2>2. QED
    BY <1>1, <2>1, Delivering DEF out
<1> HIDE DEF delivered
<1>3. current' \in Results /\ current'.reward = delivered.reward
  <2>1. CASE current' = delivered
    BY <1>2, <2>1
  <2>2. CASE current' = [delivered EXCEPT !.status = "halted", !.reason = "approval_required"]
    <3>1. "halted" \in {"completed", "halted"} /\ "approval_required" \in Reasons
      BY DEF Reasons
    <3>2. QED
      BY <1>2, <2>2, <3>1, ResultChanged
  <2>3. QED
    BY <1>1, <2>1, <2>2
<1>4. PICK known, q : known = scores' /\ q = question'
  OBVIOUS
<1>5. Carries(q, known)
  <2>1. /\ best.reward # NoScore => known[bestText][bestBinary] = best.reward
        /\ bestText \in 1 .. Len(known) /\ Carries(question, known)
    BY <1>2, <1>4, BestStays
  <2>2. CASE UNCHANGED question
    BY <1>4, <2>1, <2>2
  <2>3. CASE question' = [snapshot |-> bestText, stalled |-> best.reward]
    <3>1. best.reward \in Grades
      BY Parts, RewardsOfResults DEF IInv
    <3>2. QED
      BY <1>4, <2>1, <2>3, <3>1 DEF Carries
  <2>4. QED
    BY <1>1, <2>2, <2>3
<1>6. QED
  BY <1>1, <1>2, <1>3, <1>4, <1>5, Finishing

\* An answer leaves the files it was graded on.
LEMMA AnswerKeeps == ASSUME IInv, AnswerQuestion PROVE IInv'
<1>1. /\ pc = "done" /\ pc' = "answered" /\ question # NoQuestion /\ question' = NoQuestion
      /\ UNCHANGED <<task, loopVars>>
  BY DEF AnswerQuestion
<1>2. PICK text \in 1 .. MaxTexts, g \in Grades :
        /\ RestoreAndWrite(text) /\ Grade(scores'[text][ws'.binary], g)
        /\ current' = Partial(Outcome("completed", "none",
                                    IF g = NoScore THEN question.stalled ELSE g))
        /\ astray' = (astray \/ g = NoScore)
  BY DEF AnswerQuestion
<1>a. PICK known, there, mark :
        known = scores' /\ there = ws' /\ mark = known[text][there.binary]
  OBVIOUS
<1>b. known \in After(scores, text) /\ scores \in Seq(Marks) /\ ~lossy' /\ lossy' \in BOOLEAN
  BY <1>2, <1>a, Parts DEF RestoreAndWrite, IInv
<1>3. Extends(scores, known) /\ text \in 1 .. Len(known) /\ known \in Seq(Marks)
  BY <1>b, AfterMeans DEF Extends
<1>6. /\ there \in [text : 1 .. Len(known), binary : BOOLEAN] /\ there.text = text
      /\ failed' \in Nat
  <2>1. failed \in Nat /\ ws \in [text : 1 .. Len(scores), binary : BOOLEAN]
    BY DEF IInv, TypeOK
  <2>2. QED
    <3>1. ws' = [text |-> text, binary |-> FALSE] \/ ws' = [ws EXCEPT !.text = text]
      BY <1>2 DEF RestoreAndWrite
    <3>2. ws'.text = text /\ ws' \in [text : 1 .. Len(known), binary : BOOLEAN]
      <4>1. CASE ws' = [text |-> text, binary |-> FALSE]
        BY <1>3, <4>1
      <4>2. CASE ws' = [ws EXCEPT !.text = text]
        BY <1>3, <2>1, <4>2
      <4>3. QED
        BY <3>1, <4>1, <4>2
    <3>3. failed' \in Nat
      BY <1>2, <2>1 DEF RestoreAndWrite
    <3>4. QED
      BY <1>a, <3>2, <3>3
<1>c. mark \in Rewards
  BY <1>a, <1>3, <1>6, ScoreIsReward
<1>4. /\ g # NoScore => g = mark
      /\ peak' \in Grades /\ silent' \in Nat
  BY <1>2, <1>a, <1>c, GradeMeans DEF IInv
<1>5. /\ bestText \in 1 .. Len(known)
      /\ best.reward # NoScore => known[bestText][bestBinary] = best.reward
  BY <1>3, BestStays
<1>7. /\ current' \in Results
      /\ g # NoScore => current'.reward = g
  <2> DEFINE score == IF g = NoScore THEN question.stalled ELSE g
             given == Outcome("completed", "none", score)
  <2>1. score \in Grades
    BY <1>1 DEF IInv, TypeOK, Question, Grades
  <2>2. given \in Results /\ given.reward = score
    BY <2>1 DEF Results, Outcome
  <2>3. current' = Partial(given)
    BY <1>2
  <2> HIDE DEF given
  <2>4. QED
    BY <2>2, <2>3, PartialMeans
<1>8. TypeOK'
  <2>1. astray' \in BOOLEAN
    BY <1>2 DEF IInv, TypeOK
  <2>2. QED
    BY <1>1, <1>a, <1>b, <1>3, <1>4, <1>5, <1>6, <1>7, <2>1 DEF IInv, TypeOK, loopVars
<1>9. ScoresAreOfTheirFiles'
  <2>1. ~astray' => g # NoScore
    BY <1>2
  <2>2. ~astray' => known[there.text][there.binary] = current'.reward
    BY <1>a, <1>4, <1>6, <1>7, <2>1
  <2>3. QED
    BY <1>1, <1>a, <1>5, <2>2 DEF ScoresAreOfTheirFiles, loopVars
<1>10. BestIsDelivered' /\ Begins' /\ Ungraded' /\ Held'
  BY <1>1 DEF BestIsDelivered, Begins, Ungraded, Held
<1>11. QED
  BY <1>8, <1>9, <1>10 DEF IInv

\* A rejection changes no files.
LEMMA RejectKeeps == ASSUME IInv, RejectQuestion PROVE IInv'
<1>1. TypeOK'
  BY DEF RejectQuestion, IInv, TypeOK, files, loopVars, grading
<1>2. ScoresAreOfTheirFiles' /\ BestIsDelivered' /\ Begins' /\ Ungraded' /\ Held'
  BY DEF RejectQuestion, IInv, ScoresAreOfTheirFiles, BestIsDelivered, Begins, Ungraded,
         Held, files, loopVars, grading
<1>3. QED
  BY <1>1, <1>2 DEF IInv
\* A repair that ran and was graded: kept, if it is the best, and put back if not.
LEMMA RepairKeeps == ASSUME IInv, RepairRan PROVE IInv'
<1>1. /\ pc = "graded" /\ UNCHANGED <<task, macroDone, question, astray>>
      /\ question = NoQuestion
  BY DEF RepairRan, IInv, Begins
<1>a. PICK text \in 1 .. MaxTexts, verdict \in Verdicts, g \in Grades :
      \E known \in After(scores, text) : \E tested :
        /\ Grade(known[text][ws.binary], g)
        /\ tested = Graded(Sandboxed(Outcome("completed", "none", NoScore), verdict), g)
        /\ \/ /\ tested.reason # "verifier_failed" /\ Leaves(text, known)
              /\ pc' = "done" /\ current' = tested
              /\ UNCHANGED <<best, bestText, bestBinary, previous, flat, budget, attempt>>
           \/ /\ tested.reason = "verifier_failed" /\ tested.reward = NoScore
              /\ Leaves(text, known) /\ KeepUnscored(tested) /\ CountAttempt
           \/ /\ tested.reason = "verifier_failed" /\ tested.reward # NoScore
              /\ ApplyScore(text, known, tested)
              /\ IF pc' = "stop" THEN UNCHANGED attempt ELSE CountAttempt
  <2> DEFINE Tested(verdict, g) ==
               Graded(Sandboxed(Outcome("completed", "none", NoScore), verdict), g)
  <2>1. PICK text \in 1 .. MaxTexts, verdict \in Verdicts, g \in Grades :
        \E known \in After(scores, text) :
          /\ Grade(known[text][ws.binary], g)
          /\ CASE Tested(verdict, g).reason # "verifier_failed" ->
                    /\ Leaves(text, known)
                    /\ pc' = "done" /\ current' = Tested(verdict, g)
                    /\ UNCHANGED <<best, bestText, bestBinary, previous, flat, budget,
                                   attempt>>
               [] /\ Tested(verdict, g).reason = "verifier_failed"
                  /\ Tested(verdict, g).reward = NoScore ->
                    Leaves(text, known) /\ KeepUnscored(Tested(verdict, g)) /\ CountAttempt
               [] /\ Tested(verdict, g).reason = "verifier_failed"
                  /\ Tested(verdict, g).reward # NoScore ->
                    /\ ApplyScore(text, known, Tested(verdict, g))
                    /\ IF pc' = "stop" THEN UNCHANGED attempt ELSE CountAttempt
    BY DEF RepairRan
  <2> HIDE DEF Tested
  <2>2. PICK tested : tested = Tested(verdict, g)
    OBVIOUS
  <2>3. PICK known \in After(scores, text) :
        /\ Grade(known[text][ws.binary], g)
        /\ \/ /\ tested.reason # "verifier_failed" /\ Leaves(text, known)
              /\ pc' = "done" /\ current' = tested
              /\ UNCHANGED <<best, bestText, bestBinary, previous, flat, budget, attempt>>
           \/ /\ tested.reason = "verifier_failed" /\ tested.reward = NoScore
              /\ Leaves(text, known) /\ KeepUnscored(tested) /\ CountAttempt
           \/ /\ tested.reason = "verifier_failed" /\ tested.reward # NoScore
              /\ ApplyScore(text, known, tested)
              /\ IF pc' = "stop" THEN UNCHANGED attempt ELSE CountAttempt
    BY <2>1, <2>2
  <2>4. tested = Graded(Sandboxed(Outcome("completed", "none", NoScore), verdict), g)
    BY <2>2 DEF Tested
  <2>5. QED
    BY <2>3, <2>4
<1>d. PICK known \in After(scores, text) : \E tested :
        /\ Grade(known[text][ws.binary], g)
        /\ tested = Graded(Sandboxed(Outcome("completed", "none", NoScore), verdict), g)
        /\ \/ /\ tested.reason # "verifier_failed" /\ Leaves(text, known)
              /\ pc' = "done" /\ current' = tested
              /\ UNCHANGED <<best, bestText, bestBinary, previous, flat, budget, attempt>>
           \/ /\ tested.reason = "verifier_failed" /\ tested.reward = NoScore
              /\ Leaves(text, known) /\ KeepUnscored(tested) /\ CountAttempt
           \/ /\ tested.reason = "verifier_failed" /\ tested.reward # NoScore
              /\ ApplyScore(text, known, tested)
              /\ IF pc' = "stop" THEN UNCHANGED attempt ELSE CountAttempt
  BY <1>a
<1>2. PICK tested :
        /\ Grade(known[text][ws.binary], g)
        /\ tested = Graded(Sandboxed(Outcome("completed", "none", NoScore), verdict), g)
        /\ \/ /\ tested.reason # "verifier_failed" /\ Leaves(text, known)
              /\ pc' = "done" /\ current' = tested
              /\ UNCHANGED <<best, bestText, bestBinary, previous, flat, budget, attempt>>
           \/ /\ tested.reason = "verifier_failed" /\ tested.reward = NoScore
              /\ Leaves(text, known) /\ KeepUnscored(tested) /\ CountAttempt
           \/ /\ tested.reason = "verifier_failed" /\ tested.reward # NoScore
              /\ ApplyScore(text, known, tested)
              /\ IF pc' = "stop" THEN UNCHANGED attempt ELSE CountAttempt
  BY <1>d
<1>b. scores \in Seq(Marks) /\ ws.binary \in BOOLEAN
  BY Parts DEF IInv
<1>3. Extends(scores, known) /\ text \in 1 .. Len(known) /\ known \in Seq(Marks)
  BY <1>b, AfterMeans DEF Extends
<1>c. known[text][ws.binary] \in Rewards
  BY <1>b, <1>3, ScoreIsReward
<1>4. /\ g # NoScore => g = known[text][ws.binary] /\ peak' = (IF peak >= g THEN peak ELSE g)
      /\ g = NoScore => peak' = peak
      /\ peak' \in Grades /\ silent' \in Nat
  BY <1>2, <1>c, GradeMeans DEF IInv
<1>5. /\ tested \in Results /\ tested.reward = g
      /\ g # NoScore /\ tested.reason # "verifier_failed" => g = 100
  <2> DEFINE ran == Outcome("completed", "none", NoScore)
  <2>1. ran \in Results /\ ran.reward = NoScore
    BY DEF Results, Outcome, Grades
  <2> HIDE DEF ran
  <2>2. Sandboxed(ran, verdict) \in Results /\ Sandboxed(ran, verdict).reward = NoScore
    BY <2>1, SandboxedMeans
  <2>3. tested = Graded(Sandboxed(ran, verdict), g)
    BY <1>2 DEF ran
  <2>4. QED
    BY <2>2, <2>3, GradedMeans
<1>6. /\ bestText \in 1 .. Len(scores)
      /\ best \in Results
  BY Parts DEF IInv
<1>7. best.reward \in -1 .. 100 /\ peak \in -1 .. 100 /\ g \in -1 .. 100
  BY Parts, GradesAreNumbers DEF IInv
<1>8. /\ best.reward # NoScore => known[bestText][bestBinary] = best.reward
      /\ bestText \in 1 .. Len(known) /\ Carries(question, known)
  BY <1>3, BestStays
<1>9. PICK after, there : after = scores' /\ there = ws'
  OBVIOUS
<1>10. Leaves(text, known) =>
         /\ after = known /\ Extends(scores, after)
         /\ there \in [text : 1 .. Len(after), binary : BOOLEAN]
         /\ there.text = text /\ there.binary = ws.binary
         /\ ~lossy' /\ lossy' \in BOOLEAN /\ failed' \in Nat
  BY <1>9, LeavesMeans DEF IInv
<1>11. ~astray => peak = best.reward
  BY <1>1 DEF IInv, Held
<1>12. ASSUME pc' \in {"graded", "stop", "done"}, Extends(scores, after),
              there \in [text : 1 .. Len(after), binary : BOOLEAN],
              current' \in Results, best' \in Results,
              bestText' \in 1 .. Len(after), bestBinary' \in BOOLEAN,
              lossy' \in BOOLEAN, failed' \in Nat,
              previous' \in Grades, flat' \in Nat, budget' \in Nat, attempt' \in Nat
       PROVE  TypeOK'
  <2>1. Carries(question, after) /\ after \in Seq(Marks)
    BY <1>12, BestStays DEF Extends
  <2>2. QED
    BY <1>1, <1>4, <1>9, <1>12, <2>1 DEF IInv, TypeOK, Carries, Question
<1>13. CASE /\ tested.reason # "verifier_failed" /\ Leaves(text, known)
            /\ pc' = "done" /\ current' = tested
            /\ UNCHANGED <<best, bestText, bestBinary, previous, flat, budget, attempt>>
  <2>1. TypeOK'
    BY <1>5, <1>6, <1>8, <1>10, <1>13, <1>12 DEF IInv, TypeOK
  <2>2. g # NoScore => after[there.text][there.binary] = g
    BY <1>4, <1>10, <1>13
  <2>3. g # NoScore => g = peak'
    <3>1. g # NoScore => g = 100
      BY <1>5, <1>13
    <3>2. QED
      BY <1>7, <1>4, <3>1
  <2>4. ScoresAreOfTheirFiles' /\ BestIsDelivered'
    BY <1>1, <1>5, <1>8, <1>9, <1>10, <1>13, <2>2, <2>3
    DEF ScoresAreOfTheirFiles, BestIsDelivered, Carries
  <2>5. Begins' /\ Ungraded' /\ Held'
    BY <1>13 DEF Begins, Ungraded, Held
  <2>6. QED
    BY <2>1, <2>4, <2>5 DEF IInv
<1>14. CASE /\ tested.reason = "verifier_failed" /\ tested.reward = NoScore
            /\ Leaves(text, known) /\ KeepUnscored(tested) /\ CountAttempt
  <2>1. /\ current' = tested /\ pc' = "graded"
        /\ UNCHANGED <<best, bestText, bestBinary, previous, flat, budget>>
        /\ attempt' = attempt + 1 /\ g = NoScore /\ peak' = peak
    BY <1>4, <1>5, <1>14 DEF KeepUnscored, CountAttempt
  <2>2. TypeOK'
    <3>1. attempt' \in Nat
      BY <2>1 DEF IInv, TypeOK
    <3>2. QED
      BY <1>5, <1>8, <1>10, <1>12, <1>14, <2>1, <3>1 DEF IInv, TypeOK
  <2>3. Held'
    <3>1. NoScore <= best.reward
      BY <1>7 DEF NoScore
    <3>2. current'.reward = NoScore /\ best' = best
      BY <1>5, <2>1
    <3>3. QED
      BY <1>1, <1>11, <2>1, <3>1, <3>2 DEF Held
  <2>4. ScoresAreOfTheirFiles' /\ BestIsDelivered' /\ Begins' /\ Ungraded'
    BY <1>1, <1>8, <1>9, <1>10, <1>14, <2>1
    DEF ScoresAreOfTheirFiles, BestIsDelivered, Begins, Ungraded, Carries
  <2>5. QED
    BY <2>2, <2>3, <2>4 DEF IInv
<1>15. CASE /\ tested.reason = "verifier_failed" /\ tested.reward # NoScore
            /\ ApplyScore(text, known, tested)
            /\ IF pc' = "stop" THEN UNCHANGED attempt ELSE CountAttempt
  <2>1. /\ pc' \in {"graded", "stop"}
        /\ g # NoScore /\ g = known[text][ws.binary]
        /\ peak' = (IF peak >= g THEN peak ELSE g)
    BY <1>4, <1>5, <1>15 DEF ApplyScore
  <2>2. flat' \in Nat /\ budget' \in Nat /\ attempt' \in Nat
    <3>1. flat \in Nat /\ budget \in Nat /\ attempt \in Nat /\ previous \in -1 .. 100
      BY GradesAreNumbers DEF IInv, TypeOK
    <3>2. attempt' \in Nat
      BY <1>15, <3>1 DEF CountAttempt
    <3>3. Min({5, budget + 1}) \in Nat
      BY <3>1, MinOfTwo
    <3>4. BudgetAfter(tested.reward).budget \in Nat /\ BudgetAfter(tested.reward).flat \in Nat
      <4> DEFINE rise == tested.reward - previous
      <4>1. rise \in Int
        BY <1>7, <1>5, <3>1
      <4>2. CASE previous = NoScore
        BY <3>1, <4>2 DEF BudgetAfter
      <4>3. CASE previous # NoScore /\ rise <= 0
        BY <3>1, <4>1, <4>3 DEF BudgetAfter
      <4>4. CASE previous # NoScore /\ rise > 0
        BY <3>1, <3>3, <4>1, <4>4 DEF BudgetAfter
      <4>5. QED
        BY <4>1, <4>2, <4>3, <4>4
    <3>5. QED
      BY <1>15, <3>2, <3>4 DEF ApplyScore
  <2>3. CASE best.reward = NoScore \/ tested.reward > best.reward
    <3>1. /\ Leaves(text, known) /\ current' = tested /\ best' = tested
          /\ bestText' = text /\ bestBinary' = ws.binary /\ previous' = g
      BY <1>5, <1>15, <2>3 DEF ApplyScore
    <3>2. TypeOK'
      BY <1>b, <1>3, <1>5, <1>10, <1>12, <2>1, <2>2, <3>1
    <3>3. ~astray => peak' = g
      <4>1. tested.reward = g /\ (g > best.reward \/ best.reward = -1) /\ g # -1
        BY <1>5, <2>1, <2>3 DEF NoScore
      <4>2. ~astray => g >= peak
        BY <1>7, <1>11, <4>1
      <4>3. CASE peak = g
        BY <2>1, <4>3
      <4>4. CASE peak # g
        <5>1. ~astray => ~(peak >= g)
          BY <1>7, <4>2, <4>4
        <5>2. QED
          BY <2>1, <5>1
      <4>5. QED
        BY <4>3, <4>4
    <3>4. Held'
      <4>1. g <= g
        BY <1>7
      <4>2. QED
        BY <1>1, <1>5, <1>9, <1>10, <2>1, <3>1, <3>3, <4>1 DEF Held
    <3>5. ScoresAreOfTheirFiles' /\ BestIsDelivered' /\ Begins' /\ Ungraded'
      BY <1>1, <1>5, <1>8, <1>9, <1>10, <2>1, <3>1
      DEF ScoresAreOfTheirFiles, BestIsDelivered, Begins, Ungraded, Carries
    <3>6. QED
      BY <3>2, <3>4, <3>5 DEF IInv
  <2>4. CASE ~(best.reward = NoScore \/ tested.reward > best.reward)
    <3>1. /\ RestoreBest(known) /\ current' = best /\ previous' = best.reward
          /\ UNCHANGED <<best, bestText, bestBinary>>
      BY <1>15, <2>4 DEF ApplyScore
    <3>2. best.reward \in Grades
      BY <1>6, RewardsOfResults
    <3>a. /\ Extends(known, after) /\ failed' \in Nat
          /\ there \in [text : 1 .. Len(after), binary : BOOLEAN] /\ lossy' \in BOOLEAN
          /\ ~lossy' => there.text = bestText /\ there.binary = bestBinary
      BY <1>3, <1>8, <1>9, <3>1, RestoreBestMeans DEF IInv
    <3>b. Extends(scores, after)
      BY <1>3, <3>a DEF Extends
    <3>c. /\ best.reward # NoScore => after[bestText][bestBinary] = best.reward
          /\ bestText \in 1 .. Len(after) /\ Carries(question, after)
      BY <3>b, BestStays
    <3>3. TypeOK'
      BY <1>6, <1>12, <2>1, <2>2, <3>1, <3>2, <3>a, <3>b, <3>c DEF IInv, TypeOK
    <3>4. ~astray => peak' = best.reward
      <4>1. g <= best.reward
        BY <1>7, <1>5, <2>4
      <4>2. QED
        BY <1>7, <1>11, <2>1, <4>1
    <3>5. Held'
      <4>1. best.reward <= best.reward
        BY <1>7
      <4>2. QED
        BY <1>1, <1>9, <3>1, <3>4, <3>a, <3>c, <4>1 DEF Held
    <3>6. ScoresAreOfTheirFiles' /\ BestIsDelivered' /\ Begins' /\ Ungraded'
      BY <1>1, <1>9, <2>1, <3>1, <3>c
      DEF ScoresAreOfTheirFiles, BestIsDelivered, Begins, Ungraded, Carries
    <3>7. QED
      BY <3>3, <3>5, <3>6 DEF IInv
  <2>5. QED
    BY <2>3, <2>4
<1>16. QED
  BY <1>2, <1>13, <1>14, <1>15
-----------------------------------------------------------------------------
(* The theorems *)

\* The loop's invariant holds throughout, restores that fail in part included:
\* what it holds is the best, with its files unless such a restore lost them, or
\* something worse that the delivery will replace.
THEOREM LoopInvariant == Spec => []IInv
<1>1. Init => IInv
  <2> SUFFICES ASSUME Init PROVE IInv
    OBVIOUS
  <2>1. scores \in After(<<>>, 1) /\ <<>> \in Seq(Marks) /\ Len(<<>>) = 0
    BY DEF Init
  <2>2. scores \in Seq(Marks) /\ 1 \in 1 .. Len(scores)
    <3>1. 1 \in 1 .. MaxTexts
      BY BoundsAssumption
    <3>2. QED
      BY <2>1, <3>1, AfterMeans DEF Extends
  <2>3. NoQuestion \in Results /\ NoScore \in Grades /\ NoQuestion.reward = NoScore
    BY DEF NoQuestion, Results, Outcome, Grades
  <2>4. task \in Tasks /\ task.binary \in BOOLEAN
    BY TasksAssumption DEF Init
  <2>5. ws \in [text : 1 .. Len(scores), binary : BOOLEAN] /\ ws.text = 1
    BY <2>2, <2>4 DEF Init
  <2>6. TypeOK
    <3>1. {flat, budget, attempt, silent, failed} \subseteq Nat /\ bestText \in 1 .. Len(scores)
      BY <2>2 DEF Init
    <3>2. /\ macroDone \in BOOLEAN /\ astray \in BOOLEAN
          /\ bestBinary \in BOOLEAN /\ lossy \in BOOLEAN
      BY <2>4 DEF Init
    <3>3. QED
      BY <2>2, <2>3, <2>4, <2>5, <3>1, <3>2 DEF Init, TypeOK
  <2>7. Begins /\ Ungraded /\ Held /\ ScoresAreOfTheirFiles /\ BestIsDelivered
    BY <2>3, <2>5 DEF Init, Begins, Ungraded, Held, ScoresAreOfTheirFiles, BestIsDelivered
  <2>8. QED
    BY <2>6, <2>7 DEF IInv
<1>2. IInv /\ [Next]_vars => IInv'
  <2> SUFFICES ASSUME IInv, [Next]_vars PROVE IInv'
    OBVIOUS
  <2>1. CASE LoopStep
    BY <2>1, FirstPlanKeeps, MacroKeeps, PlanFailsKeeps, PlanRefusedKeeps,
       ExecutionFailsKeeps, RepairKeeps, PlainKeeps, AttemptsSpentKeeps, StopStalledKeeps
    DEF LoopStep
  <2>2. CASE AnswerQuestion \/ RejectQuestion
    BY <2>2, AnswerKeeps, RejectKeeps
  <2>3. CASE UNCHANGED vars
    <3>1. TypeOK'
      BY <2>3 DEF vars, files, loopVars, grading, IInv, TypeOK, Question
    <3>2. ScoresAreOfTheirFiles' /\ BestIsDelivered' /\ Begins' /\ Ungraded' /\ Held'
      BY <2>3 DEF vars, files, loopVars, grading, IInv, ScoresAreOfTheirFiles,
                  BestIsDelivered, Begins, Ungraded, Held
    <3>3. QED
      BY <3>1, <3>2 DEF IInv
  <2>4. QED
    BY <2>1, <2>2, <2>3 DEF Next, Finished
<1>3. QED
  BY <1>1, <1>2, PTL DEF Spec

\* The loop's variables keep their types.
THEOREM LoopTypes == Spec => []TypeOK
BY LoopInvariant, PTL DEF IInv

\* A score is never said of other files than those it was measured on: of the best
\* snapshot, of a question's and of what a finished task leaves, unless a regrade
\* went astray or a restore left other files (the deliveries of model_repair.py).
THEOREM ScoresFitTheirFiles == Spec => []ScoresAreOfTheirFiles
BY LoopInvariant, PTL DEF IInv

\* A task that reports a score reports the highest one measured, whatever later
\* attempts did, unless a regrade went astray (_deliver_best_repair).
THEOREM NoBetterRepairIsLost == Spec => []BestIsDelivered
BY LoopInvariant, PTL DEF IInv

----------------------------------------------------------------------------
(* The session *)

\* The counter of a counted step.
Counter(counted) == IF counted.type = "command" THEN lastCommand ELSE lastRead

\* Nothing since an entry has touched its count.
Spared(j) == \A n \in j .. Len(steps) : Spares(steps[n], steps[j])

\* A counter stands for the entries whose count was spared: it names them, and
\* has counted a stall if there are two.
StandsFor(last, j) ==
    /\ last.item = steps[j].item
    /\ \A i \in 1 .. j - 1 : steps[i] = steps[j] /\ Spared(i) => last.stalls >= 1

Counted ==
    \A j \in 1 .. Len(steps) :
        IsCounted(steps[j]) /\ Spared(j) => StandsFor(Counter(steps[j]), j)

\* The inductive invariant.
SessionInv ==
    /\ SessionTypeOK
    /\ stage = "turn" =>
        /\ result = Running /\ lastCommand.stalls <= 1 /\ lastRead.stalls <= 1
        /\ Counted
    /\ FinishIsEarned
    /\ NothingIsRepeatedThrice
----------------------------------------------------------------------------
(* What entering a step in the session does *)

\* The counter is ready to count a repetition of the counted step.
Ready(counted) ==
    /\ Counter(counted).item = counted.item
    /\ counted.type = "command" => LastStatus = "error"

\* What a step that spares a count does to its counter: the counted step itself
\* is counted, and is not carried out when it was counted before; any other
\* leaves the counter where it was or further.
Accounted(step) ==
    \A counted \in Entries : IsCounted(counted) /\ Spares(step, counted) =>
        IF step = counted
        THEN /\ Counter(counted)'.item = counted.item
             /\ Ready(counted) =>
                 Counter(counted)'.stalls >= 1 /\ Counter(counted).stalls = 0
        ELSE Ready(counted) =>
                 /\ Counter(counted)'.item = counted.item
                 /\ Counter(counted)'.stalls >= Counter(counted).stalls

\* A longer session keeps its entries, and with them a patch it had.
LEMMA Entered ==
  ASSUME SessionTypeOK, NEW step \in Entries, steps' = Append(steps, step)
  PROVE  /\ steps' \in Seq(Entries)
         /\ Len(steps') = Len(steps) + 1 /\ Len(steps) \in Nat
         /\ steps'[Len(steps')] = step
         /\ \A i \in 1 .. Len(steps) : steps'[i] = steps[i]
         /\ HasModified => HasModified'
<1>1. steps \in Seq(Entries) /\ Len(steps) \in Nat
  BY LenProperties DEF SessionTypeOK
<1>2. /\ steps' \in Seq(Entries) /\ Len(steps') = Len(steps) + 1
      /\ steps'[Len(steps) + 1] = step
      /\ \A i \in 1 .. Len(steps) : steps'[i] = steps[i]
  BY <1>1, AppendProperties
<1>3. ASSUME HasModified PROVE HasModified'
  <2>1. PICK i \in 1 .. Len(steps) : steps[i].type = "patch" /\ steps[i].status = "ok"
    BY <1>3 DEF HasModified
  <2>2. i \in 1 .. Len(steps') /\ steps'[i] = steps[i]
    BY <1>1, <1>2
  <2>3. QED
    BY <2>1, <2>2 DEF HasModified
<1>4. QED
  BY <1>1, <1>2, <1>3

\* Before a step the counter of what was spared is ready for it.
LEMMA SparedIsReady ==
  ASSUME SessionTypeOK, Counted, NEW j \in 1 .. Len(steps), IsCounted(steps[j]), Spared(j)
  PROVE  Ready(steps[j])
<1> DEFINE n == Len(steps)
<1>1. n \in Nat /\ n \in j .. n /\ steps \in Seq(Entries) /\ steps # <<>>
  BY LenProperties, EmptySeq DEF SessionTypeOK
<1>2. Counter(steps[j]).item = steps[j].item
  BY DEF Counted, StandsFor
<1>3. Spares(steps[n], steps[j])
  BY <1>1 DEF Spared
<1>4. steps[j].type = "command" => LastStatus = "error"
  BY <1>1, <1>3 DEF Spares, LastStatus
<1>5. QED
  BY <1>2, <1>4 DEF Ready

\* A step the counters account for makes no third of two entries whose count was
\* spared.
LEMMA NoThird ==
  ASSUME SessionInv, stage = "turn", NEW step \in Entries, steps' = Append(steps, step),
         IsCounted(step) => Accounted(step)
  PROVE  NothingIsRepeatedThrice'
<1> DEFINE n == Len(steps)
<1>1. /\ n \in Nat /\ Len(steps') = n + 1 /\ steps'[n + 1] = step
      /\ \A i \in 1 .. n : steps'[i] = steps[i]
  BY Entered DEF SessionInv
<1>2. SUFFICES ASSUME NEW i \in 1 .. n + 1, NEW j \in 1 .. n + 1, NEW k \in 1 .. n + 1,
                      i < j, j < k, IsCounted(steps'[i]),
                      steps'[j] = steps'[i], steps'[k] = steps'[i],
                      \A between \in i .. k : Spares(steps'[between], steps'[i])
               PROVE  FALSE
  <2>1. SUFFICES ASSUME NEW i \in 1 .. Len(steps'), NEW j \in 1 .. Len(steps'),
                        NEW k \in 1 .. Len(steps'),
                        i < j, j < k, IsCounted(steps[i])',
                        steps'[j] = steps'[i], steps'[k] = steps'[i],
                        \A between \in i .. k : Spares(steps[between], steps[i])'
                 PROVE  FALSE
    BY DEF NothingIsRepeatedThrice
  <2>2. IsCounted(steps'[i]) /\ \A between \in i .. k : Spares(steps'[between], steps'[i])
    BY <2>1 DEF IsCounted, Spares
  <2>3. QED
    BY <1>1, <1>2, <2>1, <2>2
<1>3. i \in 1 .. n /\ j \in 1 .. n /\ steps'[i] = steps[i] /\ steps'[j] = steps[j]
  BY <1>1, <1>2
<1>4. CASE k = n + 1
  <2>1. step = steps[j] /\ steps[i] = steps[j] /\ IsCounted(steps[j])
    BY <1>1, <1>2, <1>3, <1>4
  <2>2. ASSUME NEW m \in i .. n PROVE Spares(steps[m], steps[j])
    <3>1. m \in i .. k /\ m \in 1 .. n
      BY <1>1, <1>4, <1>3
    <3>2. Spares(steps'[m], steps'[i])
      BY <1>2, <3>1
    <3>3. QED
      BY <1>1, <1>3, <2>1, <3>1, <3>2
  <2>3. Spared(i) /\ Spared(j)
    <3>1. j .. n \subseteq i .. n
      BY <1>1, <1>2, <1>3
    <3>2. QED
      BY <2>1, <2>2, <3>1 DEF Spared
  <2>4. Ready(steps[j]) /\ Counter(steps[j]).stalls >= 1
    <3>1. Ready(steps[j])
      BY <1>3, <2>1, <2>3, SparedIsReady DEF SessionInv
    <3>2. StandsFor(Counter(steps[j]), j)
      BY <1>3, <2>1, <2>3 DEF SessionInv, Counted
    <3>3. i \in 1 .. j - 1
      BY <1>2, <1>3
    <3>4. QED
      BY <2>1, <2>3, <3>1, <3>2, <3>3 DEF StandsFor
  <2>5. Spares(step, step)
    <3>1. n + 1 \in i .. k
      BY <1>1, <1>3, <1>4
    <3>2. QED
      BY <1>1, <1>2, <1>3, <2>1, <3>1
  <2>6. Counter(step).stalls = 0
    BY <2>1, <2>4, <2>5 DEF Accounted
  <2>7. QED
    BY <2>1, <2>4, <2>6
<1>5. CASE k # n + 1
  <2>1. k \in 1 .. n /\ steps'[k] = steps[k]
    BY <1>1, <1>5
  <2>2. PICK between \in i .. k : ~Spares(steps[between], steps[i])
    BY <1>2, <1>3, <2>1 DEF SessionInv, NothingIsRepeatedThrice
  <2>3. between \in 1 .. n
    BY <1>1, <1>3, <2>1
  <2>4. QED
    BY <1>1, <1>2, <1>3, <2>2, <2>3
<1>6. QED
  BY <1>4, <1>5

\* And it leaves the counters in order.
LEMMA AccountedCounts ==
  ASSUME SessionInv, stage = "turn", NEW step \in Entries, steps' = Append(steps, step),
         Accounted(step), lastCommand'.stalls \in Nat, lastRead'.stalls \in Nat
  PROVE  Counted'
<1> DEFINE n == Len(steps)
<1>1. /\ n \in Nat /\ Len(steps') = n + 1 /\ steps'[n + 1] = step
      /\ \A i \in 1 .. n : steps'[i] = steps[i]
  BY Entered DEF SessionInv
<1>2. SUFFICES ASSUME NEW j \in 1 .. n + 1, NEW counted, counted = steps'[j],
                      IsCounted(counted), Spared(j)'
               PROVE  /\ Counter(counted)'.item = counted.item
                      /\ \A i \in 1 .. j - 1 :
                            steps'[i] = counted /\ Spared(i)' => Counter(counted)'.stalls >= 1
  <2>1. ASSUME NEW j \in 1 .. Len(steps'), IsCounted(steps[j])', Spared(j)'
        PROVE  StandsFor(Counter(steps[j]), j)'
    BY <1>1, <1>2, <2>1 DEF StandsFor, Counter, IsCounted
  <2>2. QED
    BY <2>1 DEF Counted
<1>3. /\ counted \in Entries /\ Spares(step, counted)
      /\ Counter(counted)'.stalls \in Nat
      /\ Counter(counted).stalls \in Nat
  <2>1. counted \in Entries
    <3>1. steps' \in Seq(Entries)
      BY Entered DEF SessionInv
    <3>2. QED
      BY <1>1, <1>2, <3>1, ElementOfSeq
  <2>2. n + 1 \in j .. n + 1
    BY <1>1, <1>2
  <2>3. Spares(step, counted)
    BY <1>1, <1>2, <2>2 DEF Spared
  <2>4. Counter(counted)'.stalls \in Nat /\ Counter(counted).stalls \in Nat
    BY DEF Counter, SessionInv, SessionTypeOK
  <2>5. QED
    BY <2>1, <2>3, <2>4
<1>4. ASSUME NEW i \in 1 .. n, steps'[i] = counted, Spared(i)'
      PROVE  /\ steps[i] = counted /\ IsCounted(steps[i]) /\ Spared(i)
             /\ Ready(counted)
  <2>1. steps[i] = counted /\ IsCounted(steps[i])
    BY <1>1, <1>2, <1>4
  <2>2. Spared(i)
    <3>1. SUFFICES ASSUME NEW m \in i .. n PROVE Spares(steps[m], steps[i])
      BY DEF Spared
    <3>2. m \in i .. n + 1 /\ m \in 1 .. n
      BY <1>1, <1>4, <3>1
    <3>3. Spares(steps'[m], steps'[i])
      BY <1>1, <1>4, <3>2 DEF Spared
    <3>4. QED
      BY <1>1, <3>2, <3>3
  <2>3. QED
    BY <1>4, <2>1, <2>2, SparedIsReady DEF SessionInv
<1>5. Counter(counted)'.item = counted.item
  <2>1. CASE step = counted
    BY <1>2, <1>3, <2>1 DEF Accounted
  <2>2. CASE step # counted
    <3>1. j \in 1 .. n
      BY <1>1, <1>2, <2>2
    <3>2. Ready(counted)
      BY <1>2, <1>4, <3>1
    <3>3. QED
      BY <1>2, <1>3, <2>2, <3>2 DEF Accounted
  <2>3. QED
    BY <2>1, <2>2
<1>6. ASSUME NEW i \in 1 .. j - 1, steps'[i] = counted, Spared(i)'
      PROVE  Counter(counted)'.stalls >= 1
  <2>1. i \in 1 .. n
    BY <1>1, <1>2, <1>6
  <2>2. Ready(counted) /\ steps[i] = counted /\ Spared(i)
    BY <1>4, <1>6, <2>1
  <2>3. CASE step = counted
    BY <1>2, <1>3, <2>2, <2>3 DEF Accounted
  <2>4. CASE step # counted
    <3>1. j \in 1 .. n
      BY <1>1, <1>2, <2>4
    <3>2. steps[j] = counted /\ IsCounted(steps[j]) /\ Spared(j)
      BY <1>2, <1>4, <3>1
    <3>3. StandsFor(Counter(counted), j)
      BY <3>1, <3>2 DEF SessionInv, Counted
    <3>4. Counter(counted).stalls >= 1
      BY <1>6, <2>2, <3>2, <3>3 DEF StandsFor
    <3>5. Counter(counted)'.stalls >= Counter(counted).stalls
      BY <1>2, <1>3, <2>2, <2>4 DEF Accounted
    <3>6. QED
      BY <1>3, <3>4, <3>5
  <2>5. QED
    BY <2>3, <2>4
<1>7. QED
  BY <1>5, <1>6

\* A step that spares no count, or leaves the counters alone and is not counted
\* itself, is accounted for.
LEMMA OtherSteps ==
  ASSUME SessionTypeOK, NEW step,
         \/ ~IsCounted(step) /\ UNCHANGED signatures
         \/ step.type = "patch" /\ step.status # "blocked"
  PROVE  Accounted(step)
<1> SUFFICES ASSUME NEW counted \in Entries, IsCounted(counted), Spares(step, counted)
             PROVE  IF step = counted
                    THEN /\ Counter(counted)'.item = counted.item
                         /\ Ready(counted) =>
                             Counter(counted)'.stalls >= 1 /\ Counter(counted).stalls = 0
                    ELSE Ready(counted) =>
                             /\ Counter(counted)'.item = counted.item
                             /\ Counter(counted)'.stalls >= Counter(counted).stalls
  BY DEF Accounted
<1>1. counted.type \in {"command", "read_file"}
  BY DEF IsCounted
<1>2. ~IsCounted(step) /\ UNCHANGED signatures
  BY DEF Spares
<1>3. step # counted /\ Counter(counted)' = Counter(counted)
  BY <1>2 DEF signatures, Counter
<1>4. Counter(counted).stalls \in Int
  BY DEF Counter, SessionTypeOK
<1>5. QED
  BY <1>3, <1>4 DEF Ready

\* A step the session goes on after keeps the invariant, if the counters account
\* for it and keep their types.
LEMMA ContinueKeeps ==
  ASSUME SessionInv, Asked, NEW step \in Entries, Continue(step), Accounted(step),
         lastCommand' \in [item : Commands \cup {NoItem}, stalls : 0 .. 1],
         lastRead' \in [item : Reads \cup {NoItem}, stalls : 0 .. 1],
         tests' \in {"original", "changed"}, broken' \in BOOLEAN
  PROVE  SessionInv'
<1>1. steps' = Append(steps, step) /\ stage = "turn"
  BY DEF Continue, Record, Asked
<1>2. steps' \in Seq(Entries) /\ Len(steps') <= MaxTurns
  <2>1. MaxTurns \in Nat /\ Len(steps) < MaxTurns
    BY TurnsAssumption DEF Asked
  <2>2. QED
    BY <1>1, <2>1, Entered DEF SessionInv
<1>3. Counted' /\ NothingIsRepeatedThrice'
  <2>1. lastCommand'.stalls \in Nat /\ lastRead'.stalls \in Nat
    OBVIOUS
  <2>2. QED
    BY <1>1, <2>1, AccountedCounts, NoThird
<1>4. result = Running /\ result' = result /\ stage' = "turn"
  BY DEF SessionInv, Asked, Continue
<1>5. SessionTypeOK'
  BY <1>2, <1>4 DEF SessionInv, SessionTypeOK, Continue, Record
<1>6. FinishIsEarned'
  BY <1>4 DEF FinishIsEarned, Running, Result
<1>7. QED
  BY <1>3, <1>4, <1>5, <1>6 DEF SessionInv

\* So does one the session halts after, which is not carried out.
LEMMA HaltKeeps ==
  ASSUME SessionInv, Asked, NEW step \in Entries, ~IsCounted(step),
         NEW reason \in {"preset_test_immutable", "stagnation_loop"}, Halt(step, reason),
         lastCommand' \in [item : Commands \cup {NoItem}, stalls : 0 .. 2],
         lastRead' \in [item : Reads \cup {NoItem}, stalls : 0 .. 2],
         tests' \in {"original", "changed"}, broken' \in BOOLEAN
  PROVE  SessionInv'
<1>1. steps' = Append(steps, step) /\ stage = "turn"
  BY DEF Halt, Record, Asked
<1>2. steps' \in Seq(Entries) /\ Len(steps') <= MaxTurns
  <2>1. MaxTurns \in Nat /\ Len(steps) < MaxTurns
    BY TurnsAssumption DEF Asked
  <2>2. QED
    BY <1>1, <2>1, Entered DEF SessionInv
<1>3. NothingIsRepeatedThrice'
  BY <1>1, NoThird
<1>4. result' = [status |-> "halted", reason |-> reason] /\ stage' = "judge"
  BY DEF Halt, Result
<1>5. SessionTypeOK'
  BY <1>2, <1>4 DEF SessionInv, SessionTypeOK, Halt, Record
<1>6. FinishIsEarned'
  BY <1>4 DEF FinishIsEarned
<1>7. QED
  BY <1>3, <1>4, <1>5, <1>6 DEF SessionInv

\* The comparison of the test files leaves types, whatever it finds.
LEMMA VerifyTypes ==
  ASSUME NEW found, NEW intact \in BOOLEAN, VerifyTests(found, intact)
  PROVE  tests' \in {"original", "changed"} /\ broken' \in BOOLEAN
BY DEF VerifyTests
----------------------------------------------------------------------------
(* The steps *)

\* A command that is let through accounts for itself: a failure that follows one
\* is counted, and a counted one does not run.  It spares no read.
LEMMA CommandCounts ==
  ASSUME SessionInv, Asked, NEW c \in Commands, NEW status \in {"ok", "error"},
         lastCommand' = Repeats(lastCommand, c,
                                lastCommand.item = c /\ LastStatus = "error"),
         ~Stagnates(lastCommand')
  PROVE  Accounted(Step("command", c, status))
<1> DEFINE again == lastCommand.item = c /\ LastStatus = "error"
           step == Step("command", c, status)
<1>1. lastCommand.stalls \in 0 .. 1
  BY DEF SessionInv, SessionTypeOK, Asked
<1>2. lastCommand' = [item |-> c, stalls |-> IF again THEN lastCommand.stalls + 1 ELSE 0]
  BY DEF Repeats
<1>3. again => lastCommand'.stalls = 1 /\ lastCommand.stalls = 0
  <2> HIDE DEF again
  <2>1. QED
    BY <1>1, <1>2 DEF Stagnates
<1>4. step = [type |-> "command", item |-> c, status |-> status]
  BY DEF Step
<1> HIDE DEF step
<1>5. ASSUME NEW counted \in Entries, IsCounted(counted), Spares(step, counted)
      PROVE  counted = step
  <2>1. counted.type \in {"command", "read_file"}
        /\ (counted.type = "command" => counted.status = "error")
    BY <1>5 DEF IsCounted
  <2>2. counted.type = "command" /\ status = "error" /\ c \in {counted.item, NoItem}
    BY <1>4, <1>5, <2>1 DEF Spares
  <2>3. counted.item = c
    BY <2>2, ItemsAssumption
  <2>4. QED
    BY <1>4, <2>1, <2>2, <2>3 DEF Entries
<1>6. /\ Counter(step)'.item = step.item
      /\ Ready(step) => Counter(step)'.stalls >= 1 /\ Counter(step).stalls = 0
  <2>1. step.type = "command" /\ step.item = c
    BY <1>4
  <2>2. Counter(step) = lastCommand /\ Counter(step)' = lastCommand'
    BY <2>1 DEF Counter
  <2>3. lastCommand'.item = c
    BY <1>2
  <2>4. Ready(step) => again
    BY <2>1, <2>2 DEF Ready
  <2>5. QED
    BY <1>3, <2>1, <2>2, <2>3, <2>4
<1>7. QED
  BY <1>5, <1>6 DEF Accounted, step

\* So does a read, one of the same range that fails too.  It spares no command.
LEMMA ReadCounts ==
  ASSUME SessionInv, Asked, NEW r \in Reads, NEW status \in {"ok", "error"},
         lastRead' = Repeats(lastRead, r, lastRead.item = r),
         ~Stagnates(lastRead')
  PROVE  Accounted(Step("read_file", r, status))
<1> DEFINE again == lastRead.item = r
           step == Step("read_file", r, status)
<1>1. lastRead.stalls \in 0 .. 1
  BY DEF SessionInv, SessionTypeOK, Asked
<1>2. lastRead' = [item |-> r, stalls |-> IF again THEN lastRead.stalls + 1 ELSE 0]
  BY DEF Repeats
<1>3. again => lastRead'.stalls = 1 /\ lastRead.stalls = 0
  <2> HIDE DEF again
  <2>1. QED
    BY <1>1, <1>2 DEF Stagnates
<1>4. step = [type |-> "read_file", item |-> r, status |-> status]
  BY DEF Step
<1> HIDE DEF step
<1>5. ASSUME NEW counted \in Entries, IsCounted(counted), Spares(step, counted)
      PROVE  counted.type = "read_file" /\ counted.item = r
  BY <1>4, <1>5 DEF Spares, IsCounted
<1>6. ASSUME NEW counted \in Entries, IsCounted(counted), Spares(step, counted)
      PROVE  /\ Counter(counted)'.item = counted.item
             /\ Ready(counted) =>
                 Counter(counted)'.stalls = 1 /\ Counter(counted).stalls = 0
  <2>1. Counter(counted) = lastRead /\ Counter(counted)' = lastRead'
    BY <1>5, <1>6 DEF Counter
  <2>2. lastRead'.item = r
    BY <1>2
  <2>3. Ready(counted) => again
    BY <1>5, <1>6, <2>1 DEF Ready
  <2>4. QED
    BY <1>3, <1>5, <1>6, <2>1, <2>2, <2>3
<1>7. QED
  BY <1>6 DEF Accounted, step

\* A command that passes the gate keeps the invariant.
LEMMA CommandKeeps ==
  ASSUME SessionInv, Asked, NEW c \in Commands, RunCommand(c) PROVE SessionInv'
<1> DEFINE repeats == Repeats(lastCommand, c,
                              lastCommand.item = c /\ LastStatus = "error")
<1>1. lastCommand' = repeats /\ lastRead' = NoRepeat
  BY DEF RunCommand
<1>2. lastRead' \in [item : Reads \cup {NoItem}, stalls : 0 .. 1]
  BY <1>1 DEF NoRepeat
<1>3. lastRead' \in [item : Reads \cup {NoItem}, stalls : 0 .. 2]
  BY <1>2
<1>4. ASSUME NEW status \in {"ok", "error", "blocked", "halted"}
      PROVE  /\ Step("command", c, status) \in Entries
             /\ status \in {"blocked", "halted"} => ~IsCounted(Step("command", c, status))
  BY <1>4 DEF Entries, Step, IsCounted
<1>5. /\ lastCommand' \in [item : Commands \cup {NoItem}, stalls : 0 .. 2]
      /\ ~Stagnates(repeats) =>
           lastCommand' \in [item : Commands \cup {NoItem}, stalls : 0 .. 1]
  <2>1. lastCommand.stalls \in 0 .. 1
    BY DEF SessionInv, SessionTypeOK, Asked
  <2>2. QED
    BY <1>1, <2>1 DEF Repeats, Stagnates
<1>6. CASE Stagnates(repeats)
  <2>1. /\ Halt(Step("command", c, "halted"), "stagnation_loop")
        /\ UNCHANGED <<tests, broken>>
    BY <1>6 DEF RunCommand
  <2>2. tests' \in {"original", "changed"} /\ broken' \in BOOLEAN
    BY <2>1 DEF SessionInv, SessionTypeOK
  <2>3. QED
    BY <1>3, <1>4, <1>5, <2>1, <2>2, HaltKeeps
<1>7. CASE ~Stagnates(repeats)
  <2>1. ASSUME NEW status \in {"ok", "error"}
        PROVE  Accounted(Step("command", c, status))
    BY <1>1, <1>7, CommandCounts
  <2>2. PICK left \in {"original", "changed"} :
           \/ \E status \in {"ok", "error"} : CommandReturns(c, left, status)
           \/ CommandRaises(c, left)
    BY <1>7 DEF RunCommand
  <2>3. ASSUME NEW status \in {"ok", "error"}, CommandReturns(c, left, status) PROVE SessionInv'
    <3>1. PICK intact \in BOOLEAN :
            /\ VerifyTests(left, intact)
            /\ IF intact THEN Continue(Step("command", c, status))
               ELSE Halt(Step("command", c, "blocked"), "preset_test_immutable")
      BY <2>3 DEF CommandReturns
    <3>2. tests' \in {"original", "changed"} /\ broken' \in BOOLEAN
      BY <3>1, VerifyTypes
    <3>3. CASE intact
      BY <1>2, <1>4, <1>5, <1>7, <2>1, <3>1, <3>2, <3>3, ContinueKeeps
    <3>4. CASE ~intact
      BY <1>3, <1>4, <1>5, <3>1, <3>2, <3>4, HaltKeeps
    <3>5. QED
      BY <3>3, <3>4
  <2>4. ASSUME CommandRaises(c, left) PROVE SessionInv'
    <3>1. Continue(Step("command", c, "error")) /\ tests' = left /\ broken' = broken
      BY <2>4 DEF CommandRaises
    <3>2. tests' \in {"original", "changed"} /\ broken' \in BOOLEAN
      BY <3>1 DEF SessionInv, SessionTypeOK
    <3>3. QED
      BY <1>2, <1>4, <1>5, <1>7, <2>1, <3>1, <3>2, ContinueKeeps
  <2>5. QED
    BY <2>2, <2>3, <2>4
<1>8. QED
  BY <1>6, <1>7

\* What the gate blocks keeps the invariant.
LEMMA GateKeeps ==
  ASSUME SessionInv, Asked, NEW type \in {"patch", "command"},
         NEW item \in Commands \cup {"file"}, GateBlocks(type, item)
  PROVE  SessionInv'
<1>1. Continue(Step(type, item, "blocked")) /\ UNCHANGED <<tests, broken, signatures>>
  BY DEF GateBlocks
<1>2. Step(type, item, "blocked") \in Entries
  BY DEF Entries, Step
<1>3. Accounted(Step(type, item, "blocked"))
  <2>1. ~IsCounted(Step(type, item, "blocked"))
    BY DEF Step, IsCounted
  <2>2. QED
    BY <1>1, <2>1, OtherSteps DEF SessionInv
<1>4. /\ tests' \in {"original", "changed"} /\ broken' \in BOOLEAN
      /\ lastCommand' \in [item : Commands \cup {NoItem}, stalls : 0 .. 1]
      /\ lastRead' \in [item : Reads \cup {NoItem}, stalls : 0 .. 1]
  BY <1>1 DEF SessionInv, SessionTypeOK, Asked, signatures
<1>5. QED
  BY <1>1, <1>2, <1>3, <1>4, ContinueKeeps

\* Turns of which nothing is counted.
LEMMA OtherTurns ==
  ASSUME SessionInv, PatchTestFile \/ Patch \/ CommandIsCaught \/ UnknownAction
  PROVE  SessionInv'
<1>1. CASE PatchTestFile
  <2>1. Step("patch", "test", "blocked") \in Entries
    BY DEF Entries, Step
  <2>2. ~IsCounted(Step("patch", "test", "blocked"))
    BY DEF Step, IsCounted
  <2>3. /\ tests' \in {"original", "changed"} /\ broken' \in BOOLEAN
        /\ lastCommand' \in [item : Commands \cup {NoItem}, stalls : 0 .. 2]
        /\ lastRead' \in [item : Reads \cup {NoItem}, stalls : 0 .. 2]
    BY <1>1 DEF PatchTestFile, SessionInv, SessionTypeOK, signatures
  <2>4. QED
    BY <1>1, <2>1, <2>2, <2>3, HaltKeeps DEF PatchTestFile
<1>2. CASE Patch
  <2>1. CASE GateBlocks("patch", "file")
    BY <1>2, <2>1, GateKeeps DEF Patch
  <2>2. ASSUME NEW status \in {"ok", "error"}, Continue(Step("patch", "file", status)),
               lastCommand' = NoRepeat, lastRead' = NoRepeat, UNCHANGED <<tests, broken>>
        PROVE  SessionInv'
    <3>1. Step("patch", "file", status) \in Entries
      BY DEF Entries, Step
    <3>2. Accounted(Step("patch", "file", status))
      <4>1. Step("patch", "file", status).type = "patch"
            /\ Step("patch", "file", status).status # "blocked"
        BY DEF Step
      <4>2. QED
        BY <4>1, OtherSteps DEF SessionInv
    <3>3. /\ tests' \in {"original", "changed"} /\ broken' \in BOOLEAN
          /\ lastCommand' \in [item : Commands \cup {NoItem}, stalls : 0 .. 1]
          /\ lastRead' \in [item : Reads \cup {NoItem}, stalls : 0 .. 1]
      BY <2>2 DEF SessionInv, SessionTypeOK, NoRepeat
    <3>4. QED
      BY <1>2, <2>2, <3>1, <3>2, <3>3, ContinueKeeps DEF Patch
  <2>3. QED
    BY <1>2, <2>1, <2>2 DEF Patch
<1>3. CASE CommandIsCaught
  <2>1. PICK c \in Commands : Halt(Step("command", c, "blocked"), "preset_test_immutable")
    BY <1>3 DEF CommandIsCaught
  <2>2. Step("command", c, "blocked") \in Entries
    BY DEF Entries, Step
  <2>3. ~IsCounted(Step("command", c, "blocked"))
    BY DEF Step, IsCounted
  <2>4. /\ tests' \in {"original", "changed"} /\ broken' \in BOOLEAN
        /\ lastCommand' \in [item : Commands \cup {NoItem}, stalls : 0 .. 2]
        /\ lastRead' \in [item : Reads \cup {NoItem}, stalls : 0 .. 2]
    BY <1>3 DEF CommandIsCaught, SessionInv, SessionTypeOK, signatures
  <2>5. QED
    BY <1>3, <2>1, <2>2, <2>3, <2>4, HaltKeeps DEF CommandIsCaught
<1>4. CASE UnknownAction
  <2>1. Step("unknown", NoItem, "error") \in Entries
    BY DEF Entries, Step
  <2>2. Accounted(Step("unknown", NoItem, "error"))
    <3>1. ~IsCounted(Step("unknown", NoItem, "error"))
      BY DEF Step, IsCounted
    <3>2. QED
      BY <1>4, <3>1, OtherSteps DEF UnknownAction, SessionInv
  <2>3. /\ tests' \in {"original", "changed"} /\ broken' \in BOOLEAN
        /\ lastCommand' \in [item : Commands \cup {NoItem}, stalls : 0 .. 1]
        /\ lastRead' \in [item : Reads \cup {NoItem}, stalls : 0 .. 1]
    BY <1>4 DEF UnknownAction, SessionInv, SessionTypeOK, signatures, Asked
  <2>4. QED
    BY <1>4, <2>1, <2>2, <2>3, ContinueKeeps DEF UnknownAction
<1>5. QED
  BY <1>1, <1>2, <1>3, <1>4

\* A command without words spares the counts of commands and no read, and the
\* counter of commands stays.
LEMMA EmptyCommandCounts ==
  ASSUME SessionInv, EmptyCommand PROVE Accounted(Step("command", NoItem, "error"))
<1> DEFINE step == Step("command", NoItem, "error")
<1>1. /\ step = [type |-> "command", item |-> NoItem, status |-> "error"]
      /\ lastCommand' = lastCommand /\ lastCommand.stalls \in Int
  BY DEF Step, EmptyCommand, SessionInv, SessionTypeOK
<1> HIDE DEF step
<1>2. ASSUME NEW counted \in Entries, IsCounted(counted), Spares(step, counted)
      PROVE  counted.type = "command" /\ step # counted
  BY <1>1, <1>2 DEF Spares, IsCounted
<1>3. ASSUME NEW counted \in Entries, IsCounted(counted), Spares(step, counted)
      PROVE  Ready(counted) =>
                /\ Counter(counted)'.item = counted.item
                /\ Counter(counted)'.stalls >= Counter(counted).stalls
  <2>1. Counter(counted) = lastCommand /\ Counter(counted)' = lastCommand'
    BY <1>2, <1>3 DEF Counter
  <2>2. Ready(counted) => lastCommand.item = counted.item
    BY <2>1 DEF Ready
  <2>3. QED
    BY <1>1, <2>1, <2>2
<1>4. QED
  BY <1>2, <1>3 DEF Accounted, step

\* Any command, one without words too.
LEMMA CommandTurn == ASSUME SessionInv, Command PROVE SessionInv'
<1>1. Asked
  BY DEF Command
<1>2. ASSUME NEW c \in Commands, GateBlocks("command", c) PROVE SessionInv'
  BY <1>1, <1>2, GateKeeps
<1>3. ASSUME NEW c \in Commands, RunCommand(c) PROVE SessionInv'
  BY <1>1, <1>3, CommandKeeps
<1>4. ASSUME EmptyCommand PROVE SessionInv'
  <2>1. Step("command", NoItem, "error") \in Entries
    BY DEF Entries, Step
  <2>2. Accounted(Step("command", NoItem, "error"))
    BY <1>4, EmptyCommandCounts
  <2>3. /\ tests' \in {"original", "changed"} /\ broken' \in BOOLEAN
        /\ lastCommand' \in [item : Commands \cup {NoItem}, stalls : 0 .. 1]
        /\ lastRead' \in [item : Reads \cup {NoItem}, stalls : 0 .. 1]
    BY <1>1, <1>4 DEF EmptyCommand, SessionInv, SessionTypeOK, NoRepeat, Asked
  <2>4. QED
    BY <1>1, <1>4, <2>1, <2>2, <2>3, ContinueKeeps DEF EmptyCommand
<1>5. QED
  BY <1>2, <1>3, <1>4 DEF Command

\* A read that is refused or missing spares only the counts of reads, and their
\* counter stays.
LEMMA RefusedReadCounts ==
  ASSUME SessionTypeOK, NEW r \in Reads, NEW status \in {"blocked", "error"}, UNCHANGED lastRead
  PROVE  Accounted(Step("read_file", r, status))
<1> DEFINE step == Step("read_file", r, status)
<1>1. /\ step = [type |-> "read_file", item |-> r, status |-> status]
      /\ lastRead' = lastRead /\ lastRead.stalls \in Int
  BY DEF Step, SessionTypeOK
<1> HIDE DEF step
<1>2. ASSUME NEW counted \in Entries, IsCounted(counted), Spares(step, counted)
      PROVE  counted.type = "read_file" /\ step # counted
  BY <1>1, <1>2 DEF Spares, IsCounted
<1>3. ASSUME NEW counted \in Entries, IsCounted(counted), Spares(step, counted)
      PROVE  Ready(counted) =>
                /\ Counter(counted)'.item = counted.item
                /\ Counter(counted)'.stalls >= Counter(counted).stalls
  <2>1. Counter(counted) = lastRead /\ Counter(counted)' = lastRead'
    BY <1>2, <1>3 DEF Counter
  <2>2. Ready(counted) => lastRead.item = counted.item
    BY <2>1 DEF Ready
  <2>3. QED
    BY <1>1, <2>1, <2>2
<1>4. QED
  BY <1>2, <1>3 DEF Accounted, step

\* A read: refused or missing, or counted.
LEMMA ReadTurn == ASSUME SessionInv, ReadFile PROVE SessionInv'
<1>1. /\ Asked /\ lastCommand' = NoRepeat /\ UNCHANGED <<tests, broken>>
  BY DEF ReadFile
<1>2. /\ tests' \in {"original", "changed"} /\ broken' \in BOOLEAN
      /\ lastCommand' \in [item : Commands \cup {NoItem}, stalls : 0 .. 1]
  BY <1>1 DEF SessionInv, SessionTypeOK, NoRepeat
<1>3. lastCommand' \in [item : Commands \cup {NoItem}, stalls : 0 .. 2]
  BY <1>2
<1>4. ASSUME NEW r \in Reads, NEW status \in {"ok", "error", "blocked", "halted"}
      PROVE  Step("read_file", r, status) \in Entries
  BY DEF Entries, Step
<1>5. PICK r \in Reads :
        \/ /\ \E status \in {"blocked", "error"} : Continue(Step("read_file", r, status))
           /\ UNCHANGED lastRead
        \/ /\ lastRead' = Repeats(lastRead, r, lastRead.item = r)
           /\ IF Stagnates(lastRead')
              THEN Halt(Step("read_file", r, "halted"), "stagnation_loop")
              ELSE \E status \in {"ok", "error"} : Continue(Step("read_file", r, status))
  BY DEF ReadFile
<1>6. ASSUME NEW status \in {"blocked", "error"}, Continue(Step("read_file", r, status)),
             UNCHANGED lastRead
      PROVE  SessionInv'
  <2>1. Accounted(Step("read_file", r, status))
    BY <1>6, RefusedReadCounts DEF SessionInv
  <2>2. lastRead' \in [item : Reads \cup {NoItem}, stalls : 0 .. 1]
    BY <1>1, <1>6 DEF SessionInv, SessionTypeOK, Asked
  <2>3. QED
    BY <1>1, <1>2, <1>4, <1>6, <2>1, <2>2, ContinueKeeps
<1>7. ASSUME lastRead' = Repeats(lastRead, r, lastRead.item = r)
      PROVE  /\ lastRead' \in [item : Reads \cup {NoItem}, stalls : 0 .. 2]
             /\ ~Stagnates(lastRead') =>
                  lastRead' \in [item : Reads \cup {NoItem}, stalls : 0 .. 1]
  <2>1. lastRead.stalls \in 0 .. 1
    BY <1>1 DEF SessionInv, SessionTypeOK, Asked
  <2>2. QED
    BY <1>7, <2>1 DEF Repeats, Stagnates
<1>8. ASSUME lastRead' = Repeats(lastRead, r, lastRead.item = r), Stagnates(lastRead'),
             Halt(Step("read_file", r, "halted"), "stagnation_loop")
      PROVE  SessionInv'
  <2>1. ~IsCounted(Step("read_file", r, "halted"))
    BY DEF Step, IsCounted
  <2>2. QED
    BY <1>1, <1>2, <1>3, <1>4, <1>7, <1>8, <2>1, HaltKeeps
<1>9. ASSUME lastRead' = Repeats(lastRead, r, lastRead.item = r), ~Stagnates(lastRead'),
             NEW status \in {"ok", "error"}, Continue(Step("read_file", r, status))
      PROVE  SessionInv'
  <2>1. Accounted(Step("read_file", r, status))
    BY <1>1, <1>9, ReadCounts
  <2>2. QED
    BY <1>1, <1>2, <1>4, <1>7, <1>9, <2>1, ContinueKeeps
<1>10. QED
  BY <1>5, <1>6, <1>8, <1>9

\* A finish is only accepted over the original test files and with a patch.
LEMMA FinishTurn == ASSUME SessionInv, Finish PROVE SessionInv'
<1>1. Asked /\ UNCHANGED signatures
  BY DEF Finish
<1>2. /\ lastCommand' \in [item : Commands \cup {NoItem}, stalls : 0 .. 1]
      /\ lastRead' \in [item : Reads \cup {NoItem}, stalls : 0 .. 1]
  BY <1>1 DEF SessionInv, SessionTypeOK, Asked, signatures
<1>3. /\ lastCommand' \in [item : Commands \cup {NoItem}, stalls : 0 .. 2]
      /\ lastRead' \in [item : Reads \cup {NoItem}, stalls : 0 .. 2]
  BY <1>2
<1>4. ASSUME NEW status \in {"ok", "error", "blocked"}
      PROVE  /\ Step("finish", NoItem, status) \in Entries
             /\ ~IsCounted(Step("finish", NoItem, status))
             /\ Accounted(Step("finish", NoItem, status))
  <2>1. Step("finish", NoItem, status) \in Entries /\ ~IsCounted(Step("finish", NoItem, status))
    BY <1>4 DEF Entries, Step, IsCounted
  <2>2. QED
    BY <1>1, <2>1, OtherSteps DEF SessionInv
<1>5. PICK intact \in BOOLEAN :
        /\ VerifyTests(tests, intact)
        /\ \/ /\ ~intact
              /\ Halt(Step("finish", NoItem, "blocked"), "preset_test_immutable")
           \/ /\ intact /\ ~HasModified
              /\ Continue(Step("finish", NoItem, "error"))
           \/ /\ intact /\ HasModified
              /\ Record(Step("finish", NoItem, "ok"))
              /\ stage' = "judge" /\ result' = Result("completed", "agent_finished")
  BY DEF Finish
<1>6. tests' \in {"original", "changed"} /\ broken' \in BOOLEAN
  BY <1>5, VerifyTypes
<1>7. CASE Halt(Step("finish", NoItem, "blocked"), "preset_test_immutable")
  BY <1>1, <1>3, <1>4, <1>6, <1>7, HaltKeeps
<1>8. CASE Continue(Step("finish", NoItem, "error"))
  BY <1>1, <1>2, <1>4, <1>6, <1>8, ContinueKeeps
<1>9. CASE /\ intact /\ HasModified
           /\ Record(Step("finish", NoItem, "ok"))
           /\ stage' = "judge" /\ result' = Result("completed", "agent_finished")
  <2> DEFINE step == Step("finish", NoItem, "ok")
  <2>1. steps' = Append(steps, step) /\ step \in Entries /\ ~IsCounted(step)
    BY <1>4, <1>9 DEF Record
  <2> HIDE DEF step
  <2>2. /\ steps' \in Seq(Entries) /\ Len(steps') = Len(steps) + 1 /\ Len(steps) \in Nat
        /\ HasModified'
    BY <1>9, <2>1, Entered DEF SessionInv
  <2>3. Len(steps') <= MaxTurns
    BY <1>1, <2>2, TurnsAssumption DEF Asked
  <2>4. NothingIsRepeatedThrice'
    BY <1>1, <2>1, NoThird DEF Asked
  <2>5. tests' = "original" /\ broken' = FALSE
    BY <1>5, <1>9 DEF VerifyTests
  <2>6. result' = [status |-> "completed", reason |-> "agent_finished"]
    BY <1>9 DEF Result
  <2>7. SessionTypeOK'
    BY <1>3, <1>6, <1>9, <2>2, <2>3, <2>6 DEF SessionInv, SessionTypeOK, Record
  <2>8. FinishIsEarned'
    BY <2>2, <2>5 DEF FinishIsEarned
  <2>9. QED
    BY <1>9, <2>4, <2>7, <2>8 DEF SessionInv
<1>10. QED
  BY <1>5, <1>7, <1>8, <1>9

\* The ends of a session and what the task around it does with it.
LEMMA OtherEnds == ASSUME SessionInv, ProviderFails \/ TurnsSpent \/ Judge PROVE SessionInv'
<1>1. /\ UNCHANGED <<session, steps, tests, broken, signatures>>
      /\ stage' \in {"judge", "done", "raised"}
  BY DEF ProviderFails, TurnsSpent, Judge
<1>2. /\ result' \in [status : {"none", "completed", "halted"},
                     reason : {"none", "provider_error", "preset_test_immutable",
                               "stagnation_loop", "turn_limit_exhausted",
                               "agent_finished", "verifier_failed", "verifier_timeout"}]
      /\ ledger' \in {"none", "ok", "failed"}
      /\ result'.status = "completed" => result.status = "completed"
  <2>1. CASE ProviderFails
    BY <2>1 DEF ProviderFails, Result, SessionInv, SessionTypeOK
  <2>2. CASE TurnsSpent
    BY <2>2 DEF TurnsSpent, Result, SessionInv, SessionTypeOK
  <2>3. CASE Judge
    BY <2>3 DEF Judge, Result, Running, SessionInv, SessionTypeOK
  <2>4. QED
    BY <2>1, <2>2, <2>3
<1>3. SessionTypeOK'
  BY <1>1, <1>2 DEF SessionInv, SessionTypeOK, signatures
<1>4. FinishIsEarned'
  BY <1>1, <1>2 DEF SessionInv, FinishIsEarned, HasModified
<1>5. NothingIsRepeatedThrice'
  BY <1>1 DEF SessionInv, NothingIsRepeatedThrice
<1>6. QED
  BY <1>1, <1>3, <1>4, <1>5 DEF SessionInv
----------------------------------------------------------------------------
(* The theorems *)

\* The session's invariant holds throughout: each counter stands for the
\* entries whose count was spared, and a result is only there after the last turn.
THEOREM SessionInvariant == SessionSpec => []SessionInv
<1>1. SessionInit => SessionInv
  <2> SUFFICES ASSUME SessionInit PROVE SessionInv
    OBVIOUS
  <2>1. steps = <<>> /\ Len(steps) = 0 /\ steps \in Seq(Entries)
    BY DEF SessionInit
  <2>2. SessionTypeOK
    <3>1. Len(steps) <= MaxTurns
      BY <2>1, TurnsAssumption
    <3>2. NoRepeat \in [item : Commands \cup {NoItem}, stalls : 0 .. 2]
          /\ NoRepeat \in [item : Reads \cup {NoItem}, stalls : 0 .. 2]
      BY DEF NoRepeat
    <3>3. Running \in [status : {"none", "completed", "halted"},
                      reason : {"none", "provider_error", "preset_test_immutable",
                                "stagnation_loop", "turn_limit_exhausted",
                                "agent_finished", "verifier_failed", "verifier_timeout"}]
      BY DEF Running, Result
    <3>4. QED
      BY <2>1, <3>1, <3>2, <3>3 DEF SessionInit, SessionTypeOK
  <2>3. Counted /\ NothingIsRepeatedThrice
    BY <2>1 DEF Counted, NothingIsRepeatedThrice
  <2>4. FinishIsEarned
    BY DEF SessionInit, FinishIsEarned, Running, Result
  <2>5. QED
    BY <2>2, <2>3, <2>4 DEF SessionInv, SessionInit, NoRepeat
<1>2. SessionInv /\ [SessionNext]_sessionVars => SessionInv'
  <2> SUFFICES ASSUME SessionInv, [SessionNext]_sessionVars PROVE SessionInv'
    OBVIOUS
  <2>1. CASE ProviderFails \/ TurnsSpent \/ Judge
    BY <2>1, OtherEnds
  <2>2. CASE PatchTestFile \/ Patch \/ CommandIsCaught \/ UnknownAction
    BY <2>2, OtherTurns
  <2>3. CASE Command
    BY <2>3, CommandTurn
  <2>4. CASE ReadFile
    BY <2>4, ReadTurn
  <2>5. CASE Finish
    BY <2>5, FinishTurn
  <2>6. CASE UNCHANGED sessionVars
    BY <2>6 DEF sessionVars, signatures, SessionInv, SessionTypeOK, FinishIsEarned, HasModified, Counted,
                Spared, Counter, StandsFor, NothingIsRepeatedThrice
  <2>7. QED
    BY <2>1, <2>2, <2>3, <2>4, <2>5, <2>6 DEF SessionNext, Ended
<1>3. QED
  BY <1>1, <1>2, PTL DEF SessionSpec

\* The session's variables keep their types.
THEOREM SessionTypes == SessionSpec => []SessionTypeOK
BY SessionInvariant, PTL DEF SessionInv

\* A task is only reported completed over the test files the session began with
\* and with a patch of its own (the finish branch of execute_action and the
\* comparison it makes first).
THEOREM CompletionIsEarned == SessionSpec => []FinishIsEarned
BY SessionInvariant, PTL DEF SessionInv

\* The stall counters of _handle_command and _handle_read_file stop a session
\* before it carries out the same failing command or the same read a third time
\* with only steps between that spare the count.
THEOREM TurnsInPlaceEnd == SessionSpec => []NothingIsRepeatedThrice
BY SessionInvariant, PTL DEF SessionInv
============================================================================
