--------------------------- MODULE Harness_proof ---------------------------
(***************************************************************************)
(* Proofs about Sandbox and Harness for any calls, processes, images,      *)
(* queues, graders and faults: no command runs on behind a returned call,  *)
(* calls of one process leave each other alone, no command runs twice, and *)
(* whatever passed is earned.                                              *)
(***************************************************************************)
EXTENDS Harness, SequenceTheorems, TLAPS

-----------------------------------------------------------------------------
(* The inductive invariant *)

\* Where a command is before it ran, and between its two tries.
Early == {"away", "called", "inspect", "compare", "remove", "create", "state", "start",
          "exec"}
Between == {"renew", "recreate", "restart it", "again"}

\* A command runs in the container only while its call waits for it, or when docker
\* refused to end it; and it ran as often as the place of its call says.
CommandOK(c) ==
    /\ c \in live => \/ pc[c] \in {"wait", "wait again", "expired"}
                     \/ pc[c] = "done" /\ result[c] = "raised"
    /\ pc[c] \in Early => ran[c] = 0
    /\ pc[c] = "wait" => ran[c] = 1
    /\ pc[c] \in Between => ran[c] = 0 \/ (ran[c] = 1 /\ c \in echoed)
    /\ ran[c] \in {0, 1} \/ (ran[c] = 2 /\ c \in echoed)

\* One command of a process is inside run_in_reused_sandbox at a time.
OneInside ==
    \A c, d \in Commands : Host[c] = Host[d] /\ Inside(c) /\ Inside(d) => c = d

\* Whoever ended a command that is not its own is of another process.
EndersAreOthers == \A c \in Commands : Host[ender[c]] = Host[c] => ender[c] = c

\* The images of the container and of the commands that ran in it are those that
\* commands which took part asked for.
AskedFor(i) ==
    \E d \in Commands : i = Image[Host[d]] /\ pc[d] \notin {"called", "away"}
ImagesAskedFor ==
    /\ box.made => AskedFor(box.image)
    /\ \A c \in Commands : image[c] # NoImage => AskedFor(image[c])

CommandsInv ==
    /\ \A c \in Commands : CommandOK(c)
    /\ OneInside /\ EndersAreOthers /\ ImagesAskedFor

\* What a passed verification stands for.
Verification(c) ==
    /\ facts[c].code = 0 /\ facts[c].whole
    /\ facts[c].unittest => facts[c].tests > 0 /\ facts[c].ok

VerifierOK(c) ==
    /\ c \in live => pc[c] = "wait" \/ (pc[c] = "done" /\ result[c] = "raised")
    /\ pc[c] # "done" => result[c] = NoResult
    /\ result[c] = "passed" => Verification(c)

\* What a passed grading stands for.
Proved(c) ==
    /\ facts[c].code = 0
    /\ facts[c].report.total > 0 /\ facts[c].report.passed = facts[c].report.total
    /\ c \in Scheduled => ranWith[c] = snapshot[c]

\* The versions of the tests that a grading took, ran with and finds are in order.
VersionsInOrder(c) ==
    /\ pc[c] = "ready" => snapshot[c] <= tests[Task[c]]
    /\ pc[c] = "wait" => snapshot[c] <= ranWith[c] /\ ranWith[c] <= tests[Task[c]]

GradingOK(c) ==
    /\ facts[c].whole
    /\ pc[c] \notin {"done", "away"} => result[c] = NoResult
    /\ result[c] = "passed" => Proved(c)
    /\ c \in Scheduled =>
          /\ VersionsInOrder(c)
          /\ pc[c] = "report" => log[Task[c]] = graded[c].reward
          /\ pc[c] = "report" /\ graded[c].passed => Proved(c)

\* The scheduler is at one task at a time, the one behind those it has reported;
\* and what it reported of a task stands until the task is taken again.
Working == {"adapter", "audit", "ready", "wait", "report"}
OneTask ==
    \A c \in Scheduled : pc[c] \in Working =>
        exit = "running" /\ Len(reports) < Len(Queue) /\ Queue[Len(reports) + 1] = c
Reported(i) ==
    /\ reports[i].task = Task[Queue[i]]
    /\ pc[Queue[i]] \in {"done", "away"}
    /\ reports[i].passed => result[Queue[i]] = "passed"
Untouched(i) ==
    \A j \in 1 .. Len(Queue) :
        j > i /\ Task[Queue[j]] = reports[i].task => pc[Queue[j]] = "called"
ReportsStand ==
    /\ Len(reports) <= Len(Queue)
    /\ \A i \in 1 .. Len(reports) : Reported(i)
    /\ \A i \in 1 .. Len(reports) :
          reports[i].official /\ Untouched(i) => log[reports[i].task] = reports[i].reward
    /\ exit = "0" => \A i \in 1 .. Len(Queue) : result[Queue[i]] = "passed"

ReportRecords == [task : Tasks, reward : Int, passed : BOOLEAN, official : BOOLEAN]
Outcomes == [reward : Int, passed : BOOLEAN]
FactFields == {"code", "reward", "report", "unittest", "tests", "ok", "whole"}

\* The shapes of the functions and sequences.
Shapes ==
    /\ DOMAIN pc = Calls /\ DOMAIN result = Calls /\ DOMAIN ran = Calls
    /\ DOMAIN image = Calls /\ DOMAIN ender = Calls /\ DOMAIN facts = Calls
    /\ \A c \in Calls : DOMAIN facts[c] = FactFields
    /\ \A c \in Calls : facts[c].report \in Details /\ facts[c].reward \in Int
    /\ DOMAIN box = {"made", "image", "up", "detached"}
    /\ DOMAIN log = Tasks
    /\ tests \in [Tasks -> Nat] /\ snapshot \in [Scheduled -> Nat]
    /\ ranWith \in [Scheduled -> Nat]
    /\ graded \in [Scheduled -> Outcomes] /\ reports \in Seq(ReportRecords)
    /\ exit \in {"running", "raised", "0", "1"}

IInv ==
    /\ Shapes
    /\ CommandsInv
    /\ \A c \in Verifications : VerifierOK(c)
    /\ \A c \in Gradings : GradingOK(c)
    /\ OneTask /\ ReportsStand
-----------------------------------------------------------------------------
(* A step of a command *)

\* What a step of a command leaves alone, and what it may do to the others.
CallFrame(c) ==
    /\ UNCHANGED <<facts, harness>>
    /\ DOMAIN pc' = Calls /\ DOMAIN result' = Calls /\ DOMAIN ran' = Calls
    /\ DOMAIN image' = Calls /\ DOMAIN ender' = Calls
    /\ \A d \in Calls \ {c} :
          /\ pc'[d] = pc[d] /\ result'[d] = result[d]
          /\ ran'[d] = ran[d] /\ image'[d] = image[d]
          /\ d \in live' => d \in live
          /\ d \in echoed <=> d \in echoed'
    /\ pc'[c] \notin {"called", "away"}
    /\ Inside(c) \/ LockIsFree(c)
    /\ ender' = ender \/ (Inside(c) /\ ender' = [d \in Calls |->
          IF d \in live /\ d # c /\ Waiting(d) THEN c ELSE ender[d]])
    /\ DOMAIN box' = {"made", "image", "up", "detached"}
    /\ box'.made => box'.image = Image[Host[c]] \/ (box.made /\ box'.image = box.image)
    /\ image'[c] # image[c] => box.made /\ image'[c] = box.image

\* Counting a run.
LEMMA CountAdds ==
  ASSUME NEW c \in DOMAIN ran, Count(c)
  PROVE  (ran[c] = 0 => ran'[c] = 1) /\ (ran[c] = 1 => ran'[c] = 2)
<1>1. ran'[c] = IF ran[c] < 3 THEN ran[c] + 1 ELSE ran[c]
  BY DEF Count, CountedRuns
<1>2. QED
  BY <1>1

\* A new container has an image and no other command.
LEMMA BoxShape ==
  ASSUME NEW c
  PROVE  /\ DOMAIN NewBox(c) = {"made", "image", "up", "detached"}
         /\ NewBox(c).image = Image[Host[c]]
BY DEF NewBox

LEMMA BoxIsNew ==
  ASSUME NEW c, Create(c) \/ Recreate(c), ~box.made
  PROVE  /\ DOMAIN box' = {"made", "image", "up", "detached"}
         /\ box'.image = Image[Host[c]]
<1>1. box' = NewBox(c)
  BY DEF Create, Recreate
<1>2. QED
  BY <1>1, BoxShape

\* The docker commands before the command itself.
LEMMA PreparesFrame ==
  ASSUME IInv, NEW c \in Commands,
         Enter(c) \/ Inspect(c) \/ Compare(c) \/ Remove(c) \/ Create(c) \/ State(c)
           \/ Start(c) \/ DockerFails(c),
         UNCHANGED harness
  PROVE  CallFrame(c) /\ CommandOK(c)'
<1> USE DEF Calls, IInv, Shapes, CommandsInv, CommandOK, Early, Between, CallFrame, history,
            GoTo, Stay, Return, EndsAll, Inside, NoBox, NewBox
<1>1. CASE Enter(c)
  BY <1>1 DEF Enter
<1>2. CASE Inspect(c)
  BY <1>2 DEF Inspect
<1>3. CASE Compare(c)
  BY <1>3 DEF Compare
<1>4. CASE Remove(c)
  BY <1>4 DEF Remove
<1>5. CASE Create(c)
  <2>1. CASE box.made
    BY ZenonT(60), <1>5, <2>1 DEF Create
  <2>2. CASE ~box.made
    <3>1. DOMAIN box' = {"made", "image", "up", "detached"}
          /\ box'.image = Image[Host[c]]
      BY <1>5, <2>2, BoxIsNew
    <3>2. CallFrame(c)
      BY ZenonT(60), <1>5, <2>2, <3>1 DEF Create
    <3>3. CommandOK(c)'
      BY <1>5, <2>2 DEF Create
    <3>4. QED
      BY <3>2, <3>3
  <2>3. QED
    BY <2>1, <2>2
<1>6. CASE State(c)
  BY <1>6 DEF State
<1>7. CASE Start(c)
  <2>1. CASE box.made
    <3>1. CallFrame(c)
      BY ZenonT(60), <1>7, <2>1 DEF Start
    <3>2. CommandOK(c)'
      BY ZenonT(60), <1>7, <2>1 DEF Start
    <3>3. QED
      BY <3>1, <3>2
  <2>2. CASE ~box.made
    <3>1. CallFrame(c)
      BY ZenonT(60), <1>7, <2>2 DEF Start
    <3>2. CommandOK(c)'
      BY ZenonT(60), <1>7, <2>2 DEF Start
    <3>3. QED
      BY <3>1, <3>2
  <2>3. QED
    BY <2>1, <2>2
<1>8. CASE DockerFails(c)
  BY <1>8 DEF DockerFails
<1>9. QED
  BY <1>1, <1>2, <1>3, <1>4, <1>5, <1>6, <1>7, <1>8

\* The command, its second try and its end.
LEMMA RunsFrame ==
  ASSUME IInv, NEW c \in Commands,
         Exec(c) \/ Finish(c) \/ Echo(c) \/ Renew(c) \/ Recreate(c) \/ StartAgain(c)
           \/ Expire(c) \/ Restart(c) \/ RestartFails(c),
         UNCHANGED harness
  PROVE  CallFrame(c) /\ CommandOK(c)'
<1> USE DEF Calls, IInv, Shapes, CommandsInv, CommandOK, Early, Between, CallFrame, history,
            GoTo, Stay, Return, EndsAll, Inside, NoBox, NewBox, Waiting, Count, CountedRuns
<1>1. CASE Exec(c)
  <2>1. CASE ~box.made \/ ~box.up
    BY ZenonT(60), <1>1, <2>1 DEF Exec
  <2>2. CASE ~(~box.made \/ ~box.up) /\ box.detached
    <3>1. CASE pc[c] = "exec"
      BY ZenonT(60), <1>1, <2>2, <3>1 DEF Exec
    <3>2. CASE pc[c] # "exec"
      BY ZenonT(60), <1>1, <2>2, <3>2 DEF Exec
    <3>3. QED
      BY <3>1, <3>2
  <2>3. CASE ~(~box.made \/ ~box.up) /\ ~box.detached
    <3>1. /\ live' = live \cup {c} /\ image' = [image EXCEPT ![c] = box.image]
          /\ Count(c)
          /\ pc[c] \in {"exec", "again"}
          /\ pc' = [pc EXCEPT ![c] = IF pc[c] = "exec" THEN "wait" ELSE "wait again"]
          /\ UNCHANGED <<result, box, ender, echoed, facts>>
      BY <1>1, <2>3 DEF Exec
    <3>2. CASE pc[c] = "exec"
      <4>1. CallFrame(c)
        BY <2>3, <3>1, <3>2
      <4>2. pc'[c] = "wait" /\ ran[c] = 0 /\ c \in Calls /\ c \in DOMAIN ran
        BY <3>1, <3>2
      <4>3. ran'[c] = 1
        BY <3>1, <4>2, CountAdds
      <4>4. CommandOK(c)'
        BY <4>2, <4>3
      <4>5. QED
        BY <4>1, <4>4
    <3>3. CASE pc[c] = "again"
      <4>1. CallFrame(c)
        BY <2>3, <3>1, <3>3
      <4>2. /\ pc'[c] = "wait again" /\ c \in Calls /\ c \in DOMAIN ran
            /\ ran[c] = 0 \/ (ran[c] = 1 /\ c \in echoed)
        BY <3>1, <3>3
      <4>3. ran'[c] = 1 \/ (ran'[c] = 2 /\ c \in echoed')
        BY <3>1, <4>2, CountAdds
      <4>4. CommandOK(c)'
        BY <4>2, <4>3
      <4>5. QED
        BY <4>1, <4>4
    <3>4. QED
      BY <3>1, <3>2, <3>3
  <2>4. QED
    BY <2>1, <2>2, <2>3
<1>2. CASE Finish(c)
  BY <1>2 DEF Finish
<1>3. CASE Echo(c)
  BY <1>3 DEF Echo
<1>4. CASE Renew(c)
  BY <1>4 DEF Renew
<1>5. CASE Recreate(c)
  <2>1. CASE box.made
    BY ZenonT(60), <1>5, <2>1 DEF Recreate
  <2>2. CASE ~box.made
    <3>1. DOMAIN box' = {"made", "image", "up", "detached"}
          /\ box'.image = Image[Host[c]]
      BY <1>5, <2>2, BoxIsNew
    <3>2. CallFrame(c)
      BY ZenonT(60), <1>5, <2>2, <3>1 DEF Recreate
    <3>3. CommandOK(c)'
      BY ZenonT(60), <1>5, <2>2 DEF Recreate
    <3>4. QED
      BY <3>2, <3>3
  <2>3. QED
    BY <2>1, <2>2
<1>6. CASE StartAgain(c)
  BY <1>6 DEF StartAgain
<1>7. CASE Expire(c)
  BY <1>7 DEF Expire
<1>8. CASE Restart(c)
  BY <1>8 DEF Restart
<1>9. CASE RestartFails(c)
  BY <1>9 DEF RestartFails
<1>10. QED
  BY <1>1, <1>2, <1>3, <1>4, <1>5, <1>6, <1>7, <1>8, <1>9
-----------------------------------------------------------------------------
(* Steps that leave a kind of call alone *)

\* A scheduler's grading is a grading, and no grading is another call.
LEMMA Kinds ==
  /\ Scheduled \subseteq Gradings
  /\ Commands \subseteq Calls /\ Verifications \subseteq Calls /\ Gradings \subseteq Calls
  /\ \A c \in Commands : c \notin Verifications /\ c \notin Gradings
  /\ \A c \in Verifications : c \notin Gradings
  /\ \A i \in 1 .. Len(Queue) : Queue[i] \in Scheduled
  /\ Len(Queue) \in Nat /\ DOMAIN Queue = 1 .. Len(Queue)
<1>1. Queue \in Seq(Scheduled)
  BY QueueAssumption
<1>2. /\ Len(Queue) \in Nat /\ DOMAIN Queue = 1 .. Len(Queue)
      /\ \A i \in 1 .. Len(Queue) : Queue[i] \in Scheduled
  BY <1>1, LenProperties, ElementOfSeq
<1>3. QED
  BY <1>2, CallsAreApart DEF Calls, Scheduled

\* What is not about commands keeps what holds of them; the container may go.
LEMMA CommandsStay ==
  ASSUME CommandsInv,
         \A d \in Commands :
            /\ pc'[d] = pc[d] /\ result'[d] = result[d] /\ ran'[d] = ran[d]
            /\ image'[d] = image[d] /\ ender'[d] = ender[d]
            /\ d \in live' => d \in live
            /\ d \in echoed <=> d \in echoed',
         box'.made => box.made /\ box'.image = box.image
  PROVE  CommandsInv'
<1>1. \A d \in Commands : CommandOK(d)'
  <2> TAKE d \in Commands
  <2>1. CommandOK(d)
    BY DEF CommandsInv
  <2>2. QED
    BY ZenonT(60), <2>1 DEF CommandOK
<1>2. OneInside' /\ EndersAreOthers'
  BY DEF CommandsInv, OneInside, Inside, EndersAreOthers
<1>3. ImagesAskedFor'
  BY DEF CommandsInv, ImagesAskedFor, AskedFor
<1>4. QED
  BY <1>1, <1>2, <1>3 DEF CommandsInv

\* The same of verifications.
LEMMA VerifiersStay ==
  ASSUME \A c \in Verifications : VerifierOK(c),
         \A d \in Verifications :
            /\ pc'[d] = pc[d] /\ result'[d] = result[d] /\ facts'[d] = facts[d]
            /\ d \in live' => d \in live
  PROVE  \A c \in Verifications : VerifierOK(c)'
BY DEF VerifierOK, Verification

\* And of gradings.
LEMMA GradingsStay ==
  ASSUME IInv, UNCHANGED harness,
         \A d \in Gradings :
            pc'[d] = pc[d] /\ result'[d] = result[d] /\ facts'[d] = facts[d]
  PROVE  /\ \A c \in Gradings : GradingOK(c)'
         /\ OneTask' /\ ReportsStand'
<1>1. \A c \in Gradings : GradingOK(c)'
  BY DEF IInv, GradingOK, Proved, VersionsInOrder, harness
<1>2. OneTask'
  BY Kinds DEF IInv, OneTask, harness
<1>3. \A i \in 1 .. Len(reports) : i \in 1 .. Len(Queue)
  <2>1. Len(reports) \in Nat /\ Len(reports) <= Len(Queue)
    BY LenProperties DEF IInv, Shapes, ReportsStand
  <2>2. QED
    BY <2>1, Kinds
<1>4. \A i \in 1 .. Len(Queue) :
        pc'[Queue[i]] = pc[Queue[i]] /\ result'[Queue[i]] = result[Queue[i]]
  BY Kinds
<1>5. ReportsStand'
  BY <1>3, <1>4 DEF IInv, ReportsStand, Reported, Untouched, harness
<1>6. QED
  BY <1>1, <1>2, <1>5

\* A step of a command keeps the invariant.
LEMMA CallKeeps ==
  ASSUME IInv, NEW c \in Commands, CallFrame(c), CommandOK(c)' PROVE IInv'
<1>1. ASSUME NEW d \in Commands \ {c} PROVE CommandOK(d)'
  <2>1. /\ pc'[d] = pc[d] /\ result'[d] = result[d] /\ ran'[d] = ran[d]
        /\ d \in live' => d \in live
        /\ d \in echoed <=> d \in echoed'
    BY Kinds DEF CallFrame
  <2>2. CommandOK(d)
    BY DEF IInv, CommandsInv
  <2>3. QED
    BY <2>1, <2>2 DEF CommandOK
<1>2. OneInside'
  <2> SUFFICES ASSUME NEW d \in Commands \ {c}, Host[c] = Host[d], Inside(c)', Inside(d)'
               PROVE  FALSE
    BY Kinds DEF CallFrame, IInv, CommandsInv, OneInside, Inside
  <2>1. Inside(d)
    BY Kinds DEF CallFrame, Inside
  <2>2. QED
    BY <2>1 DEF CallFrame, IInv, CommandsInv, OneInside, LockIsFree
<1>3. EndersAreOthers'
  <2> SUFFICES ASSUME NEW d \in Commands, Host[ender'[d]] = Host[d] PROVE ender'[d] = d
    BY DEF EndersAreOthers
  <2>1. CASE ender'[d] = ender[d]
    BY <2>1 DEF IInv, CommandsInv, EndersAreOthers
  <2>2. CASE ender'[d] # ender[d]
    <3>1. Inside(c) /\ ender'[d] = c /\ d # c /\ Waiting(d)
      BY <2>2, Kinds DEF CallFrame
    <3>2. Inside(d)
      BY <3>1 DEF Waiting, Inside
    <3>3. QED
      BY <3>1, <3>2 DEF IInv, CommandsInv, OneInside
  <2>3. QED
    BY <2>1, <2>2
<1>4. ImagesAskedFor'
  <2>1. ASSUME NEW i, AskedFor(i)
        PROVE  \E d \in Commands : i = Image[Host[d]] /\ pc'[d] \notin {"called", "away"}
    BY <2>1, Kinds DEF AskedFor, CallFrame
  <2>2. \E d \in Commands : Image[Host[c]] = Image[Host[d]] /\ pc'[d] \notin {"called", "away"}
    BY DEF CallFrame
  <2>3. box'.made =>
          \E d \in Commands : box'.image = Image[Host[d]] /\ pc'[d] \notin {"called", "away"}
    BY <2>1, <2>2 DEF CallFrame, IInv, CommandsInv, ImagesAskedFor
  <2>4. ASSUME NEW e \in Commands, image'[e] # NoImage
        PROVE  \E d \in Commands : image'[e] = Image[Host[d]] /\ pc'[d] \notin {"called", "away"}
    <3>1. AskedFor(image'[e])
      BY <2>4, Kinds DEF CallFrame, IInv, CommandsInv, ImagesAskedFor
    <3>2. QED
      BY <2>1, <3>1
  <2>5. QED
    BY <2>3, <2>4 DEF ImagesAskedFor, AskedFor
<1>5. CommandsInv'
  BY <1>1, <1>2, <1>3, <1>4 DEF CommandsInv
<1>6. \A d \in Verifications : VerifierOK(d)'
  <2>1. \A d \in Verifications :
            /\ pc'[d] = pc[d] /\ result'[d] = result[d] /\ facts'[d] = facts[d]
            /\ d \in live' => d \in live
    BY Kinds DEF CallFrame
  <2>2. QED
    BY <2>1, VerifiersStay DEF IInv
<1>7. (\A d \in Gradings : GradingOK(d)') /\ OneTask' /\ ReportsStand'
  <2>1. \A d \in Gradings :
            pc'[d] = pc[d] /\ result'[d] = result[d] /\ facts'[d] = facts[d]
    BY Kinds DEF CallFrame
  <2>2. QED
    BY <2>1, GradingsStay DEF CallFrame
<1>8. Shapes'
  BY DEF CallFrame, IInv, Shapes, harness
<1>9. QED
  BY <1>5, <1>6, <1>7, <1>8 DEF IInv
-----------------------------------------------------------------------------
(* A step of a verification *)

\* What a step of a verification leaves alone.
VerifierFrame(c) ==
    /\ UNCHANGED <<box, ran, image, ender, echoed, harness>>
    /\ DOMAIN pc' = Calls /\ DOMAIN result' = Calls /\ DOMAIN facts' = Calls
    /\ DOMAIN facts'[c] = FactFields
    /\ facts'[c].report = facts[c].report /\ facts'[c].reward = facts[c].reward
    /\ \A d \in Calls \ {c} :
          /\ pc'[d] = pc[d] /\ result'[d] = result[d] /\ facts'[d] = facts[d]
          /\ d \in live' => d \in live

\* A stage that passed ran to a good end; a unittest run also ran tests.
LEMMA PassedRuns ==
  ASSUME NEW run, VerifierStatus(run) = "passed"
  PROVE  run.code = 0 /\ (run.unittest => run.tests > 0 /\ run.ok)
BY DEF VerifierStatus, UnittestVerdict

\* The steps of a verification: a stage passes on what its run says.
LEMMA VerifierSteps ==
  ASSUME IInv, NEW c \in Verifications, VerifierStep(c), pc[c] # "done", UNCHANGED harness
  PROVE  VerifierFrame(c) /\ VerifierOK(c)'
<1> USE DEF VerifierFrame, history, GoTo, Stay, Return
<1>1. /\ DOMAIN pc = Calls /\ DOMAIN result = Calls /\ DOMAIN facts = Calls
      /\ DOMAIN facts[c] = FactFields /\ c \in Calls
  BY Kinds DEF IInv, Shapes
<1>2. result[c] = NoResult /\ VerifierOK(c)
  BY DEF IInv, VerifierOK
<1>3. CASE verify_shell_write(c)
  <2>1. CASE Return(c, "unverified") \/ Return(c, "blocked")
    BY <1>1, <1>2, <1>3, <2>1 DEF verify_shell_write, VerifierOK, NoResult
  <2>2. CASE GoTo(c, "stage") /\ Stay
    BY <1>1, <1>2, <1>3, <2>2 DEF verify_shell_write, VerifierOK, NoResult, FactFields
  <2>3. QED
    BY <1>3, <2>1, <2>2 DEF verify_shell_write
<1>4. CASE Refuse(c)
  BY <1>1, <1>2, <1>4 DEF Refuse, Ready, VerifierOK
<1>5. CASE Launch(c)
  BY <1>1, <1>2, <1>5 DEF Launch, VerifierOK, NoResult
<1>6. ASSUME NEW run \in Runs, Verified(c, run) PROVE VerifierFrame(c) /\ VerifierOK(c)'
  <2>1. /\ facts' = [facts EXCEPT ![c] = [@ EXCEPT !.code = run.code, !.tests = run.tests,
                                         !.ok = run.ok, !.unittest = run.unittest]]
        /\ live' = live \ {c} /\ Return(c, Delivered(c, VerifierStatus(run)))
        /\ facts[c].whole \/ VerifierStatus(run) # "passed"
        /\ UNCHANGED <<box, ran, image, ender, echoed>>
    BY <1>6 DEF Verified
  <2>2. /\ DOMAIN facts' = Calls /\ DOMAIN facts'[c] = FactFields
        /\ facts'[c].code = run.code /\ facts'[c].tests = run.tests
        /\ facts'[c].ok = run.ok /\ facts'[c].unittest = run.unittest
        /\ facts'[c].whole = facts[c].whole
        /\ facts'[c].report = facts[c].report /\ facts'[c].reward = facts[c].reward
        /\ \A d \in Calls \ {c} : facts'[d] = facts[d]
    BY <1>1, <2>1 DEF FactFields
  <2>3. VerifierFrame(c)
    BY <1>1, <2>1, <2>2
  <2>4. pc'[c] = "done" /\ c \notin live'
        /\ result'[c] = Delivered(c, VerifierStatus(run))
    BY <1>1, <2>1
  <2>5. ASSUME result'[c] = "passed" PROVE Verification(c)'
    <3>1. VerifierStatus(run) = "passed"
      BY <2>4, <2>5 DEF Delivered
    <3>2. /\ run.code = 0 /\ (run.unittest => run.tests > 0 /\ run.ok) /\ facts[c].whole
      BY <2>1, <3>1, PassedRuns
    <3>3. QED
      BY <2>2, <3>2 DEF Verification
  <2>6. QED
    BY <2>3, <2>4, <2>5 DEF VerifierOK
<1>7. ASSUME NEW run \in Runs, SecondStage(c, run) PROVE VerifierFrame(c) /\ VerifierOK(c)'
  BY <1>1, <1>2, <1>7 DEF SecondStage, VerifierOK, NoResult, FactFields
<1>8. CASE VerifierExpires(c)
  BY <1>1, <1>2, <1>8 DEF VerifierExpires, VerifierOK
<1>9. CASE KillFails(c)
  BY <1>1, <1>2, <1>9 DEF KillFails, VerifierOK
<1>10. QED
  BY <1>3, <1>4, <1>5, <1>6, <1>7, <1>8, <1>9 DEF VerifierStep

\* A step of a verification keeps the invariant.
LEMMA VerifierKeeps ==
  ASSUME IInv, NEW c \in Verifications, VerifierFrame(c), VerifierOK(c)' PROVE IInv'
<1>1. CommandsInv'
  <2>1. \A d \in Commands :
            /\ pc'[d] = pc[d] /\ result'[d] = result[d] /\ ran'[d] = ran[d]
            /\ image'[d] = image[d] /\ ender'[d] = ender[d]
            /\ d \in live' => d \in live
            /\ d \in echoed <=> d \in echoed'
    BY Kinds DEF VerifierFrame
  <2>2. QED
    BY <2>1, CommandsStay DEF VerifierFrame, IInv
<1>2. \A d \in Verifications : VerifierOK(d)'
  <2>1. \A d \in Verifications \ {c} : VerifierOK(d)'
    BY Kinds DEF VerifierFrame, IInv, VerifierOK, Verification
  <2>2. QED
    BY <2>1
<1>3. (\A d \in Gradings : GradingOK(d)') /\ OneTask' /\ ReportsStand'
  <2>1. \A d \in Gradings :
            pc'[d] = pc[d] /\ result'[d] = result[d] /\ facts'[d] = facts[d]
    BY Kinds DEF VerifierFrame
  <2>2. QED
    BY <2>1, GradingsStay DEF VerifierFrame
<1>4. Shapes'
  BY Kinds DEF VerifierFrame, IInv, Shapes, harness
<1>5. QED
  BY <1>1, <1>2, <1>3, <1>4 DEF IInv
-----------------------------------------------------------------------------
(* What a grading is worth *)

\* A full score that is no problem has counts that say every test passed.
LEMMA FullScoreCounts ==
  ASSUME NEW reward, NEW d \in Details, IsFull(reward), ~FullScoreProblem(0, reward, d)
  PROVE  d.total > 0 /\ d.passed = d.total
<1>1. ~FullScoreUnproved(d)
  BY DEF FullScoreProblem
<1>2. d.total \in Int
  BY DEF Details
<1>3. QED
  BY <1>1, <1>2 DEF FullScoreUnproved

\* The whole score is full.
LEMMA OneIsFull == IsFull(One)
BY DEF IsFull, Distance, One, Tolerance

\* apply_host_reward_policy passes a whole score that is no problem, in time.
LEMMA HostPolicyMeans ==
  ASSUME NEW code, NEW reward \in Int, NEW d \in Details, NEW timedOut \in BOOLEAN
  PROVE  /\ HostPolicy(code, reward, d, timedOut) \in Outcomes
         /\ HostPolicy(code, reward, d, timedOut).passed =>
              ~timedOut /\ code = 0 /\ d.total > 0 /\ d.passed = d.total
<1> DEFINE policy == HostPolicy(code, reward, d, timedOut)
<1>1. CASE timedOut
  <2>1. policy = [reward |-> reward, passed |-> FALSE]
    BY <1>1 DEF HostPolicy
  <2>2. QED
    BY <2>1 DEF Outcomes
<1>2. CASE ~timedOut /\ reward # Ungraded /\ FullScoreProblem(code, reward, d)
  <2>1. policy = [reward |-> 0, passed |-> FALSE]
    BY <1>2 DEF HostPolicy
  <2>2. QED
    BY <2>1 DEF Outcomes
<1>3. CASE ~timedOut /\ ~(reward # Ungraded /\ FullScoreProblem(code, reward, d))
  <2> DEFINE whole == code = 0 /\ reward = One
  <2>1. policy = [reward |-> reward, passed |-> whole]
    BY <1>3 DEF HostPolicy
  <2>2. whole \in BOOLEAN
    OBVIOUS
  <2>3. whole => code = 0 /\ d.total > 0 /\ d.passed = d.total
    <3>1. One # Ungraded
      BY DEF One, Ungraded
    <3>2. QED
      BY <1>3, <3>1, OneIsFull, FullScoreCounts
  <2> HIDE DEF whole
  <2>4. policy \in Outcomes /\ policy.passed = whole
    BY <2>1, <2>2 DEF Outcomes
  <2>5. QED
    BY <1>3, <2>3, <2>4
<1>4. QED
  BY <1>1, <1>2, <1>3

\* assess_staged_reward passes a full score that is no problem.
LEMMA StagedPolicyMeans ==
  ASSUME NEW code, NEW reward \in Int, NEW d \in Details
  PROVE  /\ StagedPolicy(code, reward, d) \in Outcomes
         /\ StagedPolicy(code, reward, d).passed =>
              code = 0 /\ d.total > 0 /\ d.passed = d.total
<1> DEFINE policy == StagedPolicy(code, reward, d)
<1>1. CASE reward = Ungraded \/ FullScoreProblem(code, reward, d)
  <2>1. policy = [reward |-> 0, passed |-> FALSE]
    BY <1>1 DEF StagedPolicy
  <2>2. QED
    BY <2>1 DEF Outcomes
<1>2. CASE ~(reward = Ungraded \/ FullScoreProblem(code, reward, d))
  <2> DEFINE full == code = 0 /\ IsFull(reward)
  <2>1. policy = [reward |-> reward, passed |-> full]
    BY <1>2 DEF StagedPolicy
  <2>2. full \in BOOLEAN
    OBVIOUS
  <2>3. full => code = 0 /\ d.total > 0 /\ d.passed = d.total
    BY <1>2, FullScoreCounts
  <2> HIDE DEF full
  <2>4. policy \in Outcomes /\ policy.passed = full
    BY <2>1, <2>2 DEF Outcomes
  <2>5. QED
    BY <2>3, <2>4
<1>3. QED
  BY <1>1, <1>2

\* An outcome that is published as passed has counts behind it, and the tests were
\* those that had been hashed.
LEMMA PublishedMeans ==
  ASSUME IInv, NEW c \in Gradings, NEW code, NEW timedOut \in BOOLEAN
  PROVE  /\ Published(c, code, timedOut) \in Outcomes
         /\ Published(c, code, timedOut).passed =>
              /\ code = 0 /\ facts[c].report.total > 0
              /\ facts[c].report.passed = facts[c].report.total
              /\ c \in Scheduled => tests[Task[c]] = snapshot[c]
              /\ c \notin Scheduled => ~timedOut
<1>1. facts[c].report \in Details /\ facts[c].reward \in Int
  BY Kinds DEF IInv, Shapes
<1>2. CASE c \notin Scheduled
  BY <1>1, <1>2, HostPolicyMeans DEF Published
<1>3. CASE c \in Scheduled /\ Intact(c)
  BY <1>1, <1>3, StagedPolicyMeans DEF Published, Intact
<1>4. CASE c \in Scheduled /\ ~Intact(c)
  <2>1. Published(c, code, timedOut) = NoOutcome
    BY <1>4 DEF Published
  <2>2. QED
    BY <2>1 DEF NoOutcome, Outcomes
<1>5. QED
  BY <1>2, <1>3, <1>4
-----------------------------------------------------------------------------
(* A step of a grading that goes on, or that is nobody's turn *)

\* The grading is the scheduler's present one.
AtTurn(c) ==
    exit = "running" /\ Len(reports) < Len(Queue) /\ Queue[Len(reports) + 1] = c

\* What a step of a grading leaves alone; the scheduler's are at their turn, go on
\* and leave the log directories of the other tasks alone.
GradingFrame(c) ==
    /\ UNCHANGED <<box, ran, image, ender, echoed, tests, reports, exit>>
    /\ DOMAIN pc' = Calls /\ DOMAIN result' = Calls /\ DOMAIN facts' = Calls
    /\ DOMAIN facts'[c] = FactFields
    /\ facts'[c].report \in Details /\ facts'[c].reward \in Int
    /\ \A d \in Calls \ {c} :
          /\ pc'[d] = pc[d] /\ result'[d] = result[d] /\ facts'[d] = facts[d]
          /\ d \in live' => d \in live
    /\ c \notin Scheduled => UNCHANGED <<log, snapshot, graded, ranWith>>
    /\ c \in Scheduled =>
          /\ AtTurn(c)
          /\ pc[c] \notin {"done", "away"} /\ pc'[c] \in Working
          /\ result'[c] = result[c]
          /\ DOMAIN log' = Tasks /\ \A t \in Tasks \ {Task[c]} : log'[t] = log[t]
          /\ snapshot' \in [Scheduled -> Nat] /\ graded' \in [Scheduled -> Outcomes]
          /\ ranWith' \in [Scheduled -> Nat]
          /\ \A d \in Scheduled \ {c} :
                snapshot'[d] = snapshot[d] /\ graded'[d] = graded[d] /\ ranWith'[d] = ranWith[d]

\* Only the grading at its turn is at work.
LEMMA OthersRest ==
  ASSUME IInv, NEW c \in Scheduled, AtTurn(c), NEW d \in Scheduled \ {c}
  PROVE  pc[d] \notin Working
BY DEF IInv, OneTask, AtTurn

\* Every reported task is one of the queue's, before the one at its turn.
LEMMA ReportsAreQueued ==
  ASSUME IInv
  PROVE  /\ Len(reports) \in Nat /\ DOMAIN reports = 1 .. Len(reports)
         /\ \A i \in 1 .. Len(reports) : /\ i \in 1 .. Len(Queue)
                                         /\ Queue[i] \in Scheduled
                                         /\ reports[i] \in ReportRecords
<1>1. reports \in Seq(ReportRecords) /\ Len(reports) <= Len(Queue)
  BY DEF IInv, Shapes, ReportsStand
<1>2. /\ Len(reports) \in Nat /\ DOMAIN reports = 1 .. Len(reports)
      /\ \A i \in 1 .. Len(reports) : reports[i] \in ReportRecords
  BY <1>1, LenProperties, ElementOfSeq
<1>3. \A i \in 1 .. Len(reports) : i \in 1 .. Len(Queue)
  BY <1>1, <1>2, Kinds
<1>4. QED
  BY <1>2, <1>3, Kinds

\* A step of a grading leaves commands, verifications and shapes as they have to be.
LEMMA GradingLeavesOthers ==
  ASSUME IInv, NEW c \in Gradings, GradingFrame(c)
  PROVE  Shapes' /\ CommandsInv' /\ \A d \in Verifications : VerifierOK(d)'
<1>1. CommandsInv'
  <2>1. \A d \in Commands :
            /\ pc'[d] = pc[d] /\ result'[d] = result[d] /\ ran'[d] = ran[d]
            /\ image'[d] = image[d] /\ ender'[d] = ender[d]
            /\ d \in live' => d \in live
            /\ d \in echoed <=> d \in echoed'
    BY Kinds DEF GradingFrame
  <2>2. QED
    BY <2>1, CommandsStay DEF GradingFrame, IInv
<1>2. \A d \in Verifications : VerifierOK(d)'
  <2>1. \A d \in Verifications :
            /\ pc'[d] = pc[d] /\ result'[d] = result[d] /\ facts'[d] = facts[d]
            /\ d \in live' => d \in live
    BY Kinds DEF GradingFrame
  <2>2. QED
    BY <2>1, VerifiersStay DEF IInv
<1>3. Shapes'
  BY Kinds DEF GradingFrame, IInv, Shapes
<1>4. QED
  BY <1>1, <1>2, <1>3

\* A step of the scheduler at its present task keeps what it reported.
LEMMA TurnKeeps ==
  ASSUME IInv, NEW c \in Scheduled, GradingFrame(c)
  PROVE  OneTask' /\ ReportsStand'
<1>1. AtTurn(c) /\ pc[c] \notin {"done", "away"} /\ pc'[c] \in Working /\ c \in Calls
  BY Kinds DEF GradingFrame
<1>2. \A d \in Scheduled \ {c} : pc'[d] = pc[d] /\ result'[d] = result[d]
  BY Kinds DEF GradingFrame
<1>3. OneTask'
  BY SMTT(60), <1>1, <1>2, OthersRest DEF GradingFrame, OneTask, AtTurn
<1>4. ASSUME NEW i \in 1 .. Len(reports) PROVE Reported(i)'
  <2>1. Queue[i] \in Scheduled /\ Reported(i)
    BY ReportsAreQueued DEF IInv, ReportsStand
  <2>2. Queue[i] # c
    BY <1>1, <2>1 DEF Reported
  <2>3. QED
    BY <1>2, <2>1, <2>2 DEF Reported, GradingFrame
<1>5. ASSUME NEW i \in 1 .. Len(reports), reports[i].official, Untouched(i)'
      PROVE  log'[reports[i].task] = reports[i].reward
  <2>1. /\ Len(reports) + 1 \in 1 .. Len(Queue) /\ Len(reports) + 1 > i
        /\ Queue[Len(reports) + 1] = c /\ reports[i].task \in Tasks
    BY <1>1, Kinds, ReportsAreQueued DEF AtTurn, ReportRecords
  <2>2. pc'[c] # "called" /\ UNCHANGED reports
    BY <1>1 DEF Working, GradingFrame
  <2>3. Task[c] # reports[i].task
    BY <1>5, <2>1, <2>2 DEF Untouched
  <2>4. Untouched(i)
    BY <1>2, <1>5, <2>2, Kinds DEF Untouched
  <2>5. log[reports[i].task] = reports[i].reward
    BY <1>5, <2>4 DEF IInv, ReportsStand
  <2>6. QED
    BY <2>1, <2>3, <2>5 DEF GradingFrame
<1>6. ReportsStand'
  <2>1. UNCHANGED <<reports, exit>> /\ exit = "running"
    BY <1>1 DEF GradingFrame, AtTurn
  <2>2. Len(reports) <= Len(Queue)
    BY DEF IInv, ReportsStand
  <2>3. QED
    BY <1>4, <1>5, <2>1, <2>2 DEF ReportsStand
<1>7. QED
  BY <1>3, <1>6

\* A step of a grading keeps the invariant.
LEMMA GradingKeeps ==
  ASSUME IInv, NEW c \in Gradings, GradingFrame(c), GradingOK(c)' PROVE IInv'
<1>1. Shapes' /\ CommandsInv' /\ \A d \in Verifications : VerifierOK(d)'
  BY GradingLeavesOthers
<1>2. CASE c \notin Scheduled
  <2>1. ASSUME NEW d \in Gradings \ {c} PROVE GradingOK(d)'
    BY <1>2, Kinds DEF IInv, GradingFrame, GradingOK, Proved, VersionsInOrder
  <2>2. \A d \in Scheduled : pc'[d] = pc[d] /\ result'[d] = result[d]
    BY <1>2, Kinds DEF GradingFrame
  <2>3. UNCHANGED <<log, reports, exit>>
    BY <1>2 DEF GradingFrame
  <2>4. OneTask'
    BY <2>2, <2>3 DEF IInv, OneTask
  <2>5. ReportsStand'
    BY SMTT(60), <2>2, <2>3, Kinds, ReportsAreQueued DEF IInv, ReportsStand, Reported, Untouched
  <2>6. QED
    BY <1>1, <2>1, <2>4, <2>5 DEF IInv
<1>3. CASE c \in Scheduled
  <2>1. ASSUME NEW d \in Gradings \ {c} PROVE GradingOK(d)'
    <3>1. /\ GradingOK(d) /\ d \in Calls
          /\ pc'[d] = pc[d] /\ result'[d] = result[d] /\ facts'[d] = facts[d]
          /\ UNCHANGED tests
      BY Kinds DEF IInv, GradingFrame
    <3>2. CASE d \notin Scheduled
      BY <3>1, <3>2 DEF GradingOK, Proved
    <3>3. CASE d \in Scheduled
      <4>1. pc[d] \notin Working
        BY <1>3, <3>3, OthersRest DEF GradingFrame
      <4>2. snapshot'[d] = snapshot[d] /\ ranWith'[d] = ranWith[d]
        BY <1>3, <3>3 DEF GradingFrame
      <4>3. QED
        BY <3>1, <4>1, <4>2 DEF GradingOK, Proved, VersionsInOrder, Working
    <3>4. QED
      BY <3>2, <3>3
  <2>2. QED
    BY <1>1, <1>3, <2>1, TurnKeeps DEF IInv
<1>4. QED
  BY <1>2, <1>3
-----------------------------------------------------------------------------
(* The steps of a grading *)

\* A grading that has not returned has no result, and is at its turn if it is one
\* of the scheduler's at work.
LEMMA GradingsPlace ==
  ASSUME IInv, NEW c \in Gradings, pc[c] \notin {"done", "away"}
  PROVE  /\ c \in Calls /\ facts[c].whole /\ result[c] = NoResult
         /\ facts[c].report \in Details /\ facts[c].reward \in Int
         /\ DOMAIN facts[c] = FactFields
         /\ c \in Scheduled => Task[c] \in Tasks /\ (pc[c] \in Working => AtTurn(c))
<1>1. GradingOK(c) /\ c \in Calls
  BY Kinds DEF IInv
<1>2. QED
  BY <1>1 DEF GradingOK, IInv, Shapes, OneTask, AtTurn, Tasks

\* What a grading does to the facts, as far as the invariant looks at them.
FactsFrame(c) ==
    /\ DOMAIN facts' = Calls /\ DOMAIN facts'[c] = FactFields
    /\ facts'[c].report \in Details /\ facts'[c].reward \in Int /\ facts'[c].whole
    /\ \A d \in Calls \ {c} : facts'[d] = facts[d]

\* Facts that stay, or one of which is set, keep their shape.
LEMMA FactsSet ==
  ASSUME IInv, NEW c \in Gradings, pc[c] \notin {"done", "away"}
  PROVE  /\ facts' = facts => FactsFrame(c)
         /\ \A code : facts' = [facts EXCEPT ![c].code = code] =>
              /\ FactsFrame(c) /\ facts'[c].code = code
              /\ facts'[c].report = facts[c].report
         /\ \A reward \in Int : facts' = [facts EXCEPT ![c].reward = reward] => FactsFrame(c)
         /\ \A report \in Details :
              facts' = [facts EXCEPT ![c].report = report] => FactsFrame(c)
<1>1. /\ DOMAIN facts = Calls /\ DOMAIN facts[c] = FactFields /\ c \in Calls
      /\ facts[c].report \in Details /\ facts[c].reward \in Int /\ facts[c].whole
  BY GradingsPlace DEF IInv, Shapes
<1>2. facts' = facts => FactsFrame(c)
  BY <1>1 DEF FactsFrame
<1>3. ASSUME NEW code, facts' = [facts EXCEPT ![c].code = code]
      PROVE  /\ FactsFrame(c) /\ facts'[c].code = code
             /\ facts'[c].report = facts[c].report
  BY <1>1, <1>3 DEF FactsFrame, FactFields
<1>4. ASSUME NEW reward \in Int, facts' = [facts EXCEPT ![c].reward = reward]
      PROVE  FactsFrame(c)
  BY <1>1, <1>4 DEF FactsFrame, FactFields
<1>5. ASSUME NEW report \in Details, facts' = [facts EXCEPT ![c].report = report]
      PROVE  FactsFrame(c)
  BY <1>1, <1>5 DEF FactsFrame, FactFields
<1>6. QED
  BY <1>2, <1>3, <1>4, <1>5

\* A grading that settles an outcome it may pass.
LEMMA SettleKeeps ==
  ASSUME IInv, NEW c \in Gradings, pc[c] \notin {"done", "away"},
         c \in Scheduled => pc[c] \in Working,
         NEW outcome \in Outcomes, Settle(c, outcome), FactsFrame(c),
         outcome.passed => Proved(c)',
         live' \subseteq live,
         UNCHANGED <<box, ran, image, ender, echoed, tests, snapshot, reports, exit, ranWith>>
  PROVE  IInv'
<1>1. /\ c \in Calls /\ result[c] = NoResult
      /\ c \in Scheduled => Task[c] \in Tasks /\ AtTurn(c)
  BY GradingsPlace
<1>2. CASE c \notin Scheduled
  <2>1. /\ pc' = [pc EXCEPT ![c] = "done"]
        /\ result' = [result EXCEPT ![c] = IF outcome.passed THEN "passed" ELSE "failed"]
        /\ UNCHANGED <<log, graded>>
    BY <1>2 DEF Settle, Return, GoTo
  <2>2. GradingFrame(c)
    BY <1>1, <1>2, <2>1 DEF GradingFrame, FactsFrame, IInv, Shapes
  <2>3. GradingOK(c)'
    BY <1>1, <1>2, <2>1 DEF GradingOK, FactsFrame, IInv, Shapes
  <2>4. QED
    BY <2>2, <2>3, GradingKeeps
<1>3. CASE c \in Scheduled
  <2>1. /\ log' = [log EXCEPT ![Task[c]] = outcome.reward]
        /\ graded' = [graded EXCEPT ![c] = outcome]
        /\ pc' = [pc EXCEPT ![c] = "report"] /\ UNCHANGED result
    BY <1>3 DEF Settle, Publish, GoTo, Stay
  <2>2. graded' \in [Scheduled -> Outcomes] /\ graded'[c] = outcome
    BY <1>3, <2>1 DEF IInv, Shapes
  <2>3. DOMAIN log' = Tasks /\ log'[Task[c]] = outcome.reward /\ pc'[c] = "report"
    BY <1>1, <1>3, <2>1 DEF IInv, Shapes
  <2>4. GradingFrame(c)
    BY <1>1, <1>3, <2>1, <2>2, <2>3 DEF GradingFrame, FactsFrame, IInv, Shapes, Working
  <2>5. GradingOK(c)'
    BY <1>1, <2>1, <2>2, <2>3 DEF GradingOK, FactsFrame, VersionsInOrder, NoResult
  <2>6. QED
    BY <2>4, <2>5, GradingKeeps
<1>4. QED
  BY <1>2, <1>3

\* A grading that ends with an exit code: it passes only what its verifier earned.
LEMMA GradeKeeps ==
  ASSUME IInv, NEW c \in Gradings, pc[c] \in {"ready", "wait"},
         NEW code, NEW timedOut \in BOOLEAN, Grade(c, code, timedOut),
         pc[c] = "wait" \/ code # 0,
         live' \subseteq live,
         UNCHANGED <<box, ran, image, ender, echoed, tests, snapshot, reports, exit, ranWith>>
  PROVE  IInv'
<1> DEFINE outcome == Published(c, code, timedOut)
<1>1. FactsFrame(c) /\ facts'[c].code = code /\ facts'[c].report = facts[c].report
  BY FactsSet DEF Grade
<1>2. /\ outcome \in Outcomes
      /\ outcome.passed =>
           /\ code = 0 /\ facts[c].report.total > 0
           /\ facts[c].report.passed = facts[c].report.total
           /\ c \in Scheduled => tests[Task[c]] = snapshot[c]
  BY PublishedMeans
<1>3. Settle(c, outcome)
  BY DEF Grade
<1>4. ASSUME outcome.passed PROVE Proved(c)'
  <2>1. ASSUME c \in Scheduled PROVE ranWith[c] = snapshot[c]
    <3>1. snapshot[c] <= ranWith[c] /\ ranWith[c] <= tests[Task[c]] /\ Task[c] \in Tasks
      BY <1>2, <1>4, <2>1, GradingsPlace DEF IInv, GradingOK, VersionsInOrder
    <3>2. snapshot[c] \in Nat /\ ranWith[c] \in Nat /\ tests[Task[c]] \in Nat
      BY <2>1, <3>1 DEF IInv, Shapes
    <3>3. QED
      BY <1>2, <1>4, <2>1, <3>1, <3>2
  <2>2. QED
    BY <1>1, <1>2, <1>4, <2>1 DEF Proved
<1>5. QED
  <2> HIDE DEF outcome
  <2>1. c \in Scheduled => pc[c] \in Working
    BY DEF Working
  <2>2. QED
    BY <1>1, <1>2, <1>3, <1>4, <2>1, SettleKeeps

\* The audit settles a workspace that is worth nothing, or has the tests hashed.
LEMMA AuditKeeps ==
  ASSUME IInv, NEW c \in Gradings, Audit(c) PROVE IInv'
<1>1. /\ pc[c] = IF c \in Scheduled THEN "audit" ELSE "called"
      /\ UNCHANGED <<box, live, ran, image, ender, echoed, facts, tests, reports, exit, ranWith>>
  BY DEF Audit, history
<1>2. pc[c] \notin {"done", "away"} /\ (c \in Scheduled => pc[c] \in Working)
  BY <1>1 DEF Working
<1>3. /\ c \in Calls /\ facts[c].whole /\ result[c] = NoResult /\ FactsFrame(c)
      /\ c \in Scheduled => Task[c] \in Tasks /\ AtTurn(c)
  BY <1>1, <1>2, GradingsPlace, FactsSet
<1>4. CASE Settle(c, NoOutcome) /\ UNCHANGED snapshot
  <2>1. NoOutcome \in Outcomes /\ ~NoOutcome.passed
    BY DEF NoOutcome, Outcomes
  <2>2. QED
    BY <1>1, <1>2, <1>3, <1>4, <2>1, SettleKeeps
<1>5. CASE /\ GoTo(c, "ready") /\ Stay
           /\ snapshot' = IF c \in Scheduled
                          THEN [snapshot EXCEPT ![c] = tests[Task[c]]] ELSE snapshot
           /\ UNCHANGED <<log, graded>>
  <2>1. pc' = [pc EXCEPT ![c] = "ready"] /\ UNCHANGED result
    BY <1>5 DEF GoTo, Stay
  <2>2. /\ snapshot' \in [Scheduled -> Nat]
        /\ c \in Scheduled => snapshot'[c] = tests[Task[c]] /\ tests[Task[c]] \in Nat
        /\ \A d \in Scheduled \ {c} : snapshot'[d] = snapshot[d]
    BY <1>3, <1>5 DEF IInv, Shapes
  <2>3. GradingFrame(c)
    BY <1>1, <1>2, <1>3, <1>5, <2>1, <2>2 DEF GradingFrame, FactsFrame, IInv, Shapes, Working
  <2>4. GradingOK(c)'
    BY <1>1, <1>3, <2>1, <2>2 DEF GradingOK, VersionsInOrder, NoResult, IInv, Shapes
  <2>5. QED
    BY <2>3, <2>4, GradingKeeps
<1>6. QED
  BY <1>4, <1>5 DEF Audit

\* A grader that is started; the scheduler's runs the tests there are.
LEMMA StartKeeps ==
  ASSUME IInv, NEW c \in Gradings, StartGrader(c) \/ StartStaged(c) PROVE IInv'
<1>1. /\ pc[c] = "ready" /\ pc' = [pc EXCEPT ![c] = "wait"]
      /\ live' = live \cup {c}
      /\ UNCHANGED <<result, box, ran, image, ender, echoed, facts,
                     log, tests, snapshot, graded, reports, exit>>
      /\ c \notin Scheduled => UNCHANGED ranWith
      /\ c \in Scheduled => ranWith' = [ranWith EXCEPT ![c] = tests[Task[c]]]
  BY DEF StartGrader, StartStaged, Started, GoTo, Stay, history
<1>2. /\ c \in Calls /\ facts[c].whole /\ result[c] = NoResult /\ FactsFrame(c)
      /\ c \in Scheduled => Task[c] \in Tasks /\ AtTurn(c)
  BY <1>1, GradingsPlace, FactsSet DEF Working
<1>3. /\ c \in Scheduled =>
           /\ ranWith' \in [Scheduled -> Nat] /\ ranWith'[c] = tests[Task[c]]
           /\ tests[Task[c]] \in Nat /\ snapshot[c] <= tests[Task[c]]
           /\ \A d \in Scheduled \ {c} : ranWith'[d] = ranWith[d]
  BY <1>1, <1>2 DEF IInv, Shapes, GradingOK, VersionsInOrder
<1>4. GradingFrame(c)
  BY <1>1, <1>2, <1>3 DEF GradingFrame, FactsFrame, IInv, Shapes, Working
<1>5. GradingOK(c)'
  BY <1>1, <1>2, <1>3 DEF GradingOK, VersionsInOrder, NoResult, IInv, Shapes
<1>6. QED
  BY <1>4, <1>5, GradingKeeps

\* What a grader writes while it is waited for.
LEMMA WriteKeeps ==
  ASSUME IInv, NEW c \in Gradings,
         \/ \E reward \in Rewards[c] : WriteReward(c, reward)
         \/ \E report \in Reports[c] : WriteReport(c, report)
  PROVE  IInv'
<1>1. /\ pc[c] = "wait"
      /\ UNCHANGED <<pc, result, box, live, ran, image, ender, echoed, harness>>
  BY DEF WriteReward, WriteReport
<1>2. /\ c \in Calls /\ result[c] = NoResult
      /\ c \in Scheduled => Task[c] \in Tasks /\ AtTurn(c)
  BY <1>1, GradingsPlace DEF Working
<1>3. FactsFrame(c)
  <2>1. Rewards[c] \subseteq Int /\ Reports[c] \subseteq Details
    BY GradersAssumption
  <2>2. CASE \E reward \in Rewards[c] : WriteReward(c, reward)
    BY <1>1, <2>1, <2>2, FactsSet DEF WriteReward
  <2>3. CASE \E report \in Reports[c] : WriteReport(c, report)
    BY <1>1, <2>1, <2>3, FactsSet DEF WriteReport
  <2>4. QED
    BY <2>2, <2>3
<1>4. GradingFrame(c)
  BY <1>1, <1>2, <1>3 DEF GradingFrame, FactsFrame, IInv, Shapes, Working, harness
<1>5. GradingOK(c)'
  BY <1>1, <1>2, <1>3 DEF GradingOK, FactsFrame, VersionsInOrder, NoResult, IInv, harness
<1>6. QED
  BY <1>4, <1>5, GradingKeeps

\* The steps of a grader keep the invariant.
LEMMA GraderKeeps ==
  ASSUME IInv, NEW c \in Calls, GraderStep(c), pc[c] \notin {"away", "done"} PROVE IInv'
<1>1. CASE Audit(c)
  BY <1>1, AuditKeeps DEF Audit
<1>2. CASE NotStarted(c)
  <2>1. /\ c \in Gradings /\ pc[c] = "ready" /\ Grade(c, 1, FALSE)
        /\ UNCHANGED <<live, box, ran, image, ender, echoed, tests, snapshot, reports, exit,
                       ranWith>>
    BY <1>2 DEF NotStarted
  <2>2. live' \subseteq live
    BY <2>1
  <2>3. 1 # 0
    OBVIOUS
  <2>4. QED
    BY <2>1, <2>2, <2>3, GradeKeeps
<1>3. CASE StartGrader(c) \/ StartStaged(c)
  <2>1. c \in Gradings
    BY <1>3, Kinds DEF StartGrader, StartStaged
  <2>2. QED
    BY <1>3, <2>1, StartKeeps
<1>4. CASE \/ c \in Gradings /\ \E reward \in Rewards[c] : WriteReward(c, reward)
           \/ c \in Gradings /\ \E report \in Reports[c] : WriteReport(c, report)
  BY <1>4, WriteKeeps
<1>5. CASE \E code \in ExitCodes : GraderExits(c, code)
  <2>1. PICK code \in ExitCodes : GraderExits(c, code)
    BY <1>5
  <2>2. /\ c \in Gradings /\ pc[c] = "wait" /\ Grade(c, code, FALSE) /\ live' \subseteq live
        /\ UNCHANGED <<box, ran, image, ender, echoed, tests, snapshot, reports, exit, ranWith>>
    BY <2>1 DEF GraderExits
  <2>3. QED
    BY <2>2, GradeKeeps
<1>6. CASE GraderExpires(c)
  <2> DEFINE code == IF c \in Scheduled THEN TimeoutCode ELSE NoCode
  <2>1. /\ c \in Gradings /\ pc[c] = "wait" /\ live' \subseteq live
        /\ Grade(c, code, TRUE)
        /\ UNCHANGED <<box, ran, image, ender, echoed, tests, snapshot, reports, exit, ranWith>>
    BY <1>6 DEF GraderExpires
  <2> HIDE DEF code
  <2>2. QED
    BY <2>1, GradeKeeps
<1>7. QED
  BY <1>1, <1>2, <1>3, <1>4, <1>5, <1>6 DEF GraderStep
-----------------------------------------------------------------------------
(* The scheduler's own steps *)

\* A task that is taken: its log directory is emptied.
LEMMA TakingKeeps ==
  ASSUME IInv, NEW c \in Scheduled, run_scheduler_task(c) PROVE IInv'
<1>1. /\ pc[c] = "called" /\ AtTurn(c)
      /\ log' = [log EXCEPT ![Task[c]] = NoReward] /\ pc' = [pc EXCEPT ![c] = "adapter"]
      /\ UNCHANGED <<result, box, live, ran, image, ender, echoed, facts,
                     tests, snapshot, graded, reports, exit, ranWith>>
  BY DEF run_scheduler_task, Turn, AtTurn, GoTo, Stay, history
<1>2. /\ c \in Gradings /\ c \in Calls /\ result[c] = NoResult /\ FactsFrame(c)
      /\ Task[c] \in Tasks
  BY <1>1, Kinds, GradingsPlace, FactsSet
<1>3. GradingFrame(c)
  BY <1>1, <1>2 DEF GradingFrame, FactsFrame, IInv, Shapes, Working
<1>4. GradingOK(c)'
  BY <1>1, <1>2 DEF GradingOK, FactsFrame, VersionsInOrder, NoResult, IInv, Shapes
<1>5. QED
  BY <1>2, <1>3, <1>4, GradingKeeps

\* An adapter that writes a reward, or returns without one.
LEMMA AdapterKeeps ==
  ASSUME IInv, NEW c \in Scheduled, pc[c] = "adapter",
         \/ pc' = pc /\ log' = [log EXCEPT ![Task[c]] = One]
         \/ pc' = [pc EXCEPT ![c] = "audit"] /\ UNCHANGED log,
         UNCHANGED <<result, box, live, ran, image, ender, echoed, facts,
                     tests, snapshot, graded, reports, exit, ranWith>>
  PROVE  IInv'
<1>1. /\ c \in Gradings /\ c \in Calls /\ result[c] = NoResult /\ FactsFrame(c)
      /\ Task[c] \in Tasks /\ AtTurn(c)
  BY Kinds, GradingsPlace, FactsSet DEF Working
<1>2. pc'[c] \in {"adapter", "audit"} /\ DOMAIN pc' = Calls
  BY <1>1 DEF IInv, Shapes
<1>3. DOMAIN log' = Tasks /\ \A t \in Tasks \ {Task[c]} : log'[t] = log[t]
  BY DEF IInv, Shapes
<1>4. \A d \in Calls \ {c} : pc'[d] = pc[d]
  BY DEF IInv, Shapes
<1>5. GradingFrame(c)
  BY <1>1, <1>2, <1>3, <1>4 DEF GradingFrame, FactsFrame, IInv, Shapes, Working
<1>6. GradingOK(c)'
  BY <1>1, <1>2 DEF GradingOK, FactsFrame, VersionsInOrder, NoResult
<1>7. QED
  BY <1>1, <1>5, <1>6, GradingKeeps

\* A report is of the task at its turn, which is done with it.
LEMMA ReportKeeps ==
  ASSUME IInv, NEW c \in Scheduled, pc[c] \in Working,
         NEW outcome \in Outcomes, NEW official \in BOOLEAN, Report(c, outcome, official),
         official => log[Task[c]] = outcome.reward,
         outcome.passed => Proved(c),
         UNCHANGED <<scene, box, live, faults, history,
                     log, tests, snapshot, graded, exit, ranWith>>
  PROVE  IInv'
<1> DEFINE new == [task |-> Task[c], reward |-> outcome.reward,
                   passed |-> outcome.passed, official |-> official]
<1>1. /\ c \in Gradings /\ c \in Calls /\ AtTurn(c) /\ Task[c] \in Tasks /\ facts[c].whole
      /\ pc[c] \notin {"done", "away", "called"}
  BY Kinds, GradingsPlace DEF Working
<1>2. /\ reports' = Append(reports, new)
      /\ pc' = [pc EXCEPT ![c] = "done"]
      /\ result' = [result EXCEPT ![c] = IF outcome.passed THEN "passed" ELSE "failed"]
  BY DEF Report, Return, GoTo
<1>3. /\ new \in ReportRecords /\ new.task = Task[c] /\ new.reward = outcome.reward
      /\ new.passed = outcome.passed /\ new.official = official
  BY <1>1 DEF ReportRecords, Outcomes
<1> HIDE DEF new
<1>4. reports \in Seq(ReportRecords) /\ Len(reports) \in Nat
  BY ReportsAreQueued DEF IInv, Shapes
<1>5. /\ reports' \in Seq(ReportRecords) /\ Len(reports') = Len(reports) + 1
      /\ \A i \in 1 .. Len(reports) : reports'[i] = reports[i]
      /\ reports'[Len(reports) + 1] = new
  BY <1>2, <1>3, <1>4, AppendProperties
<1>6. /\ pc'[c] = "done" /\ DOMAIN pc' = Calls /\ DOMAIN result' = Calls
      /\ result'[c] = "passed" <=> outcome.passed
      /\ \A d \in Calls \ {c} : pc'[d] = pc[d] /\ result'[d] = result[d]
  BY <1>1, <1>2 DEF IInv, Shapes
<1>7. CommandsInv' /\ \A d \in Verifications : VerifierOK(d)'
  BY <1>1, <1>6, Kinds, CommandsStay, VerifiersStay DEF IInv, history
<1>8. ASSUME NEW d \in Gradings PROVE GradingOK(d)'
  <2>1. CASE d = c
    BY <1>1, <1>6, <2>1 DEF GradingOK, Proved, VersionsInOrder, history
  <2>2. CASE d # c
    <3>1. GradingOK(d) /\ d \in Calls
      BY Kinds DEF IInv
    <3>2. QED
      BY <1>6, <2>2, <3>1 DEF GradingOK, Proved, VersionsInOrder, history
  <2>3. QED
    BY <2>1, <2>2
<1>9. OneTask'
  BY <1>1, <1>6, OthersRest, Kinds DEF OneTask, Working
<1>10. ReportsStand'
  <2>1. /\ Len(reports) + 1 \in 1 .. Len(Queue) /\ Queue[Len(reports) + 1] = c
        /\ exit' = "running"
    BY <1>1, <1>4, Kinds DEF AtTurn
  <2>2. Len(reports') <= Len(Queue)
    BY <1>5, <2>1
  <2>3. ASSUME NEW i \in 1 .. Len(reports) PROVE Reported(i)'
    <3>1. Queue[i] \in Scheduled /\ Reported(i)
      BY ReportsAreQueued DEF IInv, ReportsStand
    <3>2. Queue[i] # c
      BY <1>1, <3>1 DEF Reported
    <3>3. QED
      BY <1>5, <1>6, <3>1, <3>2, Kinds DEF Reported
  <2>4. ASSUME NEW i, i = Len(reports) + 1 PROVE Reported(i)'
    <3>1. reports'[i].task = Task[Queue[i]] /\ Queue[i] = c
      BY <1>3, <1>5, <2>1, <2>4
    <3>2. reports'[i].passed => result'[Queue[i]] = "passed"
      BY <1>3, <1>5, <1>6, <2>4, <3>1
    <3>3. QED
      BY <1>6, <3>1, <3>2 DEF Reported
  <2>5. ASSUME NEW i \in 1 .. Len(reports), reports'[i].official, Untouched(i)'
        PROVE  log'[reports'[i].task] = reports'[i].reward
    <3>1. reports'[i] = reports[i] /\ Len(reports) + 1 > i
      BY <1>4, <1>5
    <3>2. Untouched(i)
      BY <1>6, <2>5, <3>1, Kinds DEF Untouched
    <3>3. QED
      BY <2>5, <3>1, <3>2 DEF IInv, ReportsStand
  <2>6. reports'[Len(reports) + 1].official =>
          log'[reports'[Len(reports) + 1].task] = reports'[Len(reports) + 1].reward
    BY <1>3, <1>5
  <2>7. \A i \in 1 .. Len(reports') : i \in 1 .. Len(reports) \/ i = Len(reports) + 1
    BY <1>4, <1>5
  <2>8. \A i \in 1 .. Len(reports') : Reported(i)'
    BY <2>3, <2>4, <2>7
  <2>9. \A i \in 1 .. Len(reports') :
          reports'[i].official /\ Untouched(i)' => log'[reports'[i].task] = reports'[i].reward
    BY <2>5, <2>6, <2>7
  <2>10. QED
    BY <2>1, <2>2, <2>8, <2>9 DEF ReportsStand
<1>11. Shapes'
  BY <1>5, <1>6 DEF IInv, Shapes, history
<1>12. QED
  BY <1>7, <1>8, <1>9, <1>10, <1>11 DEF IInv

\* An exception ends the scheduler and gives up the tasks that are left.
LEMMA RaisingKeeps ==
  ASSUME IInv, NEW c \in Scheduled, AtTurn(c), pc[c] \notin {"done", "away"}, RaisesOut(c)
  PROVE  IInv'
<1> DEFINE given == Remaining(c) \cup {c}
<1>1. /\ pc' = [d \in Calls |-> IF d \in given THEN "away" ELSE pc[d]]
      /\ exit' = "raised"
      /\ UNCHANGED <<box, live, result, ran, image, ender, echoed, facts,
                     log, tests, snapshot, graded, reports, ranWith>>
  BY DEF RaisesOut, history
<1>2. given \subseteq Scheduled /\ c \in given
  BY Kinds DEF Remaining
<1> HIDE DEF given
<1>3. \A d \in Calls : pc'[d] = IF d \in given THEN "away" ELSE pc[d]
  BY <1>1
<1>4. \A d \in Commands \cup Verifications : pc'[d] = pc[d]
  BY <1>2, <1>3, Kinds
<1>5. CommandsInv' /\ \A d \in Verifications : VerifierOK(d)'
  BY <1>1, <1>4, Kinds, CommandsStay, VerifiersStay DEF IInv
<1>6. ASSUME NEW d \in Gradings PROVE GradingOK(d)'
  <2>1. GradingOK(d) /\ d \in Calls /\ (pc'[d] = "away" \/ pc'[d] = pc[d])
    BY <1>3, Kinds DEF IInv
  <2>2. QED
    BY <1>1, <2>1 DEF GradingOK, Proved, VersionsInOrder
<1>7. OneTask'
  BY <1>2, <1>3, OthersRest, Kinds DEF OneTask, Working
<1>8. ReportsStand'
  <2>1. \A i \in 1 .. Len(reports) : Reported(i)'
    <3> TAKE i \in 1 .. Len(reports)
    <3>1. Queue[i] \in Calls /\ Reported(i)
      BY Kinds, ReportsAreQueued DEF IInv, ReportsStand
    <3>2. QED
      BY <1>1, <1>3, <3>1 DEF Reported
  <2>2. \A i \in 1 .. Len(reports) : Untouched(i)' => Untouched(i)
    BY <1>1, <1>3, Kinds DEF Untouched
  <2>3. QED
    BY <1>1, <2>1, <2>2 DEF IInv, ReportsStand
<1>9. Shapes'
  BY <1>1 DEF IInv, Shapes
<1>10. QED
  BY <1>5, <1>6, <1>7, <1>8, <1>9 DEF IInv
-----------------------------------------------------------------------------
(* Every step *)

\* A step of the scheduler, or of a grading that is not its own.
LEMMA SchedulerKeeps ==
  ASSUME IInv, NEW c \in Calls, SchedulerStep(c), pc[c] \notin {"away", "done"} PROVE IInv'
<1>1. CASE run_scheduler_task(c)
  BY <1>1, TakingKeeps DEF run_scheduler_task
<1>2. CASE AdapterFails(c)
  <2>1. /\ c \in Scheduled /\ pc[c] \in Working /\ Report(c, NoOutcome, FALSE)
        /\ UNCHANGED <<scene, box, live, faults, history, log, tests, snapshot, graded,
                       exit, ranWith>>
    BY <1>2 DEF AdapterFails, Working
  <2>2. NoOutcome \in Outcomes /\ ~NoOutcome.passed
    BY DEF NoOutcome, Outcomes
  <2>3. QED
    BY <2>1, <2>2, ReportKeeps
<1>3. CASE AdapterReturns(c)
  <2>1. c \in Scheduled /\ pc[c] = "adapter" /\ AtTurn(c)
    BY <1>3, Kinds, GradingsPlace DEF AdapterReturns, Working
  <2>2. CASE RaisesOut(c)
    BY <2>1, <2>2, RaisingKeeps
  <2>3. CASE ~RaisesOut(c)
    <3>1. /\ pc' = [pc EXCEPT ![c] = "audit"]
          /\ UNCHANGED <<result, box, live, ran, image, ender, echoed, facts,
                         log, tests, snapshot, graded, reports, exit, ranWith>>
      BY <1>3, <2>3 DEF AdapterReturns, GoTo, Stay, history, harness
    <3>2. QED
      BY <2>1, <3>1, AdapterKeeps
  <2>4. QED
    BY <2>2, <2>3
<1>4. CASE FileNotFound(c)
  BY <1>4, RaisingKeeps DEF FileNotFound, Turn, AtTurn
<1>5. CASE GraderStep(c)
  BY <1>5, GraderKeeps
<1>6. CASE ReportStage2(c)
  <2>1. /\ c \in Scheduled /\ pc[c] = "report" /\ pc[c] \in Working
        /\ Report(c, graded[c], TRUE)
        /\ UNCHANGED <<scene, box, live, faults, history, log, tests, snapshot, graded,
                       exit, ranWith>>
    BY <1>6 DEF ReportStage2, Working
  <2>2. /\ graded[c] \in Outcomes /\ log[Task[c]] = graded[c].reward
        /\ graded[c].passed => Proved(c)
    BY <2>1, Kinds DEF IInv, Shapes, GradingOK
  <2>3. QED
    BY <2>1, <2>2, ReportKeeps
<1>7. QED
  BY <1>1, <1>2, <1>3, <1>4, <1>5, <1>6 DEF SchedulerStep

\* Every call's next step.
LEMMA AdvanceKeeps ==
  ASSUME IInv, NEW c \in Calls, Advance(c) PROVE IInv'
<1>1. CASE SchedulerStep(c)
  BY <1>1, SchedulerKeeps DEF Advance
<1>2. CASE c \in Commands /\ CallStep(c) /\ UNCHANGED harness
  BY <1>2, PreparesFrame, RunsFrame, CallKeeps DEF CallStep
<1>3. CASE VerifierStep(c) /\ UNCHANGED harness
  <2>1. c \in Verifications
    BY <1>3, CallsAreApart DEF VerifierStep, verify_shell_write, Refuse, Launch, Ready,
                               Verified, SecondStage, VerifierExpires, KillFails
  <2>2. QED
    BY <1>3, <2>1, VerifierSteps, VerifierKeeps DEF Advance
<1>4. QED
  BY <1>1, <1>2, <1>3 DEF Advance, ProgressOf

\* Test files that somebody changes: versions only grow.
LEMMA ChangeKeeps ==
  ASSUME IInv, NEW t \in Tasks, ChangeTests(t) PROVE IInv'
<1>1. /\ tests' = [tests EXCEPT ![t] = @ + 1]
      /\ UNCHANGED <<pc, box, live, result, ran, image, ender, echoed, facts,
                     log, snapshot, graded, reports, exit, ranWith>>
  BY DEF ChangeTests, history
<1>2. /\ tests' \in [Tasks -> Nat]
      /\ \A k \in Tasks : tests[k] \in Nat /\ tests'[k] \in Nat /\ tests[k] <= tests'[k]
  BY <1>1 DEF IInv, Shapes
<1>3. CommandsInv' /\ \A d \in Verifications : VerifierOK(d)'
  BY <1>1, CommandsStay, VerifiersStay DEF IInv
<1>4. ASSUME NEW d \in Gradings PROVE GradingOK(d)'
  <2>1. GradingOK(d)
    BY DEF IInv
  <2>2. ASSUME d \in Scheduled PROVE VersionsInOrder(d)'
    <3>1. /\ tests[Task[d]] \in Nat /\ tests'[Task[d]] \in Nat
          /\ tests[Task[d]] <= tests'[Task[d]]
          /\ snapshot[d] \in Nat /\ ranWith[d] \in Nat
      BY <1>2, <2>2 DEF Tasks, IInv, Shapes
    <3>2. QED
      BY <1>1, <2>1, <2>2, <3>1 DEF GradingOK, VersionsInOrder
  <2>3. QED
    BY <1>1, <2>1, <2>2 DEF GradingOK, Proved
<1>5. OneTask' /\ ReportsStand'
  BY <1>1 DEF IInv, OneTask, ReportsStand, Reported, Untouched
<1>6. Shapes'
  BY <1>1, <1>2 DEF IInv, Shapes
<1>7. QED
  BY <1>3, <1>4, <1>5, <1>6 DEF IInv

\* The scheduler's main returns 0 only when every task passed.
LEMMA MainKeeps ==
  ASSUME IInv, MainReturns PROVE IInv'
<1>1. /\ exit = "running" /\ Len(reports) = Len(Queue)
      /\ exit' = IF \A i \in DOMAIN reports : reports[i].passed THEN "0" ELSE "1"
      /\ UNCHANGED <<pc, box, live, result, ran, image, ender, echoed, facts,
                     log, tests, snapshot, graded, reports, ranWith>>
  BY DEF MainReturns, vars, history
<1>2. CommandsInv' /\ \A d \in Verifications : VerifierOK(d)'
  BY <1>1, CommandsStay, VerifiersStay DEF IInv
<1>3. \A d \in Gradings : GradingOK(d)'
  BY <1>1 DEF IInv, GradingOK, Proved, VersionsInOrder
<1>4. OneTask'
  <2>1. \A c \in Scheduled : pc[c] \notin Working
    BY <1>1, Kinds DEF IInv, OneTask
  <2>2. QED
    BY <1>1, <2>1 DEF OneTask
<1>5. ReportsStand'
  <2>1. ASSUME exit' = "0", NEW i \in 1 .. Len(Queue) PROVE result[Queue[i]] = "passed"
    <3>1. \A k \in DOMAIN reports : reports[k].passed
      BY <1>1, <2>1
    <3>2. Reported(i) /\ i \in DOMAIN reports
      BY <1>1, ReportsAreQueued DEF IInv, ReportsStand
    <3>3. QED
      BY <3>1, <3>2 DEF Reported
  <2>2. QED
    BY <1>1, <2>1 DEF IInv, ReportsStand, Reported, Untouched
<1>6. exit' \in {"0", "1"}
  BY <1>1
<1>7. Shapes'
  BY <1>1, <1>6 DEF IInv, Shapes
<1>8. QED
  BY <1>2, <1>3, <1>4, <1>5, <1>7 DEF IInv

\* What is nobody's call: commands that end by themselves, and a workspace whose
\* directory is replaced.
LEMMA OutsideKeeps ==
  ASSUME IInv, UNCHANGED <<pc, result, ran, image, ender, echoed, facts, harness>>,
         live' \subseteq live, DOMAIN box' = DOMAIN box,
         box'.made = box.made, box'.image = box.image
  PROVE  IInv'
<1>1. CommandsInv' /\ \A d \in Verifications : VerifierOK(d)'
  BY CommandsStay, VerifiersStay DEF IInv
<1>2. (\A d \in Gradings : GradingOK(d)') /\ OneTask' /\ ReportsStand'
  BY GradingsStay
<1>3. Shapes'
  BY DEF IInv, Shapes, harness
<1>4. QED
  BY <1>1, <1>2, <1>3 DEF IInv

\* Every step keeps the invariant.
LEMMA NextKeeps ==
  ASSUME IInv, [HarnessNext]_all PROVE IInv'
<1>1. ASSUME NEW c \in Calls, Advance(c) PROVE IInv'
  BY <1>1, AdvanceKeeps
<1>2. ASSUME NEW c \in Calls, AdapterWrites(c) PROVE IInv'
  <2>1. /\ c \in Scheduled /\ pc[c] = "adapter"
        /\ pc' = pc /\ log' = [log EXCEPT ![Task[c]] = One]
        /\ UNCHANGED <<result, box, live, ran, image, ender, echoed, facts,
                       tests, snapshot, graded, reports, exit, ranWith>>
    BY <1>2 DEF AdapterWrites, vars, history
  <2>2. QED
    BY <2>1, AdapterKeeps
<1>3. CASE ReplaceWorkspace /\ UNCHANGED harness
  <2>1. /\ box' = [box EXCEPT !.detached = TRUE]
        /\ UNCHANGED <<pc, live, result, ran, image, ender, echoed, facts, harness>>
    BY <1>3 DEF ReplaceWorkspace, history
  <2>2. DOMAIN box' = DOMAIN box /\ box'.made = box.made /\ box'.image = box.image
    BY <2>1 DEF IInv, Shapes
  <2>3. QED
    BY <2>1, <2>2, OutsideKeeps
<1>4. ASSUME NEW c \in Calls, EndsUnwatched(c), UNCHANGED harness PROVE IInv'
  <2>1. /\ live' = live \ {c}
        /\ UNCHANGED <<pc, box, result, ran, image, ender, echoed, facts, harness>>
    BY <1>4 DEF EndsUnwatched, history
  <2>2. QED
    BY <2>1, OutsideKeeps
<1>5. ASSUME NEW t \in Tasks, ChangeTests(t) PROVE IInv'
  BY <1>5, ChangeKeeps
<1>6. CASE MainReturns
  BY <1>6, MainKeeps
<1>7. CASE UNCHANGED all
  BY <1>7, OutsideKeeps DEF all, vars, history, harness
<1>8. QED
  BY <1>1, <1>2, <1>3, <1>4, <1>5, <1>6, <1>7 DEF HarnessNext

-----------------------------------------------------------------------------
(* The theorems *)

\* Before anything has happened.
LEMMA InitHolds == HarnessInit => IInv
<1> SUFFICES ASSUME HarnessInit PROVE IInv
  OBVIOUS
<1> USE DEF HarnessInit, Init
<1>1. CommandsInv
  BY DEF CommandsInv, CommandOK, OneInside, Inside, EndersAreOthers, ImagesAskedFor, NoBox,
         NoResult, Calls, Early, Between
<1>2. \A c \in Verifications : VerifierOK(c)
  BY Kinds DEF VerifierOK, NoResult
<1>3. \A c \in Gradings : GradingOK(c)
  <2> TAKE c \in Gradings
  <2>1. facts[c] = NoFacts /\ result[c] = NoResult /\ pc[c] \in {"called", "away"}
    BY Kinds
  <2>2. NoFacts.whole
    BY DEF NoFacts
  <2>3. QED
    BY <2>1, <2>2 DEF GradingOK, VersionsInOrder, NoResult
<1>4. OneTask
  BY Kinds DEF OneTask, Working
<1>5. ReportsStand
  <2>1. Len(reports) = 0 /\ exit = "running"
    BY EmptySeq
  <2>2. QED
    BY <2>1, Kinds DEF ReportsStand
<1>6. Shapes
  <2>1. NoFacts.report \in Details /\ NoFacts.reward \in Int /\ DOMAIN NoFacts = FactFields
    BY DEF NoFacts, NoDetail, Details, Ungraded, Nothing, FactFields
  <2>2. NoOutcome \in Outcomes
    BY DEF NoOutcome, Outcomes
  <2>3. DOMAIN box = {"made", "image", "up", "detached"}
    BY DEF NoBox
  <2>4. reports \in Seq(ReportRecords)
    BY EmptySeq
  <2>5. \A c \in Calls : facts[c] = NoFacts
    OBVIOUS
  <2>6. /\ tests \in [Tasks -> Nat] /\ snapshot \in [Scheduled -> Nat]
        /\ ranWith \in [Scheduled -> Nat] /\ graded \in [Scheduled -> Outcomes]
    BY <2>2
  <2>7. QED
    BY <2>1, <2>3, <2>4, <2>5, <2>6 DEF Shapes
<1>7. QED
  BY <1>1, <1>2, <1>3, <1>4, <1>5, <1>6 DEF IInv

\* The inductive invariant of all the calls holds throughout: of the commands in
\* the shared container, of the verifications and of the gradings.
THEOREM CallsInvariant == Spec => []IInv
<1>1. IInv /\ [HarnessNext]_all => IInv'
  BY NextKeeps
<1>2. QED
  BY InitHolds, <1>1, PTL DEF Spec

\* When a command or a verification was reported as timed out, nothing of it runs
\* any more, or it was reported that it could not be stopped
\* (run_in_reused_sandbox, run_in_sandbox).
THEOREM NothingStaysBehind == Spec => []NothingRunsOn
<1>1. IInv => NothingRunsOn
  BY DEF IInv, CommandsInv, CommandOK, VerifierOK, NothingRunsOn
<1>2. QED
  BY <1>1, CallsInvariant, PTL

\* The threads of a process never cut each other's commands short, nor change the
\* image under them: whoever did is of another process (the process-local lock of
\* run_in_reused_sandbox).
THEOREM ThreadsArePeaceful == Spec => []OnlyOthersInterfere
<1>1. ASSUME IInv, NEW c \in Commands, image[c] \notin {NoImage, Image[Host[c]]}
      PROVE  \E d \in Commands : Host[d] # Host[c] /\ pc[d] \notin {"called", "away"}
  <2>1. AskedFor(image[c])
    BY <1>1 DEF IInv, CommandsInv, ImagesAskedFor
  <2>2. QED
    BY <1>1, <2>1 DEF AskedFor
<1>2. IInv => OnlyOthersInterfere
  BY <1>1 DEF IInv, CommandsInv, EndersAreOthers, OnlyOthersInterfere
<1>3. QED
  BY <1>2, CallsInvariant, PTL

\* A command runs a second time only after its own output read like docker's words
\* for a broken container, and never a third time, whatever fails in between.
THEOREM CommandsRunOnce == Spec => []RunsOnce
<1>1. ASSUME IInv, NEW c \in Commands, ran[c] > 1 PROVE c \in echoed /\ ran[c] = 2
  <2>1. ran[c] = 0 \/ ran[c] = 1 \/ (ran[c] = 2 /\ c \in echoed)
    BY <1>1 DEF IInv, CommandsInv, CommandOK
  <2>2. QED
    BY <1>1, <2>1
<1>2. IInv => RunsOnce
  BY <1>1 DEF RunsOnce
<1>3. QED
  BY <1>2, CallsInvariant, PTL

\* Whatever is reported passed ran to a good end with a score every rule allows,
\* and the scheduler's report of a task stays what its reward.txt says, also when a
\* grader that ran out of time still writes.
THEOREM PassesAreEarned == Spec => []PassedIsEarned
<1>1. ASSUME IInv PROVE PassedIsEarned
  <2>1. ASSUME NEW c \in Verifications, result[c] = "passed"
        PROVE  /\ facts[c].code = 0 /\ facts[c].whole
               /\ facts[c].unittest => facts[c].tests > 0 /\ facts[c].ok
               /\ c \notin Gradings /\ c \notin Scheduled
    BY <1>1, <2>1, Kinds DEF IInv, VerifierOK, Verification
  <2>2. ASSUME NEW c \in Gradings, result[c] = "passed"
        PROVE  /\ facts[c].code = 0 /\ facts[c].whole /\ c \notin Verifications
               /\ facts[c].report.total > 0 /\ facts[c].report.passed = facts[c].report.total
               /\ c \in Scheduled => ranWith[c] = snapshot[c]
    BY <1>1, <2>2, Kinds DEF IInv, GradingOK, Proved
  <2>3. exit = "0" => \A i \in DOMAIN Queue : result[Queue[i]] = "passed"
    BY <1>1, Kinds DEF IInv, ReportsStand
  <2>4. ASSUME NEW i \in DOMAIN reports, reports[i].official,
               \A j \in DOMAIN Queue :
                  j > i /\ Task[Queue[j]] = reports[i].task => pc[Queue[j]] = "called"
        PROVE  log[reports[i].task] = reports[i].reward
    BY <1>1, <2>4, Kinds, ReportsAreQueued DEF IInv, ReportsStand, Untouched
  <2>5. QED
    BY <2>1, <2>2, <2>3, <2>4 DEF PassedIsEarned
<1>2. IInv => PassedIsEarned
  BY <1>1
<1>3. QED
  BY <1>2, CallsInvariant, PTL
=============================================================================
