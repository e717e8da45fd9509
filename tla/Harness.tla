------------------------------ MODULE Harness ------------------------------
(***************************************************************************)
(* Gradings of a workspace, beside the calls of Sandbox: those of          *)
(* run_host_verifier (verifier.py), in a container or as a process of the  *)
(* host, and those of the benchmark scheduler (scripts/harbor_scheduler.py)*)
(* which takes the tasks of a queue one after the other: the agent adapter *)
(* in a process of its own, the audit of the workspace, the verifier's     *)
(* container, the official reward files and a report.                      *)
(*                                                                         *)
(* A grader writes reward.txt and reward.json into a staging directory of  *)
(* its own, which goes when its grading ends (facts stands for it and      *)
(* stays as history).  The adapter is external.                            *)
(***************************************************************************)
EXTENDS Sandbox, Sequences

CONSTANTS
    Policy,             \* how a grading is made: "container", "native" or "scheduler"
    Task, Queue,        \* the task of a scheduler's grading, and their order
    Rewards, Reports,   \* what the grader of a grading may write
    ExitCodes

Scheduled == {c \in Gradings : Policy[c] = "scheduler"}
Tasks == {Task[c] : c \in Scheduled}
NoReward == -4          \* the log directory has no reward.txt

ASSUME QueueAssumption ==
    /\ Policy \in [Gradings -> {"container", "native", "scheduler"}]
    /\ Task \in [Scheduled -> Tasks]
    /\ Queue \in Seq(Scheduled)
    /\ \A s \in Scenes : s \cap Scheduled \in {{}, {Queue[i] : i \in DOMAIN Queue}}
\* Rewards are numbers; what the policies look at in a report is as in Details.
ASSUME GradersAssumption ==
    \A c \in Gradings : Rewards[c] \subseteq Int /\ Reports[c] \subseteq Details

VARIABLES
    log,        \* reward.txt in the log directory of a task
    tests,      \* the version of a task's test files
    snapshot,   \* the version whose hashes a scheduler's grading took
    graded,     \* the outcome a scheduler's grading is about to report
    reports,    \* all_reports, and the lines of results-harbor-scheduler.jsonl
    exit,       \* how main ended
    ranWith     \* history: the version a grader was started with
harness == <<log, tests, snapshot, graded, reports, exit, ranWith>>
all == <<vars, harness>>

NoOutcome == [reward |-> 0, passed |-> FALSE]

HarnessInit ==
    /\ Init
    /\ log = [t \in Tasks |-> NoReward]
    /\ tests = [t \in Tasks |-> 0]
    /\ snapshot = [c \in Scheduled |-> 0]
    /\ graded = [c \in Scheduled |-> NoOutcome]
    /\ reports = <<>>
    /\ exit = "running"
    /\ ranWith = [c \in Scheduled |-> 0]

----------------------------------------------------------------------------
(* main and the first stage of run_scheduler_task *)

Remaining(c) == {Queue[i] : i \in {i \in DOMAIN Queue : i > Len(reports)}} \ {c}
Turn(c) == exit = "running" /\ Len(reports) < Len(Queue) /\ Queue[Len(reports) + 1] = c

\* What an earlier run left in the log directory goes first.
run_scheduler_task(c) ==
    /\ c \in Scheduled /\ pc[c] = "called" /\ Turn(c)
    /\ log' = [log EXCEPT ![Task[c]] = NoReward]
    /\ GoTo(c, "adapter") /\ Stay
    /\ UNCHANGED <<scene, box, live, faults, history,
                   tests, snapshot, graded, reports, exit, ranWith>>

\* The adapter is told the log directory, and writes a reward there if it
\* grades itself (--standalone-self-eval).
AdapterWrites(c) ==
    /\ c \in Scheduled /\ pc[c] = "adapter" /\ log[Task[c]] = NoReward
    /\ log' = [log EXCEPT ![Task[c]] = One]
    /\ UNCHANGED <<vars, tests, snapshot, graded, reports, exit, ranWith>>

\* A report is kept and appended to the summary.
Report(c, outcome, official) ==
    /\ reports' = Append(reports, [task |-> Task[c], reward |-> outcome.reward,
                                   passed |-> outcome.passed, official |-> official])
    /\ Return(c, IF outcome.passed THEN "passed" ELSE "failed")

AdapterFails(c) ==
    /\ c \in Scheduled /\ pc[c] = "adapter"
    /\ Report(c, NoOutcome, FALSE)
    /\ UNCHANGED <<scene, box, live, faults, history,
                   log, tests, snapshot, graded, exit, ranWith>>

\* An exception ends main, and with it the tasks that are left: no package, no
\* verifier, or evaluation artifacts that the adapter wrote.
RaisesOut(c) ==
    /\ exit' = "raised"
    /\ pc' = [d \in Calls |-> IF d \in Remaining(c) \cup {c} THEN "away" ELSE pc[d]]
    /\ UNCHANGED <<scene, box, live, result, faults, history,
                   log, tests, snapshot, graded, reports, ranWith>>

FileNotFound(c) ==
    /\ c \in Scheduled /\ pc[c] \in {"called", "audit"} /\ Turn(c)
    /\ RaisesOut(c)

AdapterReturns(c) ==
    /\ c \in Scheduled /\ pc[c] = "adapter"
    /\ IF log[Task[c]] # NoReward THEN RaisesOut(c)
       ELSE /\ GoTo(c, "audit") /\ Stay
            /\ UNCHANGED <<scene, box, live, faults, history, harness>>

----------------------------------------------------------------------------
(* run_stage2_evaluation and run_host_verifier *)

\* The scheduler publishes an outcome before it reports it.
Publish(c, outcome) ==
    /\ log' = [log EXCEPT ![Task[c]] = outcome.reward]
    /\ graded' = [graded EXCEPT ![c] = outcome]
    /\ GoTo(c, "report") /\ Stay

Settle(c, outcome) ==
    IF c \in Scheduled THEN Publish(c, outcome)
    ELSE Return(c, IF outcome.passed THEN "passed" ELSE "failed") /\ UNCHANGED <<log, graded>>

\* audit_workspace_for_sys_path_hijacking, before the tests are hashed: a
\* workspace that shadows the standard library is worth nothing.
Audit(c) ==
    /\ c \in Gradings /\ pc[c] = IF c \in Scheduled THEN "audit" ELSE "called"
    /\ \/ /\ Settle(c, NoOutcome)
          /\ UNCHANGED snapshot
       \/ /\ GoTo(c, "ready") /\ Stay
          /\ snapshot' = IF c \in Scheduled
                         THEN [snapshot EXCEPT ![c] = tests[Task[c]]] ELSE snapshot
          /\ UNCHANGED <<log, graded>>
    /\ UNCHANGED <<scene, box, live, faults, history, tests, reports, exit, ranWith>>

\* verify_test_hashes, after the verifier has run.
Intact(c) == c \in Scheduled => tests[Task[c]] = snapshot[c]

Published(c, code, timedOut) ==
    IF c \notin Scheduled
    THEN HostPolicy(code, facts[c].reward, facts[c].report, timedOut)
    ELSE IF Intact(c) THEN StagedPolicy(code, facts[c].reward, facts[c].report)
    ELSE NoOutcome

Grade(c, code, timedOut) ==
    /\ facts' = [facts EXCEPT ![c].code = code]
    /\ Settle(c, Published(c, code, timedOut))

\* No verifier, no docker, no daemon, an image of another platform: nothing is
\* staged.
NotStarted(c) ==
    /\ c \in Gradings /\ pc[c] = "ready"
    /\ Grade(c, 1, FALSE)
    /\ UNCHANGED <<scene, box, live, faults, ran, image, ender, echoed,
                   tests, snapshot, reports, exit, ranWith>>

Started(c) ==
    /\ live' = live \cup {c}
    /\ GoTo(c, "wait") /\ Stay
    /\ UNCHANGED <<scene, box, faults, history, log, tests, snapshot, graded, reports, exit>>

\* docker run, or a process of the host.
StartGrader(c) ==
    /\ c \in Gradings \ Scheduled /\ pc[c] = "ready"
    /\ Started(c)
    /\ UNCHANGED ranWith

\* docker run with the staging directory for the log directory, and the tests of
\* the workspace mounted.
StartStaged(c) ==
    /\ c \in Scheduled /\ pc[c] = "ready"
    /\ Started(c)
    /\ ranWith' = [ranWith EXCEPT ![c] = tests[Task[c]]]

\* Mutant: the scheduler's grader writes into the log directory.
WriteReward_Official(c, reward) ==
    /\ c \in Gradings \cap live
    /\ \/ /\ pc[c] = "wait" /\ facts[c].reward = Ungraded
          /\ facts' = [facts EXCEPT ![c].reward = reward]
       \/ pc[c] # "wait" /\ UNCHANGED facts
    /\ log' = IF c \in Scheduled THEN [log EXCEPT ![Task[c]] = reward] ELSE log
    /\ UNCHANGED <<scene, pc, box, live, result, faults, ran, image, ender, echoed,
                   tests, snapshot, graded, reports, exit, ranWith>>

\* Once its grading has ended what a grader writes is lost.
WriteReward(c, reward) ==
    /\ c \in Gradings \cap live /\ pc[c] = "wait" /\ facts[c].reward = Ungraded
    /\ facts' = [facts EXCEPT ![c].reward = reward]
    /\ UNCHANGED <<scene, pc, box, live, result, faults, ran, image, ender, echoed, harness>>

WriteReport(c, report) ==
    /\ c \in Gradings \cap live /\ pc[c] = "wait" /\ facts[c].report = NoDetail
    /\ facts' = [facts EXCEPT ![c].report = report]
    /\ UNCHANGED <<scene, pc, box, live, result, faults, ran, image, ender, echoed, harness>>

GraderExits(c, code) ==
    /\ c \in Gradings /\ pc[c] = "wait"
    /\ live' = live \ {c}
    /\ Grade(c, code, FALSE)
    /\ UNCHANGED <<scene, box, faults, ran, image, ender, echoed,
                   tests, snapshot, reports, exit, ranWith>>

\* The process that is waited for is killed: a native verifier, or the docker
\* client, whose container goes on.
GraderExpires(c) ==
    /\ c \in Gradings /\ pc[c] = "wait"
    /\ live' = IF Policy[c] = "native" THEN live \ {c} ELSE live
    /\ Grade(c, IF c \in Scheduled THEN TimeoutCode ELSE NoCode, TRUE)
    /\ UNCHANGED <<scene, box, faults, ran, image, ender, echoed,
                   tests, snapshot, reports, exit, ranWith>>

\* Somebody changes the test files of a task.
ChangeTests(t) ==
    /\ faults < MaxFaults /\ faults' = faults + 1
    /\ \E c \in Scheduled : Task[c] = t /\ pc[c] \notin {"called", "away", "done"}
    /\ tests' = [tests EXCEPT ![t] = @ + 1]
    /\ UNCHANGED <<scene, pc, box, live, result, history,
                   log, snapshot, graded, reports, exit, ranWith>>

----------------------------------------------------------------------------
(* The end of run_scheduler_task and of main *)

ReportStage2(c) ==
    /\ c \in Scheduled /\ pc[c] = "report"
    /\ Report(c, graded[c], TRUE)
    /\ UNCHANGED <<scene, box, live, faults, history,
                   log, tests, snapshot, graded, exit, ranWith>>

MainReturns ==
    /\ exit = "running" /\ Queue # <<>> /\ Len(reports) = Len(Queue)
    /\ exit' = IF \A i \in DOMAIN reports : reports[i].passed THEN "0" ELSE "1"
    /\ UNCHANGED <<vars, log, tests, snapshot, graded, reports, ranWith>>

----------------------------------------------------------------------------
GraderStep(c) ==
    \/ Audit(c) \/ NotStarted(c) \/ StartGrader(c) \/ StartStaged(c)
    \/ c \in Gradings /\ \E reward \in Rewards[c] : WriteReward(c, reward)
    \/ c \in Gradings /\ \E report \in Reports[c] : WriteReport(c, report)
    \/ \E code \in ExitCodes : GraderExits(c, code)
    \/ GraderExpires(c)

SchedulerStep(c) ==
    \/ run_scheduler_task(c) \/ AdapterFails(c) \/ AdapterReturns(c)
    \/ FileNotFound(c) \/ GraderStep(c) \/ ReportStage2(c)

Advance(c) ==
    /\ pc[c] \notin {"away", "done"}
    /\ (ProgressOf(c) /\ UNCHANGED harness) \/ SchedulerStep(c)

HarnessNext ==
    \/ \E c \in Calls : Advance(c) \/ AdapterWrites(c)
    \/ (ReplaceWorkspace \/ \E c \in Calls : EndsUnwatched(c)) /\ UNCHANGED harness
    \/ \E t \in Tasks : ChangeTests(t)
    \/ MainReturns

\* A thread goes on: docker answers, and what does not is timed out.  The
\* adapter, which is waited for without a timeout, returns.
Spec ==
    /\ HarnessInit /\ [][HarnessNext]_all
    /\ \A c \in Calls : WF_all(Advance(c))
    /\ WF_all(MainReturns)

----------------------------------------------------------------------------
\* A passed verification ran to a good end; a unittest command ran tests, and
\* for a write all of them, not only the file of its name.  A grading passed
\* only if its verifier ended well, with counts that say every test passed and,
\* at the scheduler, with the tests that were hashed before it was started.  The
\* scheduler exits with 0 only if every task passed, and what it reported of a
\* task it graded is, until the task is graded again, what its reward.txt says,
\* whatever a grader that ran out of time still writes.
PassedIsEarned ==
    /\ \A c \in Verifications \cup Gradings :
          result[c] = "passed" =>
              LET f == facts[c] IN
              /\ f.code = 0 /\ f.whole
              /\ c \in Verifications /\ f.unittest => f.tests > 0 /\ f.ok
              /\ c \in Gradings => f.report.total > 0 /\ f.report.passed = f.report.total
              /\ c \in Scheduled => ranWith[c] = snapshot[c]
    /\ exit = "0" => \A i \in DOMAIN Queue : result[Queue[i]] = "passed"
    /\ \A i \in DOMAIN reports :
          /\ reports[i].official
          /\ \A j \in DOMAIN Queue :
                j > i /\ Task[Queue[j]] = reports[i].task => pc[Queue[j]] = "called"
          => log[reports[i].task] = reports[i].reward

\* Every call returns, whatever the other calls do to its container, and the
\* scheduler with it; the tasks behind one that raises are given up.
CallsReturn ==
    <>(/\ \A c \in scene : pc[c] \in {"done", "away"}
       /\ scene \cap Scheduled # {} => exit # "running")
=============================================================================
