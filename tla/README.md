# OneCode in TLA+

A verification project for OneCode, a runtime that executes a model's coding
actions under approval and keeps evidence of every run. The modules here model
what the Python under `src/src/onecode` does (paths below are relative to that
directory, `K` stands for `kernel/`), TLC checks small instances of them, and
TLAPS proves some of the properties for instances of every size.

    tlc -workers 2 -config MCGlobalWal.cfg MCGlobalWal.tla     # a run
    tlapm GlobalWal_proof.tla                                  # a proof

`PROJECT.json` is the index: which lines of the source each definition models,
the runs, one mutant per property (a plausible bug under which TLC finds the
property violated), the hazards, the findings and the theorems.

## 1. Inventory

| component | state | operations | interacts with | what is hard |
|---|---|---|---|---|
| Global write-ahead ledger (`K/wal.py`, `K/checkpoint.py`, `K/evidence_io.py`) | `.onecode/global-ledger.jsonl`, its rotated segments, `global-ledger.lock`, the sealing key | append with rotation, raw and validated reads | every run appends its result; resume and metrics read | processes interleave; readers take no lock; torn appends |
| Run evidence (`K/checkpoint.py`, `K/trace.py`, `K/run_inspection.py`, `K/inspection.py`) | `.onecode/runs/<id>/`: checkpoints, manifest, trace, ledger, ledger history, evidence chain, `.write.lock` | write_checkpoint, write_trace_event, write_ledger, sync_manifest_final_status, inspect_run | runner and engine write, CLI and web inspect | threads and processes share it; six files have to agree after any failure |
| Task runner (`K/runner.py`, `K/logos_gate.py`) | the run at hand, the workspace's files | run_task: guard, act, record, dispatch | writes run evidence, uses resume assets | a timed-out action runs on; a crash between act and record |
| Execution engine (`K/execution_engine.py` and its contracts, guardrails, tools) | the plan's steps and results | layers of steps on threads, approvals, conflict partition, budgets | runs tasks that share one run's evidence | parallel steps, refusals part way, results dropped |
| Approval plan store (`K/approval_plans.py`, `web/api_handlers.py`) | `pending-plans/`, `executing-plans/`, `approval-plans/`, `approval-plan.key` | offer, claim, load, execute, refuse, archive | a web request per thread | racing answers, replays, a death in the middle |
| Cycle approvals (`K/cycle_approvals.py`, `K/approval.py`) | pending-cycle records, granted approvals | ask, grant, consume, resume | agent cycle | find and consume are not one step |
| Agent cycle (`K/agent_cycle.py`) | turns, streaks, evidence of progress | turn, tool call, gate, stop | model, tools, cycle approvals | long sequences; progress against giving up |
| Resume (`K/resumption.py`, `K/task_resume.py`) | none of its own | what a new run may skip | reads run evidence and the global ledger | stale or partial evidence |
| Release rollback (`K/release_rollback.py`) | release snapshots, version, history | snapshot, stage, roll back | CLI | a crash between any two writes |
| Hexagram status algebra (`K/hexagram*.py`) | none | six-bit codes: classify, transition, dispatch; charts over a code with their certificates | runner, engine, repair loop | tables that must agree with rules elsewhere |
| Model planning and repair loop (`K/model_*.py`, `K/terminal_loop.py`) | attempts, scores, snapshots, a session's turns | plan, execute, grade, repair, restore, ask | providers, graders, runner | scores that outlive their files; budgets that grow |
| Verifiers, sandbox (`K/verifier.py`, `K/sandbox.py`, `scripts/harbor_scheduler.py`) | containers, reward files | verify, grade, run in a container, restart it | docker, repair loop, ledger | timeouts and restarts under other processes' calls |
| Model providers (`K/model_provider.py`, `K/preset_tests.py`) | none across calls | request with retries and a fallback channel, from an answer to a plan | model planning | nested retries; what a plan may touch |
| MCP, web, shell, context, training, command line | mostly none across calls | see `PROJECT.json` | outside processes and services | mostly I/O |

What makes each correct:

- *ledger*: one hash chain per segment whoever appends; an acknowledged entry is
  never lost without a trace; a read is in order; an append ends.
- *run evidence*: the manifest describes the checkpoint files; the copies of a
  result agree; the chain breaks only with a torn write; an undisturbed run
  passes its own inspection; nobody waits for ever for the lock.
- *approval plans*: at most one execution, an archive that tells what happened,
  no offered plan that is not found or does not verify, no forgotten claim.
- *task runner, engine*: no write without its record, one approval per action,
  conflicting steps never together, results of every step that ran.
- *cycle approvals, agent cycle*: a grant is used once; a cycle without progress ends.
- *resume, rollback*: what is skipped was done; a release is never mixed.
- *repair loop, session*: a score is of the files it is delivered with; the best is
  delivered; success is earned; the loop ends.
- *verifiers, sandbox*: nothing runs on after its call was reported, no call is
  cut off by another one of its process, a pass is one that every rule allows.
- *planning*: an unapproved plan changes nothing it should not, protected files are kept,
  a sequence of plans tells which files it wrote, a task ends.
- *status algebra*: each table agrees with the rule another function derives it
  from; a worse code never loosens what a repair may do.

The hazards behind these, each at its source line, are in `PROJECT.json`.

## 2. The modules

| module | models | composed with |
|---|---|---|
| `GlobalWal`, `GlobalWal_proof` | the shared ledger, one line at a time | its detail of the `wal` of `RunEvidence` and `RunTask` |
| `RunEvidence`, `RunEvidence_proof` | the directory of one run, one file at a time | contains what the runner, the engine and inspection decide about it |
| `PlanApproval`, `ApprovalPlans`, `Plans_proof` | the abstract and the actual store of approval plans | `ApprovalPlans` implements `PlanApproval` |
| `StatusAlgebra` | the rule surface, operators only | `RunTask`, `ExecutionEngine`, `AgentCycle` decide with it |
| `RunTask`, `RunTask_proof` | runs, resumes and their workers over one workspace | a checkpoint is one step here, four in `RunEvidence` |
| `ExecutionEngine`, `ExecutionEngine_proof` | the rounds of `execute_plan` | a step's tool calls are runs of `RunTask` |
| `AgentCycle`, `Governed_proof` | turns of the agent cycle and the store of pending approvals | one proof module with `ZiweiGovernance`, the other loop that status codes govern |
| `PlanParsing` | from a model's answer to a plan or a refusal, operators only | `ModelPlanning` reads answers with it |
| `ModelPlanning`, `Plans_proof` | tasks given to a model: call, plan, approval, execution, narrow sequence, tests | an execution is a run of `RunTask` or `ExecutionEngine`; ends where `RepairLoop` begins; one proof module for plans offered and plans made |
| `RepairLoop`, `TaskLoops_proof` | grading, repairing, restoring, the clarifying question | |
| `TerminalSession`, `TaskLoops_proof` | the interactive session and the task around it | its ledger entry is an append of `GlobalWal`; one proof module for the two loops around a task |
| `Grading` | what a reward, a report and an exit code amount to, operators only | `Sandbox` and `Harness` judge with it |
| `Sandbox` | calls in reused containers, verifications in one or two stages | its verdicts are the scores of `RepairLoop` |
| `Harness`, `Harness_proof` | gradings, and the scheduler's queue of tasks | extends `Sandbox`; their steps interleave |
| `ZiweiChart`, `ZiweiRuntime`, `ZiweiCalendar`, `ZiweiStars`, `ZiweiPatterns` | the charts over a status code, operators only | extend `StatusAlgebra` |
| `ZiweiCertificates` | the 25 certificates and their audit | over all of the charts |
| `Hexagrams` | what the 64 codes are: derived hexagrams, bands, symbols, orders, the 26th certificate | extends `ZiweiRuntime` |
| `StatusAudit` | where codes lead and amount to: reasons, events, aggregates, `math-audit` | over the charts and `Hexagrams` |
| `ZiweiGovernance`, `Governed_proof` | pauses and modes of a task's repairs | the same loop as `RepairLoop`, seen from its status codes |

Each `MC*` module gives a module its small instance; each `*_proof` module proves its
properties for instances of every size (section 15).

## 3. GlobalWal

A file is the sequence of its lines. A line has its entry, the hash it names as
its predecessor, its own hash, and a form: whole, lacking its newline, cut,
joined with the next entry's text, or split by a separator of `str.splitlines`
that `json.dumps(ensure_ascii=False)` leaves as it is (`LineBreakers`). The hash
is ideal: the sequence of the entries it commits to.

A writer is a process in `append_global_wal_entry`. Its program counter stops
where another process or a death can make a difference: waiting for the lock,
inside it, after the rotation, after the last hash has been read (`HashEntry`, or
`RefuseDamaged` when a line does not parse), when part of the line has reached the
file, when all of it has, and the return. `Interrupt` is a death or an exception
at any of these: the lock goes, the file keeps what reached it. A reader globs the
rotated segments, reads them one by one, tests for the active file and reads
it, without the lock; between any two of these steps a writer may rotate.

`tried`, `acked`, `order`, `before` are history: nothing of the code reads them.
`interrupts` is a bound.

Run `global_wal`: two writers, one reader, five entries of which one has a
separator, segments of two lines, one interruption. Two writers are enough for
any race for the lock, five entries over segments of two lines give two rotations
around a read, and an interruption a death whose damage the next append and every later
read meet (two interruptions were checked once and add nothing but states). Entries
without a separator are interchangeable and starting an append is not a fair
step, so the constraint `InOrder` lets them start in one order.

- `OnlyATailIsDamaged`: each segment is a valid chain up to a damaged last line.
- `NoSilentLoss`: an acknowledged entry is in a segment, or is joined to a torn
  line on which every validated read fails. The code does lose such an entry
  (the append does not look whether the last line has its newline); it does not
  lose it silently.
- `ReadsAreFaithful`: what a read returns is in the order of the ledger, and it misses
  what was acknowledged before it began only because a rotation happened under it.
- `AppendsEnd`: an append ends, with a result or an exception.

Fairness (only for `AppendsEnd`): a process in an append goes on, and a waiter
gets the lock when it is free, which `flock` and the scheduler give; the entries
being finite, no writer is overtaken for ever. Nobody is obliged to start.

Proved, for any writers, readers, entries, limit and number of interruptions:
`TypeCorrect` and `ChainIntact` (`Spec => []OnlyATailIsDamaged`). The property
alone is not inductive: that an append continues the chain depends on the hash it
read earlier. `IInv` adds that the lock's holder is exactly the writer inside the
append (`LockHeld`), that the hash a writer has read is still the last one and the
last line still readable when it writes (`HashIsLast`), that *every* line carries
its predecessor's hash, readable or not, and only the last is not whole
(`FilesGood`), and that a reader's glob is no longer than the list of segments
(`ReadersBehind`, for the types). `GoodIsSound` takes `IInv` to the property.

`NothingIsLostSilently` (`Spec => []NoSilentLoss`) and `ValidatedReadsAreFaithful`
(`Spec => []ReadsAreFaithful`) rest on a second invariant above it, `LedgerInv`. Its part
`Recorded` follows an entry through its append: the line it has started is the last one, and
when all of it is written it is on record or joined to a torn line. `WrittenInOrder` says that the
lines, read from the first segment to the last, come in the order they became readable, and
`Reading` what a reader has at each of its steps: the whole of the segments behind it, all of it
older than whatever it has still to read, also when a rotation has moved the
active file away under it. The lemma `AppendGrows` is what both need of a writer: lines are only
added, and one becomes readable only as the last.


## 4. RunEvidence

The files of `.onecode/runs/<id>/` are variables: the manifest with its records
and status, the checkpoint files, the `run_completed` lines of the trace,
`ledger.json` (`latest`), `ledger.jsonl` (`lines`), `evidence-chain.jsonl`
(`chain`), and the run's entries in the global ledger (`wal`, here one atomic,
ordered log: `GlobalWal` is its detail). A client is a thread or a process with
a script of operations. Those of the command `run-plan` are `task` (`run_task`), `verdict`
(the verifiers and `write_result_ledger`), `fix` (a repair attempt and its actions),
`reverdict` (the verifiers again), `close` (the repairs are used up), `resume` (a
`run_task` that skips what is on record), `refuse` (a resume that admission refuses) and
`light` (a run with `light` evidence: a completed one leaves entries of the
global ledger and no files). `aggregate` is the ledger that `execute_plan`
writes when its threads have ended. A `scenario`, chosen at the beginning, gives
the scripts, the processes and the number of intents of a `run_task` call.
`inspect_run` is what the command `inspect` shows of the run's files: nothing, a summary, or why
they are corrupt.

A step takes the lock and does the first write under it; the writes that follow
are steps of their own, so that any prefix of `write_checkpoint` or `write_ledger`
can be what a failure leaves. What an intent does and what the verifiers say is
any outcome. `CheckpointFails`, `TraceFails`, `LedgerFails` are an `OSError` out of
the respective call, with what the code does next: the `run_exception` path of
`run_task`, the guards of `halted_result` that go on without the failed write, or the end of
the program. `LedgerRefuses` is the `ValueError` of a damaged chain or global ledger.
`Crash` ends every thread of a process. `TornWrite` is what a failed append leaves.

Run `run_evidence` has six scenarios. In `Plan` two steps of one tool call each run
on threads and the main thread writes the plan's ledger after them. `PlainRun` is a `run`, or a
`run-plan` without verifiers, that nothing follows. `RunPlan` is a
command with verifiers and two repair attempts, `Resumed` one that resumes an earlier run and
after a repair writes its result once more with the resume evidence, `Refusal` one whose resume is refused, `Light` two light runs under one id; their
runs have up to two intents. One fault happens anywhere: it
reaches every prefix of every write, and the other threads' later writes show
what it does to them; two threads reach every race for a checkpoint number, and
two attempts are the least at which a repair follows a repair.

- `CheckpointsAreOnRecord`: the manifest's n-th record is the content of checkpoint
  file n, and a checkpoint whose `write_checkpoint` returned stays on record.
- `LedgersAgree`: undisturbed, the four copies of a result agree; disturbed, the
  evidence chain still verifies unless a write was torn; an acknowledged result is
  chained and in the global ledger, or the chain fails to verify.
- `VerdictInspects`: when a command nothing disturbed is over, `inspect` shows the very result
  the command returned, its status, reason and counts, whatever the verifiers and the
  repairs said, or calls the run corrupt: that in the three cases of `Mismatch`, described
  below, and in no other. After a refused resume it shows nothing. `Gap` names the one case
  about which nothing is said.
- `WritersFinish`, under weak fairness of each running thread (threads are
  scheduled, the lock goes to a waiter): nobody waits for ever.

The cases of `Mismatch` and `Gap` are where the code departs from `docs/RELEASE_CHECKLIST.md:67-68`
("Final result writes align `ledger.json`, `manifest.json`, and final `run_completed` trace
state") or from the closure reports of the repairs. Without any one of them TLC finds
`VerdictInspects` violated:

- A run of several actions whose last one is skipped on resume is `completed` in the ledger and the trace
  (`runner.py:905-914`) and `skipped` in the manifest (`checkpoint.py:1045`). Verifiers or
  resume evidence that follow align the two. After a plain `run` nothing does
  (`runner.py:980-983`): `status_mismatch`.
- A budget breached after the first action stores one requested action beside
  all the checkpoints: `checkpoint_count_mismatch`.
- A repair rejected after an earlier attempt has acted writes its result without
  aligning the counts with the manifest (`cli.py:500-514`): `checkpoint_count_mismatch`.
- `Gap`: a light run under an id whose earlier run left a directory. Inspection prefers the
  directory and shows the earlier halted result beside a newer completed one.

Seen while modelling and listed as hazards without a property: two processes with one
run id lose a checkpoint, because `sync_manifest_final_status` reads the manifest
before it takes the lock; a plan with a step of two tool calls has more checkpoints than its
ledger counts steps. A crash right after `ledger.json` is replaced leaves a newest
result that no chain record covers.

Proved, for any clients, scripts, processes, numbers of intents and faults: `RunTypes`,
`CopiesAgree` (`Spec => []LedgersAgree`) and `CheckpointsOnRecord`. Between the first and the last
write of a ledger the copies differ, and a failure there leaves them so for ever; `IInv` therefore
says of every client what it has at hand at its stage (`Knows`: the result it is
about to write, and whether its evidence is full), that the lock's holder is the one who is
writing (`LockHeld`), that every record of the chain has its predecessor's hash and a line that
holds its result or no longer reads (`Linked`), that a result past the chain is in it (`Followed`),
and, undisturbed, that the copies differ by exactly what the lock's holder has still to write (`InStep`,
where `Place` counts the full results of the global ledger). `CheckpointsOnRecord` adds that a
checkpoint's file is there before the manifest names it, under one lock (`Numbered`),
and that a client which synchronises the manifest has read its newest records (`SeenIsManifest`). The last
holds only because nobody else writes: the theorem assumes `CommandsAlone`, that a
command with a verdict or a repair is the only client of its run. Without it the property is
false: two processes with one run id are the first hazard above.

`CommandsAreInspected` (`Spec => []VerdictInspects`) holds for commands of any number of intents, repairs
and light runs. It assumes `CommandsOfCli` besides: what `cli.py` makes of its arguments, when it is
alone with its run, is a refused resume, light runs, or a run (`IsRunPlan`: a task, which may be all,
its verifiers, repairs each followed by the verifiers, a close, the resume evidence last). Undisturbed, the command's own
writes are then all there are, and the invariant says what they have left so far. For a
run, `PlanStage` says where it may be and how its last repair went, `PlanAgrees` that manifest, trace and
ledger hold the last result as far as it has been written, and that until the verdict the manifest may
still say `skipped` (`Overridden`), `PlanCounts` that the
result has resolved what the manifest records, or one action after a breach, as long as no repair has acted and again from
the close on (`Settled`), and `PlanShort` that a repair which acted leaves the result short of the
manifest until then. The last two say exactly when the counts disagree at the end. For light runs (`LightInv`) either the newest entry
of the global ledger is the last result and no earlier run has left a record, or manifest, trace and ledger
are the last result's. A refused resume (`RefuseInv`) has a ledger and no manifest. TLC evaluates both
assumptions on the run's six scenarios (`ScenariosAreOfCli`).

## 5. PlanApproval and ApprovalPlans

`PlanApproval` is the promise: a plan is offered, claimed by one answer, executed
at most once and only while claimed, and resolved once, as approved if it was
executed and as rejected if not.

`ApprovalPlans` is the code: the three directories, the key and the requests. A
request that offers a plan looks for the key, creates it when it is missing or
short (`O_TRUNC`, then the write: two steps), seals the plan and stores it. One
that answers renames the pending file (`Claim`), or looks for the claimed file and
then for the archive (two steps); reads or creates the key, verifies digest, age
and plan; refuses or executes; archives; removes the claimed file. `Interrupt` ends
a request anywhere. `Expire` is the passing of `max_age_seconds`.

Run `approval_plans`: two plans, three answers, one death, on a home without a key.
Two plans let an offer and an answer race for the key, three answers a race for
the claim with a replay after it. No property here is a liveness property, so the
symmetry of plans and of answers is sound.

- `PlansRunAtMostOnce`: `ApprovalPlans` implements `PlanApproval` under the mapping
  `Stage`: the archive's decision if there is one, else claimed if the file is in
  `executing-plans`, else pending if it is in `pending-plans`.
- `OfferedPlanIsFound`: the two-step lookup never says that an offered plan does
  not exist (the archive is written before the claimed file goes).
- `ClaimsAreReleased`: a claimed file has its request at work, or the request was
  refused at loading or died. The code has no way to release those last ones.
- `MismatchNeedsTwoKeys`: a digest fails only when two requests generated a key.

Two requests do create two keys: first requests on two threads may each empty the
file the other has written, and the plan sealed with the lost key is refused when it
is answered. No document promises otherwise.

Proved, for any sets of plans and answers and any number of deaths: `StoreTypes`,
`OfferedPlansAreFound`, `ClaimsReleased`, and `AtMostOnce`
(`StoreSpec => PlansRunAtMostOnce`). `StoreInv` rests on four facts: a plan has left no trace
before it is offered and is in one of the directories ever after (`NewPlans`,
`OfferedPlans`, `PendingPlans`); an answer past its claim holds its plan, and where
it is tells whether the plan was executed and archived (`HeldPlans`); no two answers
hold one plan (`HeldByOne`); an answer that did not find the claimed file can only
find the archive (`Probes`). With it each step maps to a step of `PlanApproval` or
to a stutter (`AbstractStep`). `MismatchTakesTwoKeys` (`StoreSpec => []MismatchNeedsTwoKeys`) adds
that every key in a file, a seal or a request's hands is one that a request generated
(`KeysMinted`), so that a seal and a key that do not fit are two of them.


## 6. StatusAlgebra

A status code is a pair of trigrams. `classify_outcome` turns (status, reason) into
a code, `TransitionAction` and `TransitionCode` are the transition of a code, and the rulings
read the transition: `RunContinues` (the runner's dispatch), `agent_cycle_decision`,
`write_ruling` and `action_ruling` (steps tagged with a code), `should_skip`,
`process_exit_code`. Only operators: the three modules that follow decide with them, so
that a change of a table changes what their runs see.

## 7. RunTask

One workspace, whose files are sequences of lines, and runs that walk their plan:
`Refuse`, `Skip` or `Submit` an action, wait for its worker (`Collect`) or give up on
it (`Timeout`), record a checkpoint and ask the algebra whether to go on (`Observe`),
and close (`Finish`). The worker is a thread of its own with the steps of `PathGuard.write_text`
and `commit_patch`: it reads the target, reads it again for its hash, replaces it and
reads it back; after a timeout it runs on. `BudgetBreach` is the runtime budget and its
`halted_result`; `validate_resource_budget` refuses a plan with too many actions or too long a
write before it begins. A `Begin` may
resume any earlier run from its manifest or, without one, from its ledger entries; a
`run-plan` first compares the files with those records (`classify_task_resume`: halt, skip or
go on) and walks its plan only if no file was changed since. The comparison is one step and
stands for a command without verifiers.
`Edit` is a user, `Crash` a death. `origin`, `landed`, `disturbed` are history.

Run `run_task`: two runs of eight requests (writes and patches, one whose patch applies to
its own result, one that does not compile, an ambiguous one, a refused action, a write over
budget; evidence in full or deferred to the ledger), one at a time (`MaxActive`), the
second free to resume the first, and one fault. With one run active at a time
the other writers are the worker a timeout left behind and the user, which is what
the code is exposed to.

- `WritesAreOnRecord`: at most the last action begun is in the workspace and not on
  record, and then the run does not report success; the record of a patch relates the
  content found and left.
- `SuccessIsApplied`: success means that the workspace is what the plan makes of it;
  and a run that resumes another applies each action once, the skipped ones included, if what
  the other wrote is on its record and the plan is the other's with distinct paths (the code skips by
  path and kind, not by content: the condition is the hazard).
- `ResumeKeepsEdits`: a resumed `run-plan` overwrites no file that somebody changed after
  the other run wrote it. An edit after the comparison is not seen.
- `EveryRunEnds`, though a worker never does: fairness is on the run's own
  thread only, since `future.result` has a timeout and the worker is promised nothing.

Proved, for any runs, files, requests, budgets, faults and number of runs under way at the same
time: `RunTypes` and `WritesAreRecorded` (`WritesAreOnRecord`). `WritesAreOnRecord` is not
inductive: its invariant `IInv` says of each run where it is in its plan and that it goes on
after no failure (`Walks`), that a worker has the action at hand or one a timeout or a breach
left behind, of a run that is then halted (`Worker`), which part of the run an action without
a record is in (`OnRecord`), and what a worker knows of the file it patches while nobody else
writes (`Patches`). Each step of a run is shown to leave the others alone (`StepKeeps`): they see
of it only the files, which disturbs them, and the ledger, whose new lines are not theirs.

`ResumesKeepEdits` (`ResumeKeepsEdits`) is proved for the case the run checks, one run under way
(`MaxActive = 1`), and anything for the rest. With two it does not hold: a user edits
a file the other run has read back and not yet recorded, a resume of that run finds no record and
begins, the record is added, and what the resume then overwrites is the edit. It is the
resumed run being over, or dead, that the comparison relies on. The invariant `ResumeInv` adds that what an admitted resume has not yet replaced is
what the other run's records say (`Compared`).

`SuccessApplies` (`SuccessIsApplied`) is proved for any number of runs under way. Its invariant
has two layers above `IInv`. `KeptInv` says what a run knows of its files: the completed
records are of actions that landed and, while nobody else writes, of what is in the files
(`Vouched`), no action lands twice (`Landed`), a run's records are all in its manifest or all in
the ledger (`OneLedger`), and a worker about to replace a file applies its action
(`Undisturbed`). `CourseInv` adds that an undisturbed run is on the course of its plan: for some K
the first K actions, those of the run it resumes included, have landed, the workspace is
what they make of it (`Track`, over the recursive function `Course`), and the assets it holds
ready are those the other run landed (`Assets`). It rests on
`ReadyIsLanded`, that for a run that is over, undisturbed and on record, `load_resume_state` gives
exactly the actions that landed, and on `SuccessGoesOn`, that the rule surface never stops
after a success. The recursion is unfolded one action at a time (`CourseSteps`), by the least place
at which it would have no value. TLC checked `KeptInv` and `CourseInv` first, for one run and for two runs
under way.

## 8. ExecutionEngine

A plan is a sequence of steps with dependencies, paths, an approval kind, a status tag
and flags for what makes a plan or step be refused. A `Round` takes the steps that are
ready, asks for approvals, refuses those the algebra restrains and takes a set without
conflicts (a step outside the workspace runs alone); each step of the `layer` has a thread;
`Collect` books their results in plan order up to the one that breaks the plan off.
`BlockedSteps` gives up those that can never be ready, `TimeBudget` is looked at between
rounds, `RoundRaises` and `CollectRaises` leave with an exception.

Run `execution_engine`: every plan of three steps made of eight kinds of step and five shapes of
dependencies, a cycle and an unknown dependency among them. Three steps are the least at which
a step is put off while another of its layer breaks the plan.

- `ConflictsRunApart`: two steps running at once never name a path that one of them
  writes. Paths are compared as `plan_action` normalises them: aliases of one
  file (a link, another case) are different paths for the code and for the model.
- `RunsAreCleared`: a step that ran has its dependencies on the trace and its *last*
  approval; put off and then rejected, it does not run.
- `TraceIsWhole`: success means every step completed; what ran and is not on the trace
  was in the last layer, behind the failure.
- `PlanEnds`: the loop over the rounds ends. Fairness: the engine goes on and a
  tool call returns (they have timeouts); the time budget is not needed.

Proved, for plans of any length with any steps, and any limits: `EngineTypes`, `RunningApart`
(`ConflictsRunApart`), `OnlyClearedRun` (`RunsAreCleared`) and `TracesAreWhole`
(`TraceIsWhole`). That a layer has no conflict is a fact about the function that chooses it step by
step; the prover has no induction, so it is derived from the least place at which it would fail
(`Least`, `CarriedOn`, and `Recursion` for the function's existence), which takes
first-order logic and the well-foundedness of the naturals. `IInv` says further that a thread is under
way only for a step of the current layer and what it may have brought (`ThreadOK`), that what is
dealt with is booked (`BookedOK`), that a step with a thread had its dependencies and approval when it
was let through and has them still (`Cleared`), and that a layer is never one dealt with before.

## 9. AgentCycle

A cycle proposes up to two calls a turn; a call is refused, gated, or run; the
repeat, miss and retry counters of `_ToolRepeatState` are the record `repeat`. The
store of pending approvals has one record per call: read without a lock
(`FindPending`, `FindAgain`), deleted without one (`Consume`), written and resolved
under it (`WriteRecord`, `MatchRecord`, `Resume`). The approval endpoint answers
(`Approve`) or resumes. What a model proposes and a tool returns is any of the cases the cycle
tells apart.

Run `agent_cycle`: three workloads (one long cycle with its counters, cycles one
after the other with the store, two cycles at once), two ids, deaths anywhere.

- `HolderRunsOnce`: nobody runs a call twice under one approval, also not a caller
  that starts cycles again and again with the same grant.
- `OfferedIsPending`: while cycles do not overlap, a reported approval stays until it is answered.
- `FruitlessIsBounded`: at most `max_read_misses + 1` calls in a row that find or change nothing.
- `CyclesEnd`. Fairness: models, tools and callbacks return, the holder of the lock goes on;
  strong for a cycle's own steps because only the lock can stop it and `flock` queues who waits.

Run `agent_cycle_grant`: two cycles that hold the same grant both find the record before
either deletes it, and both execute; the test summary says an explicit approval runs once.

Proved, for any cycles, calls, workloads and approvals: `CycleTypes`, `NobodyRunsTwice`
(`HolderRunsOnce`), `OfferedStaysPending` (`OfferedIsPending`) and `FruitlessCallsAreBounded`
(`FruitlessIsBounded`). `StoreInv` follows an id from its record to its use: it is in one record
only, a cycle let through under it has not run under it and finds no other record with it, a
resolver's record has its id or is gone, and an id a call ran under is in no record any more.
`OfferInv` says of the cycle at work, while there is only one, that nobody else
writes the record it is about to write or to delete. `Streaks` bounds the fruitless calls by the sum
of the two streaks, which a call past the look at them finds below their limits.

Not modelled: the status of the result, admission, memory, truncation and the
workspace fingerprint.

## 10. RepairLoop

The readable files are one `text`, a number in order of appearance; `binary` are the files that do
not decode, which no snapshot holds. The host's score depends on both, and a grader call may give
none. The loop asks for a repair, executes it, grades
it, keeps the best snapshot, restores it after a worse attempt, extends its budget on a rise,
stops after two flat rounds, delivers the best, and may leave a question
whose answer restores the snapshot of that time. `Restore` is `_restore_workspace_snapshot`: it
removes what the snapshot does not hold, the undecodable files too, and passes over a file it cannot
read, write or remove, which may leave any mixture (`MaxFailed` bounds how often). `lossy`
remembers that the last restore of the best left other files than its score was measured on;
`astray` marks the two other ways the code parts scores from files: a regrade after the macro
reset that gives no number, or one that beats the best and is not recorded.

Run `repair_loop`: six kinds of task, one of them with undecodable files; scores on either side of
each threshold, one text whose score falls with those files; five texts, two silent
grader calls and one restore that fails in part, which is as many as it takes for each gap.

- `ScoresAreOfTheirFiles`: a score is that of the files it is kept with: the snapshot of the best,
  that of a question, and on every way out the workspace, unless `astray` or `lossy`.
- `BestIsDelivered`: the score a task reports is the highest one measured. It says nothing of files.
- `LoopEnds`, under weak fairness of the loop (models and graders return).

Proved, for any tasks, scores and bounds: `LoopTypes`, `ScoresFitTheirFiles`
(`ScoresAreOfTheirFiles`) and `NoBetterRepairIsLost` (`BestIsDelivered`). Both are about the way
out; inside the loop an attempt that scored lower is still in the workspace. `Held` is what is
true there: the best is the highest grade so far, and what the workspace holds is either worse, and
will be replaced, or as good and, unless the last restore was lossy, the files of that score.
`Begins` and `Ungraded` are the start and the loop that has no grader.

The docstring at `model_repair.py:915` says that the workspace snapshot is put back. It is not when
a file cannot be written or removed (`model_repair.py:766-785` passes over the error), nor are the files
that do not decode, which no repair touched and no snapshot holds: the task then reports a score its
files do not have. The property names this as `lossy`; without the exception TLC finds it violated,
also with no failing restore at all.

Facts a reader should know: a rising budget is cut to five attempts (`model_repair.py:804`)
even if more were configured; a timeout of the verifier, or a grader without a number that the
sandbox accepts, returns the tested result without comparing it with the best; an answer
restores the old snapshot and consumes the record only afterwards.

## 11. TerminalSession

One action a turn: patch, command, read, finish. The session gates it (`Gated`), counts
repetitions (`Repeats`), runs it and compares the test files with its snapshot
(`VerifyTests`). What the scanners make of a command's text is their verdict, either way.
`Judge` is the task around the session: sandboxed tests and the ledger.

Run `terminal_session`: four ways to run a session, two commands, one file, five turns;
every turn is one of at most seven actions, and a repetition needs three. There is no
liveness property: the loop is a `for` over `max_turns`.

- `FinishIsEarned`: completed means the original test files and a patch of the session's own.
- `NothingIsRepeatedThrice`: the same failing command is not carried out a third time when only
  refused finishes, unknown actions and commands without words lie between, nor the same read
  when only those two, blocked steps and failing reads of the same range do. Anything else
  starts the count anew: after a patch, a read or a step the gate blocks the same failing command
  is carried out a third time (`terminal_loop.py:1261` looks at the status of the last step,
  `:1145` forgets the signature), and after a command that was let through the same read is.

Proved, for any sessions, commands, ranges and number of turns: `SessionTypes`,
`CompletionIsEarned` (`FinishIsEarned`) and `TurnsInPlaceEnd` (`NothingIsRepeatedThrice`). The
second needs `Counted`: each of the two counters stands for every entry whose count has been
spared since (`Spared`), and has counted a stall if there are two; a third would have ended the
session. `Accounted` is what a step must do to the counters for that, once per kind of step.

One disagreement with the handbook was found and is kept out of the runs: a command
that changes the test files and then makes the tool raise (its output is no UTF-8) leaves
them changed when the session ends before another comparison (`terminal_loop.py:1301`).

Not modelled: the scanners' patterns, processes in the background, approval counters.

## 12. Grading, Sandbox and Harness

A workspace has one container per image (`box`), which any process on the machine may
use. A call in it takes the process's lock (`Enter`), inspects the container, compares its
image, removes and creates it, reads its state and starts it (`Inspect` to `Start`, each a
`docker` command that may fail), and runs its command (`Exec`). A command that ends is
`Finish`; one whose output says what docker says of a broken container is run again in a
new one (`Echo`, `Renew`, `Recreate`, `StartAgain`); one that outlives its time has its
container restarted (`Expire`, `Restart`). A verification has a container of its own, killed at
its timeout. `verify_shell_write` verifies an approved write in two stages if the written path
has a test file of its name: that file, then all tests (`SecondStage`).

`Harness` adds the gradings: of `run_host_verifier`, in a container or as a process of the
host, and of the scheduler, whose `main` takes the tasks of its queue in turn. A task is cleared of
old reward files (`run_scheduler_task`), given to the adapter, audited and its tests hashed
(`Audit`), graded, published and reported; an exception ends the queue (`RaisesOut`). A
grader writes `reward.txt` and `reward.json` into a staging directory, whose meaning is in
`Grading`: the host's policy, the scheduler's, and the rule that a full score needs counts
that prove it. The adapter is external; it may fail, and may write a reward itself.

Run `sandbox`: nine calls in six scenes (two commands of one process and one of another;
one beside a verification; a verified write; one grading in a container; one native; the scheduler
with the same task twice, so that a grader left running by the first meets the
second), one fault. The scheduler's gradings have two rewards and two reports, the others all
combinations. With two faults the properties of the commands were checked once
(361,000 states) and hold as well.

- `NothingRunsOn`: when a command or a verification has been reported as timed out,
  nothing of it runs any more, or it was reported that it could not be stopped;
  a grader whose time is up is never killed, so gradings are not part of it.
- `OnlyOthersInterfere`: a command is cut short, or runs in an image its process did not ask
  for, only by a command of another process.
- `RunsOnce`: a command runs a second time only after its own output had the words that
  the call takes for a broken container's, and never a third time.
- `PassedIsEarned`: what is reported passed ran to a good end, with a score each rule
  allows, for a write with all of its tests, at the scheduler with the tests that were hashed;
  `main` returns 0 only if every task passed; and what it reported of a task stays what the
  task's `reward.txt` says, whatever a grader that ran out of time still writes.
- `CallsReturn`. Fairness: weak for each call; docker answers or its call times out. The
  scheduler waits for the adapter without a timeout: that it returns is assumed.

Proved, for any calls, processes, images, queues, graders and faults: `NothingStaysBehind`
(`NothingRunsOn`), `ThreadsArePeaceful` (`OnlyOthersInterfere`), `CommandsRunOnce` (`RunsOnce`) and
`PassesAreEarned` (`PassedIsEarned`). `CommandsInv` ties a command to the place of its
call (`CommandOK`: it is alive only while its call waits, and ran as often as that place says), has
one command of a process inside a call at a time, and lets the container's image be one that a
command which took part asked for. `GradingOK` carries what a grading has proved, and the
versions of the tests it took and ran with, to its verdict; `OneTask` and `ReportsStand` are the
scheduler's: it works on the task behind those reported, and a report stays true until its task is
taken again. `Shapes` has only the domains and types the steps need.

Seen while modelling: an adapter that fails after it wrote a reward leaves that
`reward.txt` beside a report of 0 (`harbor_scheduler.py:382-393`, before the check of line 397),
which is why `PassedIsEarned` speaks of graded tasks only; and a written file whose test file holds no
unittest is returned unverified although other tests exist, since the verdict `skipped` of
the first stage is the verdict of both (`verifier.py:561`).

## 13. The charts, and ZiweiGovernance

`hexagram_ziwei_*.py` computes charts over a status code, a turn and a date. The
modules `Ziwei*` state each of its functions as an operator, and the certificates, by which
the code vouches for the charts, as what they compute over whole ranges: the code
samples some of them, the operators do not. Numbers are integers of a named unit, since
the code's floats are multiples of one (the exception, a sum that rounds below 0.80, is noted
at `TriadicRegime`); the equation of time, a sum of sines, is a parameter.
`Hexagrams` and `StatusAudit` do the same for `hexagram.py`, `hexagram_atlas.py`,
`hexagram_dynamics.py` and `cli_commands/read_only.py`: an entropy is compared with its bound as a product of whole
numbers, or by where the code's logarithm crosses it, for at most five codes, and of a
tensor only the sign of its amount is kept (`Amplified`). Texts, names and colours are left out.
The operators were compared with the Python functions over their whole ranges while they were written.

`ZiweiGovernance` is a task under these charts. An attempt takes the status code of the
failed result (`failed_code`, where 0 counts as none, and a host's grade leaves the code of the
run that completed), waits (`Cooldown`), and runs its plan in a mode (`RepairMode`). A plan for the
task's file is an asset, a patch of all of it or of some lines; `Synthesized` is the
rewriting of an asset into a patch, `Safe` what is refused before it runs, `Gated`
what the degraded mode refuses.

Run `ziwei`: every kind of task, the smallest and the largest bureau, six attempts (the
pause is at its cap at the fifth).

- `AuditPasses`: every certificate holds, over every branch, stem, code, month, day and hour;
  so does the audit of the transitions that `math-audit` prints, and what the kernel's tests ask of
  a few codes, here of all: derived hexagrams and their attractors, mutations, the two ways of
  deriving elements, relations and pressures, the migration of codes, and that a reason given by
  a transition comes back as an outcome with the same transition.
- `OnlyOverruledIsTrusted`: in the autonomous mode a repair is asked for at most once, after a run that
  completed and that the host's grade overruled; what failed by itself, at whatever step and with
  whatever grader, is repaired in the guarded or the degraded mode.

Proved, for any tasks and any number of attempts: `FaultsAreGuarded`
(`GovernanceSpec => []OnlyOverruledIsTrusted`), with the four codes a failure can leave computed from the
tables of the status algebra (`FaultOutcomes`, `FaultsAreNotTrusted`) and an invariant that says
whose codes the first repair sees (`TrustInv`); and `RepairsAreGoverned`: a task asks for no more repairs
than `max_repair_attempts` and than its bureau allows, and from the second repair on every plan runs in
the degraded mode, whatever codes the attempts end with. Its invariant `Governed` adds that an attempt
only counts as failed while another one is left (`Fails`). `AuditPasses` has no variable and no
parameter: TLC's evaluation of it is complete.

What the model shows besides, where the code and its documents part: in degraded mode a file may
still be replaced as a whole, by an asset that became a patch or by a patch that spans it, which
the integration report (`docs/ONECODE_ZIWEI_CROSS_VALIDATION_AND_INTEGRATION_REPORT.md:239`)
excludes (`Gated` looks at assets only); and a first plan's degraded mode from the environment is
replaced by the first repair's own, which may be the autonomous one.

## 14. PlanParsing and ModelPlanning

`PlanParsing` is the way from an answer to a plan: the object in the text (`ObjectIn`),
the fields models get wrong (`Normalized`), what is refused (`Verdict`). A payload keeps of
an answer what decides: which field holds a list, the paths, which entries are flawed. A path keeps
how it is spelled: `resolve_target`, the rule for existing tests and the ledger look at the file
(`File`), the filter of protected files, the scope of an unapproved plan and the list of a sequence
look at the text. The operators were compared with `create_plan` on random answers while they were written.

`ModelPlanning` is `_execute_model_task` up to the repairs. `Begin` compares the workspace with the last recorded
delivery (`Mismatch`); `HttpFails`, `Unreachable`, `Unreadable`, `Dropped` are what becomes of a
request, within three attempts (`AttemptFails`) on two channels (`ChannelFails`); `Answered` reads an
answer, once more for some (`Retry`); `Unplanned` is a failed call, with its narrow
or probing second call. `FirstPlanned` and `NextPlanned` decide on the plan, `Degraded`, `NotApproved`, `RunTask`
and `Engine` refuse or execute it, `NextSlot` goes on with the narrow sequence, `Close` adds it up.
`Artifacts` runs the scripts for data files that are missing: the Python files in the trace of the last
execution and those of a fixed list (`Exporters`); what a script writes is its own affair.
`TestsPass` and `TestsFail` are the tests in the sandbox, `Graded` is the host verifier, whose number
overrules both the execution and the tests. `listed`, `as`, `th` keep of a hash whether the text
it names is still there. `before`, `touched`, `excused` are history; `tasks`, `faults` are bounds.

Run `model_planning`: a task of each kind that matters (strict or scoped approval, with and
without somebody to ask, protected files, more files than attempts, the degraded mode, a sandbox with a
host verifier and a data file to produce, a fallback), eighteen
answers, in which a file comes under three spellings, five files, three faults. Three faults are the least that use up the attempts of a request;
a file a script or a command writes on its own is one of them.

- `ProtectedFilesAreKept`: a file the task says to leave alone is written by no plan, be it by an asset,
  a patch or a step, outside the closing call, unless it is protected with its directory and the plan
  spells it otherwise; and an existing test, however spelled, by no asset and no step.
- `UnapprovedStaysInScope`: a plan nobody was asked about changes nothing in strict mode and only
  files under `src/` in scoped mode, in every plan of the sequence.
- `SequenceTellsTheFiles`: a narrow sequence that ends as completed wrote every required file, and one
  in which completed plans gave each of them as an asset under its own name does not halt before its
  closing call.
- `TaskEnds`, under weak fairness of the task: a request is answered or fails, an execution ends.

What the model shows besides, exceptions that the properties name, although
`docs/closure/ONECODE_TASK_RULE_FOLLOWUP_2026-10-20.md:9` says that a plan does not write a protected path
and that a later unusable plan does not replace a finished write: the plan of the closing call is not
filtered; `./src/a.py` and `src//a.py` pass the filter for `src/a.py` (`model_repair.py:207-209` compares
the text and the file name) and are written; and a sequence may halt with every required file on disk,
by its closing call, or before it where a file came by a patch, a step, a plan that broke off or another
spelling, none of which `_required_files_landed` counts. Each of these was seen in TLC as a violation of the
property without its exception. A patch may change an existing
test when the task text *in the answer* reads as one for tests only (`model_provider.py:411`),
whatever task was given, although `docs/closure/ONECODE_CONTROLLED_SCOPE_PLAN_2026-10-22.md:19` rejects such a plan.
A verified plan that writes one file twice, or a later plan on the engine that
writes a delivered file, leaves a hash on record whose text is gone: every later task is then
refused (`asset_hash_mismatch`). A connection dropped while an answer is read ends
the task with an exception and without a failure event.

The host's full score makes a task completed whose execution failed or whose tests did (`Graded`),
and leaves the delivery as it was: `blocked`, or not decided.

Proved, for any tasks, answers, files and any number of tasks and faults: `ProtectedFiles`
(`Spec => []ProtectedFilesAreKept`), `UnapprovedPlans` and `SequencesTell`. A first group of lemmas is
about data: a filtered sequence is a sequence of good members (`ThoseAreGood`, by the least index at
which it would not be), so an answer that is read as a plan has no asset over an existing test and no
step that writes a test (`ReadingIsLegal`), and what `_drop_protected_changes` leaves of it has nothing
that it takes for protected (`DroppedIsLegal`). `PlanningInv` keeps this of the plan at hand (`PlanIsLegal`) and adds what
the steps between need: a plan of the first call that is executed unasked requires no approval, and a
further one that nobody can approve writes nothing (`ScopeOfPlan`, `EngineKeeps`); a further plan is
asked for only while files are missing; what the sequence counts as written was written, unless a plan
left its assets out; and up to the closing call it counts the assets of every plan that completed
(`CountedUpTo`, `GivenIsLanded`). `TracedKeeps` is the one place where files are written: an execution by `run_task`
and one on the engine are both instances of it.

Not modelled: the prompts, the modes other than the one the environment gives a task
(`ZiweiGovernance` has them), the reading of a stream.

## 15. Assumptions, bounds and limits

- Hashes and keyed digests are ideal: equal only for equal contents and keys.
- `os.replace` is atomic; a torn append leaves a prefix of the text; `fsync` keeps
  what was written. Power loss that reorders writes is not modelled.
- A lock is POSIX `flock` with the process-local lock. Platforms without `fcntl`
  are not modelled.
- Steps that nothing can separate for another process are one step.
- Bounds, each a constant or a record of the MC module: `Entries`, `RotateLimit`,
  `MaxInterrupts`, `MaxFaults`, `MaxActive`, `MaxIds`, `MaxTexts`, `MaxSilent`, `MaxFailed`, `MaxTurns`,
  `MaxAttempts`, `MaxTasks`,
  the scripts, plans, requests and workloads. The theorems hold without them.
- Deadlock is not checked where the system may stop: entries, scripts,
  requests and runs are used up. The liveness properties take its place where
  somebody waits; in the store of plans nobody does.
- What is proved and what is only checked is at the end of this section.
- `ledger.jsonl` lines that `splitlines` cuts shift the line numbers of the
  evidence chain; this is not modelled (`GlobalWal` has the same cause for its ledger).
- Components not modelled, with the reason, are in `PROJECT.json`.

### What is proved, and what is only model-checked

The eight `*_proof` modules prove, for all values of the constants that the modules' named
assumptions allow, every safety property of the runs `global_wal`, `approval_plans`,
`execution_engine`, `agent_cycle`, `model_planning`, `repair_loop`, `terminal_session`, `sandbox`,
`run_evidence` and `run_task`, and `OnlyOverruledIsTrusted` of `ziwei`, the type invariants of all
these modules but `ModelPlanning`, and that `ApprovalPlans` implements `PlanApproval`. The assumptions are
about shapes only (sets are disjoint, a bound is a number, a script or a plan is a sequence of
operations, the lists of an answer are sequences); the three about behaviour are `CommandsAlone` and `CommandsOfCli` in section 4 and
`MaxActive = 1` of one theorem in section 7. Every inductive invariant
was an invariant of a run of TLC before it was proved.

Each proof goes the same way: the initial states satisfy the inductive invariant; every action,
by itself, keeps each part it can disturb; the invariant implies the property; PTL joins the three.

Only model-checked:

- Liveness under fairness, out of the prover's reach as is ENABLED: `AppendsEnd`, `WritersFinish`,
  `EveryRunEnds`, `PlanEnds`, `CyclesEnd`, `LoopEnds`, `CallsReturn`, `TaskEnds`.
- `TypeOK` of `ModelPlanning`, which holds on the instance of `model_planning`: that the files stay in `Paths` would take an assumption on the paths
  a model may name, which is not the code's.
- `AuditPasses` of `ziwei`: it is about 64 codes and what the code computes of each, which TLC
  enumerates completely.
