---------------------------- MODULE RunEvidence ----------------------------
(***************************************************************************)
(* The evidence directory of one run, .onecode/runs/<run-id>/, shared by   *)
(* the threads of an execution plan and by any process given the same run  *)
(* id: checkpoint files, manifest.json, trace.jsonl, ledger.json,          *)
(* ledger.jsonl and evidence-chain.jsonl, written under the run evidence   *)
(* lock, and what inspect_run makes of them (kernel/checkpoint.py,         *)
(* kernel/evidence_io.py, kernel/trace.py, kernel/run_inspection.py,       *)
(* kernel/inspection.py, kernel/runner.py, kernel/execution_engine.py).    *)
(*                                                                         *)
(* Each client follows its script, the commands of cli.py.  "task" is a    *)
(* run_task call, all there is to a plain run; a run-plan may go on with   *)
(* "verdict", the verifiers, "fix" and "reverdict", a repair attempt and   *)
(* the verifiers after it, "close", the end of the repairs, and "resume",  *)
(* the resume evidence; or it is "refuse", when the resume is halted.      *)
(* "light" is a run whose completed evidence is the global ledger's alone, *)
(* "aggregate" the ledger that execute_plan writes when its threads have   *)
(* ended.  A hash is ideal: it is the value hashed.  Steps that nothing    *)
(* can separate for another process, like taking the lock and the first    *)
(* write under it, are one.                                                *)
(***************************************************************************)
EXTENDS Integers, Sequences, FiniteSets

CONSTANTS
    Clients,      \* threads and processes that write to the run's evidence
    Scenarios,    \* who performs which operations, in which process
    MaxFaults,    \* bound on crashes, failed writes and refused appends
    None

Ops == {"task", "verdict", "fix", "reverdict", "close", "resume", "refuse", "light",
        "aggregate"}

ASSUME ClientsAssumption == IsFiniteSet(Clients) /\ None \notin Clients
\* Operations on the result of an earlier one: a script does not begin with them,
\* and the command whose evidence may be light is a run_task call alone.
Followers == {"verdict", "fix", "reverdict", "close", "resume"}
Scripts ==
    {script \in Seq(Ops) :
        \/ \A i \in DOMAIN script : script[i] = "light"
        \/ /\ \A i \in DOMAIN script : script[i] # "light"
           /\ script # <<>> => script[1] \notin Followers}

\* In a scenario: the operations of every client, the process it belongs to and
\* the intents of a run_task call.
ASSUME ScenariosAssumption ==
    \A s \in Scenarios :
        /\ s.script \in [Clients -> Scripts]
        /\ s.process \in [Clients -> Clients]
        /\ s.intents \in Nat \ {0}
ASSUME BoundsAssumption == MaxFaults \in Nat

\* A command that synchronises the manifest is the only client of its scenario.
CommandsAlone ==
    \A s \in Scenarios : \A c \in Clients :
        (\E i \in DOMAIN s.script[c] : s.script[c][i] \in Followers) =>
            \A d \in Clients \ {c} : s.script[d] = <<>>

\* A run or a run-plan: a task, which may be all; verifiers, repairs that are verified, a
\* close after them; and the resume evidence of a run-plan that resumes.
IsRunPlan(script) ==
    /\ script # <<>> /\ script[1] = "task"
    /\ Len(script) > 1 => script[2] \in {"verdict", "resume"}
    /\ \A i \in DOMAIN script :
        /\ i > 1 => script[i] \in Followers
        /\ script[i] = "verdict" => i = 2
        /\ script[i] = "fix" => /\ i + 1 \in DOMAIN script /\ script[i + 1] = "reverdict"
                                /\ \E k \in DOMAIN script : k > i /\ script[k] = "close"
        /\ script[i] = "close" => \A k \in DOMAIN script : k > i => script[k] = "resume"
        /\ script[i] = "resume" => i = Len(script)

\* A client that is the only one of its run's evidence follows a command of cli.py.
IsAlone(c, scripts) == scripts[c] # <<>> /\ \A d \in Clients \ {c} : scripts[d] = <<>>
CommandsOfCli ==
    \A s \in Scenarios : \A c \in Clients :
        LET script == s.script[c] IN
        IsAlone(c, s.script) =>
            \/ script = <<"refuse">>
            \/ \A i \in DOMAIN script : script[i] = "light"
            \/ IsRunPlan(script)

VARIABLES
    scenario,     \* the scenario at hand, chosen once
    lock,         \* who holds the run evidence lock
    manifest,     \* manifest.json: its checkpoint records and its status
    files,        \* checkpoints/0001.json, 0002.json, ...
    trace,        \* the run_completed lines of trace.jsonl
    latest,       \* ledger.json
    lines,        \* ledger.jsonl
    chain,        \* evidence-chain.jsonl
    wal,          \* this run's results in the global write-ahead ledger
    pc,           \* where each client is
    at,           \* the operation of its script it is at
    job,          \* what it knows of the run_task call or ledger at hand
    seen,         \* the manifest a write_result_ledger has read
    acked,        \* history: results whose write_ledger returned
    kept,         \* history: checkpoints whose write_checkpoint returned
    faults        \* bound: faults so far

evidence == <<manifest, files, trace, latest, lines, chain, wal>>
clients  == <<pc, at, job, seen>>
history  == <<acked, kept, faults>>
vars     == <<scenario, lock, evidence, clients, history>>

Script == scenario.script
Process == scenario.process

Outcomes == {"completed", "skipped", "halted"}
Success  == {"completed", "skipped"}
Results  == [by : Clients, step : Nat, status : Outcomes,
             requested : Nat, resolved : Nat, mode : {"full", "wal"}]
\* None stands for a file that is not there.
ASSUME NoneIsNoResult == None \notin Results
Checkpoints == [by : Clients, step : Nat, n : Nat, status : Outcomes]
Manifests == [records : Seq(Checkpoints), status : Outcomes \cup {None}]

\* "line": whole; "noeol": whole but for its newline; "cut": unreadable and
\* without a newline; "joined": several texts on one line.
Forms == {"line", "noeol", "cut", "joined"}
Readable(line) == line.form \in {"line", "noeol"}

\* Text appended to a file whose last line lacks its newline lands on that line.
AppendLine(file, body, form) ==
    IF file # <<>> /\ file[Len(file)].form \in {"noeol", "cut"}
    THEN [file EXCEPT ![Len(file)].form = IF form = "line" THEN "joined" ELSE "cut"]
    ELSE Append(file, [body |-> body, form |-> form])

\* os.replace over checkpoints/<turn>.json.
PutFile(turn, checkpoint) ==
    IF turn \in DOMAIN files THEN [files EXCEPT ![turn] = checkpoint]
    ELSE Append(files, checkpoint)

evidence_chain_hash(record) == Append(record.prev, [line |-> record.line, result |-> record.result])

\* read_last_evidence_chain_record parses the last record.
ChainTailParses == chain # <<>> => Readable(chain[Len(chain)])
LastChainHash ==
    IF chain = <<>> THEN <<>> ELSE evidence_chain_hash(chain[Len(chain)].body)

Op(c) == Script[c][at[c]]
Stored(c, status, requested, resolved) ==
    [by |-> c, step |-> at[c], status |-> status,
     requested |-> requested, resolved |-> resolved, mode |-> "full"]

\* halted_result: one action, failed, which the caller asked for or did not.
halted_result(c, requested) == Stored(c, "halted", requested, 1)

\* A call of run_task, whose handler turns an exception into a halted result.
IsRun(c) == Op(c) \in {"task", "fix", "light"}
\* The actions the call asks for: a repair plan has one patch.
Intents(c) == IF Op(c) = "task" THEN scenario.intents ELSE 1

Init ==
    /\ scenario \in Scenarios
    /\ lock = None
    /\ manifest = [records |-> <<>>, status |-> None]
    /\ files = <<>>
    /\ trace = <<>>
    /\ latest = None
    /\ lines = <<>>
    /\ chain = <<>>
    /\ wal = <<>>
    /\ pc = [c \in Clients |-> "idle"]
    /\ at = [c \in Clients |-> 1]
    /\ job = [c \in Clients |->
                 [n |-> 0, last |-> None, result |-> None, guarded |-> FALSE, ok |-> TRUE,
                  current |-> None, repair |-> "none", fixes |-> 0]]
    /\ seen = [c \in Clients |-> manifest]
    /\ acked = {}
    /\ kept = {}
    /\ faults = 0

-----------------------------------------------------------------------------
(* The operations of a script *)

Begins(c, op) ==
    /\ pc[c] = "idle"
    /\ at[c] \in DOMAIN Script[c] /\ Op(c) = op

\* run_task: the first intent is next.
BeginTask(c) ==
    /\ Begins(c, "task") \/ Begins(c, "light")
    /\ pc' = [pc EXCEPT ![c] = "intent"]
    /\ job' = [job EXCEPT ![c].n = 0, ![c].guarded = FALSE]
    /\ UNCHANGED <<scenario, lock, evidence, at, seen, history>>

\* A write_result_ledger of the command's result, changed as given.
WriteResult(c, result, repair) ==
    /\ job' = [job EXCEPT ![c].result = [result EXCEPT !.step = at[c]],
                          ![c].repair = repair, ![c].guarded = FALSE]
    /\ pc' = [pc EXCEPT ![c] = "reading"]
    /\ UNCHANGED <<scenario, lock, evidence, at, seen, history>>

\* A completed run is verified; a verifier that failed halts the result.
apply_verifier_evidence(c) ==
    /\ Begins(c, "verdict")
    /\ job[c].current.status = "completed"
    /\ \/ WriteResult(c, job[c].current, "none")
       \/ WriteResult(c, [job[c].current EXCEPT !.status = "halted"], "failed")

\* apply_run_plan_repair: an attempt runs a plan of patches under the run's id.
\* The plan may be rejected, and the provider may fail, which ends the command.
RepairAttempt(c) ==
    /\ Begins(c, "fix")
    /\ job[c].repair = "failed"
    /\ \/ /\ job' = [job EXCEPT ![c].n = 0, ![c].guarded = FALSE,
                                ![c].repair = "fixed", ![c].fixes = @ + 1]
          /\ pc' = [pc EXCEPT ![c] = "intent"]
          /\ UNCHANGED <<at, faults>>
       \/ /\ job' = [job EXCEPT ![c].repair = "rejected"]
          /\ at' = [at EXCEPT ![c] = @ + 1]
          /\ UNCHANGED <<pc, faults>>
       \/ /\ faults < MaxFaults /\ faults' = faults + 1
          /\ job' = [job EXCEPT ![c].ok = FALSE]
          /\ pc' = [pc EXCEPT ![c] = "end"]
          /\ UNCHANGED at
    /\ UNCHANGED <<scenario, lock, evidence, seen, acked, kept>>

\* The verifiers again.  The result was halted and stays so; what the attempt's
\* own run returned is not looked at.
VerifyRepair(c) ==
    /\ Begins(c, "reverdict")
    /\ job[c].repair = "fixed"
    /\ \E repair \in {"passed", "failed"} : WriteResult(c, job[c].current, repair)

\* Mutant: the counts stay those of the run before the repair.
align_counts_with_manifest_KeepCounts(result) == result

\* The counts are those of the manifest's checkpoints.
align_counts_with_manifest(result) ==
    [result EXCEPT !.requested = Len(manifest.records), !.resolved = Len(manifest.records)]

\* The repairs are over: the verifiers pass, the attempts are used up, or the
\* last plan was rejected, and then the counts are left as they are.
CloseRepair(c) ==
    /\ Begins(c, "close")
    /\ \/ /\ job[c].repair = "passed"
          /\ WriteResult(c, [align_counts_with_manifest(job[c].current)
                                EXCEPT !.status = "completed"], "passed")
       \/ /\ job[c].repair = "failed"
          /\ WriteResult(c, align_counts_with_manifest(job[c].current), "failed")
       \/ /\ job[c].repair = "rejected"
          /\ WriteResult(c, job[c].current, "rejected")

\* The result of the command is written once more with its resume decisions.
apply_task_resume_evidence(c) ==
    /\ Begins(c, "resume")
    /\ WriteResult(c, job[c].current, job[c].repair)

\* The resume is refused: a ledger without a manifest or a trace.
halted_task_resume_result(c) ==
    /\ Begins(c, "refuse")
    /\ job' = [job EXCEPT ![c].result = Stored(c, "halted", 0, 1), ![c].guarded = FALSE]
    /\ pc' = [pc EXCEPT ![c] = "latest"]
    /\ UNCHANGED <<scenario, lock, evidence, at, seen, history>>

\* The next operation of the script is not called for.
PassOver(c) ==
    /\ \/ Begins(c, "verdict") /\ job[c].current.status # "completed"
       \/ Begins(c, "fix") /\ job[c].repair # "failed"
       \/ Begins(c, "reverdict") /\ job[c].repair # "fixed"
       \/ Begins(c, "close") /\ job[c].repair \notin {"passed", "failed", "rejected"}
    /\ at' = [at EXCEPT ![c] = @ + 1]
    /\ pc' = [pc EXCEPT ![c] = IF at[c] < Len(Script[c]) THEN "idle" ELSE "end"]
    /\ UNCHANGED <<scenario, lock, evidence, job, seen, history>>

Peers(c) == {d \in Clients \ {c} : Process[d] = Process[c]}

\* write_execution_plan_ledger: the threads have been joined; the counts are
\* those of the steps, not of the checkpoints.
write_execution_plan_ledger(c) ==
    /\ Begins(c, "aggregate")
    /\ \A d \in Peers(c) : pc[d] = "end"
    /\ LET steps == Cardinality(Peers(c))
           status == IF \A d \in Peers(c) : job[d].ok THEN "completed" ELSE "halted"
       IN job' = [job EXCEPT ![c].result = Stored(c, status, steps, steps),
                             ![c].guarded = FALSE]
    /\ pc' = [pc EXCEPT ![c] = "latest"]
    /\ UNCHANGED <<scenario, lock, evidence, at, seen, history>>

\* The operation has returned: its result is the command's, but for a repair's.
Finish(c, ok) ==
    /\ job' = [job EXCEPT ![c].ok = ok,
                          ![c].current = IF Op(c) = "fix" THEN @ ELSE job[c].result]
    /\ at' = [at EXCEPT ![c] = @ + 1]
    /\ pc' = [pc EXCEPT ![c] = IF at[c] < Len(Script[c]) THEN "idle" ELSE "end"]

-----------------------------------------------------------------------------
(* write_checkpoint *)

\* A breached budget is recorded as a halted action.
Checkpoint(c, n, outcome) ==
    [by |-> c, step |-> at[c], n |-> n,
     status |-> IF outcome = "breach" THEN "halted" ELSE outcome]

\* Mutant: the lock is not taken before the manifest is read.
WriteCheckpointFile_Unlocked(c) ==
    /\ pc[c] = "intent"
    /\ \E outcome \in Outcomes \cup {"breach"} :
         /\ Op(c) = "light" => outcome = "breach"
         /\ job' = [job EXCEPT ![c].n = @ + 1, ![c].last = outcome]
         /\ files' = PutFile(Len(manifest.records) + 1,
                             Checkpoint(c, job[c].n + 1, outcome))
    /\ lock' = c
    /\ pc' = [pc EXCEPT ![c] = "manifest"]
    /\ UNCHANGED <<scenario, manifest, trace, latest, lines, chain, wal, at, seen, history>>

\* An intent has run.  A breached budget is found before the intent's own
\* checkpoint is written: halted_result writes one for the budget instead.
WriteCheckpointFile(c) ==
    /\ pc[c] = "intent"
    /\ lock = None
    /\ \E outcome \in Outcomes \cup {"breach"} :
         /\ Op(c) = "light" => outcome = "breach"
         /\ job' = [job EXCEPT ![c].n = @ + 1, ![c].last = outcome]
         /\ files' = PutFile(Len(manifest.records) + 1,
                             Checkpoint(c, job[c].n + 1, outcome))
    /\ lock' = c
    /\ pc' = [pc EXCEPT ![c] = "manifest"]
    /\ UNCHANGED <<scenario, manifest, trace, latest, lines, chain, wal, at, seen, history>>

WriteManifestFile(c) ==
    LET checkpoint == Checkpoint(c, job[c].n, job[c].last) IN
    /\ manifest' = [records |-> Append(manifest.records, checkpoint),
                    status |-> checkpoint.status]
    /\ kept' = kept \cup {checkpoint}
    /\ lock' = None

\* dispatch_decision continues after a completed or a skipped intent.
NextIntent(c) ==
    /\ pc[c] = "manifest"
    /\ job[c].last \in Success
    /\ job[c].n < Intents(c)
    /\ WriteManifestFile(c)
    /\ pc' = [pc EXCEPT ![c] = "intent"]
    /\ UNCHANGED <<scenario, files, trace, latest, lines, chain, wal, at, job, seen, acked, faults>>

\* _finish_task_run: a run of several actions without a failure is completed
\* whatever its last action was; a single action gives its own status.
LastIntent(c) ==
    /\ pc[c] = "manifest"
    /\ Op(c) # "light"
    /\ job[c].last # "breach"
    /\ WriteManifestFile(c)
    /\ \E status \in Outcomes :
         /\ \/ status = "completed" /\ job[c].last \in Success
            \/ status = job[c].last /\ (status = "halted" \/ job[c].n = 1)
         /\ job' = [job EXCEPT ![c].result =
                       Stored(c, status, IF status = "halted" THEN Intents(c) ELSE job[c].n,
                              job[c].n)]
    /\ pc' = [pc EXCEPT ![c] = "trace"]
    /\ UNCHANGED <<scenario, files, trace, latest, lines, chain, wal, at, seen, acked, faults>>

\* halted_result(reason="resource_budget_exceeded").
BudgetBreach(c) ==
    /\ pc[c] = "manifest"
    /\ job[c].last = "breach"
    /\ WriteManifestFile(c)
    /\ job' = [job EXCEPT ![c].result = halted_result(c, 1), ![c].guarded = TRUE]
    /\ pc' = [pc EXCEPT ![c] = "trace"]
    /\ UNCHANGED <<scenario, files, trace, latest, lines, chain, wal, at, seen, acked, faults>>

-----------------------------------------------------------------------------
(* _DeferredEvidence: a light run writes nothing until its outcome is known *)

\* A completed run goes to the global ledger alone; any other is flushed, its
\* trace events first and its checkpoint after them.
LightOutcome(c) ==
    /\ pc[c] = "intent" /\ Op(c) = "light"
    /\ \E outcome \in Outcomes :
         LET result == Stored(c, outcome, 1, 1) IN
         /\ job' = [job EXCEPT ![c].n = 1, ![c].last = outcome,
                  ![c].result = IF outcome = "completed" THEN [result EXCEPT !.mode = "wal"]
                                ELSE result]
         /\ pc' = [pc EXCEPT ![c] = IF outcome = "completed" THEN "walonly" ELSE "trace"]
    /\ UNCHANGED <<scenario, lock, evidence, at, seen, history>>

\* write_global_wal, outside the run evidence lock.
write_global_wal(c) ==
    /\ pc[c] = "walonly"
    /\ wal' = Append(wal, job[c].result)
    /\ acked' = acked \cup {job[c].result}
    /\ Finish(c, TRUE)
    /\ UNCHANGED <<scenario, lock, manifest, files, trace, latest, lines, chain, seen, kept, faults>>

\* flush_checkpoints: write_checkpoint for the pending one.
FlushCheckpointFile(c) ==
    /\ pc[c] = "flush"
    /\ lock = None
    /\ files' = PutFile(Len(manifest.records) + 1, Checkpoint(c, job[c].n, job[c].last))
    /\ lock' = c
    /\ pc' = [pc EXCEPT ![c] = "manifest"]
    /\ UNCHANGED <<scenario, manifest, trace, latest, lines, chain, wal, at, job, seen, history>>

FlushManifestFile(c) ==
    /\ pc[c] = "manifest"
    /\ Op(c) = "light" /\ job[c].last # "breach"
    /\ WriteManifestFile(c)
    /\ pc' = [pc EXCEPT ![c] = "latest"]
    /\ UNCHANGED <<scenario, files, trace, latest, lines, chain, wal, at, job, seen, acked, faults>>

-----------------------------------------------------------------------------
(* write_result_ledger: sync_manifest_final_status *)

\* The manifest is read before the lock is taken.
ReadManifest(c) ==
    /\ pc[c] = "reading"
    /\ seen' = [seen EXCEPT ![c] = manifest]
    /\ pc' = [pc EXCEPT ![c] = "syncing"]
    /\ UNCHANGED <<scenario, lock, evidence, at, job, history>>

SyncManifest(c) ==
    /\ pc[c] = "syncing"
    /\ lock = None
    /\ manifest' = IF seen[c].records = <<>> THEN manifest
                   ELSE [seen[c] EXCEPT !.status = job[c].result.status]
    /\ pc' = [pc EXCEPT ![c] = "trace"]
    /\ UNCHANGED <<scenario, lock, files, trace, latest, lines, chain, wal, at, job, seen, history>>

-----------------------------------------------------------------------------
(* write_trace_event, write_ledger *)

\* The checkpoint of a light run that was not completed is still pending.
AfterTrace(c) ==
    pc' = [pc EXCEPT ![c] =
             IF Op(c) = "light" /\ ~job[c].guarded THEN "flush" ELSE "latest"]

\* The run_completed event of the run.
AppendTrace(c) ==
    /\ pc[c] = "trace"
    /\ lock = None
    /\ IsRun(c) \/ trace # <<>>
    /\ trace' = AppendLine(trace, job[c].result.status, "line")
    /\ AfterTrace(c)
    /\ UNCHANGED <<scenario, lock, manifest, files, latest, lines, chain, wal, at, job, seen, history>>

\* append_final_trace_status adds one to a trace there is.  One whose every write
\* failed may be missing or empty.
append_final_trace_status(c) ==
    /\ pc[c] = "trace"
    /\ lock = None
    /\ ~IsRun(c) /\ trace = <<>>
    /\ trace' \in {<<>>, AppendLine(<<>>, job[c].result.status, "line")}
    /\ AfterTrace(c)
    /\ UNCHANGED <<scenario, lock, manifest, files, latest, lines, chain, wal, at, job, seen, history>>

\* Mutant: write_ledger replaces ledger.json before it takes the lock.
WriteLatest_Unlocked(c) ==
    /\ pc[c] = "latest"
    /\ latest' = job[c].result
    /\ lock' = IF lock = None THEN c ELSE lock
    /\ pc' = [pc EXCEPT ![c] = IF lock = None THEN "line" ELSE "latest"]
    /\ UNCHANGED <<scenario, manifest, files, trace, lines, chain, wal, at, job, seen, history>>

\* The lock, held from here on, and ledger.json.
WriteLatest(c) ==
    /\ pc[c] = "latest"
    /\ lock = None
    /\ lock' = c
    /\ latest' = job[c].result
    /\ pc' = [pc EXCEPT ![c] = "line"]
    /\ UNCHANGED <<scenario, manifest, files, trace, lines, chain, wal, at, job, seen, history>>

AppendHistory(c) ==
    /\ pc[c] = "line"
    /\ lines' = AppendLine(lines, job[c].result, "line")
    /\ pc' = [pc EXCEPT ![c] = "chain"]
    /\ UNCHANGED <<scenario, lock, manifest, files, trace, latest, chain, wal, at, job, seen, history>>

\* The last record is read and its hash carried on; the line number is the
\* count of the lines of ledger.jsonl.
append_evidence_chain_record(c) ==
    /\ pc[c] = "chain"
    /\ ChainTailParses
    /\ chain' = AppendLine(chain, [prev |-> LastChainHash, line |-> Len(lines),
                                   result |-> job[c].result], "line")
    /\ pc' = [pc EXCEPT ![c] = "wal"]
    /\ UNCHANGED <<scenario, lock, manifest, files, trace, latest, lines, wal, at, job, seen, history>>

\* The end of write_ledger: the run's entry in the global ledger, and the
\* return to the operation that called it.
AppendWal(c) ==
    /\ pc[c] = "wal"
    /\ wal' = Append(wal, job[c].result)
    /\ acked' = acked \cup {job[c].result}
    /\ lock' = None
    /\ Finish(c, job[c].result.status \in Success)
    /\ UNCHANGED <<scenario, manifest, files, trace, latest, lines, chain, seen, kept, faults>>

-----------------------------------------------------------------------------
(* Failures *)

\* What a write that fails midway, or dies with its process, leaves in the file.
TornWrite(c) ==
    \/ UNCHANGED <<trace, lines, chain>>
    \/ \E form \in {"cut", "noeol"} :
         \/ /\ pc[c] = "trace" /\ lock = None
            /\ trace' = AppendLine(trace, job[c].result.status, form)
            /\ UNCHANGED <<lines, chain>>
         \/ /\ pc[c] = "line"
            /\ lines' = AppendLine(lines, job[c].result, form)
            /\ UNCHANGED <<trace, chain>>
         \/ /\ pc[c] = "chain"
            /\ ChainTailParses
            /\ chain' = AppendLine(chain, [prev |-> LastChainHash, line |-> Len(lines),
                                           result |-> job[c].result], form)
            /\ UNCHANGED <<trace, lines>>

Release(c) == lock' = IF lock = c THEN None ELSE lock

\* run_task's handler: halted_result(reason="run_exception").
RunException(c) ==
    /\ job' = [job EXCEPT ![c].result = halted_result(c, 0), ![c].guarded = TRUE]
    /\ pc' = [pc EXCEPT ![c] = "trace"]
    /\ UNCHANGED at

\* The exception leaves the program.
Abandon(c) ==
    /\ job' = [job EXCEPT ![c].ok = FALSE]
    /\ pc' = [pc EXCEPT ![c] = "end"]
    /\ UNCHANGED at

Fault == faults < MaxFaults /\ faults' = faults + 1

\* An OSError out of write_checkpoint; halted_result goes on without its own.
CheckpointFails(c) ==
    /\ Fault
    /\ \/ pc[c] = "intent" /\ RunException(c)
       \/ pc[c] = "flush" /\ RunException(c)
       \/ pc[c] = "manifest" /\ job[c].last # "breach" /\ RunException(c)
       \/ /\ \/ pc[c] = "intent"
             \/ pc[c] = "manifest" /\ job[c].last = "breach"
          /\ job' = [job EXCEPT ![c].result = halted_result(c, 1), ![c].guarded = TRUE]
          /\ pc' = [pc EXCEPT ![c] = "trace"]
          /\ UNCHANGED at
    /\ Release(c)
    /\ UNCHANGED <<scenario, evidence, seen, acked, kept>>

\* An OSError out of write_trace_event; halted_result goes on to its ledger.
TraceFails(c) ==
    /\ pc[c] = "trace"
    /\ Fault
    /\ TornWrite(c)
    /\ \/ job[c].guarded /\ pc' = [pc EXCEPT ![c] = "latest"] /\ UNCHANGED <<job, at>>
       \/ ~job[c].guarded /\ IsRun(c) /\ RunException(c)
       \/ ~job[c].guarded /\ ~IsRun(c) /\ Abandon(c)
    /\ UNCHANGED <<scenario, lock, manifest, files, latest, wal, seen, acked, kept>>

\* Mutant: the lock survives the exception.
LedgerFails_KeepLock(c) ==
    /\ pc[c] \in {"latest", "line", "chain", "wal", "walonly"}
    /\ Fault
    /\ TornWrite(c)
    /\ \/ job[c].guarded /\ Finish(c, FALSE)
       \/ ~job[c].guarded /\ IsRun(c) /\ RunException(c)
       \/ ~job[c].guarded /\ ~IsRun(c) /\ Abandon(c)
    /\ UNCHANGED <<scenario, lock, manifest, files, latest, wal, seen, acked, kept>>

\* An OSError out of write_ledger; halted_result returns without a ledger.
LedgerFails(c) ==
    /\ pc[c] \in {"latest", "line", "chain", "wal", "walonly"}
    /\ Fault
    /\ TornWrite(c)
    /\ Release(c)
    /\ \/ job[c].guarded /\ Finish(c, FALSE)
       \/ ~job[c].guarded /\ IsRun(c) /\ RunException(c)
       \/ ~job[c].guarded /\ ~IsRun(c) /\ Abandon(c)
    /\ UNCHANGED <<scenario, manifest, files, latest, wal, seen, acked, kept>>

\* A ValueError out of write_ledger, which run_task raises again: the last chain
\* record does not parse, or append_global_wal_entry refuses a damaged ledger.
LedgerRefuses(c) ==
    /\ \/ /\ pc[c] = "chain"
          /\ ~ChainTailParses
          /\ UNCHANGED faults
       \/ pc[c] \in {"wal", "walonly"} /\ Fault
    /\ Abandon(c)
    /\ Release(c)
    /\ UNCHANGED <<scenario, evidence, seen, acked, kept>>

\* A process dies with its threads; the kernel releases the lock.
Crash(p) ==
    LET dead == {c \in Clients : Process[c] = p /\ pc[c] # "end"} IN
    /\ \E c \in dead : pc[c] # "idle" /\ TornWrite(c)
    /\ Fault
    /\ lock' = IF lock \in dead THEN None ELSE lock
    /\ pc' = [c \in Clients |-> IF c \in dead THEN "end" ELSE pc[c]]
    /\ job' = [c \in Clients |-> IF c \in dead THEN [job[c] EXCEPT !.ok = FALSE] ELSE job[c]]
    /\ UNCHANGED <<scenario, manifest, files, latest, wal, at, seen, acked, kept>>

-----------------------------------------------------------------------------
Progress(c) ==
    \/ WriteCheckpointFile(c) \/ NextIntent(c) \/ LastIntent(c) \/ BudgetBreach(c)
    \/ LightOutcome(c) \/ write_global_wal(c)
    \/ FlushCheckpointFile(c) \/ FlushManifestFile(c)
    \/ ReadManifest(c) \/ SyncManifest(c)
    \/ AppendTrace(c) \/ append_final_trace_status(c) \/ WriteLatest(c) \/ AppendHistory(c)
    \/ append_evidence_chain_record(c) \/ AppendWal(c) \/ LedgerRefuses(c)

Next ==
    \/ \E c \in Clients :
         \/ BeginTask(c) \/ apply_verifier_evidence(c) \/ RepairAttempt(c)
         \/ VerifyRepair(c) \/ CloseRepair(c) \/ apply_task_resume_evidence(c)
         \/ halted_task_resume_result(c) \/ PassOver(c)
         \/ write_execution_plan_ledger(c)
         \/ Progress(c)
         \/ CheckpointFails(c) \/ TraceFails(c) \/ LedgerFails(c)
    \/ \E p \in Clients : Crash(p)

Spec == Init /\ [][Next]_vars

\* A thread that runs goes on, and the lock goes to a waiter when it is free.
FairSpec == Spec /\ \A c \in Clients : WF_vars(Progress(c))

-----------------------------------------------------------------------------
(* inspect_run *)

CheckpointsMatch ==
    \A i \in DOMAIN manifest.records :
        i \in DOMAIN files /\ files[i] = manifest.records[i]

\* validate_trace_completion: every line parses, the last status is the ledger's.
TraceMatches ==
    /\ trace # <<>>
    /\ \A i \in DOMAIN trace : Readable(trace[i])
    /\ trace[Len(trace)].body = latest.status

validate_evidence_chain ==
    \A i \in DOMAIN chain :
        LET record == chain[i].body IN
        /\ Readable(chain[i])
        /\ record.prev = (IF i = 1 THEN <<>> ELSE evidence_chain_hash(chain[i - 1].body))
        /\ record.line \in DOMAIN lines
        /\ Readable(lines[record.line])
        /\ lines[record.line].body = record.result

\* Resolved actions exceed no count and are the checkpoints of the manifest.
validate_ledger_counts(ledger) == ledger.resolved <= ledger.requested

validate_run_documents ==
    /\ manifest.status = latest.status
    /\ validate_ledger_counts(latest)
    /\ CheckpointsMatch
    /\ latest.resolved = Len(manifest.records)

\* The ledger of a refused resume names no trace.
trace_metrics_for_ledger ==
    Script[latest.by][latest.step] = "refuse" \/ TraceMatches

run_inspection_summary(ledger) ==
    [status |-> ledger.status, requested |-> ledger.requested, resolved |-> ledger.resolved]

Missing == [status |-> "missing"]
Corrupt == [status |-> "corrupt"]

\* The newest entry of the run, if it is the run's only evidence.
inspect_global_wal_run ==
    IF wal # <<>> /\ wal[Len(wal)].mode = "wal"
    THEN run_inspection_summary(wal[Len(wal)])
    ELSE Missing

inspect_run ==
    IF manifest.records = <<>> \/ latest = None THEN inspect_global_wal_run
    ELSE IF validate_run_documents /\ trace_metrics_for_ledger /\ validate_evidence_chain
    THEN run_inspection_summary(latest)
    ELSE Corrupt

-----------------------------------------------------------------------------
(* Properties *)

File(Body) == Seq([body : Body, form : Forms])
ChainRecords == [prev : Seq([line : Nat, result : Results]), line : Nat, result : Results]

TypeOK ==
    /\ scenario \in Scenarios
    /\ lock \in Clients \cup {None}
    /\ manifest \in Manifests
    /\ files \in Seq(Checkpoints)
    /\ trace \in File(Outcomes)
    /\ latest \in Results \cup {None}
    /\ lines \in File(Results)
    /\ chain \in File(ChainRecords)
    /\ wal \in Seq(Results)
    /\ pc \in [Clients -> {"idle", "intent", "manifest", "flush", "walonly", "reading", "syncing", "trace",
                           "latest", "line", "chain", "wal", "end"}]
    /\ at \in [Clients -> Nat \ {0}]
    /\ job \in [Clients -> [n : Nat, last : Outcomes \cup {"breach", None},
                            result : Results \cup {None}, guarded : BOOLEAN, ok : BOOLEAN,
                            current : Results \cup {None}, fixes : Nat,
                            repair : {"none", "failed", "fixed", "passed", "rejected"}]]
    /\ seen \in [Clients -> Manifests]
    /\ acked \in SUBSET Results
    /\ kept \in SUBSET Checkpoints
    /\ faults \in Nat

\* The manifest's n-th record is the content of checkpoint file n, whoever wrote
\* it and whatever failed in between: resume and inspect open the file a record
\* names while other threads number theirs (write_checkpoint takes its number
\* from a manifest read under the lock).  And a checkpoint whose
\* write_checkpoint returned stays: no thread of the run overwrites a manifest
\* it has not seen.
CheckpointsAreOnRecord ==
    /\ CheckpointsMatch
    /\ kept \subseteq {manifest.records[i] : i \in DOMAIN manifest.records}

Torn == \/ \E i \in DOMAIN lines : ~Readable(lines[i])
        \/ \E i \in DOMAIN chain : ~Readable(chain[i])

\* The place of an entry of the global ledger among the run's full entries.
Place(j) == Cardinality({k \in 1 .. j : wal[k].mode = "full"})

\* Between two write_ledger calls that nothing disturbed, ledger.json, the last
\* line of ledger.jsonl, the last chain record and the run's last full entry in
\* the global ledger are the same result, and there is one line and record each.
\* And when something did, the hash chain over ledger.jsonl still verifies
\* unless a write was torn: a crash between the line and its record, or a retry
\* after one, never breaks it.  A result whose write_ledger returned is chained
\* and in the global ledger, or the chain fails to verify: it is never missing
\* from evidence that passes inspection.
LedgersAgree ==
    /\ lock = None /\ faults = 0 =>
        /\ Len(lines) = Len(chain) /\ Len(chain) = Place(Len(wal))
        /\ \A i \in DOMAIN lines : lines[i].body = chain[i].body.result
        /\ \A j \in DOMAIN wal : wal[j].mode = "full" => wal[j] = lines[Place(j)].body
        /\ latest = IF lines = <<>> THEN None ELSE lines[Len(lines)].body
    /\ validate_evidence_chain \/ Torn
    /\ \A r \in acked :
        /\ \E i \in DOMAIN wal : wal[i] = r
        /\ r.mode = "full" =>
              (\E i \in DOMAIN chain : chain[i].body.result = r) \/ ~validate_evidence_chain

\* Who asked to write comes to an end: neither an exception nor a death leaves
\* the run evidence lock taken.
WritersFinish ==
    \A c \in Clients : pc[c] \notin {"idle", "end"} ~> pc[c] \in {"idle", "end"}

Commands == {c \in Clients : IsAlone(c, Script)}

\* Where the documents of an undisturbed command disagree when it is over: the last of
\* several actions was skipped, which makes the run "completed" and its manifest
\* "skipped", and nothing synchronises them after a task that was all
\* (docs/RELEASE_CHECKLIST.md:68 says that final result writes align them); a budget was
\* breached after other actions, and one requested action is stored beside all their
\* checkpoints; a repair plan was rejected after an attempt that ran, and the
\* counts were left as they were.
Mismatch(c) ==
    \/ /\ Script[c] = <<"task">>
       /\ job[c].last = "skipped" /\ job[c].current.status = "completed"
    \/ job[c].last = "breach" /\ job[c].fixes = 0 /\ job[c].n > 1
    \/ job[c].repair = "rejected" /\ job[c].fixes > 0

\* A known gap, where the newest result is not what is inspected: a light run under the
\* id of an earlier one that left an evidence directory.
Gap(c) ==
    /\ Script[c][job[c].current.step] = "light"
    /\ \E i \in DOMAIN manifest.records : manifest.records[i].step < job[c].current.step

\* When a command nothing disturbed is over, inspect_run shows the result it returned,
\* with its status and its counts, or it calls the run corrupt, and that in the three
\* cases of Mismatch and in no other: not after verifiers that failed
\* (docs/RELEASE_CHECKLIST.md:67), a skipped last action that verifiers or resume
\* evidence follow, repairs that passed, failed again or were rejected at once, nor a
\* light run without an evidence directory of its own.  A resume that was refused is no run.
VerdictInspects ==
    \A c \in Commands :
        pc[c] = "end" /\ faults = 0 /\ ~Gap(c) =>
            inspect_run = IF Script[c] = <<"refuse">> THEN Missing
                          ELSE IF Mismatch(c) THEN Corrupt
                          ELSE run_inspection_summary(job[c].current)
=============================================================================
