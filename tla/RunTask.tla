------------------------------ MODULE RunTask ------------------------------
(***************************************************************************)
(* One workspace, the runs that write to it, and what a run that resumes   *)
(* another makes of the other's evidence: run_task walks its plan through  *)
(* the Logos gate, a worker thread does the write or the patch, the run    *)
(* records a checkpoint and asks the rule surface whether to go on         *)
(* (kernel/runner.py, kernel/logos_gate.py, kernel/patching.py,            *)
(* kernel/path_guard.py, kernel/resumption.py, kernel/context.py).         *)
(*                                                                         *)
(* A file is the sequence of its lines with the trailing blanks stripped,  *)
(* or Missing; a hash is ideal, it is the content hashed.  What the        *)
(* evidence files go through when several writers share a run id is        *)
(* RunEvidence: here a checkpoint is one step.                             *)
(***************************************************************************)
EXTENDS StatusAlgebra, Sequences, FiniteSets

CONSTANTS
    Runs,         \* run ids
    Paths,        \* files of the workspace
    Requests,     \* what a run may be asked for
    Initial,      \* workspaces to start from
    Contents,     \* what a user may leave in a file
    Broken,       \* lines that do not compile
    MaxActions,   \* max_actions, what a plan may ask for
    MaxWrite,     \* max_write_bytes, here the lines of a text
    MaxActive,    \* bound on runs under way at the same time
    MaxFaults,    \* bound on crashes, edits, failed writes and breached budgets
    Missing,
    None

Actions ==
    [type : {"write_text"}, path : Paths, text : Seq(STRING)]
    \cup [type : {"patch_text"}, path : Paths, search : Seq(STRING), replace : Seq(STRING)]
    \cup [type : {"refused"}, path : Paths, status : {"denied", "halted"}, reason : BoundaryReasons]

\* A plan, whether it was given as a list (write_texts, plan_actions), and the
\* completed_evidence_mode.
ASSUME RequestsAssumption ==
    \A request \in Requests :
        /\ request \in [plan : Seq(Actions), multi : BOOLEAN, mode : {"full", "wal"}]
        /\ Len(request.plan) > 0 /\ (Len(request.plan) > 1 => request.multi)
ASSUME ContentsAssumption ==
    /\ \A content \in Contents : content \in Seq(STRING) \cup {Missing}
    /\ Initial \subseteq [Paths -> Seq(STRING) \cup {Missing}]
    /\ Missing \notin Seq(STRING)
    /\ None \notin [Paths -> Seq(STRING) \cup {Missing}]
ASSUME RunsAssumption == None \notin Runs /\ MaxFaults \in Nat /\ MaxActive \in Nat
ASSUME BudgetsAssumption == MaxActions \in Nat \ {0} /\ MaxWrite \in Nat \ {0}

VARIABLES
    files,        \* the workspace
    manifests,    \* the checkpoints in each run's manifest.json
    wal,          \* the entries of wal-only runs in the global ledger
    pc,           \* where each run is
    job,          \* what each run was asked for and how far it is
    gate,         \* whether its gate holds an executor
    work,         \* its worker thread
    outcome,      \* the result of the action at hand
    result,       \* what run_task returned
    origin,       \* history: the workspace the run's plan started from
    landed,       \* history: the actions whose file was replaced
    disturbed,    \* history: somebody else wrote since the run began
    faults        \* bound: faults so far

evidence == <<manifests, wal>>
history  == <<origin, landed, disturbed>>
vars     == <<files, evidence, pc, job, gate, work, outcome, result, history, faults>>

Fault == faults < MaxFaults /\ faults' = faults + 1

\* The action at hand, and what a run knows when it begins.
Current(r) == job[r].plan[job[r].n + 1]
Idle == [plan |-> <<>>, multi |-> FALSE, mode |-> "full", source |-> None,
         ready |-> {}, clean |-> TRUE, admitted |-> FALSE, n |-> 0, pending |-> <<>>]
NoWork == [at |-> "none", n |-> 0, text |-> Missing, pre |-> Missing, post |-> Missing]
NoOutcome == [status |-> "none", reason |-> NoReason, pre |-> Missing, post |-> Missing]

Init ==
    /\ files \in Initial
    /\ manifests = [r \in Runs |-> <<>>]
    /\ wal = <<>>
    /\ pc = [r \in Runs |-> "idle"]
    /\ job = [r \in Runs |-> Idle]
    /\ gate = [r \in Runs |-> FALSE]
    /\ work = [r \in Runs |-> NoWork]
    /\ outcome = [r \in Runs |-> NoOutcome]
    /\ result = [r \in Runs |-> "none"]
    /\ origin = [r \in Runs |-> files]
    /\ landed = [r \in Runs |-> {}]
    /\ disturbed = [r \in Runs |-> FALSE]
    /\ faults = 0

-----------------------------------------------------------------------------
(* Patches *)

Matches(content, search) ==
    {i \in 1..Len(content) :
        /\ i + Len(search) - 1 <= Len(content)
        /\ SubSeq(content, i, i + Len(search) - 1) = search}

\* apply_patch_preview: why a patch is refused, NoReason when it applies.
PatchRejection(content, action) ==
    IF content = Missing THEN "patch_target_not_found"
    ELSE IF Matches(content, action.search) = {} THEN "patch_search_not_found"
    ELSE IF Cardinality(Matches(content, action.search)) > 1 THEN "patch_search_ambiguous"
    ELSE NoReason
Patched(content, action) ==
    LET i == CHOOSE i \in Matches(content, action.search) : TRUE
    IN SubSeq(content, 1, i - 1) \o action.replace
       \o SubSeq(content, i + Len(action.search), Len(content))
\* compile_patch_preview
Compiles(content) == \A i \in DOMAIN content : content[i] \notin Broken

-----------------------------------------------------------------------------
(* Resume *)

\* checkpoint_to_ready_asset: the file is still what the record says was written.
checkpoint_to_ready_asset(checkpoint) ==
    /\ checkpoint.status = "completed"
    /\ files[checkpoint.path] # Missing
    /\ files[checkpoint.path] = checkpoint.post

\* Mutant: only a manifest is looked at.
load_resume_state_ManifestOnly(source) ==
    LET Ready(i) == /\ manifests[source][i].type # "refused"
                    /\ checkpoint_to_ready_asset(manifests[source][i])
    IN {[path |-> manifests[source][i].path, type |-> manifests[source][i].type] :
          i \in {i \in DOMAIN manifests[source] : Ready(i)}}

\* load_resume_state, load_wal_resume_state: the latest ready record of each
\* path, from the manifest or, when there is none, from the global ledger.
load_resume_state(source) ==
    LET records == IF manifests[source] # <<>> THEN manifests[source] ELSE wal
        Ready(i) == /\ records[i].run = source /\ records[i].type # "refused"
                    /\ checkpoint_to_ready_asset(records[i])
    IN {[path |-> records[i].path, type |-> records[i].type] :
          i \in {i \in DOMAIN records :
                    /\ Ready(i)
                    /\ \A j \in DOMAIN records :
                          j > i /\ Ready(j) => records[j].path # records[i].path}}

\* What the run's last completed record of a path says was written, None without one.
checkpoint_payloads_by_path(records, source, path) ==
    LET completed == {i \in DOMAIN records :
                        /\ records[i].run = source /\ records[i].path = path
                        /\ records[i].status = "completed"}
    IN IF completed = {} THEN None
       ELSE records[CHOOSE i \in completed : \A j \in completed : j <= i].post

wal_payloads_by_path(source, path) == checkpoint_payloads_by_path(wal, source, path)

\* classify_task_resume, for a run-plan without verifiers, one decision per
\* asset: a file that is not what the source run wrote is a conflict.
Decision(source, path) ==
    LET payload == IF manifests[source] # <<>>
                   THEN checkpoint_payloads_by_path(manifests[source], source, path)
                   ELSE wal_payloads_by_path(source, path)
    IN IF payload = None \/ files[path] = Missing THEN "apply"
       ELSE IF files[path] # payload THEN "halt" ELSE "ready"

aggregate_summary(source, plan) ==
    IF \E i \in DOMAIN plan : Decision(source, plan[i].path) = "halt" THEN "halted"
    ELSE "admitted"

\* History: the run is over, all it wrote is on its record, and nobody else wrote.
Recorded(r) ==
    {record.n : record \in
        {c \in {manifests[r][i] : i \in DOMAIN manifests[r]}
               \cup {wal[i] : i \in DOMAIN wal} :
           c.run = r /\ c.status = "completed"}}
Settled(r) ==
    pc[r] \in {"end", "dead"} /\ landed[r] \subseteq Recorded(r) /\ ~disturbed[r]

\* validate_resource_budget: too many actions, or a text too long to write.
validate_resource_budget(plan) ==
    \/ Len(plan) > MaxActions
    \/ \E i \in DOMAIN plan : plan[i].type = "write_text" /\ Len(plan[i].text) > MaxWrite

Free == Cardinality({r \in Runs : pc[r] \notin {"idle", "end", "dead"}}) < MaxActive

\* run_task, create_context: the evidence of the run to resume is read once.
Starts(r, plan, multi, mode, source) ==
    /\ job' = [job EXCEPT ![r] =
         [Idle EXCEPT !.plan = plan, !.multi = multi, !.mode = mode, !.source = source,
                      !.ready = IF source = None THEN {} ELSE load_resume_state(source),
                      !.clean = source # None /\ Settled(source),
                      !.admitted = job[r].admitted]]
    /\ origin' = [origin EXCEPT ![r] = IF source = None THEN files ELSE origin[source]]
    /\ pc' = [pc EXCEPT ![r] = IF validate_resource_budget(plan) THEN "over" ELSE "act"]

Begin(r) ==
    /\ pc[r] = "idle" /\ Free
    /\ \E request \in Requests, source \in {s \in Runs : pc[s] # "idle"} \cup {None} :
         Starts(r, request.plan, request.multi, request.mode, source)
    /\ disturbed' = [disturbed EXCEPT ![r] = FALSE]
    /\ UNCHANGED <<files, evidence, gate, work, outcome, result, landed, faults>>

\* Mutant: the decisions are recorded, but a conflict does not refuse the run.
classify_task_resume_Admit(r) ==
    /\ pc[r] = "idle" /\ Free
    /\ \E request \in Requests, source \in {s \in Runs : pc[s] # "idle"} :
         /\ request.mode = "full" /\ request.multi
         /\ \A i \in DOMAIN request.plan : request.plan[i].type = "write_text"
         /\ job' = [job EXCEPT ![r] =
              [Idle EXCEPT !.plan = request.plan, !.multi = TRUE, !.source = source,
                           !.admitted = TRUE]]
         /\ pc' = [pc EXCEPT ![r] = "admitted"]
    /\ disturbed' = [disturbed EXCEPT ![r] = FALSE]
    /\ UNCHANGED <<files, evidence, gate, work, outcome, result, origin, landed, faults>>

\* The run-plan command resumes a plan of writes: the workspace is compared with
\* the records first, and a conflict refuses the run.
classify_task_resume(r) ==
    /\ pc[r] = "idle" /\ Free
    /\ \E request \in Requests, source \in {s \in Runs : pc[s] # "idle"} :
         /\ request.mode = "full" /\ request.multi
         /\ \A i \in DOMAIN request.plan : request.plan[i].type = "write_text"
         /\ IF aggregate_summary(source, request.plan) = "halted"
            THEN /\ result' = [result EXCEPT ![r] = "halted"]
                 /\ pc' = [pc EXCEPT ![r] = "end"]
                 /\ UNCHANGED job
            ELSE /\ job' = [job EXCEPT ![r] =
                      [Idle EXCEPT !.plan = request.plan, !.multi = TRUE, !.source = source,
                                   !.admitted = TRUE]]
                 /\ pc' = [pc EXCEPT ![r] = "admitted"]
                 /\ UNCHANGED result
    /\ disturbed' = [disturbed EXCEPT ![r] = FALSE]
    /\ UNCHANGED <<files, evidence, gate, work, outcome, origin, landed, faults>>

\* run_task for the admitted resume, which reads the records again.
BeginAdmitted(r) ==
    /\ pc[r] = "admitted"
    /\ Starts(r, job[r].plan, TRUE, "full", job[r].source)
    /\ UNCHANGED <<files, evidence, gate, work, outcome, result, landed, disturbed, faults>>

-----------------------------------------------------------------------------
(* run_intent *)

Observed(r, status, reason, pre, post) ==
    /\ outcome' = [outcome EXCEPT ![r] =
                      [status |-> status, reason |-> reason, pre |-> pre, post |-> post]]
    /\ pc' = [pc EXCEPT ![r] = "observe"]

\* preflight: the permission matrix denies commands, PathGuard halts a path
\* outside the workspace, whatever is unknown is invalid.
Refuse(r) ==
    /\ pc[r] = "act"
    /\ Current(r).type = "refused"
    /\ Observed(r, Current(r).status, Current(r).reason, Missing, Missing)
    /\ UNCHANGED <<files, evidence, job, gate, work, result, history, faults>>

\* ready_asset_for_intent: path and kind of action, not the content, tell
\* whether an asset is ready.
ReadyAsset(r) ==
    \E asset \in job[r].ready :
        asset.path = Current(r).path /\ asset.type = Current(r).type

Skip(r) ==
    /\ pc[r] = "act"
    /\ ReadyAsset(r) /\ should_skip(<<"qian", "dui">>)
    /\ Observed(r, "skipped", "resumed_asset_ready", Missing, Missing)
    /\ UNCHANGED <<files, evidence, job, gate, work, result, history, faults>>

\* run_bounded_action: the action is submitted and waited for.
Submit(r) ==
    /\ pc[r] = "act"
    /\ Current(r).type # "refused" /\ ~ReadyAsset(r)
    /\ gate' = [gate EXCEPT ![r] = TRUE]
    /\ work' = [work EXCEPT ![r] =
                  [NoWork EXCEPT
                     !.n = job[r].n + 1,
                     !.at = IF Current(r).type = "write_text" THEN "write" ELSE "read",
                     !.text = IF Current(r).type = "write_text" THEN Current(r).text ELSE Missing]]
    /\ pc' = [pc EXCEPT ![r] = "wait"]
    /\ UNCHANGED <<files, evidence, job, outcome, result, history, faults>>

\* Mutant: the executor is kept, and waited for when the gate is left.
Timeout_KeepExecutor(r) ==
    /\ pc[r] = "wait"
    /\ Observed(r, "halted", "http_timeout", Missing, Missing)
    /\ UNCHANGED <<files, evidence, job, gate, work, result, history, faults>>

\* The worker is not done in time: it is left behind and runs on.
Timeout(r) ==
    /\ pc[r] = "wait"
    /\ Observed(r, "halted", "http_timeout", Missing, Missing)
    /\ gate' = [gate EXCEPT ![r] = FALSE]
    /\ UNCHANGED <<files, evidence, job, work, result, history, faults>>

\* The future's result: what the worker returned or raised.
Collect(r) ==
    /\ pc[r] = "wait"
    /\ \/ work[r].at = "done"
          /\ Observed(r, "completed", NoReason, work[r].pre, work[r].post)
       \/ work[r].at = "rejected"
          /\ Observed(r, "halted", "patch_rejected", Missing, Missing)
       \/ work[r].at = "raised"
          /\ Observed(r, "halted", "action_exception", Missing, Missing)
    /\ work' = [work EXCEPT ![r] = NoWork]
    /\ UNCHANGED <<files, evidence, job, gate, result, history, faults>>

-----------------------------------------------------------------------------
(* The worker thread: PathGuard.write_text, commit_patch *)

\* The action the worker was given; after a timeout the run has left it.
Given(r) == job[r].plan[work[r].n]

Works(r, state) ==
    /\ work[r].at = state
    /\ UNCHANGED <<evidence, pc, job, gate, outcome, result, origin>>

\* The text is read, and the patch applied to it.
ReadTarget(r) ==
    /\ Works(r, "read")
    /\ LET content == files[Given(r).path] IN
         work' = [work EXCEPT ![r] =
           IF PatchRejection(content, Given(r)) # NoReason
           THEN [@ EXCEPT !.at = "rejected"]
           ELSE [@ EXCEPT !.at = "hash", !.text = Patched(content, Given(r))]]
    /\ UNCHANGED <<files, landed, disturbed, faults>>

\* Mutant: the patch is not hashed over the file but over its own result.
HashTarget_Post(r) ==
    /\ Works(r, "hash")
    /\ work' = [work EXCEPT ![r] =
         IF ~Compiles(work[r].text) THEN [@ EXCEPT !.at = "rejected"]
         ELSE [@ EXCEPT !.at = "write", !.pre = work[r].text]]
    /\ UNCHANGED <<files, landed, disturbed, faults>>

\* The file is opened a second time for its hash.
HashTarget(r) ==
    /\ Works(r, "hash")
    /\ LET content == files[Given(r).path] IN
         work' = [work EXCEPT ![r] =
           IF content = Missing THEN [@ EXCEPT !.at = "raised"]
           ELSE IF ~Compiles(work[r].text) THEN [@ EXCEPT !.at = "rejected"]
           ELSE [@ EXCEPT !.at = "write", !.pre = content]]
    /\ UNCHANGED <<files, landed, disturbed, faults>>

\* os.replace: the whole text or nothing.
ReplaceTarget(r) ==
    /\ Works(r, "write")
    /\ files' = [files EXCEPT ![Given(r).path] = work[r].text]
    /\ landed' = [landed EXCEPT ![r] = @ \cup {work[r].n}]
    /\ disturbed' = [s \in Runs |-> disturbed[s] \/ s # r]
    /\ work' = [work EXCEPT ![r].at = "rehash"]
    /\ UNCHANGED faults

\* The hash put on record is read back from the file.
RehashTarget(r) ==
    /\ Works(r, "rehash")
    /\ LET content == files[Given(r).path] IN
         work' = [work EXCEPT ![r] =
           IF content = Missing THEN [@ EXCEPT !.at = "raised"]
           ELSE [@ EXCEPT !.at = "done", !.post = content]]
    /\ UNCHANGED <<files, landed, disturbed, faults>>

\* An OSError before the file is replaced; the temporary file is removed.
WorkFails(r) ==
    /\ \/ Works(r, "read") \/ Works(r, "hash") \/ Works(r, "write")
    /\ Fault
    /\ work' = [work EXCEPT ![r].at = "raised"]
    /\ UNCHANGED <<files, landed, disturbed>>

-----------------------------------------------------------------------------
(* _observe_intents, _finish_task_run *)

Checkpoint(r) ==
    [run |-> r, n |-> job[r].n + 1, type |-> Current(r).type, path |-> Current(r).path,
     status |-> outcome[r].status, pre |-> outcome[r].pre, post |-> outcome[r].post]

\* Mutant: every wal run defers its checkpoints.
Defers_All(r) == job[r].mode = "wal"

\* A single action of a wal run waits for the end of the run.
Defers(r) == job[r].mode = "wal" /\ ~job[r].multi

RecordCheckpoint(r) ==
    IF Defers(r)
    THEN /\ job' = [job EXCEPT ![r].n = @ + 1, ![r].pending = Append(@, Checkpoint(r))]
         /\ UNCHANGED manifests
    ELSE /\ job' = [job EXCEPT ![r].n = @ + 1]
         /\ manifests' = [manifests EXCEPT ![r] = Append(@, Checkpoint(r))]

\* dispatch_decision: the next action, or the end of the run.
Observe(r) ==
    /\ pc[r] = "observe"
    /\ RecordCheckpoint(r)
    /\ pc' = [pc EXCEPT ![r] =
         IF RunContinues(outcome[r].status, outcome[r].reason) /\ job[r].n + 1 < Len(job[r].plan)
         THEN "act" ELSE "close"]
    /\ UNCHANGED <<files, wal, gate, work, outcome, result, history, faults>>

\* halted_result(reason="resource_budget_exceeded"), with a checkpoint of its own.
HaltOnBudget(r) ==
    /\ manifests' = [manifests EXCEPT ![r] = Append(@ \o job[r].pending,
          [run |-> r, n |-> job[r].n + 1, type |-> "refused", path |-> Current(r).path,
           status |-> "halted", pre |-> Missing, post |-> Missing])]
    /\ job' = [job EXCEPT ![r].pending = <<>>]
    /\ result' = [result EXCEPT ![r] = "halted"]
    /\ pc' = [pc EXCEPT ![r] = "leave"]
    /\ outcome' = [outcome EXCEPT ![r] = NoOutcome]
    /\ UNCHANGED <<files, wal, gate, work, history>>

\* The plan is over its budget: no action of it runs.
OverBudget(r) == pc[r] = "over" /\ HaltOnBudget(r) /\ UNCHANGED faults

\* trace_budget_breach, run_deadline_breach: in place of the checkpoint of the
\* action that was just observed.
BudgetBreach(r) == pc[r] = "observe" /\ Fault /\ HaltOnBudget(r)

\* LogosGate.close waits for the worker of an executor it still holds.
GateCloses(r) == gate[r] => work[r].at \in {"none", "done", "rejected", "raised"}

Leave(r) ==
    /\ pc[r] = "leave"
    /\ GateCloses(r)
    /\ gate' = [gate EXCEPT ![r] = FALSE]
    /\ pc' = [pc EXCEPT ![r] = "end"]
    /\ UNCHANGED <<files, evidence, job, work, outcome, result, history, faults>>

\* A run of several actions is completed when none failed; a single action
\* gives its own status.
FinalStatus(r) ==
    IF job[r].multi /\ outcome[r].status \in {"completed", "skipped"}
    THEN "completed" ELSE outcome[r].status

\* wal_only_completed: one action that completed leaves an entry in the global
\* ledger and nothing else.
Finish(r) ==
    /\ pc[r] = "close"
    /\ GateCloses(r)
    /\ gate' = [gate EXCEPT ![r] = FALSE]
    /\ result' = [result EXCEPT ![r] = FinalStatus(r)]
    /\ IF Defers(r) /\ FinalStatus(r) = "completed"
       THEN wal' = wal \o job[r].pending /\ UNCHANGED manifests
       ELSE /\ manifests' = [manifests EXCEPT ![r] = @ \o job[r].pending]
            /\ UNCHANGED wal
    /\ job' = [job EXCEPT ![r].pending = <<>>]
    /\ pc' = [pc EXCEPT ![r] = "end"]
    /\ outcome' = [outcome EXCEPT ![r] = NoOutcome]
    /\ UNCHANGED <<files, work, history, faults>>

-----------------------------------------------------------------------------
(* The world around *)

\* The process dies with its worker.
Crash(r) ==
    /\ \/ pc[r] \notin {"idle", "end", "dead"}
       \/ pc[r] = "end" /\ work[r].at \in {"read", "hash", "write", "rehash"}
    /\ Fault
    /\ pc' = [pc EXCEPT ![r] = IF @ = "end" THEN @ ELSE "dead"]
    /\ work' = [work EXCEPT ![r] = NoWork]
    /\ gate' = [gate EXCEPT ![r] = FALSE]
    /\ outcome' = [outcome EXCEPT ![r] = NoOutcome]
    /\ UNCHANGED <<files, evidence, job, result, history>>

\* A user, or another program, writes or removes a file.
Edit(path) ==
    /\ Fault
    /\ \E content \in Contents \ {files[path]} : files' = [files EXCEPT ![path] = content]
    /\ disturbed' = [r \in Runs |-> TRUE]
    /\ UNCHANGED <<evidence, pc, job, gate, work, outcome, result, origin, landed>>

Dispatch(r) == BeginAdmitted(r) \/ OverBudget(r) \/ Refuse(r) \/ Skip(r) \/ Submit(r)
Work(r) ==
    ReadTarget(r) \/ HashTarget(r) \/ ReplaceTarget(r) \/ RehashTarget(r) \/ WorkFails(r)
Step(r) ==
    Dispatch(r) \/ Timeout(r) \/ Collect(r) \/ Observe(r) \/ Leave(r) \/ Finish(r)

Next ==
    \/ \E r \in Runs : Begin(r) \/ classify_task_resume(r) \/ Step(r) \/ Work(r) \/ BudgetBreach(r) \/ Crash(r)
    \/ \E path \in Paths : Edit(path)

Spec == Init /\ [][Next]_vars

\* The run's own thread goes on, and future.result returns or times out.  The
\* worker is promised nothing.
FairSpec == Spec /\ \A r \in Runs : WF_vars(Step(r))

-----------------------------------------------------------------------------
(* Properties *)

File == Seq(STRING) \cup {Missing}
Phases == {"none", "read", "hash", "write", "rehash", "done", "rejected", "raised"}
Statuses == {"none", "completed", "skipped", "halted", "denied"}
CheckpointType ==
    [run : Runs, n : Nat \ {0}, type : {"write_text", "patch_text", "refused"}, path : Paths,
     status : Statuses, pre : File, post : File]
Reasons == BoundaryReasons \cup
    {NoReason, "resumed_asset_ready", "http_timeout", "patch_rejected", "action_exception"}
OutcomeType == [status : Statuses, reason : Reasons, pre : File, post : File]

TypeOK ==
    /\ files \in [Paths -> File]
    /\ manifests \in [Runs -> Seq(CheckpointType)]
    /\ wal \in Seq(CheckpointType)
    /\ pc \in [Runs -> {"idle", "admitted", "over", "act", "wait", "observe", "close", "leave", "end", "dead"}]
    /\ job \in [Runs ->
         [plan : {request.plan : request \in Requests} \cup {<<>>}, multi : BOOLEAN, mode : {"full", "wal"},
          source : Runs \cup {None},
          ready : SUBSET [path : Paths, type : {"write_text", "patch_text"}],
          clean : BOOLEAN, admitted : BOOLEAN, n : Nat, pending : Seq(CheckpointType)]]
    /\ gate \in [Runs -> BOOLEAN]
    /\ work \in [Runs -> [at : Phases, n : Nat, text : File, pre : File, post : File]]
    /\ outcome \in [Runs -> OutcomeType]
    /\ result \in [Runs -> Statuses]
    /\ origin \in [Runs -> [Paths -> File]]
    /\ landed \in [Runs -> SUBSET (Nat \ {0})]
    /\ disturbed \in [Runs -> BOOLEAN]
    /\ faults \in Nat

\* The workspace a plan leaves, None when one of its actions does not apply.
Apply(action, workspace) ==
    IF action.type = "refused" THEN None
    ELSE IF action.type = "write_text" THEN [workspace EXCEPT ![action.path] = action.text]
    ELSE IF PatchRejection(workspace[action.path], action) # NoReason THEN None
    ELSE [workspace EXCEPT ![action.path] = Patched(@, action)]
\* The workspaces on the way through a plan, and the last of them.
Course(plan, workspace) ==
    LET after[n \in 0..Len(plan)] ==
            IF n = 0 THEN workspace
            ELSE IF after[n - 1] = None THEN None
            ELSE Apply(plan[n], after[n - 1])
    IN after
AppliedTo(plan, workspace) == Course(plan, workspace)[Len(plan)]

DistinctPaths(plan) == \A i, j \in DOMAIN plan : plan[i].path = plan[j].path => i = j
Succeeded(r) == pc[r] = "end" /\ result[r] \in {"completed", "skipped"}

Resumes(r, s) ==
    /\ job[r].source = s /\ s # None /\ s # r
    /\ job[r].plan = job[s].plan
    /\ job[s].source = None
    /\ job[r].clean /\ ~disturbed[r]

\* A run that reports success has made of the workspace what its plan makes of
\* it, unless somebody else wrote to it meanwhile.  The same over two runs: one
\* that resumes another, with the plan the other had and distinct paths, applies
\* each action once, the ones it skips included, provided that what the other
\* wrote is on its record.
SuccessIsApplied ==
    /\ \A r \in Runs :
        Succeeded(r) /\ job[r].source = None /\ ~disturbed[r]
        => files = AppliedTo(job[r].plan, origin[r])
    /\ \A r, s \in Runs :
        Resumes(r, s) /\ Succeeded(r) /\ DistinctPaths(job[r].plan)
        => files = AppliedTo(job[r].plan, origin[r])

\* Writes and records agree.  A file a run replaced without a completed
\* checkpoint or ledger entry for it is that of the last action it began, and
\* once the run has ended such a run is halted: a crash, a timeout whose worker
\* writes late, and a breached budget cost the evidence of one action at most,
\* and never that of a run that reports success.  And the record of a patch shows
\* a patch: unless somebody else wrote to the workspace, the content it says it
\* left is the patched content it found.
WritesAreOnRecord ==
    \A r \in Runs :
        /\ \A n \in landed[r] \ Recorded(r) :
              /\ n >= job[r].n
              /\ n > job[r].n => pc[r] \in {"wait", "observe", "leave", "end", "dead"}
              /\ pc[r] = "end" => result[r] = "halted"
        /\ ~disturbed[r] =>
           \A record \in {manifests[r][i] : i \in DOMAIN manifests[r]}
                         \cup {wal[i] : i \in {i \in DOMAIN wal : wal[i].run = r}} :
              record.type = "patch_text" /\ record.status = "completed" =>
                 LET action == job[r].plan[record.n] IN
                 /\ PatchRejection(record.pre, action) = NoReason
                 /\ record.post = Patched(record.pre, action)

\* A run-plan that resumes another overwrites no file that somebody changed
\* after the other run wrote it: what it replaces was not written by that run,
\* still has what that run left there, or was replaced by the resume itself.  An
\* edit after the comparison with the records is not seen.
ResumeKeepsEdits ==
    [][\A r \in Runs :
          landed'[r] # landed[r] /\ job[r].admitted /\ ~disturbed[r] =>
          \/ Decision(job[r].source, Given(r).path) # "halt"
          \/ \E n \in landed[r] : job[r].plan[n].path = Given(r).path]_vars

\* Every run comes to its end though a worker never does.
EveryRunEnds == \A r \in Runs : pc[r] = "act" ~> pc[r] \in {"end", "dead"}
=============================================================================
