--------------------------- MODULE ModelPlanning ---------------------------
(***************************************************************************)
(* Tasks given to a model, one after the other on one workspace, up to     *)
(* where the repairs start (kernel/model_loop.py, kernel/model_planning.py,*)
(* kernel/model_provider.py, kernel/model_repair.py): the check of the     *)
(* workspace against the last recorded delivery, the call of the model     *)
(* with its retries and its fallback channel, the plan, its approval and   *)
(* its execution, the sequence of narrow plans that writes one file after  *)
(* the other, the scripts run for missing data files, the tests in the     *)
(* sandbox and the grade of a host verifier.  The terminal mode a task may *)
(* take instead is TerminalSession.                                        *)
(*                                                                         *)
(* Every write leaves a text that was not there before.  How an answer     *)
(* becomes a plan is PlanParsing; what run_task and the execution engine   *)
(* go through inside is RunTask and ExecutionEngine, here an execution is  *)
(* one step with the outcomes these have.                                  *)
(***************************************************************************)
EXTENDS PlanParsing

CONSTANTS
    Tasks,      \* what is asked of the model, records as in TasksAssumption
    Answers,    \* what the model may answer
    Codes,      \* the HTTP statuses it may fail with
    Paths,      \* the files there may be
    Initial,    \* those there may be at first, and which of them were delivered
    MaxTasks,   \* bound on the tasks
    MaxFaults   \* bound on failing requests and executions, edits and stray writes

ASSUME TasksAssumption ==
    \A t \in Tasks :
        /\ t.required \subseteq Paths    \* required_python_files
        /\ t.protected \cap t.required = {}
        /\ \A p \in t.protected : p.spelled = "plain"
        /\ t.attempts \in Nat            \* max_repair_attempts
        /\ t.mode \in {"strict", "scoped_auto"}
        /\ t.explicit \in BOOLEAN        \* require_explicit_approval
        /\ t.asks \in BOOLEAN            \* execution_approval is given
        /\ t.shows \in BOOLEAN           \* plan_approval is given
        /\ t.newTests \in BOOLEAN        \* the task asks for tests only
        /\ t.sandbox \in BOOLEAN         \* a sandbox to run the tests in
        /\ t.host \in BOOLEAN            \* a host verifier outside the workspace
        /\ t.data \subseteq Paths        \* the data files the task is to produce
        /\ t.degraded \in BOOLEAN        \* the governance mode of the environment
        /\ t.fallback \in BOOLEAN        \* a second endpoint is configured
        /\ t.patient \in BOOLEAN         \* http_timeout_seconds > 0.05
        /\ t.route \in BOOLEAN           \* the safe-agent route is valid
        /\ t.api \in {"chat", "responses"}
\* A payload has the shape PlanParsing names: lists are sequences.
IsSequence(seq) == seq \in Seq(Range(seq))
ASSUME AnswersAssumption ==
    \A answer \in Answers :
        LET payload == answer.payload IN
        /\ answer.text \in {"whole", "within", "cut", "broken", "prose", "list"}
        /\ IsSequence(payload.assets.items) /\ IsSequence(payload.patches.items)
        /\ IsSequence(payload.loose.assets) /\ IsSequence(payload.loose.patches)
        /\ {payload.assets.is, payload.patches.is} \subseteq {"absent", "null", "list", "other"}
        /\ DOMAIN payload.plan = {"is", "extra", "steps"}
        /\ IsSequence(payload.plan.steps)
ASSUME BoundsAssumption ==
    /\ MaxTasks \in Nat /\ MaxFaults \in Nat /\ Codes \subseteq Nat
    /\ \A start \in Initial :
          start.delivered \subseteq start.files /\ start.files \subseteq Paths
    /\ \A p \in Paths : p.spelled = "plain"

VARIABLES
    task,
    pc,         \* what comes next: see TypeOK
    call,       \* the model call under way: [span, channel, attempt, again]
    plan,
    narrowed,
    slot,       \* index of the narrow sequence
    written,    \* the asset paths of its completed plans
    some,       \* whether its results count failed, or surplus, actions
    listed,     \* the files on its record: the text "now" there, "stale", "none"
    result,     \* [status, reason, delivery, trace], with the paths in its trace
    files,      \* the workspace
    as, th,     \* the last recorded delivery, kept like `listed`
    tasks,      \* bound: tasks begun
    faults,     \* bound: faults so far
    before,     \* history: the files at the start of the task
    touched,    \* history: the writes of its plans, [path, by, closing, whole],
                \* each path as the plan spelled it
    excused     \* history: a plan left its assets out, or the model was done

taskVars == <<task, plan, narrowed, slot, written, some, listed>>
ledger == <<as, th>>
history == <<before, touched, excused>>
bounds == <<tasks, faults>>
vars == <<pc, call, taskVars, result, files, ledger, bounds, history>>

Fault == faults < MaxFaults /\ faults' = faults + 1

NoPlan == [assets |-> <<>>, patches |-> <<>>, steps |-> <<>>, no_action |-> FALSE]
Call(span) == [span |-> span, channel |-> "main", attempt |-> 0, again |-> FALSE]
Outcome(status, reason, delivery) ==
    [status |-> status, reason |-> reason, delivery |-> delivery, trace |-> {}]
Unlisted == [p \in Paths |-> "none"]
NoFailures == [failed |-> FALSE, surplus |-> FALSE]

\* The spans of the first plan; "next" and "close" are the narrow sequence's.
First == {"model-call", "model-narrow-1", "model-call-probe-1"}

----------------------------------------------------------------------------
\* The workspace against the ledger.

\* Somebody writes these files: what was recorded of them is stale.
Age(record, paths) ==
    [p \in Paths |-> IF p \in paths /\ record[p] = "now" THEN "stale" ELSE record[p]]

\* A record lists each write with the text it left, so a file that is written
\* twice has one entry whose text is gone.
Record(record, writes) ==
    LET Of(p) == {i \in DOMAIN writes : File(writes[i].path) = p}
    IN [p \in Paths |-> IF Of(p) = {} THEN record[p]
                        ELSE IF Cardinality(Of(p)) = 1 /\ record[p] = "none" THEN "now"
                        ELSE "stale"]

\* ledger_matches_workspace
Mismatch ==
    IF \E p \in Paths : th[p] = "stale" THEN "preset_test_hash_mismatch"
    ELSE IF \E p \in Paths : as[p] = "stale" THEN "asset_hash_mismatch"
    ELSE "none"

\* global_wal_entry: the assets of a delivery, and the tests it passed.  An
\* entry without either is looked past.
Deliver(tests) ==
    IF listed = Unlisted /\ tests = {} THEN UNCHANGED ledger
    ELSE /\ as' = listed
         /\ th' = [p \in Paths |-> IF p \in tests THEN "now" ELSE "none"]

\* delivery_decision, of a sequence: a completed one without failed actions.
Delivery(status, failed) ==
    IF status = "completed" /\ ~failed THEN "deliverable" ELSE "blocked"

----------------------------------------------------------------------------
\* A task begins and ends.

Init ==
    /\ task \in Tasks
    /\ pc = "idle"
    /\ call = Call("model-call")
    /\ plan = NoPlan
    /\ narrowed = FALSE /\ slot = 0 /\ written = {}
    /\ some = NoFailures
    /\ listed = Unlisted
    /\ result = Outcome("none", "none", "none")
    /\ \E start \in Initial :
         /\ files = start.files
         /\ as = [p \in Paths |-> IF p \in start.delivered THEN "now" ELSE "none"]
    /\ th = Unlisted
    /\ tasks = 0 /\ faults = 0
    /\ before = files /\ touched = {} /\ excused = FALSE

\* The task returns: what it kept in local variables is gone.
Locals == <<call, plan, narrowed, slot, written, some, listed>>
Return(value) ==
    /\ pc' = "idle"
    /\ result' = [value EXCEPT !.trace = {}]
    /\ call' = Call("model-call") /\ plan' = NoPlan
    /\ narrowed' = FALSE /\ slot' = 0 /\ written' = {}
    /\ some' = NoFailures /\ listed' = Unlisted
Ends(status, reason) == Return(Outcome(status, reason, "none"))

\* _execute_model_task
Begin ==
    /\ pc = "idle" /\ tasks < MaxTasks
    /\ tasks' = tasks + 1
    /\ task' \in Tasks
    /\ before' = files /\ touched' = {} /\ excused' = FALSE
    /\ IF Mismatch # "none" THEN Ends("halted", Mismatch)
       ELSE IF ~task'.route THEN Ends("halted", "safe_agent_router_invalid")
       ELSE /\ pc' = "post" /\ result' = Outcome("none", "none", "none")
            /\ UNCHANGED Locals
    /\ UNCHANGED <<files, ledger, faults>>

\* Somebody edits or adds a file between two tasks.
Edit(p) ==
    /\ pc = "idle" /\ Fault
    /\ files' = files \cup {p}
    /\ as' = Age(as, {p}) /\ th' = Age(th, {p})
    /\ UNCHANGED <<pc, call, taskVars, result, tasks, history>>

\* The tasks a model or a user names its files in.
Slots == IF task.attempts = 0 THEN 0
         ELSE Max({task.attempts, Cardinality(task.required)})
\* Mutant: one of the files will do.
Landed_Any == task.required \cap written # {}

\* _required_files_landed
Landed == task.required # {} /\ task.required \subseteq written

\* _close_narrow_sequence
Close(status, reason) ==
    LET delivery == Delivery(status, some.failed) IN
    /\ result' = [Outcome(status, reason, delivery) EXCEPT !.trace = result.trace]
    /\ IF delivery = "deliverable" THEN Deliver({}) ELSE UNCHANGED ledger
    /\ pc' = "finish"

----------------------------------------------------------------------------
\* The call of the model.

held == <<plan, slot, written, some, listed>>

\* What a failed call means for the task, by its span.
Unplanned(kind) ==
    /\ CASE /\ call.span = "model-call" /\ task.attempts > 0
            /\ kind \in {"resource_budget_exceeded", "invalid_model_plan"} ->
                 /\ call' = Call("model-narrow-1") /\ narrowed' = TRUE
                 /\ pc' = "post" /\ UNCHANGED <<held, result, ledger>>
         [] /\ call.span = "model-call" /\ task.attempts > 0 /\ task.patient
            /\ kind \in {"model_provider_timeout", "model_provider_error"} ->
                 /\ call' = Call("model-call-probe-1")
                 /\ pc' = "post" /\ UNCHANGED <<held, narrowed, result, ledger>>
         [] call.span \in {"next", "close"} ->
                 Close("halted", kind) /\ UNCHANGED <<held, call, narrowed>>
         [] OTHER -> Ends("halted", kind) /\ UNCHANGED ledger
    /\ UNCHANGED <<task, files, tasks, history>>

\* traced_provider_plan_retrying
Retry(verdict) == Retried(verdict) /\ ~call.again

\* _post_model_json: the fallback channel is tried once.
ChannelFails(kind) ==
    IF task.fallback /\ call.channel = "main"
    THEN /\ call' = [call EXCEPT !.channel = "fallback", !.attempt = 0]
         /\ UNCHANGED <<pc, taskVars, result, files, ledger, tasks, history>>
    ELSE Unplanned(kind)

\* _post_model_json_direct: up to three attempts.
AttemptFails(kind) ==
    IF call.attempt < 2
    THEN /\ call' = [call EXCEPT !.attempt = @ + 1]
         /\ UNCHANGED <<pc, taskVars, result, files, ledger, tasks, history>>
    ELSE ChannelFails(kind)

Resumable == {408, 429, 500, 502, 503, 504, 520, 521, 522, 524}

HttpFails(code) ==
    /\ pc = "post" /\ Fault
    /\ IF code \in Resumable THEN AttemptFails("model_provider_timeout")
       ELSE IF code = 403 THEN AttemptFails("model_provider_error")
       ELSE ChannelFails("model_provider_error")

\* URLError, for a timeout or for another reason.
Unreachable ==
    /\ pc = "post" /\ Fault
    /\ \E kind \in {"model_provider_timeout", "model_provider_error"} : AttemptFails(kind)

\* TimeoutError while reading, or an envelope that is no object or too large.
Unreadable ==
    /\ pc = "post" /\ Fault
    /\ \E kind \in {"model_provider_timeout", "model_provider_error"} : ChannelFails(kind)

\* A connection that is dropped under way (HTTPException, ConnectionError) is
\* caught nowhere: the task ends with the exception.
Dropped ==
    /\ pc = "post" /\ Fault
    /\ Ends("raised", "exception")
    /\ UNCHANGED <<task, files, ledger, tasks, history>>

\* Mutant: patches of protected files are kept.
DropProtected_Assets(p) ==
    [p EXCEPT !.assets = Those(@, Range(@) \ task.protected)]

\* A protected name without a directory stands for every file of that name.
NameIsProtected(path) == [File(path) EXCEPT !.dir = "top"] \in task.protected

\* _drop_protected_changes: a path is looked up as it is spelled.
IsProtected(path) == path \in task.protected \/ NameIsProtected(path)

DropProtected(p) ==
    LET Free(paths) == Those(paths, {path \in Range(paths) : ~IsProtected(path)})
        steps == {step \in Range(p.steps) :
                    \A c \in Range(step.calls) : ~IsProtected(c.path)}
    IN [p EXCEPT !.assets = Free(@), !.patches = Free(@), !.steps = Those(@, steps)]

\* traced_provider_plan, its answer read: the closing plan stays as it is.
Answered(answer) ==
    LET reading == Reading(task.api, answer, files) IN
    /\ pc = "post"
    /\ CASE reading.verdict = "plan" ->
              /\ pc' = "planned"
              /\ plan' = IF call.span = "close" THEN reading.plan
                         ELSE DropProtected(reading.plan)
              /\ UNCHANGED <<task, call, narrowed, slot, written, some, listed, result,
                             files, ledger, tasks, history>>
         [] Retry(reading.verdict) ->
              /\ call' = [Call(call.span) EXCEPT !.again = TRUE]
              /\ UNCHANGED <<pc, taskVars, result, files, ledger, tasks, history>>
         [] OTHER -> Unplanned(FailureKind(reading.verdict))
    /\ UNCHANGED faults

----------------------------------------------------------------------------
\* What becomes of a plan.

Calls(p) == UNION {Range(step.calls) : step \in Range(p.steps)}
Mutating == {"write_text", "patch_text", "run_command", "git_commit"}

\* _is_scoped_auto_path, of a path as it is spelled.
InScope(path) == path.dir = "src" /\ path.spelled # "dot"

\* Mutant: in strict mode only the assets and the patches count.
RequiresApproval_NoSteps(p) ==
    IF task.mode = "strict" THEN p.assets # <<>> \/ p.patches # <<>>
    ELSE \E path \in Range(p.assets) \cup Range(p.patches) : ~InScope(path)

\* model_plan_requires_approval
RequiresApproval(p) ==
    IF task.mode = "strict"
    THEN \/ p.assets # <<>> \/ p.patches # <<>>
         \/ \E c \in Calls(p) : c.tool \in Mutating
    ELSE \/ \E c \in Calls(p) :
               \/ c.tool \in {"git_commit", "run_command"}
               \/ Writes(c.tool) /\ ~InScope(c.path)
         \/ \E path \in Range(p.assets) \cup Range(p.patches) : ~InScope(path)

\* The first plan: early_model_plan_result, then the user who is shown it.
FirstPlanned ==
    /\ pc = "planned" /\ call.span \in First
    /\ IF plan.no_action THEN Ends("halted", "no_actionable_plan")
       ELSE IF ~task.asks /\ task.explicit /\ RequiresApproval(plan)
       THEN Ends("halted", "approval_required")
       ELSE \/ pc' = "execute" /\ UNCHANGED <<result, Locals>>
            \/ task.shows /\ Ends("cancelled", "user_rejected_diff")
    /\ UNCHANGED <<task, files, ledger, bounds, history>>

IsEmpty(p) == p.assets = <<>> /\ p.patches = <<>> /\ p.steps = <<>>

\* A further plan of the narrow sequence; the closing one may be empty.
NextPlanned ==
    /\ pc = "planned" /\ call.span \notin First
    /\ IF plan.no_action THEN Close("completed", "none") /\ excused' = TRUE
       ELSE /\ IF IsEmpty(plan) /\ call.span = "next"
               THEN Close("halted", "invalid_model_plan")
               ELSE pc' = "execute" /\ UNCHANGED <<result, ledger>>
            /\ UNCHANGED excused
    /\ UNCHANGED <<call, taskVars, files, bounds, before, touched>>

----------------------------------------------------------------------------
\* execute_model_plan.

\* scoped_auto runs the first plan without asking; a further one only where no
\* approval is asked for at all.
Explicit == task.explicit /\ ~(task.mode = "scoped_auto" /\ call.span \in First)
Callback == IF task.asks THEN "asks"
            ELSE IF task.mode = "scoped_auto" /\ call.span \in First THEN "grants"
            ELSE "none"

\* One execution: the writes it made, what is listed after it, the paths in its
\* trace, and how it is counted.
PathsOf(writes) == {File(w.path) : w \in writes}
Traced(trace, writes, lists, status, reason, failed, surplus) ==
    /\ files' = files \cup PathsOf(writes)
    /\ as' = Age(as, PathsOf(writes)) /\ th' = Age(th, PathsOf(writes))
    /\ listed' = lists
    /\ some' = [failed |-> some.failed \/ failed, surplus |-> some.surplus \/ surplus]
    /\ touched' = touched \cup
          {[path |-> w.path, by |-> w.by, closing |-> call.span = "close",
            whole |-> status = "completed"] : w \in writes}
    /\ result' = [Outcome(status, reason, "none") EXCEPT !.trace = trace]
    /\ pc' = "executed"
    /\ UNCHANGED <<call, task, plan, narrowed, slot, written, tasks, before>>
Executed(writes, status, reason, failed) ==
    Traced({}, Range(writes), Record(listed, writes), status, reason, failed, FALSE)

\* The degraded mode refuses a plan that gives a new text to a file there is.
Rewrites ==
    \/ \E path \in Range(plan.assets) : File(path) \in files
    \/ \E c \in Calls(plan) : c.tool = "write_text" /\ File(c.path) \in files
Ready == pc = "execute" /\ ~(task.degraded /\ Rewrites)
Degraded ==
    /\ pc = "execute" /\ task.degraded /\ Rewrites
    /\ Executed(<<>>, "halted", "degraded_mode_disallows_full_file_rewrite", FALSE)
    /\ UNCHANGED <<faults, excused>>

By(paths, kind) == [i \in DOMAIN paths |-> [path |-> paths[i], by |-> kind]]
Actions == By(plan.assets, "asset") \o By(plan.patches, "patch")

\* A patch needs its file; whether the block is found once is left open.
Applies(write, there) == write.by # "patch" \/ File(write.path) \in there

\* run_task does the actions in order and stops at the first that fails.
RunTask ==
    /\ Ready /\ plan.steps = <<>>
    /\ ~(Explicit /\ Callback = "none")
    /\ UNCHANGED excused
    /\ IF Actions = <<>>
       THEN Executed(<<>>, "halted", "run_exception", TRUE) /\ UNCHANGED faults
       ELSE \E n \in 0 .. Len(Actions) :
              LET applied == SubSeq(Actions, 1, n)
                  there(i) == files \cup {File(Actions[j].path) : j \in 1 .. i - 1} IN
              /\ \A i \in 1 .. n : Applies(Actions[i], there(i))
              /\ IF n = Len(Actions)
                 THEN /\ Executed(applied, "completed", "none", FALSE)
                      /\ UNCHANGED faults
                 ELSE /\ Executed(applied, "halted", "action_failed", TRUE)
                      /\ IF Applies(Actions[n + 1], there(n + 1)) THEN Fault
                         ELSE UNCHANGED faults

\* Nobody to ask, or nobody who agrees: all the actions are skipped.
NotApproved ==
    /\ Ready /\ plan.steps = <<>>
    /\ \/ Explicit /\ Callback = "none"
          /\ Executed(<<>>, "halted", "approval_required", FALSE)
       \/ Callback = "asks" /\ Actions # <<>>
          /\ Executed(<<>>, "halted", "approval_rejected", FALSE)
    /\ UNCHANGED <<faults, excused>>

\* execution_plan_from_model_plan: declared steps that change something leave
\* the assets and the patches of the plan out.
Mutate == \E c \in Calls(plan) : c.tool \in Mutating
EngineWrites ==
    IF Mutate
    THEN {[path |-> c.path, by |-> IF c.tool = "patch_text" THEN "patch" ELSE "step"] :
            c \in {c \in Calls(plan) : Writes(c.tool)}}
    ELSE Range(Actions)

\* The files a program may write on its own: bounded to one.
Stray(there) == {{}} \cup {{p} : p \in there}
Counted(astray) == IF astray = {} THEN UNCHANGED faults ELSE Fault

Reads == {File(c.path) : c \in {c \in Calls(plan) : c.tool \in {"read_text", "outline"}}}

\* The steps on the engine: any of the writes may be done when it stops, a
\* patch of the plan only once all its assets are.  The trace names what was
\* written or read.
Engine ==
    /\ Ready /\ plan.steps # <<>>
    /\ excused' = (excused \/ (Mutate /\ Actions # <<>>))
    /\ \E did \in SUBSET EngineWrites, astray \in Stray(Paths), read \in SUBSET Reads :
         LET assets == {w \in EngineWrites : w.by = "asset"}
             there == files \cup PathsOf({w \in did : w.by # "patch"})
             guarded == Mutate \/ EngineWrites # {}
             refused == guarded /\ Explicit /\ Callback = "none"
             all == did = EngineWrites /\ ~refused
             writes == did \cup {[path |-> p, by |-> "command"] : p \in astray}
             Ran(status, reason, failed, surplus) ==
                 Traced(PathsOf(did) \cup read, writes, Age(listed, PathsOf(writes)),
                        status, reason, failed, surplus)
         IN
         /\ \A w \in did : Applies(w, there)
         /\ ~Mutate /\ (\E w \in did : w.by = "patch") => assets \subseteq did
         /\ refused => did = {}
         /\ \/ astray = {}
            \/ ~refused /\ \E c \in Calls(plan) : c.tool = "run_command"
         /\ \/ /\ all
               /\ Ran("completed", "none", FALSE, ~Mutate /\ Actions # <<>>)
               /\ Counted(astray)
            \/ /\ Callback = "asks" /\ guarded
               /\ \E failed \in BOOLEAN : Ran("halted", "approval_rejected", failed, FALSE)
               /\ Counted(astray)
            \/ /\ Ran("halted", IF refused THEN "approval_required" ELSE "step_failed",
                      TRUE, FALSE)
               /\ IF \/ refused
                     \/ \E w \in EngineWrites \ did : ~Applies(w, there)
                  THEN Counted(astray) ELSE Fault

----------------------------------------------------------------------------
\* _write_following_narrow_files.

\* The first plan was executed: the sequence, the tests, or the repairs.
FirstExecuted ==
    /\ pc = "executed" /\ call.span \in First
    /\ IF narrowed /\ Slots > 1 /\ result.status = "completed"
       THEN pc' = "slot" /\ slot' = 2 /\ written' = Range(plan.assets)
       ELSE /\ pc' = IF \/ narrowed \/ task.attempts = 0 \/ task.sandbox \/ task.host
                        \/ result.status = "completed"
                     THEN "finish" ELSE "repair"
            /\ UNCHANGED <<slot, written>>
    /\ plan' = NoPlan
    /\ UNCHANGED <<call, task, narrowed, some, listed, result, files, ledger, bounds,
                   history>>

Sum == IF Landed THEN Close("completed", "none")
       ELSE Close("halted", "resource_budget_exceeded")

\* Mutant: the sequence does not count the files.
NextExecuted_Uncounted ==
    /\ pc = "executed" /\ call.span \notin First
    /\ IF call.span = "close" THEN Sum /\ UNCHANGED written
       ELSE IF result.status # "completed"
       THEN Close(result.status, result.reason) /\ UNCHANGED written
       ELSE /\ pc' = "slot" /\ written' = written \cup Range(plan.assets)
            /\ UNCHANGED <<result, ledger>>
    /\ plan' = NoPlan
    /\ UNCHANGED <<call, task, narrowed, slot, some, listed, files, bounds, history>>

\* The closing plan's own status is not looked at.
NextExecuted ==
    /\ pc = "executed" /\ call.span \notin First
    /\ IF call.span = "close" THEN Sum /\ UNCHANGED <<slot, written>>
       ELSE IF result.status # "completed"
       THEN Close(result.status, result.reason) /\ UNCHANGED <<slot, written>>
       ELSE /\ pc' = "slot" /\ slot' = slot + 1
            /\ written' = written \cup Range(plan.assets)
            /\ UNCHANGED <<result, ledger>>
    /\ plan' = NoPlan
    /\ UNCHANGED <<call, task, narrowed, some, listed, files, bounds, history>>

\* The next file; after the last one a task that named more files than it has
\* attempts is asked once more.
NextSlot ==
    /\ pc = "slot"
    /\ IF slot <= Slots /\ Landed THEN Close("completed", "none") /\ UNCHANGED call
       ELSE IF slot <= Slots \/ Cardinality(task.required) > task.attempts
       THEN /\ call' = Call(IF slot <= Slots THEN "next" ELSE "close")
            /\ pc' = "post" /\ UNCHANGED <<result, ledger>>
       ELSE Sum /\ UNCHANGED call
    /\ UNCHANGED <<taskVars, files, bounds, history>>

----------------------------------------------------------------------------
\* _finish_verified_task, up to the repairs.

\* The scripts that are looked at for a data file, besides those in the trace.
Exporters ==
    LET Scripts(dirs, stem) == [dir : dirs, stem : {stem}, py : {TRUE}, spelled : {"plain"}]
    IN Scripts({"top", "app", "src", "scripts", "bin"}, "export")
       \cup Scripts({"top", "app"}, "report") \cup Scripts({"top"}, "pipeline")

\* _generate_missing_artifacts runs them one after the other, in each of the
\* ways they may want to be called, until the data files are there: which of
\* these they make, and what else they write, is up to them.
Artifacts ==
    LET missing == task.data \ files
        scripts == {p \in (result.trace \cup Exporters) \cap files : p.py}
    IN
    /\ pc = "finish" /\ pc' = "tests"
    /\ \E made \in SUBSET missing, astray \in Stray(files) :
         /\ Counted(astray)
         /\ astray \cup made # {} => missing # {} /\ scripts # {}
         /\ files' = files \cup made
         /\ as' = Age(as, astray) /\ th' = Age(th, astray) /\ listed' = Age(listed, astray)
    /\ UNCHANGED <<call, task, plan, narrowed, slot, written, some, result, tasks, before>>
    /\ touched' = {} /\ excused' = FALSE     \* no plan follows

HasTests == \E p \in files : is_preset_test_path(p)

\* What the tests leave goes to the host verifier.
Tested(value) ==
    /\ pc = "tests" /\ pc' = "grade"
    /\ result' = [value EXCEPT !.trace = {}]
    /\ UNCHANGED <<call, taskVars, files, tasks, history>>

Untested ==
    /\ ~(result.status = "completed" /\ task.sandbox /\ HasTests)
    /\ Tested(result)
    /\ UNCHANGED <<ledger, faults>>

\* apply_verifier_evidence: what was blocked stays so, with its own reason.
TestsPass ==
    LET blocked == result.delivery = "blocked"
        tests == PresetTests(files)
        whole == ~blocked /\ ~some.failed /\ ~some.surplus IN
    /\ result.status = "completed" /\ task.sandbox /\ HasTests
    /\ Tested(Outcome(IF blocked THEN "halted" ELSE "completed", result.reason,
                      IF whole THEN "deliverable" ELSE "blocked"))
    /\ IF whole \/ tests # {} THEN Deliver(tests) ELSE UNCHANGED ledger
    /\ UNCHANGED faults

TestsFail ==
    /\ Fault
    /\ result.status = "completed" /\ task.sandbox /\ HasTests
    /\ \E reason \in IF result.delivery = "blocked" THEN {result.reason}
                     ELSE {"verifier_failed", "verifier_timeout"} :
         Tested(Outcome("halted", reason, "blocked"))
    /\ UNCHANGED ledger

\* A full score of the host overrules the tests and the execution, a lower one
\* too; it may give no number.  A failed verdict is what the repairs are for.
Graded ==
    /\ pc = "grade"
    /\ \E value \in {result} \cup
          IF task.host THEN {[result EXCEPT !.status = "completed", !.reason = "none"],
                             [result EXCEPT !.status = "halted", !.reason = "verifier_failed"]}
          ELSE {} :
         IF /\ value.reason = "verifier_failed" /\ task.attempts > 0
            /\ task.sandbox \/ task.host
         THEN pc' = "repair" /\ result' = value /\ UNCHANGED Locals
         ELSE Return(value)
    /\ UNCHANGED <<task, files, ledger, bounds, history>>

\* The bound is reached, or the repairs of RepairLoop take over.
Done ==
    /\ pc = "repair" \/ (pc = "idle" /\ tasks = MaxTasks)
    /\ UNCHANGED vars

Work ==
    \/ \E code \in Codes : HttpFails(code)
    \/ Unreachable \/ Unreadable \/ Dropped
    \/ \E answer \in Answers : Answered(answer)
    \/ FirstPlanned \/ NextPlanned \/ Degraded \/ NotApproved \/ RunTask \/ Engine
    \/ FirstExecuted \/ NextExecuted \/ NextSlot
    \/ Artifacts \/ Untested \/ TestsPass \/ TestsFail \/ Graded
Next == Begin \/ (\E p \in Paths : Edit(p)) \/ Work \/ Done

\* A request is answered, refused or times out, executions and tests end.
Spec == Init /\ [][Next]_vars /\ WF_vars(Work)

----------------------------------------------------------------------------
\* Properties.

TypeOK ==
    /\ task \in Tasks
    /\ pc \in {"idle", "post", "planned", "execute", "executed", "slot", "finish",
              "tests", "grade", "repair"}
    /\ call.channel \in {"main", "fallback"} /\ call.attempt \in 0 .. 2
    /\ {File(p) : p \in written} \subseteq Paths /\ files \subseteq Paths
    /\ slot \in 0 .. Slots + 1
    /\ \A record \in {listed, as, th} : record \in [Paths -> {"now", "stale", "none"}]

\* A file the task says to leave alone is not written by a plan of the model,
\* be it an asset, a patch or a step, in whichever call it came, with two
\* exceptions: the plan of the closing call, which is not filtered, and a file
\* that is protected with its directory and that the plan spells otherwise.  An
\* existing test is written over by no asset and no step, however it is spelled.
\* What a command writes is its own affair.
ProtectedFilesAreKept ==
    \A w \in touched : w.by # "command" =>
        /\ NameIsProtected(w.path) => w.closing
        /\ File(w.path) \in task.protected => w.closing \/ w.path.spelled # "plain"
        /\ File(w.path) \in PresetTests(before) => w.by = "patch"

\* A plan that was not put before anybody changes nothing in strict mode, and
\* in scoped_auto mode only files under src/, whatever way it asks for it and
\* however many plans follow it; and it runs no command.
UnapprovedStaysInScope ==
    task.explicit /\ ~task.asks =>
        \A w \in touched :
            task.mode = "scoped_auto" /\ w.path.dir = "src" /\ w.by # "command"

\* The file was given as an asset, under the name the task has for it, by a plan
\* that completed.
GivenWhole(p) == \E w \in touched : w.path = p /\ w.by = "asset" /\ w.whole

\* A narrow sequence that ends as completed has written every file the task
\* asks for, whatever name the plans spell it by, unless the model said there
\* is nothing to do or left out what it had promised.  One in which every file
\* was given whole does not halt before its closing call.  Only that: a file
\* written by a patch or a step, by a plan that broke off, or under another
\* spelling does not count, and such a sequence may halt with every file there.
SequenceTellsTheFiles ==
    pc = "finish" /\ slot > 0 =>
        /\ result.status = "completed" /\ ~excused => task.required \subseteq PathsOf(touched)
        /\ task.required # {} /\ (\A p \in task.required : GivenWhole(p)) =>
              result.status = "completed" \/ call.span = "close"

\* Every task ends, or is handed over to the repairs.
TaskEnds == pc # "idle" ~> pc \in {"idle", "repair"}
=============================================================================
