-------------------------- MODULE TerminalSession --------------------------
(***************************************************************************)
(* A terminal session of the model (kernel/terminal_loop.py) and the task  *)
(* around it (kernel/model_terminal.py): the model is asked for one action *)
(* a turn, the session gates and executes it, keeps the test files as they *)
(* were at the start and stops when the model repeats itself; a finished   *)
(* session is tested in the sandbox and entered in the global ledger.      *)
(*                                                                         *)
(* What the session's scanners make of a command's text (does it write a   *)
(* test file?) is their verdict, either way.  The test files are either as *)
(* in the session's snapshot or changed.                                   *)
(***************************************************************************)
EXTENDS Integers, Sequences

CONSTANTS
    Sessions,    \* how a session is run, records as in SessionsAssumption
    Commands,    \* command lines
    Reads,       \* file ranges to read
    MaxTurns

ASSUME SessionsAssumption ==
    \A s \in Sessions :
        /\ s.strict \in BOOLEAN       \* approval_mode is "strict"
        /\ s.callback \in BOOLEAN     \* there is an execution_approval callback
        /\ s.auto \in BOOLEAN         \* auto_approved_for_eval
        /\ s.sandbox \in BOOLEAN      \* a sandbox and a tests directory
ASSUME TurnsAssumption == MaxTurns \in Nat
NoItem == "none"
ASSUME ItemsAssumption == NoItem \notin Commands \cup Reads

VARIABLES
    session,
    stage,       \* "turn", "judge", "done", "raised"
    steps,       \* what the model asked for and what came of it
    tests,       \* "original" or "changed"
    broken,      \* test_integrity_broken
    lastCommand, \* [item, stalls]: last_command_signature, consecutive_stalls
    lastRead,    \* the same for reads
    result,      \* [status, reason]
    ledger       \* wal_write_status: "none", "ok", "failed"

signatures == <<lastCommand, lastRead>>
sessionVars == <<session, stage, steps, tests, broken, signatures, result, ledger>>

Step(type, item, status) == [type |-> type, item |-> item, status |-> status]
NoRepeat == [item |-> NoItem, stalls |-> 0]
Result(status, reason) == [status |-> status, reason |-> reason]
Running == Result("none", "none")

LastStatus == IF steps = <<>> THEN "none" ELSE steps[Len(steps)].status
HasModified == \E i \in 1 .. Len(steps) :
                  steps[i].type = "patch" /\ steps[i].status = "ok"

SessionInit ==
    /\ session \in Sessions
    /\ stage = "turn" /\ steps = <<>>
    /\ tests = "original" /\ broken = FALSE
    /\ lastCommand = NoRepeat /\ lastRead = NoRepeat
    /\ result = Running /\ ledger = "none"

----------------------------------------------------------------------------
\* A turn: the step is recorded and the loop goes on or ends.

Asked == stage = "turn" /\ Len(steps) < MaxTurns

Record(step) ==
    /\ steps' = Append(steps, step)
    /\ UNCHANGED <<session, ledger>>

Continue(step) == Record(step) /\ UNCHANGED <<stage, result>>

Halt(step, reason) ==
    /\ Record(step)
    /\ stage' = "judge" /\ result' = Result("halted", reason)

\* Mutant: the test files are only compared once something was caught before.
VerifyTests_OnceBroken(found, intact) ==
    /\ intact = ~broken
    /\ broken' = ~intact
    /\ tests' = IF intact THEN found ELSE "original"

\* verify_test_files_integrity on the test files it finds: a mismatch, now or
\* before, puts the snapshot back.
VerifyTests(found, intact) ==
    /\ intact = (found = "original" /\ ~broken)
    /\ broken' = ~intact
    /\ tests' = "original"

\* The strict gate: the callback decides; without one only an evaluation passes.
Gated(verdict) ==
    IF ~session.strict THEN verdict = "approved"
    ELSE IF session.callback THEN verdict \in {"approved", "approval_denied"}
    ELSE verdict = IF session.auto THEN "approved" ELSE "approval_required"

GateBlocks(type, item) ==
    /\ \E verdict \in {"approval_denied", "approval_required"} : Gated(verdict)
    /\ Continue(Step(type, item, "blocked"))
    /\ UNCHANGED <<tests, broken, signatures>>

\* Mutant: every repetition is taken for the first.
Repeats_First(last, item, again) == [item |-> item, stalls |-> IF again THEN 1 ELSE 0]

\* The repetition counter of commands and reads.
Repeats(last, item, again) ==
    [item |-> item, stalls |-> IF again THEN last.stalls + 1 ELSE 0]
Stagnates(repeats) == repeats.stalls >= 2

----------------------------------------------------------------------------
\* The model's actions.

\* The provider fails twice: the session is over.
ProviderFails ==
    /\ Asked
    /\ stage' = "judge" /\ result' = Result("halted", "provider_error")
    /\ UNCHANGED <<session, steps, tests, broken, signatures, ledger>>

PatchTestFile ==
    /\ Asked
    /\ Halt(Step("patch", "test", "blocked"), "preset_test_immutable")
    /\ UNCHANGED <<tests, broken, signatures>>

Patch ==
    /\ Asked
    /\ \/ GateBlocks("patch", "file")
       \/ /\ Gated("approved")
          /\ \E status \in {"ok", "error"} : Continue(Step("patch", "file", status))
          /\ lastCommand' = NoRepeat /\ lastRead' = NoRepeat
          /\ UNCHANGED <<tests, broken>>

\* A command whose text names test files is caught before it runs.
CommandIsCaught ==
    /\ Asked
    /\ \E c \in Commands :
        Halt(Step("command", c, "blocked"), "preset_test_immutable")
    /\ broken' = TRUE
    /\ UNCHANGED <<tests, signatures>>

\* The command ran, or the tool refused it, and the test files it left are
\* compared.
CommandReturns(c, left, status) ==
    \E intact \in BOOLEAN :
        /\ VerifyTests(left, intact)
        /\ IF intact THEN Continue(Step("command", c, status))
           ELSE Halt(Step("command", c, "blocked"), "preset_test_immutable")

\* The tool raised, perhaps after the command had run (its output was no
\* UTF-8): an error like any other, and nothing is compared.
CommandRaises(c, left) ==
    /\ Continue(Step("command", c, "error"))
    /\ tests' = left
    /\ UNCHANGED broken

RunCommand(c) ==
    /\ lastRead' = NoRepeat
    /\ LET repeats == Repeats(lastCommand, c,
                              lastCommand.item = c /\ LastStatus = "error") IN
       /\ lastCommand' = repeats
       /\ IF Stagnates(repeats)
          THEN /\ Halt(Step("command", c, "halted"), "stagnation_loop")
               /\ UNCHANGED <<tests, broken>>
          ELSE \E left \in {"original", "changed"} :
               \/ \E status \in {"ok", "error"} : CommandReturns(c, left, status)
               \/ CommandRaises(c, left)

\* A command without words is an error that leaves the signature of the last.
EmptyCommand ==
    /\ Continue(Step("command", NoItem, "error"))
    /\ lastRead' = NoRepeat
    /\ UNCHANGED <<tests, broken, lastCommand>>

Command ==
    /\ Asked
    /\ \/ \E c \in Commands :
            GateBlocks("command", c) \/ (Gated("approved") /\ RunCommand(c))
       \/ Gated("approved") /\ EmptyCommand

\* A path that is refused or missing does not count as a repetition.
ReadFile ==
    /\ Asked
    /\ lastCommand' = NoRepeat
    /\ UNCHANGED <<tests, broken>>
    /\ \E r \in Reads :
        \/ /\ \E status \in {"blocked", "error"} : Continue(Step("read_file", r, status))
           /\ UNCHANGED lastRead
        \/ LET repeats == Repeats(lastRead, r, lastRead.item = r) IN
           /\ lastRead' = repeats
           /\ IF Stagnates(repeats)
              THEN Halt(Step("read_file", r, "halted"), "stagnation_loop")
              ELSE \E status \in {"ok", "error"} :
                      Continue(Step("read_file", r, status))

\* Also what an answer without an action_type means.
Finish ==
    /\ Asked
    /\ UNCHANGED signatures
    /\ \E intact \in BOOLEAN :
        /\ VerifyTests(tests, intact)
        /\ \/ /\ ~intact
              /\ Halt(Step("finish", NoItem, "blocked"), "preset_test_immutable")
           \/ /\ intact /\ ~HasModified
              /\ Continue(Step("finish", NoItem, "error"))
           \/ /\ intact /\ HasModified
              /\ Record(Step("finish", NoItem, "ok"))
              /\ stage' = "judge" /\ result' = Result("completed", "agent_finished")

UnknownAction ==
    /\ Asked
    /\ Continue(Step("unknown", NoItem, "error"))
    /\ UNCHANGED <<tests, broken, signatures>>

TurnsSpent ==
    /\ stage = "turn" /\ Len(steps) = MaxTurns
    /\ stage' = "judge" /\ result' = Result("halted", "turn_limit_exhausted")
    /\ UNCHANGED <<session, steps, tests, broken, signatures, ledger>>

----------------------------------------------------------------------------
\* The task around the session.

\* A finished session is tested, if there is where to; a completed task is
\* entered in the global ledger.  An append the disk refuses is a warning; a
\* damaged ledger raises, and the result is lost.
Judge ==
    /\ stage = "judge"
    /\ UNCHANGED <<session, steps, tests, broken, signatures>>
    /\ \/ /\ result.status = "halted"
          /\ stage' = "done" /\ UNCHANGED <<result, ledger>>
       \/ /\ result.status = "completed" /\ session.sandbox
          /\ \E verdict \in {"verifier_failed", "verifier_timeout"} :
                result' = Result("halted", verdict)
          /\ stage' = "done" /\ UNCHANGED ledger
       \/ /\ result.status = "completed"
          /\ \/ ledger' \in {"ok", "failed"} /\ stage' = "done" /\ UNCHANGED result
             \/ stage' = "raised" /\ result' = Running /\ UNCHANGED ledger

Ended == stage \in {"done", "raised"} /\ UNCHANGED sessionVars

SessionNext ==
    \/ ProviderFails \/ PatchTestFile \/ Patch \/ CommandIsCaught \/ Command
    \/ ReadFile \/ Finish \/ UnknownAction \/ TurnsSpent \/ Judge \/ Ended

SessionSpec == SessionInit /\ [][SessionNext]_sessionVars

----------------------------------------------------------------------------
\* The types of the session's state.
Entries == [type : {"command", "read_file", "patch", "finish", "unknown"},
            item : Commands \cup Reads \cup {NoItem, "test", "file"},
            status : {"ok", "error", "blocked", "halted"}]
SessionTypeOK ==
    /\ session \in Sessions
    /\ stage \in {"turn", "judge", "done", "raised"}
    /\ steps \in Seq(Entries) /\ Len(steps) <= MaxTurns
    /\ tests \in {"original", "changed"} /\ broken \in BOOLEAN
    /\ lastCommand \in [item : Commands \cup {NoItem}, stalls : 0 .. 2]
    /\ lastRead \in [item : Reads \cup {NoItem}, stalls : 0 .. 2]
    /\ result \in [status : {"none", "completed", "halted"},
                   reason : {"none", "provider_error", "preset_test_immutable",
                             "stagnation_loop", "turn_limit_exhausted",
                             "agent_finished", "verifier_failed", "verifier_timeout"}]
    /\ ledger \in {"none", "ok", "failed"}

\* A task is only reported completed over the test files the session began
\* with and with a patch of its own, also when a command's changes to the test
\* files went unseen for some turns.
FinishIsEarned ==
    result.status = "completed" => tests = "original" /\ ~broken /\ HasModified

\* What the counters count: a failing command and a read that succeeds.  (A
\* command without words is no command: it only costs its turn.)
IsCounted(step) ==
    /\ step.item # NoItem
    /\ <<step.type, step.status>> \in {<<"command", "error">>, <<"read_file", "ok">>}

\* The steps that may lie between two of those and spare the count.
Spares(step, counted) ==
    IF counted.type = "command"
    THEN /\ step.status = "error"
         /\ \/ step.type \in {"finish", "unknown"}
            \/ step.type = "command" /\ step.item \in {counted.item, NoItem}
    ELSE \/ step.type \in {"finish", "unknown"} \/ step.status = "blocked"
         \/ step.type = "read_file" /\ step.item = counted.item

\* The model cannot turn in place: the same failing command is not carried out
\* three times with nothing between but refused finishes, unknown actions and
\* commands without words, nor the same read with nothing between but those two,
\* steps that were blocked and reads of the same range that failed.  Anything
\* else starts the count anew, and the third time is carried out: for a command
\* a patch (one that fails too), a read or a step the gate blocked, for a read a
\* patch or a command that was let through or a read of another range
\* (_handle_command and _handle_read_file look at the last signature, a command
\* at the last step's status too, and another kind of action forgets it).
NothingIsRepeatedThrice ==
    \A i, j, k \in 1 .. Len(steps) :
        /\ i < j /\ j < k
        /\ IsCounted(steps[i]) /\ steps[j] = steps[i] /\ steps[k] = steps[i]
        => \E between \in i .. k : ~Spares(steps[between], steps[i])
=============================================================================
