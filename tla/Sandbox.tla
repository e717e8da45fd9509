------------------------------ MODULE Sandbox ------------------------------
(***************************************************************************)
(* The containers of one workspace (kernel/sandbox.py): the container that *)
(* run_command's calls share, shared also by every process that works in   *)
(* the workspace, and the named container of one verifier run.  The        *)
(* containers of gradings are added by Harness.                            *)
(*                                                                         *)
(* A step is one docker command: the daemon is external and does each of   *)
(* them at once.  A call is a thread inside run_in_reused_sandbox or       *)
(* run_verifier; threads of one process (its host) take turns at the       *)
(* shared container by _container_lock, other processes do not.            *)
(***************************************************************************)
EXTENDS Grading, FiniteSets

CONSTANTS
    Commands, Verifications, Gradings,   \* calls, by kind
    Deliveries,  \* verifications that verify_shell_write makes of a write
    Host,        \* the process a command's call belongs to
    Image,       \* the image a process asks for
    Scenes,      \* sets of calls that may take place together
    Runs,        \* what a verification's command may come to
    MaxFaults    \* docker commands that fail by themselves, resets, changed tests

Calls == Commands \cup Verifications \cup Gradings
NoImage == "none"
NoResult == "none"

ASSUME CallsAreApart ==
    /\ Commands \cap Verifications = {} /\ Commands \cap Gradings = {}
    /\ Verifications \cap Gradings = {}
    /\ Scenes \subseteq SUBSET Calls
    /\ Deliveries \subseteq Verifications
    /\ MaxFaults \in Nat

VARIABLES
    scene,
    pc,       \* the docker command a call issues next, or where it waits
    box,      \* the shared container, as docker and the host's files have it
    live,     \* calls whose command runs in a container
    result,   \* what a call returned
    faults,
    ran, image, ender, echoed, facts   \* history
history == <<ran, image, ender, echoed, facts>>
vars == <<scene, pc, box, live, result, faults, history>>

NoBox == [made |-> FALSE, image |-> NoImage, up |-> FALSE, detached |-> FALSE]
NewBox(c) == [made |-> TRUE, image |-> Image[Host[c]], up |-> FALSE, detached |-> FALSE]
NoFacts == [code |-> NoCode, reward |-> Ungraded, report |-> NoDetail,
            unittest |-> FALSE, tests |-> Nothing, ok |-> FALSE, whole |-> TRUE]

Init ==
    /\ scene \in Scenes
    /\ pc = [c \in Calls |-> IF c \in scene THEN "called" ELSE "away"]
    /\ box = NoBox /\ live = {}
    /\ result = [c \in Calls |-> NoResult]
    /\ faults = 0
    /\ ran = [c \in Calls |-> 0]
    /\ image = [c \in Calls |-> NoImage]
    /\ ender = [c \in Calls |-> c]
    /\ echoed = {}
    /\ facts = [c \in Calls |-> NoFacts]

GoTo(c, place) == pc' = [pc EXCEPT ![c] = place]
Return(c, what) == GoTo(c, "done") /\ result' = [result EXCEPT ![c] = what]
Stay == UNCHANGED result
CountedRuns == 3          \* ran counts as far as this
Count(c) == ran' = [ran EXCEPT ![c] = IF @ < CountedRuns THEN @ + 1 ELSE @]

\* In docker exec, which learns when its command dies.
Waiting(c) == c \in Commands /\ pc[c] \in {"wait", "wait again"}

\* A docker command of c that ends every process in the shared container.
EndsAll(c) ==
    /\ live' = live \ Commands
    /\ ender' = [d \in Calls |-> IF d \in live /\ d # c /\ Waiting(d) THEN c
                                 ELSE ender[d]]

----------------------------------------------------------------------------
(* run_in_reused_sandbox: the lock of the process, then _ensure_reused_container. *)

Inside(c) == pc[c] \notin {"called", "away", "done"}
LockIsFree(c) == \A d \in Commands : Host[d] = Host[c] => ~Inside(d)

\* Mutant: there is no lock.
Enter_NoLock(c) ==
    /\ pc[c] = "called"
    /\ GoTo(c, "inspect") /\ Stay
    /\ UNCHANGED <<scene, box, live, faults, history>>

Enter(c) ==
    /\ pc[c] = "called" /\ LockIsFree(c)
    /\ GoTo(c, "inspect") /\ Stay
    /\ UNCHANGED <<scene, box, live, faults, history>>

Inspect(c) ==
    /\ pc[c] = "inspect"
    /\ GoTo(c, IF box.made THEN "compare" ELSE "create") /\ Stay
    /\ UNCHANGED <<scene, box, live, faults, history>>

\* _container_image_differs: an inspection that fails says no.
Compare(c) ==
    /\ pc[c] = "compare"
    /\ GoTo(c, IF box.made /\ box.image # Image[Host[c]] THEN "remove" ELSE "state")
    /\ Stay
    /\ UNCHANGED <<scene, box, live, faults, history>>

Remove(c) ==
    /\ pc[c] = "remove"
    /\ box' = NoBox /\ EndsAll(c)
    /\ GoTo(c, "create") /\ Stay
    /\ UNCHANGED <<scene, faults, ran, image, echoed, facts>>

\* docker create fails when the name is taken; the failed create is returned
\* as the result of the call.
Create(c) ==
    /\ pc[c] = "create"
    /\ IF box.made THEN Return(c, "docker") /\ UNCHANGED box
       ELSE GoTo(c, "start") /\ Stay /\ box' = NewBox(c)
    /\ UNCHANGED <<scene, live, faults, history>>

State(c) ==
    /\ pc[c] = "state"
    /\ GoTo(c, IF box.made /\ box.up THEN "exec" ELSE "start") /\ Stay
    /\ UNCHANGED <<scene, box, live, faults, history>>

Start(c) ==
    /\ pc[c] = "start"
    /\ IF box.made THEN GoTo(c, "exec") /\ Stay /\ box' = [box EXCEPT !.up = TRUE]
       ELSE Return(c, "docker") /\ UNCHANGED box
    /\ UNCHANGED <<scene, live, faults, history>>

\* Any of these docker commands may fail or time out, and the call with it.
DockerFails(c) ==
    /\ pc[c] \in {"inspect", "remove", "create", "state", "start"}
    /\ faults < MaxFaults /\ faults' = faults + 1
    /\ Return(c, "docker")
    /\ UNCHANGED <<scene, box, live, history>>

----------------------------------------------------------------------------
(* _run_in_reused_sandbox: the command, a second try, a timeout. *)

\* docker exec.  A container whose mount has lost the workspace refuses it
\* before the command runs ("possible container breakout detected").
Exec(c) ==
    /\ pc[c] \in {"exec", "again"}
    /\ IF ~box.made \/ ~box.up
       THEN Return(c, "docker") /\ UNCHANGED <<live, ran, image>>
       ELSE IF box.detached
       THEN /\ IF pc[c] = "exec" THEN GoTo(c, "renew") /\ Stay
               ELSE Return(c, "refused")
            /\ UNCHANGED <<live, ran, image>>
       ELSE /\ live' = live \cup {c}
            /\ Count(c)
            /\ image' = [image EXCEPT ![c] = box.image]
            /\ GoTo(c, IF pc[c] = "exec" THEN "wait" ELSE "wait again") /\ Stay
    /\ UNCHANGED <<scene, box, faults, ender, echoed, facts>>

Finish(c) ==
    /\ Waiting(c)
    /\ live' = live \ {c}
    /\ Return(c, IF c \in live THEN "finished" ELSE "cut")
    /\ UNCHANGED <<scene, box, faults, history>>

\* Mutant: what says so is tried again as often as it says so.
Echo_AsOftenAsItSays(c) ==
    /\ Waiting(c) /\ c \in live
    /\ live' = live \ {c} /\ echoed' = echoed \cup {c}
    /\ GoTo(c, "renew") /\ Stay
    /\ UNCHANGED <<scene, box, faults, ran, image, ender, facts>>

\* The words are looked for in the output of the command as well: one that
\* fails and prints them itself is taken for a refusal.
Echo(c) ==
    /\ pc[c] = "wait" /\ c \in live
    /\ live' = live \ {c} /\ echoed' = echoed \cup {c}
    /\ GoTo(c, "renew") /\ Stay
    /\ UNCHANGED <<scene, box, faults, ran, image, ender, facts>>

\* docker rm -f, of which the result is not looked at, then docker create.
Renew(c) ==
    /\ pc[c] = "renew"
    /\ box' = NoBox /\ EndsAll(c)
    /\ GoTo(c, "recreate") /\ Stay
    /\ UNCHANGED <<scene, faults, ran, image, echoed, facts>>

Recreate(c) ==
    /\ pc[c] = "recreate"
    /\ IF box.made THEN Return(c, "refused") /\ UNCHANGED box
       ELSE GoTo(c, "restart it") /\ Stay /\ box' = NewBox(c)
    /\ UNCHANGED <<scene, live, faults, history>>

StartAgain(c) ==
    /\ pc[c] = "restart it"
    /\ box' = [box EXCEPT !.up = box.made]
    /\ GoTo(c, "again") /\ Stay
    /\ UNCHANGED <<scene, live, faults, history>>

\* Mutant: a command that takes too long is given another try.
Expire_TriesAgain(c) ==
    /\ Waiting(c) /\ c \in live
    /\ GoTo(c, IF pc[c] = "wait" THEN "renew" ELSE "expired") /\ Stay
    /\ UNCHANGED <<scene, box, live, faults, history>>

\* The docker client is killed; the command in the container is not.
Expire(c) ==
    /\ Waiting(c) /\ c \in live
    /\ GoTo(c, "expired") /\ Stay
    /\ UNCHANGED <<scene, box, live, faults, history>>

\* Mutant: a timeout leaves the container alone.
Restart_LeavesItRunning(c) ==
    /\ pc[c] = "expired"
    /\ Return(c, "timeout")
    /\ UNCHANGED <<scene, box, live, faults, history>>

\* docker restart: that there is no such container is as good.
Restart(c) ==
    /\ pc[c] = "expired"
    /\ box' = [box EXCEPT !.up = box.made] /\ EndsAll(c)
    /\ Return(c, "timeout")
    /\ UNCHANGED <<scene, faults, ran, image, echoed, facts>>

RestartFails(c) ==
    /\ pc[c] = "expired"
    /\ faults < MaxFaults /\ faults' = faults + 1
    /\ Return(c, "raised")
    /\ UNCHANGED <<scene, box, live, history>>

\* The host replaces the workspace's directory under a container.
ReplaceWorkspace ==
    /\ box.made /\ ~box.detached
    /\ faults < MaxFaults /\ faults' = faults + 1
    /\ box' = [box EXCEPT !.detached = TRUE]
    /\ UNCHANGED <<scene, pc, live, result, history>>

----------------------------------------------------------------------------
(* run_verifier, in a container of its own that docker run creates. *)

\* verify_shell_write: a write into a workspace without tests is returned as it
\* is, one that changed them blocked; else the verifier has two stages if the
\* written path has a test file of its name.
verify_shell_write(c) ==
    /\ c \in Deliveries /\ pc[c] = "called"
    /\ \/ \E one \in BOOLEAN : /\ facts' = [facts EXCEPT ![c].whole = ~one]
                               /\ GoTo(c, "stage") /\ Stay
       \/ \E what \in {"unverified", "blocked"} : Return(c, what) /\ UNCHANGED facts
    /\ UNCHANGED <<scene, box, live, faults, ran, image, ender, echoed>>

Ready(c) == c \in Verifications /\ pc[c] = IF c \in Deliveries THEN "stage" ELSE "called"

\* No sandbox, no docker, no daemon, an image of another platform or without
\* python: a stage that never began.
Refuse(c) ==
    /\ Ready(c)
    /\ Return(c, "failed")
    /\ UNCHANGED <<scene, box, live, faults, history>>

Launch(c) ==
    /\ Ready(c)
    /\ live' = live \cup {c}
    /\ GoTo(c, "wait") /\ Stay
    /\ UNCHANGED <<scene, box, faults, history>>

\* What a call returns for the verdict of its last stage.
Delivered(c, verdict) ==
    IF c \in Deliveries /\ verdict = "skipped" THEN "unverified" ELSE verdict

Verified(c, run) ==
    /\ c \in Verifications /\ pc[c] = "wait"
    /\ ~facts[c].whole => run.unittest
    /\ live' = live \ {c}
    /\ facts' = [facts EXCEPT ![c] = [@ EXCEPT !.code = run.code, !.tests = run.tests,
                                               !.ok = run.ok, !.unittest = run.unittest]]
    /\ facts[c].whole \/ VerifierStatus(run) # "passed"
    /\ Return(c, Delivered(c, VerifierStatus(run)))
    /\ UNCHANGED <<scene, box, faults, ran, image, ender, echoed>>

\* run_two_stage_verifier: when the one test file passes, all tests are run; when
\* it does not, or has no test, its verdict is the verdict.
SecondStage(c, run) ==
    /\ c \in Verifications /\ pc[c] = "wait"
    /\ ~facts[c].whole /\ run.unittest /\ VerifierStatus(run) = "passed"
    /\ live' = live \ {c}
    /\ facts' = [facts EXCEPT ![c].whole = TRUE]
    /\ GoTo(c, "stage") /\ Stay
    /\ UNCHANGED <<scene, box, faults, ran, image, ender, echoed>>

\* docker kill by the container's name, and the TimeoutExpired is raised again.
VerifierExpires(c) ==
    /\ c \in Verifications /\ pc[c] = "wait"
    /\ live' = live \ {c}
    /\ Return(c, "failed")
    /\ UNCHANGED <<scene, box, faults, history>>

\* docker kill fails: a RuntimeError, which run_verifier does not catch.
KillFails(c) ==
    /\ c \in Verifications /\ pc[c] = "wait"
    /\ faults < MaxFaults /\ faults' = faults + 1
    /\ Return(c, "raised")
    /\ UNCHANGED <<scene, box, live, history>>

\* What nobody waits for comes to its end by itself.
EndsUnwatched(c) ==
    /\ c \in live /\ pc[c] \in {"done", "away"}
    /\ live' = live \ {c}
    /\ UNCHANGED <<scene, pc, box, result, faults, history>>

----------------------------------------------------------------------------
CallStep(c) ==
    \/ Enter(c) \/ Inspect(c) \/ Compare(c) \/ Remove(c) \/ Create(c) \/ State(c)
    \/ Start(c) \/ DockerFails(c) \/ Exec(c) \/ Finish(c) \/ Echo(c) \/ Renew(c)
    \/ Recreate(c) \/ StartAgain(c) \/ Expire(c) \/ Restart(c) \/ RestartFails(c)

VerifierStep(c) ==
    \/ verify_shell_write(c) \/ Refuse(c) \/ Launch(c)
    \/ \E run \in Runs : Verified(c, run) \/ SecondStage(c, run)
    \/ VerifierExpires(c) \/ KillFails(c)

ProgressOf(c) == (c \in Commands /\ CallStep(c)) \/ VerifierStep(c)

----------------------------------------------------------------------------
\* A call that has returned has no command running behind it, unless docker
\* itself refused to end it (the RuntimeError).  Gradings are left out: a
\* container whose grader's time is up is never killed (verifier.py:1022,
\* harbor_scheduler.py:245) and may run on.
NothingRunsOn ==
    \A c \in Commands \cup Verifications :
        pc[c] = "done" /\ result[c] # "raised" => c \notin live

\* The threads of one process are no trouble to each other: a command is cut
\* short, or runs in an image its process did not ask for, only by a command
\* of another process (whose containers have the same name).
OnlyOthersInterfere ==
    \A c \in Commands :
        /\ Host[ender[c]] = Host[c] => ender[c] = c
        /\ image[c] \notin {NoImage, Image[Host[c]]} =>
              \E d \in Commands : Host[d] # Host[c] /\ pc[d] \notin {"called", "away"}

\* A command is not run a second time, although the call tries again when the
\* container has lost the workspace; unless its own output has the words the
\* call looks for.
RunsOnce == \A c \in Commands : ran[c] > 1 => c \in echoed /\ ran[c] = 2
=============================================================================
