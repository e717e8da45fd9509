--------------------------- MODULE MCRunEvidence ---------------------------
(***************************************************************************)
(* Small instances of RunEvidence: the threads of a plan and their main    *)
(* thread, and the commands of one process.                                *)
(***************************************************************************)
EXTENDS RunEvidence, TLC

CONSTANTS a, b, main

OneProcess == [c \in Clients |-> main]
OwnProcess == [c \in Clients |-> c]
Doing(script) == [c \in Clients |-> IF c \in DOMAIN script THEN script[c] ELSE <<>>]

\* Two parallel steps of one tool call each.
Plan == [script  |-> (a :> <<"task">>) @@ (b :> <<"task">>) @@ (main :> <<"aggregate">>),
         process |-> OneProcess, intents |-> 1]
Alone(script, intents) == [script |-> Doing(a :> script), process |-> OwnProcess,
                           intents |-> intents]
\* A run of two actions, and nothing after it.
PlainRun == Alone(<<"task">>, 2)
\* A run-plan with verifiers and two repair attempts, and one that is resumed.
RunPlan == Alone(<<"task", "verdict", "fix", "reverdict", "fix", "reverdict", "close">>, 2)
Resumed == Alone(<<"task", "verdict", "fix", "reverdict", "close", "resume">>, 2)
Refusal == Alone(<<"refuse">>, 1)
\* A light run, and another under the same id.
Light   == Alone(<<"light", "light">>, 1)

RunScenarios == {Plan, PlainRun, RunPlan, Resumed, Refusal, Light}

\* The hypotheses of the theorems CheckpointsOnRecord and CommandsAreInspected.
ASSUME ScenariosAreOfCli == CommandsAlone /\ CommandsOfCli
=============================================================================
