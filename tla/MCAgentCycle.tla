---------------------------- MODULE MCAgentCycle ----------------------------
(***************************************************************************)
(* Small instances of AgentCycle.                                          *)
(***************************************************************************)
EXTENDS AgentCycle, TLC

CONSTANTS c1, c2

\* A cycle of four turns whose callback approves: the counters.
Long == [max_turns |-> (c1 :> 4) @@ (c2 :> 0), calls |-> Calls,
         callbacks |-> {"approves"}, ids |-> 0]
\* One cycle after another: the store across cycles.
Sequence == [max_turns |-> (c1 :> 2) @@ (c2 :> 0), calls |-> GatedCalls,
             callbacks |-> Callbacks, ids |-> MaxIds]
\* Two cycles at the same time.
Together == [max_turns |-> (c1 :> 1) @@ (c2 :> 1), calls |-> GatedCalls,
             callbacks |-> {"absent"}, ids |-> 1]

AnyWorkload == {Long, Sequence, Together}
TwoCycles   == {Together}
=============================================================================
