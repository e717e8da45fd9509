----------------------------- MODULE AgentCycle -----------------------------
(***************************************************************************)
(* run_agent_cycle (kernel/agent_cycle.py): turns of at most two proposed  *)
(* tool calls, judged by the status algebra, with the counters that stop a *)
(* cycle that repeats itself, misses or retries; and the store of pending  *)
(* approvals its gated calls wait in (kernel/cycle_approvals.py), shared   *)
(* by all cycles of a workspace and by the approval endpoint of the web    *)
(* API.  One file per call signature holds the id of its pending approval. *)
(*                                                                         *)
(* A record is read without a lock and unlinked by a cycle without a lock; *)
(* it is written, and unlinked by a resolver, under pending-cycle.lock.    *)
(* What a model proposes and what a tool returns is any of the cases the   *)
(* cycle tells apart.                                                      *)
(***************************************************************************)
EXTENDS StatusAlgebra, Integers, Sequences, FiniteSets

CONSTANTS
    Cycles,         \* callers of run_agent_cycle in one workspace
    GatedCalls,     \* calls that need approval: writes, patches, commands, commits, mcp
    ReadCalls,      \* calls of READ_ONLY_TOOLS
    Workloads,      \* turns cycles are given, calls models propose, callbacks' answers
    Decisions,      \* what resume_pending_approval is asked to do
    max_read_misses,
    MaxIds,         \* bound on the approval ids drawn, in any workload
    None

Calls == GatedCalls \cup ReadCalls
ASSUME CallsAssumption ==
    GatedCalls \cap ReadCalls = {} /\ None \notin Calls \cup Cycles

\* What the approve callback says, "absent" without one.
Callbacks == {"absent", "approves", "refuses"}
ASSUME BoundsAssumption ==
    /\ \A w \in Workloads :
          /\ w.max_turns \in [Cycles -> Nat]
          /\ w.calls \subseteq Calls /\ w.callbacks \subseteq Callbacks
          /\ w.ids \in 0 .. MaxIds
    /\ Decisions \subseteq {"approved", "rejected"}
    /\ max_read_misses \in Nat \ {0}
    /\ MaxIds \in Nat

VARIABLES
    workload,       \* the workload at hand, chosen once
    pending,        \* the id in the record of a gated call, 0 without a record
    ids,            \* ids drawn so far
    resolver,       \* the resolve request that holds pending-cycle.lock
    approved,       \* ids the endpoint answered "approved" for
    pc,             \* where a cycle is
    granted,        \* granted_approval_ids
    approve,        \* its callback
    turn,           \* turns it has used
    allowed,        \* the tools it may use
    proposal,       \* the calls of the turn that are left
    found,          \* the id the call at hand was let through for, 0 for none
    repeat,         \* the counters over its calls
    runs,           \* history: how often who ran a call under an id
    offered,        \* history: ids some cycle reported as pending_id
    answered,       \* history: ids consumed, rejected or resumed
    overlap,        \* history: two cycles have run at the same time
    fruitless       \* history: unproductive calls in a row

store   == <<pending, ids, resolver, approved>>
cycle   == <<pc, granted, approve, turn, allowed, proposal, found, repeat>>
history == <<runs, offered, answered, overlap, fruitless>>
vars    == <<workload, store, cycle, history>>

Counters == [signature : Calls \cup {None}, warned : BOOLEAN, retryable : BOOLEAN,
             miss_streak : 0 .. 2, read_miss_streak : 0 .. max_read_misses,
             retry_streak : 0 .. 2]
Fresh == [signature |-> None, warned |-> FALSE, retryable |-> FALSE,
          miss_streak |-> 0, read_miss_streak |-> 0, retry_streak |-> 0]

\* Who can run a call under an id: a cycle, or the endpoint that resumes it.
Runners == Cycles \cup {None}
Idle(c) == pc[c] = "idle"

Init ==
    /\ workload \in Workloads
    /\ pending = [x \in GatedCalls |-> 0]
    /\ ids = 0
    /\ resolver = None
    /\ approved = {}
    /\ pc = [c \in Cycles |-> "idle"]
    /\ granted = [c \in Cycles |-> {}]
    /\ approve = [c \in Cycles |-> "absent"]
    /\ turn = [c \in Cycles |-> 0]
    /\ allowed = [c \in Cycles |-> Calls]
    /\ proposal = [c \in Cycles |-> <<>>]
    /\ found = [c \in Cycles |-> 0]
    /\ repeat = [c \in Cycles |-> Fresh]
    /\ runs = [r \in Runners \X (1 .. MaxIds) |-> 0]
    /\ offered = {}
    /\ answered = {}
    /\ overlap = FALSE
    /\ fruitless = [c \in Cycles |-> 0]

-----------------------------------------------------------------------------
(* The turns of a cycle *)

\* run_agent_cycle is called with the ids its caller knows to be approved.
run_agent_cycle(c) ==
    /\ Idle(c) /\ workload.max_turns[c] > 0
    /\ \E ok \in SUBSET approved : granted' = [granted EXCEPT ![c] = ok]
    /\ \E says \in workload.callbacks : approve' = [approve EXCEPT ![c] = says]
    /\ pc' = [pc EXCEPT ![c] = "propose"]
    /\ overlap' = (overlap \/ \E d \in Cycles \ {c} : ~Idle(d))
    /\ UNCHANGED <<workload, store, turn, allowed, proposal, found, repeat, runs, offered,
                   answered, fruitless>>

\* A cycle ends, or dies with its process, and forgets; its caller may start
\* another.
End(c) ==
    /\ pc' = [pc EXCEPT ![c] = "idle"]
    /\ turn' = [turn EXCEPT ![c] = 0]
    /\ granted' = [granted EXCEPT ![c] = {}]
    /\ approve' = [approve EXCEPT ![c] = "absent"]
    /\ allowed' = [allowed EXCEPT ![c] = Calls]
    /\ proposal' = [proposal EXCEPT ![c] = <<>>]
    /\ found' = [found EXCEPT ![c] = 0]
    /\ repeat' = [repeat EXCEPT ![c] = Fresh]
    /\ fruitless' = [fruitless EXCEPT ![c] = 0]

Dies(c) ==
    /\ ~Idle(c)
    /\ End(c)
    /\ UNCHANGED <<workload, store, runs, offered, answered, overlap>>

\* The turns are used up, or the model proposes nothing more.
Stop(c) ==
    /\ pc[c] = "propose"
    /\ End(c)
    /\ UNCHANGED <<workload, store, runs, offered, answered, overlap>>

\* Mutant: progress renews the budget.
Propose_Renewed(c) ==
    /\ pc[c] = "propose" /\ turn[c] < workload.max_turns[c]
    /\ \E calls \in {<<x>> : x \in workload.calls} \cup (workload.calls \X workload.calls) :
          proposal' = [proposal EXCEPT ![c] = calls]
    /\ turn' = [turn EXCEPT ![c] = IF fruitless[c] = 0 THEN 1 ELSE @ + 1]
    /\ pc' = [pc EXCEPT ![c] = "call"]
    /\ UNCHANGED <<workload, store, granted, approve, allowed, found, repeat, history>>

\* Two calls of what the model proposes are taken.
Propose(c) ==
    /\ pc[c] = "propose" /\ turn[c] < workload.max_turns[c]
    /\ \E calls \in {<<x>> : x \in workload.calls} \cup (workload.calls \X workload.calls) :
          proposal' = [proposal EXCEPT ![c] = calls]
    /\ turn' = [turn EXCEPT ![c] = @ + 1]
    /\ pc' = [pc EXCEPT ![c] = "call"]
    /\ UNCHANGED <<workload, store, granted, approve, allowed, found, repeat, history>>

\* A turn goes on in the next one unless the status algebra stops the cycle or
\* asks for a verifier; a miss leaves it only the reading tools.
EndTurn(c, decision, noted, misses) ==
    IF decision \in {"stop", "verify"} THEN End(c)
    ELSE /\ pc' = [pc EXCEPT ![c] = "propose"]
         /\ allowed' = [allowed EXCEPT ![c] =
                           IF decision = "read_only_continue" THEN ReadCalls ELSE Calls]
         /\ proposal' = [proposal EXCEPT ![c] = <<>>]
         /\ found' = [found EXCEPT ![c] = 0]
         /\ repeat' = [repeat EXCEPT ![c] = noted]
         /\ fruitless' = [fruitless EXCEPT ![c] = misses]
         /\ UNCHANGED <<granted, approve, turn>>

-----------------------------------------------------------------------------
(* One call: _run_proposal *)

Call(c) == proposal[c][1]

MissesAreUp(c) ==
    repeat[c].miss_streak >= 2 \/ repeat[c].read_miss_streak >= max_read_misses

\* A tool that is not allowed now is a permission denial, too many misses are
\* no progress.
RefuseCall(c) ==
    /\ pc[c] = "call"
    /\ Call(c) \notin allowed[c] \/ MissesAreUp(c)
    /\ End(c)
    /\ UNCHANGED <<workload, store, runs, offered, answered, overlap>>

\* _approval_gate lets a read pass.
PassRead(c) ==
    /\ pc[c] = "call"
    /\ Call(c) \in allowed[c] \ GatedCalls /\ ~MissesAreUp(c)
    /\ pc' = [pc EXCEPT ![c] = "execute"]
    /\ UNCHANGED <<workload, store, granted, approve, turn, allowed, proposal, found, repeat,
                   history>>

\* The cycle reports the pending id and ends.
ReportPending(c, id) ==
    /\ End(c)
    /\ offered' = offered \cup {id}

\* The id in the call's record, 0 without one.
find_pending_approval(c) == pending[Call(c)]

\* Mutant: the record is deleted before the grant is looked at.
FindPending_Consume(c) ==
    /\ pc[c] = "call"
    /\ Call(c) \in allowed[c] \cap GatedCalls /\ ~MissesAreUp(c)
    /\ pending' = [pending EXCEPT ![Call(c)] = 0]
    /\ ReportPending(c, pending[Call(c)])
    /\ UNCHANGED <<workload, ids, resolver, approved, runs, answered, overlap>>

\* _approval_gate: a record that is not granted is reported, whatever
\* the callback would say; without a record the callback decides.
FindPending(c) ==
    /\ pc[c] = "call"
    /\ Call(c) \in allowed[c] \cap GatedCalls /\ ~MissesAreUp(c)
    /\ LET id == find_pending_approval(c) IN
       \/ /\ id # 0 /\ id \notin granted[c]
          /\ ReportPending(c, id)
       \/ /\ id # 0 /\ id \in granted[c]
          /\ pc' = [pc EXCEPT ![c] = "consume"]
          /\ found' = [found EXCEPT ![c] = id]
          /\ UNCHANGED <<granted, approve, turn, allowed, proposal, repeat, offered, fruitless>>
       \/ /\ id = 0 /\ approve[c] = "refuses"
          /\ End(c)
          /\ UNCHANGED offered
       \/ /\ id = 0 /\ approve[c] # "refuses"
          /\ pc' = [pc EXCEPT ![c] = IF approve[c] = "approves" THEN "execute" ELSE "persist"]
          /\ UNCHANGED <<granted, approve, turn, allowed, proposal, found, repeat, offered,
                         fruitless>>
    /\ UNCHANGED <<workload, store, runs, answered, overlap>>

\* Mutant: the record stays when the call is let through.
Consume_Keep(c) ==
    /\ pc[c] = "consume"
    /\ pc' = [pc EXCEPT ![c] = "execute"]
    /\ UNCHANGED <<workload, store, granted, approve, turn, allowed, proposal, found, repeat,
                   history>>

\* consume_pending_approval unlinks the file of the call, whatever id it holds
\* by now; a callback may still refuse.
Consume(c) ==
    /\ pc[c] = "consume"
    /\ pending' = [pending EXCEPT ![Call(c)] = 0]
    /\ answered' = answered \cup {found[c]}
    /\ \/ /\ approve[c] # "refuses"
          /\ pc' = [pc EXCEPT ![c] = "execute"]
          /\ UNCHANGED <<granted, approve, turn, allowed, proposal, found, repeat, fruitless>>
       \/ approve[c] = "refuses" /\ End(c)
    /\ UNCHANGED <<workload, ids, resolver, approved, runs, offered, overlap>>

\* persist_pending_approval looks once more before it writes.
FindAgain(c) ==
    /\ pc[c] = "persist"
    /\ LET id == find_pending_approval(c) IN
       \/ id # 0 /\ ReportPending(c, id)
       \/ /\ id = 0
          /\ pc' = [pc EXCEPT ![c] = "write"]
          /\ UNCHANGED <<granted, approve, turn, allowed, proposal, found, repeat, offered,
                         fruitless>>
    /\ UNCHANGED <<workload, store, runs, answered, overlap>>

\* _atomic_write replaces what is there.
WriteRecord(c) ==
    /\ pc[c] = "write" /\ resolver = None /\ ids < workload.ids
    /\ ids' = ids + 1
    /\ pending' = [pending EXCEPT ![Call(c)] = ids + 1]
    /\ ReportPending(c, ids + 1)
    /\ UNCHANGED <<workload, resolver, approved, runs, answered, overlap>>

\* Past the bound on ids the cycle ends without a record.
WriteRefused(c) ==
    /\ pc[c] = "write" /\ ids = workload.ids
    /\ End(c)
    /\ UNCHANGED <<workload, store, runs, offered, answered, overlap>>

\* The second call in a row with one signature is not run but answered with the
\* output of the first; the third ends the cycle.  A retryable one runs.
Repeated(c) == Call(c) = repeat[c].signature /\ ~repeat[c].retryable
WarnRepeat(c) ==
    /\ pc[c] = "execute" /\ Repeated(c)
    /\ \/ repeat[c].warned /\ End(c)
       \/ /\ ~repeat[c].warned
          /\ EndTurn(c, agent_cycle_decision("completed", NoReason),
                     [repeat[c] EXCEPT !.warned = TRUE], fruitless[c])
    /\ UNCHANGED <<workload, store, runs, offered, answered, overlap>>

-----------------------------------------------------------------------------
(* What a call returns *)

\* Completed calls that found something or not, a miss, a command that failed
\* (its returncode is data), a fault and a tool's own retry (429, 503).
Outcomes(call) ==
    IF call \in ReadCalls THEN {"found", "empty", "miss", "fault", "retry"}
    ELSE {"done", "fault", "retry"}
Status(outcome) == IF outcome \in {"fault", "retry"} THEN "halted" ELSE "completed"
Reason(outcome) ==
    IF outcome = "miss" THEN "search_miss"
    ELSE IF outcome = "fault" THEN "action_exception"
    ELSE IF outcome = "retry" THEN "http_timeout"
    ELSE NoReason

\* _unproductive: a read that misses or is empty; another call that changes no
\* file and whose output is the one before, or the first.
Unproductive(outcome) ==
    IF outcome \in {"miss", "empty"} THEN {TRUE}
    ELSE IF outcome = "done" THEN BOOLEAN
    ELSE {FALSE}

\* Mutant: a miss of one kind resets the streak of the other.
note_progress_Reset(r, call, unproductive) ==
    IF unproductive /\ call \in ReadCalls
    THEN [r EXCEPT !.read_miss_streak = @ + 1, !.miss_streak = 0]
    ELSE IF unproductive THEN [r EXCEPT !.miss_streak = @ + 1, !.read_miss_streak = 0]
    ELSE [r EXCEPT !.miss_streak = 0, !.read_miss_streak = 0]

note_progress(r, call, unproductive) ==
    IF unproductive /\ call \in ReadCalls THEN [r EXCEPT !.read_miss_streak = @ + 1]
    ELSE IF unproductive THEN [r EXCEPT !.miss_streak = @ + 1]
    ELSE [r EXCEPT !.miss_streak = 0, !.read_miss_streak = 0]

\* repeat after the call ran.
Noted(r, call, outcome, unproductive) ==
    LET ran == [r EXCEPT !.signature = call, !.warned = FALSE]
    IN IF outcome = "retry"
       THEN [ran EXCEPT !.retryable = TRUE, !.retry_streak = @ + 1,
                        !.miss_streak = 0, !.read_miss_streak = 0]
       ELSE note_progress([ran EXCEPT !.retryable = FALSE, !.retry_streak = 0],
                          call, unproductive)

\* The turn's last call decides, since one that is not plainly completed ends
\* the turn; a tool's own retry counts as completed.
agent_cycle_decision_for_tool(outcome) ==
    IF outcome = "retry" THEN agent_cycle_decision("completed", NoReason)
    ELSE agent_cycle_decision(Status(outcome), Reason(outcome))
PlainlyCompleted(outcome) == Status(outcome) = "completed" /\ Reason(outcome) = NoReason

\* The third retry in a row is no progress.
Execute(c) ==
    /\ pc[c] = "execute" /\ ~Repeated(c)
    /\ \E outcome \in Outcomes(Call(c)) : \E unproductive \in Unproductive(outcome) :
          LET noted == Noted(repeat[c], Call(c), outcome, unproductive)
              misses == IF unproductive THEN fruitless[c] + 1 ELSE 0
          IN \/ noted.retry_streak >= 3 /\ End(c)
             \/ /\ PlainlyCompleted(outcome) /\ Len(proposal[c]) > 1
                /\ repeat' = [repeat EXCEPT ![c] = noted]
                /\ fruitless' = [fruitless EXCEPT ![c] = misses]
                /\ proposal' = [proposal EXCEPT ![c] = Tail(@)]
                /\ found' = [found EXCEPT ![c] = 0]
                /\ pc' = [pc EXCEPT ![c] = "call"]
                /\ UNCHANGED <<granted, approve, turn, allowed>>
             \/ /\ noted.retry_streak < 3 /\ ~(PlainlyCompleted(outcome) /\ Len(proposal[c]) > 1)
                /\ EndTurn(c, agent_cycle_decision_for_tool(outcome), noted, misses)
    /\ runs' = IF found[c] = 0 THEN runs ELSE [runs EXCEPT ![<<c, found[c]>>] = @ + 1]
    /\ UNCHANGED <<workload, store, offered, answered, overlap>>

-----------------------------------------------------------------------------
(* The approval endpoint: handle_onecode_approval_resolve and               *)
(* resume_pending_approval                                                  *)

Shown == {pending[x] : x \in GatedCalls} \ {0}

\* An approval is answered and changes nothing: a caller passes the id on.
Approve(id) ==
    /\ id \in Shown
    /\ approved' = approved \cup {id}
    /\ UNCHANGED <<workload, pending, ids, resolver, cycle, history>>

\* Under the lock the record with the id is looked up ...
MatchRecord(id) ==
    /\ id \in Shown /\ resolver = None
    /\ \E x \in GatedCalls, decision \in Decisions :
          /\ pending[x] = id
          /\ resolver' = [id |-> id, call |-> x, decision |-> decision]
    /\ UNCHANGED <<workload, pending, ids, approved, cycle, history>>

\* ... and its file unlinked; an approved call is run by the resolver.
Resume ==
    /\ resolver # None
    /\ pending' = [pending EXCEPT ![resolver.call] = 0]
    /\ answered' = answered \cup {resolver.id}
    /\ runs' = IF resolver.decision = "approved"
               THEN [runs EXCEPT ![<<None, resolver.id>>] = @ + 1] ELSE runs
    /\ resolver' = None
    /\ UNCHANGED <<workload, ids, approved, cycle, offered, overlap, fruitless>>

\* The kernel releases the lock of a resolver that dies.
ResolverDies ==
    /\ resolver # None
    /\ resolver' = None
    /\ UNCHANGED <<workload, pending, ids, approved, cycle, history>>

-----------------------------------------------------------------------------
CycleStep(c) ==
    \/ Stop(c) \/ Propose(c) \/ RefuseCall(c) \/ PassRead(c)
    \/ FindPending(c) \/ Consume(c) \/ FindAgain(c) \/ WriteRecord(c) \/ WriteRefused(c)
    \/ WarnRepeat(c) \/ Execute(c)

Next ==
    \/ \E c \in Cycles : run_agent_cycle(c) \/ CycleStep(c) \/ Dies(c)
    \/ \E id \in 1 .. MaxIds : Approve(id) \/ MatchRecord(id)
    \/ Resume \/ ResolverDies

Spec == Init /\ [][Next]_vars

\* Models, tools and callbacks return and who holds the lock goes on.  Only the
\* lock can stop a cycle, and flock queues who waits for it: a cycle is not
\* overtaken for ever.
FairSpec ==
    /\ Spec
    /\ \A c \in Cycles : SF_vars(CycleStep(c))
    /\ WF_vars(Resume \/ ResolverDies)

-----------------------------------------------------------------------------
(* Properties *)

TypeOK ==
    /\ workload \in Workloads
    /\ pending \in [GatedCalls -> 0 .. ids]
    /\ ids \in 0 .. workload.ids
    /\ resolver \in [id : 1 .. ids, call : GatedCalls, decision : Decisions]
                    \cup {None}
    /\ approved \in SUBSET (1 .. ids)
    /\ pc \in [Cycles -> {"idle", "propose", "call", "consume", "persist", "write", "execute"}]
    /\ granted \in [Cycles -> SUBSET approved]
    /\ approve \in [Cycles -> Callbacks]
    /\ turn \in [Cycles -> Nat]
    /\ \A c \in Cycles : turn[c] <= workload.max_turns[c]
    /\ allowed \in [Cycles -> {Calls, ReadCalls}]
    /\ proposal \in [Cycles -> Seq(Calls)]
    /\ \A c \in Cycles : Len(proposal[c]) <= 2
    /\ found \in [Cycles -> 0 .. ids]
    /\ repeat \in [Cycles -> Counters]
    /\ runs \in [Runners \X (1 .. MaxIds) -> Nat]
    /\ offered \in SUBSET (1 .. ids)
    /\ answered \in SUBSET (1 .. ids)
    /\ overlap \in BOOLEAN
    /\ fruitless \in [Cycles -> Nat]

\* Nobody runs a call twice under one approval, also not a caller that starts
\* cycle after cycle with the same grant, some of which die: the record goes
\* before the call runs, and a record that is gone does not come back.
HolderRunsOnce == \A r \in Runners, id \in 1 .. MaxIds : runs[<<r, id>>] <= 1

\* As long as the cycles of a workspace do not overlap, an approval that was
\* reported to a caller waits in the store until it is answered: neither a later
\* cycle, nor one that dies, nor the endpoint loses or replaces it.
OfferedIsPending == ~overlap => offered \subseteq answered \cup Shown

\* Whatever a model proposes, a cycle runs at most max_read_misses + 1 calls in a
\* row that find or change nothing: the two streaks are stopped at before the
\* next call, and only progress or a retry resets them.
FruitlessIsBounded == \A c \in Cycles : fruitless[c] <= max_read_misses + 1

\* Every cycle ends, whatever is proposed and returned and whoever dies holding
\* the store's lock.
CyclesEnd == \A c \in Cycles : ~Idle(c) ~> Idle(c)

\* An explicit approval runs its call once
\* (docs/closure/ONECODE_TEST_SUMMARY_2026-09-29.md:129).
ApprovalRunsOnce ==
    \A id \in 1 .. MaxIds :
        Cardinality({r \in Runners : runs[<<r, id>>] > 0}) <= 1
=============================================================================
