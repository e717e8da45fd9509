--------------------------- MODULE Governed_proof ---------------------------
(***************************************************************************)
(* Proofs about the two loops that status codes govern.  AgentCycle: for   *)
(* any number of cycles, calls and approvals, with deaths anywhere, nobody *)
(* runs a call twice under one approval, an offered approval waits until   *)
(* it is answered as long as cycles do not overlap, and the calls in a row *)
(* that achieve nothing are bounded.  ZiweiGovernance: for any tasks, the  *)
(* repairs are bounded, keep to the degraded mode where they must, and get *)
(* the autonomous one only after a run that had completed.                 *)
(***************************************************************************)
EXTENDS AgentCycle, ZiweiGovernance, TLAPS

\* Where a cycle is tells which call it has at hand.
AtCall == {"call", "consume", "persist", "write", "execute"}
AtGate == {"consume", "persist", "write"}
CallsAtHand ==
    \A c \in Cycles :
        /\ pc[c] \in AtCall => proposal[c] # <<>>
        /\ pc[c] \in AtGate => Call(c) \in GatedCalls

\* An id is in one record.
OneRecord ==
    \A x, y \in GatedCalls : pending[x] = pending[y] /\ pending[x] # 0 => x = y

\* A cycle that was let through under an id has not run a call under it; before
\* it consumes the record, the id is in no other one, afterwards in none.
Cleared(c) ==
    /\ found[c] # 0 => pc[c] \in {"consume", "execute"} /\ runs[<<c, found[c]>>] = 0
    /\ pc[c] = "consume" =>
          found[c] # 0 /\ \A x \in GatedCalls : pending[x] = found[c] => x = Call(c)
    /\ pc[c] = "execute" => \A x \in GatedCalls : found[c] # 0 => pending[x] # found[c]
LetThrough == \A c \in Cycles : Cleared(c)

\* The record a resolver holds the lock for has its id or is gone.
Resolving ==
    resolver # None =>
        /\ runs[<<None, resolver.id>>] = 0
        /\ pending[resolver.call] \in {0, resolver.id}
        /\ \A x \in GatedCalls : pending[x] = resolver.id => x = resolver.call

\* An id a call ran under was drawn and is in no record any more.
Spent ==
    \A r \in Runners, id \in 1 .. MaxIds :
        runs[<<r, id>>] # 0 =>
            /\ runs[<<r, id>>] = 1 /\ id <= ids
            /\ \A x \in GatedCalls : pending[x] # id

StoreInv == OneRecord /\ LetThrough /\ Resolving /\ Spent

\* As long as cycles have not overlapped, at most one is at work ...
Alone ==
    ~overlap => \A c, d \in Cycles : ~Idle(c) /\ ~Idle(d) => c = d

\* ... and nobody writes the record it is about to write or to delete.
Waiting ==
    ~overlap => \A c \in Cycles :
        /\ pc[c] = "write" => pending[Call(c)] = 0
        /\ pc[c] = "consume" => pending[Call(c)] \in {0, found[c]}

OfferInv == Alone /\ Waiting /\ OfferedIsPending

\* Calls without progress are counted by the two streaks, and a call that is past
\* the look at them finds both below their limits.
Covers(r, misses) ==
    /\ misses <= r.miss_streak + r.read_miss_streak
    /\ r.miss_streak + r.read_miss_streak <= max_read_misses + 1
Streaks ==
    \A c \in Cycles :
        /\ Covers(repeat[c], fruitless[c])
        /\ pc[c] \in AtGate \cup {"execute"} => ~MissesAreUp(c)

\* TypeOK and CallsAtHand in parts.
StoreTypes ==
    /\ workload \in Workloads
    /\ pending \in [GatedCalls -> 0 .. ids]
    /\ ids \in 0 .. workload.ids
    /\ resolver \in [id : 1 .. ids, call : GatedCalls, decision : Decisions] \cup {None}
    /\ approved \in SUBSET (1 .. ids)
    /\ runs \in [Runners \X (1 .. MaxIds) -> Nat]
    /\ offered \in SUBSET (1 .. ids)
    /\ answered \in SUBSET (1 .. ids)
    /\ overlap \in BOOLEAN
ControlTypes ==
    /\ pc \in [Cycles -> {"idle", "propose", "call", "consume", "persist", "write", "execute"}]
    /\ granted \in [Cycles -> SUBSET approved]
    /\ approve \in [Cycles -> Callbacks]
    /\ turn \in [Cycles -> Nat]
    /\ \A c \in Cycles : turn[c] <= workload.max_turns[c]
    /\ allowed \in [Cycles -> {Calls, ReadCalls}]
    /\ found \in [Cycles -> 0 .. ids]
HandTypes ==
    /\ proposal \in [Cycles -> Seq(Calls)]
    /\ \A c \in Cycles : Len(proposal[c]) <= 2
    /\ CallsAtHand
CounterTypes ==
    /\ repeat \in [Cycles -> Counters]
    /\ fruitless \in [Cycles -> Nat]

IInv == TypeOK /\ CallsAtHand /\ StoreInv /\ OfferInv /\ Streaks

-----------------------------------------------------------------------------
(* What a step of a cycle does to its own state *)

\* It goes on with its call, ...
Moves(c) ==
    /\ pc[c] \in AtGate \/ (pc[c] = "call" /\ ~MissesAreUp(c))
    /\ \E p \in AtGate \cup {"execute"} :
          /\ pc' = [pc EXCEPT ![c] = p]
          /\ p \in AtGate => Call(c) \in GatedCalls
    /\ \E id \in 0 .. ids : found' = [found EXCEPT ![c] = id]
    /\ UNCHANGED <<granted, approve, turn, allowed, proposal, repeat, fruitless>>

\* ... counts it when it is done ...
Counts(c) ==
    /\ pc[c] = "execute"
    /\ \E r \in Counters, misses \in Nat :
          /\ repeat' = [repeat EXCEPT ![c] = r]
          /\ fruitless' = [fruitless EXCEPT ![c] = misses]
          /\ Covers(r, misses)
    /\ found' = [found EXCEPT ![c] = 0]
    /\ UNCHANGED <<granted, approve, turn>>

\* ... and turns to the next call or to the next turn.
NextCall(c) ==
    /\ Counts(c)
    /\ Len(proposal[c]) > 1
    /\ proposal' = [proposal EXCEPT ![c] = Tail(@)]
    /\ pc' = [pc EXCEPT ![c] = "call"]
    /\ UNCHANGED allowed
NextTurn(c) ==
    /\ Counts(c)
    /\ proposal' = [proposal EXCEPT ![c] = <<>>]
    /\ pc' = [pc EXCEPT ![c] = "propose"]
    /\ \E tools \in {Calls, ReadCalls} : allowed' = [allowed EXCEPT ![c] = tools]

Shape(c) == End(c) \/ Moves(c) \/ NextCall(c) \/ NextTurn(c)

\* What a call returned, in Execute.
Returned(c, outcome, unproductive) ==
    LET noted == Noted(repeat[c], Call(c), outcome, unproductive)
        misses == IF unproductive THEN fruitless[c] + 1 ELSE 0
    IN \/ noted.retry_streak >= 3 /\ End(c)
       \/ /\ PlainlyCompleted(outcome) /\ Len(proposal[c]) > 1
          /\ repeat' = [repeat EXCEPT ![c] = noted]
          /\ fruitless' = [fruitless EXCEPT ![c] = misses]
          /\ proposal' = [proposal EXCEPT ![c] = Tail(@)]
          /\ found' = [found EXCEPT ![c] = 0]
          /\ pc' = [pc EXCEPT ![c] = "call"]
          /\ UNCHANGED <<granted, approve, turn, allowed>>
       \/ /\ noted.retry_streak < 3 /\ ~(PlainlyCompleted(outcome) /\ Len(proposal[c]) > 1)
          /\ EndTurn(c, agent_cycle_decision_for_tool(outcome), noted, misses)

\* The counters keep their types when a field is set.
LEMMA SetCounters ==
  ASSUME NEW r \in Counters
  PROVE  /\ \A x \in Calls : [r EXCEPT !.signature = x] \in Counters
         /\ \A b \in BOOLEAN : [r EXCEPT !.warned = b] \in Counters
         /\ \A b \in BOOLEAN : [r EXCEPT !.retryable = b] \in Counters
         /\ \A n \in 0 .. 2 : [r EXCEPT !.miss_streak = n] \in Counters
         /\ \A n \in 0 .. 2 : [r EXCEPT !.retry_streak = n] \in Counters
         /\ \A n \in 0 .. max_read_misses : [r EXCEPT !.read_miss_streak = n] \in Counters
<1>1. \A x \in Calls : [r EXCEPT !.signature = x] \in Counters
  BY DEF Counters
<1>2. \A b \in BOOLEAN : [r EXCEPT !.warned = b] \in Counters
  BY DEF Counters
<1>3. \A b \in BOOLEAN : [r EXCEPT !.retryable = b] \in Counters
  BY DEF Counters
<1>4. \A n \in 0 .. 2 : [r EXCEPT !.miss_streak = n] \in Counters
  BY DEF Counters
<1>5. \A n \in 0 .. 2 : [r EXCEPT !.retry_streak = n] \in Counters
  BY DEF Counters
<1>6. \A n \in 0 .. max_read_misses : [r EXCEPT !.read_miss_streak = n] \in Counters
  BY DEF Counters
<1>7. QED
  BY <1>1, <1>2, <1>3, <1>4, <1>5, <1>6

\* A call that was not past the limits leaves the streaks within them.
LEMMA NotedCounts ==
  ASSUME NEW r \in Counters, NEW call \in Calls, NEW outcome, NEW unproductive \in BOOLEAN,
         r.miss_streak < 2, r.read_miss_streak < max_read_misses,
         outcome = "retry" => r.retry_streak < 2
  PROVE  Noted(r, call, outcome, unproductive) \in Counters
<1> DEFINE ran == [[r EXCEPT !.signature = call] EXCEPT !.warned = FALSE]
           plain == [[ran EXCEPT !.retryable = FALSE] EXCEPT !.retry_streak = 0]
<1>1. /\ 0 \in 0 .. 2 /\ 0 \in 0 .. max_read_misses
      /\ r.miss_streak + 1 \in 0 .. 2
      /\ r.read_miss_streak + 1 \in 0 .. max_read_misses
      /\ outcome = "retry" => r.retry_streak + 1 \in 0 .. 2
  BY BoundsAssumption DEF Counters
<1>2. ran \in Counters
  <2>1. [r EXCEPT !.signature = call] \in Counters
    BY SetCounters
  <2>2. QED
    BY <2>1, SetCounters
<1>3. plain \in Counters
  <2>1. [ran EXCEPT !.retryable = FALSE] \in Counters
    BY <1>2, SetCounters
  <2>2. QED
    BY <1>1, <2>1, SetCounters
<1>4. /\ ran.miss_streak = r.miss_streak /\ ran.read_miss_streak = r.read_miss_streak
      /\ ran.retry_streak = r.retry_streak
      /\ plain.miss_streak = r.miss_streak /\ plain.read_miss_streak = r.read_miss_streak
  BY DEF Counters
<1> HIDE DEF ran, plain
<1>5. CASE outcome = "retry"
  <2> DEFINE a == [ran EXCEPT !.retryable = TRUE]
             b == [a EXCEPT !.retry_streak = r.retry_streak + 1]
             d == [b EXCEPT !.miss_streak = 0]
             e == [d EXCEPT !.read_miss_streak = 0]
  <2>1. Noted(r, call, outcome, unproductive) = e
    BY <1>4, <1>5 DEF Noted, ran, Counters
  <2>2. a \in Counters
    BY <1>2, SetCounters
  <2>3. b \in Counters
    <3> HIDE DEF a
    <3> QED BY <1>1, <1>5, <2>2, SetCounters
  <2>4. d \in Counters
    <3> HIDE DEF b
    <3> QED BY <1>1, <2>3, SetCounters
  <2>5. e \in Counters
    <3> HIDE DEF d
    <3> QED BY <1>1, <2>4, SetCounters
  <2>6. QED
    <3> HIDE DEF e
    <3> QED BY <2>1, <2>5
<1>6. CASE outcome # "retry"
  <2>1. Noted(r, call, outcome, unproductive) = note_progress(plain, call, unproductive)
    BY <1>6 DEF Noted, plain, ran
  <2>2. note_progress(plain, call, unproductive) \in
          {[plain EXCEPT !.read_miss_streak = r.read_miss_streak + 1],
           [plain EXCEPT !.miss_streak = r.miss_streak + 1],
           [[plain EXCEPT !.miss_streak = 0] EXCEPT !.read_miss_streak = 0]}
    BY <1>4 DEF note_progress
  <2>3. [plain EXCEPT !.miss_streak = 0] \in Counters
    BY <1>1, <1>3, SetCounters
  <2>4. [[plain EXCEPT !.miss_streak = 0] EXCEPT !.read_miss_streak = 0] \in Counters
    BY <1>1, <2>3, SetCounters
  <2>5. /\ [plain EXCEPT !.read_miss_streak = r.read_miss_streak + 1] \in Counters
        /\ [plain EXCEPT !.miss_streak = r.miss_streak + 1] \in Counters
    BY <1>1, <1>3, SetCounters
  <2>6. QED
    BY <2>1, <2>2, <2>4, <2>5
<1>7. QED
  BY <1>5, <1>6

\* The streaks count an unproductive call, and only a productive one or a retry
\* resets them.
LEMMA CoversNoted ==
  ASSUME NEW r \in Counters, NEW call \in Calls, NEW outcome, NEW unproductive \in BOOLEAN,
         NEW misses \in Nat, Covers(r, misses), unproductive => outcome # "retry",
         r.miss_streak < 2, r.read_miss_streak < max_read_misses
  PROVE  Covers(Noted(r, call, outcome, unproductive), IF unproductive THEN misses + 1 ELSE 0)
<1> DEFINE n == Noted(r, call, outcome, unproductive)
<1> USE BoundsAssumption
<1>1. \/ n.miss_streak = 0 /\ n.read_miss_streak = 0 /\ ~unproductive
      \/ n.miss_streak = r.miss_streak + 1 /\ n.read_miss_streak = r.read_miss_streak
      \/ n.miss_streak = r.miss_streak /\ n.read_miss_streak = r.read_miss_streak + 1
  BY DEF Noted, note_progress, Counters
<1>2. r.miss_streak \in Nat /\ r.read_miss_streak \in Nat
  BY DEF Counters
<1> HIDE DEF n
<1>3. QED
  BY <1>1, <1>2 DEF Covers, n

\* The steps of a cycle have one of these shapes, but for the turn it takes.
LEMMA StepShape ==
  ASSUME TypeOK, CallsAtHand, Streaks, NEW c \in Cycles, CycleStep(c)
  PROVE  Shape(c) \/ Propose(c)
<1> USE DEF Shape
<1>1. ASSUME Stop(c) PROVE Shape(c)
  BY <1>1 DEF Stop
<1>2. ASSUME RefuseCall(c) PROVE Shape(c)
  BY <1>2 DEF RefuseCall
<1>3. ASSUME PassRead(c) PROVE Shape(c)
  BY <1>3 DEF PassRead, Moves, AtGate, history, TypeOK
<1>4. ASSUME FindPending(c) PROVE Shape(c)
  BY <1>4 DEF FindPending, find_pending_approval, ReportPending, Moves, AtGate, TypeOK
<1>5. ASSUME Consume(c) PROVE Shape(c)
  BY <1>5 DEF Consume, Moves, AtGate, TypeOK
<1>6. ASSUME FindAgain(c) PROVE Shape(c)
  BY <1>6 DEF FindAgain, find_pending_approval, ReportPending, Moves, AtGate, TypeOK, CallsAtHand
<1>7. ASSUME WriteRecord(c) \/ WriteRefused(c) PROVE Shape(c)
  BY <1>7 DEF WriteRecord, WriteRefused, ReportPending
<1>8. ASSUME WarnRepeat(c) PROVE Shape(c)
  <2> DEFINE warned == [repeat[c] EXCEPT !.warned = TRUE]
  <2>1. warned \in Counters
    BY SetCounters DEF TypeOK
  <2>2. Covers(warned, fruitless[c])
    BY DEF Covers, Streaks, Counters, TypeOK
  <2>3. CASE End(c)
    BY <2>3
  <2>4. CASE EndTurn(c, agent_cycle_decision("completed", NoReason), warned, fruitless[c])
    BY <1>8, <2>1, <2>2, <2>4 DEF WarnRepeat, EndTurn, NextTurn, Counts, TypeOK
  <2>5. QED
    BY <1>8, <2>3, <2>4 DEF WarnRepeat
<1>9. ASSUME Execute(c) PROVE Shape(c)
  <2>1. PICK outcome \in Outcomes(Call(c)) :
             \E unproductive \in Unproductive(outcome) : Returned(c, outcome, unproductive)
    BY <1>9 DEF Execute, Returned
  <2>2. PICK unproductive \in Unproductive(outcome) : Returned(c, outcome, unproductive)
    BY <2>1
  <2> DEFINE noted == Noted(repeat[c], Call(c), outcome, unproductive)
             misses == IF unproductive THEN fruitless[c] + 1 ELSE 0
  <2>3. /\ pc[c] = "execute" /\ ~MissesAreUp(c) /\ Call(c) \in Calls
        /\ repeat[c] \in Counters /\ Covers(repeat[c], fruitless[c])
        /\ unproductive \in BOOLEAN /\ (unproductive => outcome # "retry")
        /\ fruitless[c] \in Nat /\ misses \in Nat
    <3>1. pc[c] = "execute"
      BY <1>9 DEF Execute
    <3>2. /\ ~MissesAreUp(c) /\ repeat[c] \in Counters
          /\ Covers(repeat[c], fruitless[c]) /\ fruitless[c] \in Nat
      BY <3>1 DEF Streaks, TypeOK
    <3>3. Call(c) \in Calls
      BY <3>1 DEF CallsAtHand, AtCall, Call, TypeOK
    <3>4. unproductive \in BOOLEAN /\ (unproductive => outcome # "retry")
      BY DEF Unproductive
    <3>5. misses \in Nat
      BY <3>2
    <3>6. QED
      BY <3>1, <3>2, <3>3, <3>4, <3>5
  <2>4. CASE End(c)
    BY <2>4
  <2>5. ASSUME ~End(c)
        PROVE  noted \in Counters /\ Covers(noted, misses)
    <3>1. outcome = "retry" => repeat[c].retry_streak < 2
      BY <2>2, <2>3, <2>5 DEF Returned, Noted, PlainlyCompleted, Status, Counters
    <3>2. repeat[c].miss_streak < 2 /\ repeat[c].read_miss_streak < max_read_misses
      BY <2>3, BoundsAssumption DEF MissesAreUp, Counters
    <3>3. noted \in Counters
      BY <2>3, <3>1, <3>2, NotedCounts
    <3>4. Covers(noted, misses)
      BY <2>3, <3>2, CoversNoted
    <3>5. QED
      BY <3>3, <3>4
  <2>6. CASE ~End(c)
    <3> HIDE DEF noted, misses
    <3>1. \/ /\ Len(proposal[c]) > 1
             /\ repeat' = [repeat EXCEPT ![c] = noted]
             /\ fruitless' = [fruitless EXCEPT ![c] = misses]
             /\ proposal' = [proposal EXCEPT ![c] = Tail(@)]
             /\ found' = [found EXCEPT ![c] = 0]
             /\ pc' = [pc EXCEPT ![c] = "call"]
             /\ UNCHANGED <<granted, approve, turn, allowed>>
          \/ EndTurn(c, agent_cycle_decision_for_tool(outcome), noted, misses)
      BY <2>2, <2>6 DEF Returned, noted, misses
    <3>2. QED
      BY <2>3, <2>5, <2>6, <3>1 DEF EndTurn, NextTurn, NextCall, Counts
  <2>7. QED
    BY <2>4, <2>6
<1>10. QED
  BY <1>1, <1>2, <1>3, <1>4, <1>5, <1>6, <1>7, <1>8, <1>9 DEF CycleStep

-----------------------------------------------------------------------------
(* Types, and what is known of the call a cycle has at hand *)

LocalInv == ControlTypes /\ HandTypes /\ CounterTypes /\ Streaks

LEMMA LocalInvHolds ==
  ASSUME TypeOK, CallsAtHand, Streaks
  PROVE  LocalInv
BY DEF LocalInv, ControlTypes, HandTypes, CounterTypes, TypeOK

\* What a step of a cycle leaves of the store.
LEMMA StepFrame ==
  ASSUME TypeOK, NEW c \in Cycles, CycleStep(c)
  PROVE  /\ workload' = workload /\ approved' = approved
         /\ ids' = ids \/ ids' = ids + 1
<1> USE DEF CycleStep, store, history
<1> QED
  BY DEF Stop, Propose, RefuseCall, PassRead, FindPending, Consume, FindAgain, WriteRecord,
         WriteRefused, WarnRepeat, Execute

\* A step of one of the shapes keeps what is known of all cycles.
LEMMA ShapeKeeps ==
  ASSUME TypeOK, LocalInv, NEW c \in Cycles, Shape(c),
         workload' = workload, approved' = approved, ids' \in Nat, ids <= ids'
  PROVE  LocalInv'
<1>1. CASE End(c)
  <2>1. ControlTypes'
    <3>1. /\ pc' \in [Cycles -> {"idle", "propose", "call", "consume", "persist", "write", "execute"}]
          /\ granted' \in [Cycles -> SUBSET approved']
          /\ approve' \in [Cycles -> Callbacks] /\ allowed' \in [Cycles -> {Calls, ReadCalls}]
      BY <1>1 DEF End, LocalInv, ControlTypes, Callbacks
    <3>2. workload.max_turns[c] \in Nat
      BY BoundsAssumption DEF TypeOK
    <3>3. turn' \in [Cycles -> Nat] /\ \A d \in Cycles : turn'[d] <= workload'.max_turns[d]
      BY <1>1, <3>2 DEF End, LocalInv, ControlTypes
    <3>4. found' \in [Cycles -> 0 .. ids']
      BY <1>1 DEF End, TypeOK, LocalInv, ControlTypes
    <3>5. QED
      BY <3>1, <3>3, <3>4 DEF ControlTypes
  <2>2. HandTypes'
    BY <1>1 DEF End, LocalInv, HandTypes, CallsAtHand, AtCall, AtGate, Call, ControlTypes
  <2>3. Fresh \in Counters /\ Covers(Fresh, 0)
    BY BoundsAssumption DEF Fresh, Counters, Covers
  <2>4. CounterTypes' /\ Streaks'
    BY <1>1, <2>3 DEF End, LocalInv, CounterTypes, Streaks, MissesAreUp, AtGate, ControlTypes
  <2>5. QED
    BY <2>1, <2>2, <2>4 DEF LocalInv
<1>2. CASE Moves(c)
  <2>1. ControlTypes'
    BY SMTT(60), <1>2 DEF Moves, AtGate, TypeOK, LocalInv, ControlTypes
  <2>2. HandTypes'
    BY ZenonT(60), <1>2 DEF Moves, LocalInv, HandTypes, CallsAtHand, AtCall, AtGate, Call,
       ControlTypes
  <2>3. CounterTypes' /\ Streaks'
    BY <1>2 DEF Moves, LocalInv, CounterTypes, Streaks, MissesAreUp, AtGate, ControlTypes
  <2>4. QED
    BY <2>1, <2>2, <2>3 DEF LocalInv
<1>3. CASE NextCall(c)
  <2>1. ControlTypes'
    BY SMTT(60), <1>3 DEF NextCall, Counts, TypeOK, LocalInv, ControlTypes
  <2>2. HandTypes'
    <3>1. /\ Tail(proposal[c]) \in Seq(Calls) /\ Len(Tail(proposal[c])) <= 2
          /\ Tail(proposal[c]) # <<>>
      BY <1>3 DEF NextCall, LocalInv, HandTypes
    <3>2. QED
      BY <1>3, <3>1 DEF NextCall, LocalInv, HandTypes, CallsAtHand, AtCall, AtGate, Call,
                        ControlTypes
  <2>3. CounterTypes' /\ Streaks'
    BY SMTT(60), <1>3 DEF NextCall, Counts, LocalInv, CounterTypes, Streaks, MissesAreUp, AtGate,
       ControlTypes
  <2>4. QED
    BY <2>1, <2>2, <2>3 DEF LocalInv
<1>4. CASE NextTurn(c)
  <2>1. ControlTypes'
    BY SMTT(60), <1>4 DEF NextTurn, Counts, TypeOK, LocalInv, ControlTypes
  <2>2. HandTypes'
    BY <1>4 DEF NextTurn, Counts, LocalInv, HandTypes, CallsAtHand, AtCall, AtGate, Call, ControlTypes
  <2>3. CounterTypes' /\ Streaks'
    BY <1>4 DEF NextTurn, Counts, LocalInv, CounterTypes, Streaks, MissesAreUp, AtGate, ControlTypes
  <2>4. QED
    BY <2>1, <2>2, <2>3 DEF LocalInv
<1>5. QED
  BY <1>1, <1>2, <1>3, <1>4 DEF Shape

\* A new turn takes one or two calls.
LEMMA ProposeKeeps ==
  ASSUME TypeOK, LocalInv, NEW c \in Cycles, Propose(c)
  PROVE  LocalInv'
<1> USE DEF Propose, LocalInv, store, history
<1>1. ControlTypes'
  <2>1. turn[c] \in Nat /\ turn[c] + 1 <= workload.max_turns[c]
    BY BoundsAssumption DEF TypeOK
  <2>2. QED
    BY <2>1 DEF ControlTypes
<1>2. HandTypes'
  <2>1. workload.calls \subseteq Calls
    BY BoundsAssumption DEF TypeOK
  <2>2. PICK calls \in {<<x>> : x \in workload.calls} \cup (workload.calls \X workload.calls) :
          proposal' = [proposal EXCEPT ![c] = calls]
    OBVIOUS
  <2>3. calls \in Seq(Calls) /\ Len(calls) <= 2 /\ calls # <<>>
    <3>1. CASE calls \in {<<x>> : x \in workload.calls}
      <4>1. PICK x \in Calls : calls = <<x>>
        BY <2>1, <3>1
      <4>2. QED
        BY <4>1
    <3>2. CASE calls \in workload.calls \X workload.calls
      <4>1. PICK x \in Calls, y \in Calls : calls = <<x, y>>
        BY <2>1, <3>2
      <4>2. QED
        BY <4>1
    <3>3. QED
      BY <2>2, <3>1, <3>2
  <2>4. QED
    BY <2>2, <2>3 DEF HandTypes, CallsAtHand, AtCall, AtGate, Call, ControlTypes
<1>3. CounterTypes' /\ Streaks'
  BY DEF CounterTypes, Streaks, MissesAreUp, AtGate, ControlTypes
<1>4. QED
  BY <1>1, <1>2, <1>3

\* Every step keeps what is known of the cycles.
LEMMA LocalStep ==
  ASSUME TypeOK, CallsAtHand, Streaks, [Next]_vars
  PROVE  LocalInv'
<1> USE LocalInvHolds DEF store, cycle, history
<1>1. ASSUME NEW c \in Cycles, run_agent_cycle(c) PROVE LocalInv'
  <2> USE <1>1 DEF run_agent_cycle, LocalInv
  <2>1. ControlTypes'
    <3>1. /\ pc' \in [Cycles -> {"idle", "propose", "call", "consume", "persist", "write", "execute"}]
          /\ granted' \in [Cycles -> SUBSET approved']
      BY DEF ControlTypes
    <3>2. workload.callbacks \subseteq Callbacks
      BY BoundsAssumption DEF TypeOK
    <3>3. approve' \in [Cycles -> Callbacks]
      BY <3>2 DEF ControlTypes
    <3>4. QED
      BY <3>1, <3>3 DEF ControlTypes
  <2>2. HandTypes'
    BY DEF HandTypes, CallsAtHand, AtCall, AtGate, Call, ControlTypes
  <2>3. CounterTypes' /\ Streaks'
    BY DEF CounterTypes, Streaks, MissesAreUp, AtGate, ControlTypes
  <2>4. QED
    BY <2>1, <2>2, <2>3
<1>2. ASSUME NEW c \in Cycles, CycleStep(c) PROVE LocalInv'
  <2>1. /\ workload' = workload /\ approved' = approved
        /\ ids' \in Nat /\ ids <= ids'
    <3>1. workload' = workload /\ approved' = approved /\ (ids' = ids \/ ids' = ids + 1)
      BY <1>2, StepFrame
    <3>2. ids \in Nat
      BY BoundsAssumption DEF TypeOK
    <3>3. QED
      BY <3>1, <3>2
  <2>2. QED
    BY <1>2, <2>1, StepShape, ShapeKeeps, ProposeKeeps
<1>3. ASSUME NEW c \in Cycles, Dies(c) PROVE LocalInv'
  <2>1. ids \in Nat
    BY DEF TypeOK
  <2>2. QED
    BY <1>3, <2>1, ShapeKeeps DEF Dies, Shape
<1>4. ASSUME NEW id \in 1 .. MaxIds, Approve(id) \/ MatchRecord(id) PROVE LocalInv'
  BY <1>4 DEF Approve, MatchRecord, LocalInv, ControlTypes, HandTypes, CounterTypes,
              CallsAtHand, Streaks, MissesAreUp, Call
<1>5. CASE Resume \/ ResolverDies \/ UNCHANGED vars
  BY <1>5 DEF Resume, ResolverDies, vars, LocalInv, ControlTypes, HandTypes, CounterTypes,
              CallsAtHand, Streaks, MissesAreUp, Call
<1>6. QED
  BY <1>1, <1>2, <1>3, <1>4, <1>5 DEF Next

-----------------------------------------------------------------------------
(* Ids: who ran what under which *)

OthersKeep(c) ==
    \A d \in Cycles \ {c} : pc'[d] = pc[d] /\ found'[d] = found[d] /\ proposal'[d] = proposal[d]

\* A step that leaves the store and what ran as they are and the cycle with no id.
Quiet(c) ==
    /\ UNCHANGED <<pending, ids, resolver, runs>>
    /\ OthersKeep(c)
    /\ found'[c] = 0 /\ pc'[c] # "consume"

LEMMA QuietKeeps ==
  ASSUME LocalInv, StoreInv, NEW c \in Cycles, Quiet(c)
  PROVE  StoreInv'
<1> USE DEF StoreInv, Quiet
<1>1. OneRecord' /\ Resolving' /\ Spent'
  BY DEF OneRecord, Resolving, Spent, Runners
<1>2. LetThrough'
  <2> SUFFICES ASSUME NEW d \in Cycles
               PROVE  Cleared(d)'
    BY DEF LetThrough, Cleared
  <2>1. CASE d = c
    BY <2>1 DEF Cleared
  <2>2. CASE d # c
    BY <2>2 DEF LetThrough, Cleared, OthersKeep, Call
  <2>3. QED
    BY <2>1, <2>2
<1>3. QED
  BY <1>1, <1>2

\* A cycle leaves the others alone; one that ends has no id.
LEMMA OthersAreKept ==
  ASSUME LocalInv, NEW c \in Cycles, Shape(c) \/ Propose(c) \/ run_agent_cycle(c)
  PROVE  OthersKeep(c)
<1> USE DEF OthersKeep, LocalInv, ControlTypes, HandTypes
<1>1. CASE Shape(c)
  BY <1>1 DEF Shape, End, Moves, NextCall, NextTurn, Counts
<1>2. CASE Propose(c)
  BY <1>2 DEF Propose
<1>3. CASE run_agent_cycle(c)
  BY <1>3 DEF run_agent_cycle
<1>4. QED
  BY <1>1, <1>2, <1>3

LEMMA EndsWithout ==
  ASSUME LocalInv, NEW c \in Cycles, End(c)
  PROVE  OthersKeep(c) /\ found'[c] = 0 /\ pc'[c] = "idle"
BY OthersAreKept DEF Shape, End, LocalInv, ControlTypes

\* The calls a cycle lets through, deletes, writes and runs, each of its steps.
LEMMA StoreCycleStep ==
  ASSUME TypeOK, LocalInv, StoreInv, NEW c \in Cycles, CycleStep(c)
  PROVE  StoreInv'
<1> USE DEF store, history
<1>1. CASE Stop(c) \/ RefuseCall(c) \/ WriteRefused(c)
  BY <1>1, EndsWithout, QuietKeeps DEF Stop, RefuseCall, WriteRefused, Quiet
<1>2. CASE Propose(c)
  <2>1. found[c] = 0
    BY <1>2 DEF Propose, StoreInv, LetThrough, Cleared
  <2>2. OthersKeep(c)
    BY <1>2, OthersAreKept
  <2>3. QED
    BY <1>2, <2>1, <2>2, QuietKeeps DEF Propose, Quiet, LocalInv, ControlTypes
<1>3. CASE PassRead(c)
  <2>1. found[c] = 0
    BY <1>3 DEF PassRead, StoreInv, LetThrough, Cleared
  <2>2. OthersKeep(c)
    BY <1>3 DEF PassRead, OthersKeep, LocalInv, ControlTypes
  <2>3. QED
    BY <1>3, <2>1, <2>2, QuietKeeps DEF PassRead, Quiet, LocalInv, ControlTypes
<1>4. CASE FindPending(c)
  <2> DEFINE id == pending[Call(c)]
  <2>1. /\ UNCHANGED <<pending, ids, resolver, runs>>
        /\ pc[c] = "call" /\ found[c] = 0 /\ Call(c) \in GatedCalls
    BY <1>4 DEF FindPending, StoreInv, LetThrough, Cleared
  <2>2. CASE End(c)
    BY <2>1, <2>2, EndsWithout, QuietKeeps DEF Quiet
  <2>3. CASE ~End(c)
    <3>1. \/ /\ id # 0 /\ pc' = [pc EXCEPT ![c] = "consume"] /\ found' = [found EXCEPT ![c] = id]
             /\ proposal' = proposal
          \/ /\ \E p \in {"execute", "persist"} : pc' = [pc EXCEPT ![c] = p]
             /\ found' = found /\ proposal' = proposal
      BY <1>4, <2>3 DEF FindPending, find_pending_approval, ReportPending
    <3>2. OthersKeep(c)
      BY <3>1 DEF OthersKeep, LocalInv, ControlTypes
    <3>3. CASE id # 0 /\ pc' = [pc EXCEPT ![c] = "consume"] /\ found' = [found EXCEPT ![c] = id]
               /\ proposal' = proposal
      <4>1. pc'[c] = "consume" /\ found'[c] = id /\ id # 0 /\ id \in 1 .. ids
        BY <2>1, <3>3 DEF LocalInv, ControlTypes, TypeOK
      <4>2. runs[<<c, id>>] = 0
        BY SMTT(60), <2>1, <4>1, BoundsAssumption DEF StoreInv, Spent, Runners, TypeOK
      <4>3. \A x \in GatedCalls : pending[x] = id => x = Call(c)
        BY <2>1, <4>1 DEF StoreInv, OneRecord
      <4>4. LetThrough'
        BY <2>1, <3>2, <3>3, <4>1, <4>2, <4>3 DEF StoreInv, LetThrough, Cleared, OthersKeep, Call
      <4>5. OneRecord' /\ Resolving' /\ Spent'
        BY <2>1 DEF StoreInv, OneRecord, Resolving, Spent
      <4>6. QED
        BY <4>4, <4>5 DEF StoreInv
    <3>4. CASE (\E p \in {"execute", "persist"} : pc' = [pc EXCEPT ![c] = p])
               /\ found' = found /\ proposal' = proposal
      BY <2>1, <3>2, <3>4, QuietKeeps DEF Quiet, LocalInv, ControlTypes
    <3>5. QED
      BY <3>1, <3>3, <3>4
  <2>4. QED
    BY <2>2, <2>3
<1>5. CASE Consume(c)
  <2>1. /\ pending' = [pending EXCEPT ![Call(c)] = 0]
        /\ UNCHANGED <<ids, resolver, runs>>
        /\ pc[c] = "consume" /\ Call(c) \in GatedCalls
    BY <1>5 DEF Consume, LocalInv, HandTypes, CallsAtHand, AtGate
  <2>2. /\ found[c] # 0 /\ runs[<<c, found[c]>>] = 0
        /\ \A x \in GatedCalls : pending[x] = found[c] => x = Call(c)
    BY <2>1 DEF StoreInv, LetThrough, Cleared
  <2>3. \/ pc'[c] = "idle" /\ found'[c] = 0
        \/ pc'[c] = "execute" /\ found'[c] = found[c]
    BY <1>5, EndsWithout DEF Consume, LocalInv, ControlTypes
  <2>4. OthersKeep(c)
    BY <1>5, EndsWithout DEF Consume, OthersKeep, LocalInv, ControlTypes
  <2>5. \A x \in GatedCalls : pending'[x] = (IF x = Call(c) THEN 0 ELSE pending[x])
    BY <2>1 DEF TypeOK
  <2>6. LetThrough'
    BY <2>1, <2>2, <2>3, <2>4, <2>5 DEF StoreInv, LetThrough, Cleared, OthersKeep, Call
  <2>7. OneRecord' /\ Spent'
    BY <2>1, <2>5 DEF StoreInv, OneRecord, Spent, TypeOK
  <2>8. Resolving'
    BY <2>1, <2>5 DEF StoreInv, Resolving, TypeOK
  <2>9. QED
    BY <2>6, <2>7, <2>8 DEF StoreInv
<1>6. CASE FindAgain(c)
  <2>1. found[c] = 0 /\ UNCHANGED <<pending, ids, resolver, runs>>
    BY <1>6 DEF FindAgain, StoreInv, LetThrough, Cleared
  <2>2. CASE End(c)
    BY <2>1, <2>2, EndsWithout, QuietKeeps DEF Quiet
  <2>3. CASE ~End(c)
    <3>1. pc' = [pc EXCEPT ![c] = "write"] /\ found' = found /\ proposal' = proposal
      BY <1>6, <2>3 DEF FindAgain, ReportPending
    <3>2. QED
      BY <2>1, <3>1, QuietKeeps DEF Quiet, OthersKeep, LocalInv, ControlTypes
  <2>4. QED
    BY <2>2, <2>3
<1>7. CASE WriteRecord(c)
  <2>1. /\ pending' = [pending EXCEPT ![Call(c)] = ids + 1] /\ ids' = ids + 1
        /\ resolver = None /\ resolver' = None /\ runs' = runs
        /\ Call(c) \in GatedCalls
    BY <1>7 DEF WriteRecord, LocalInv, HandTypes, CallsAtHand, AtGate
  <2>2. OthersKeep(c) /\ found'[c] = 0 /\ pc'[c] = "idle"
    BY <1>7, EndsWithout DEF WriteRecord, ReportPending
  <2>3. \A x \in GatedCalls : pending'[x] = (IF x = Call(c) THEN ids + 1 ELSE pending[x])
    BY <2>1 DEF TypeOK
  <2>4. ids \in Nat /\ \A d \in Cycles : found[d] \in 0 .. ids
    BY BoundsAssumption DEF TypeOK
  <2>5. \A x \in GatedCalls : pending[x] \in 0 .. ids
    BY DEF TypeOK
  <2>6. LetThrough'
    BY <2>1, <2>2, <2>3, <2>4 DEF StoreInv, LetThrough, Cleared, OthersKeep, Call
  <2>7. OneRecord'
    BY <2>3, <2>4, <2>5 DEF StoreInv, OneRecord
  <2>8. Spent'
    BY <2>1, <2>3, <2>4, BoundsAssumption DEF StoreInv, Spent
  <2>9. QED
    BY <2>1, <2>6, <2>7, <2>8 DEF StoreInv, Resolving
<1>8. CASE WarnRepeat(c)
  <2>1. pc[c] = "execute" /\ UNCHANGED <<pending, ids, resolver, runs>>
    BY <1>8 DEF WarnRepeat
  <2>2. CASE End(c)
    BY <2>1, <2>2, EndsWithout, QuietKeeps DEF Quiet
  <2>3. CASE ~End(c)
    <3>1. pc' = [pc EXCEPT ![c] = "propose"] /\ proposal' = [proposal EXCEPT ![c] = <<>>]
          /\ found' = [found EXCEPT ![c] = 0]
      BY <1>8, <2>3 DEF WarnRepeat, EndTurn
    <3>2. QED
      BY <2>1, <3>1, QuietKeeps DEF Quiet, OthersKeep, LocalInv, ControlTypes, HandTypes
  <2>4. QED
    BY <2>2, <2>3
<1>9. CASE Execute(c)
  <2>1. /\ pc[c] = "execute" /\ UNCHANGED <<pending, ids, resolver>>
        /\ runs' = IF found[c] = 0 THEN runs ELSE [runs EXCEPT ![<<c, found[c]>>] = @ + 1]
    BY <1>9 DEF Execute
  <2>2. OthersKeep(c) /\ found'[c] = 0 /\ pc'[c] # "consume"
    <3>1. CASE End(c)
      BY <3>1, EndsWithout
    <3>2. CASE ~End(c)
      <4>1. /\ pc' = [pc EXCEPT ![c] = "call"] \/ pc' = [pc EXCEPT ![c] = "propose"]
            /\ found' = [found EXCEPT ![c] = 0]
            /\ \E hand : proposal' = [proposal EXCEPT ![c] = hand]
        BY <1>9, <3>2 DEF Execute, EndTurn
      <4>2. QED
        BY <4>1 DEF OthersKeep, LocalInv, ControlTypes, HandTypes
    <3>3. QED
      BY <3>1, <3>2
  <2>3. CASE found[c] = 0
    BY <2>1, <2>2, <2>3, QuietKeeps DEF Quiet
  <2>4. CASE found[c] # 0
    <3>1. /\ found[c] \in 1 .. MaxIds /\ found[c] <= ids /\ runs[<<c, found[c]>>] = 0
          /\ \A x \in GatedCalls : pending[x] # found[c]
      BY <2>1, <2>4, BoundsAssumption DEF TypeOK, StoreInv, LetThrough, Cleared
    <3>2. <<c, found[c]>> \in Runners \X (1 .. MaxIds) /\ c # None
      BY <3>1, CallsAssumption DEF Runners
    <3>3. \A k \in Runners \X (1 .. MaxIds) :
             runs'[k] = IF k = <<c, found[c]>> THEN 1 ELSE runs[k]
      BY <2>1, <2>4, <3>1, <3>2 DEF TypeOK
    <3>4. Spent'
      BY <2>1, <3>1, <3>3 DEF StoreInv, Spent
    <3>5. LetThrough'
      <4> SUFFICES ASSUME NEW d \in Cycles, d # c
                   PROVE  Cleared(d)'
        BY <2>2 DEF LetThrough, Cleared
      <4>1. pc'[d] = pc[d] /\ found'[d] = found[d] /\ Call(d)' = Call(d)
        BY <2>2 DEF OthersKeep, Call
      <4>2. found[d] # 0 => runs'[<<d, found[d]>>] = runs[<<d, found[d]>>]
        BY SMTT(60), <3>3, BoundsAssumption DEF TypeOK, Runners
      <4>3. QED
        BY <2>1, <4>1, <4>2 DEF StoreInv, LetThrough, Cleared
    <3>6. Resolving'
      <4>1. resolver # None => runs'[<<None, resolver.id>>] = runs[<<None, resolver.id>>]
        BY SMTT(60), <3>2, <3>3, BoundsAssumption DEF TypeOK, Runners
      <4>2. QED
        BY <2>1, <4>1 DEF StoreInv, Resolving
    <3>7. OneRecord'
      BY <2>1 DEF StoreInv, OneRecord
    <3>8. QED
      BY <3>4, <3>5, <3>6, <3>7 DEF StoreInv
  <2>5. QED
    BY <2>3, <2>4
<1>10. QED
  BY <1>1, <1>2, <1>3, <1>4, <1>5, <1>6, <1>7, <1>8, <1>9 DEF CycleStep

\* A resolver deletes the record it was asked about and runs its call once.
LEMMA ResumeKeeps ==
  ASSUME TypeOK, StoreInv, Resume
  PROVE  StoreInv'
<1>1. /\ resolver # None /\ resolver' = None /\ UNCHANGED <<ids, pc, found, proposal>>
      /\ resolver.id \in 1 .. ids /\ resolver.call \in GatedCalls
      /\ pending' = [pending EXCEPT ![resolver.call] = 0]
      /\ runs' = IF resolver.decision = "approved"
                 THEN [runs EXCEPT ![<<None, resolver.id>>] = @ + 1] ELSE runs
  BY DEF Resume, TypeOK, cycle
<1>2. /\ runs[<<None, resolver.id>>] = 0
      /\ \A x \in GatedCalls : pending[x] = resolver.id => x = resolver.call
  BY <1>1 DEF StoreInv, Resolving
<1>3. \A x \in GatedCalls : pending'[x] = (IF x = resolver.call THEN 0 ELSE pending[x])
  BY <1>1 DEF TypeOK
<1>4. <<None, resolver.id>> \in Runners \X (1 .. MaxIds)
  BY <1>1, BoundsAssumption DEF TypeOK, Runners
<1>5. \A k \in Runners \X (1 .. MaxIds) :
         \/ runs'[k] = runs[k]
         \/ k = <<None, resolver.id>> /\ runs'[k] = 1
  BY <1>1, <1>2, <1>4 DEF TypeOK
<1>6. OneRecord' /\ Resolving'
  BY <1>1, <1>3 DEF StoreInv, OneRecord, Resolving, TypeOK
<1>7. Spent'
  <2> SUFFICES ASSUME NEW r \in Runners, NEW id \in 1 .. MaxIds, runs'[<<r, id>>] # 0
               PROVE  /\ runs'[<<r, id>>] = 1 /\ id <= ids
                      /\ \A x \in GatedCalls : pending'[x] # id
    BY <1>1 DEF Spent
  <2>1. CASE runs'[<<r, id>>] = runs[<<r, id>>]
    BY <1>3, <2>1 DEF StoreInv, Spent
  <2>2. CASE <<r, id>> = <<None, resolver.id>> /\ runs'[<<r, id>>] = 1
    BY <1>1, <1>2, <1>3, <2>2 DEF TypeOK
  <2>3. QED
    BY <1>5, <2>1, <2>2
<1>8. LetThrough'
  <2>1. \A d \in Cycles : found[d] # 0 => runs'[<<d, found[d]>>] = runs[<<d, found[d]>>]
    <3> SUFFICES ASSUME NEW d \in Cycles, found[d] # 0
                 PROVE  runs'[<<d, found[d]>>] = runs[<<d, found[d]>>]
      OBVIOUS
    <3>1. d # None /\ found[d] \in 1 .. MaxIds
      BY CallsAssumption, BoundsAssumption DEF TypeOK
    <3>2. <<d, found[d]>> \in Runners \X (1 .. MaxIds) /\ <<d, found[d]>> # <<None, resolver.id>>
      BY <3>1 DEF Runners
    <3>3. QED
      BY <1>5, <3>2
  <2>2. QED
    BY <1>1, <1>3, <2>1 DEF StoreInv, LetThrough, Cleared, Call
<1>9. QED
  BY <1>6, <1>7, <1>8 DEF StoreInv

\* Every step keeps apart what ran under which id.
LEMMA StoreStep ==
  ASSUME TypeOK, LocalInv, StoreInv, [Next]_vars
  PROVE  StoreInv'
<1> USE DEF store, cycle, history
<1>1. ASSUME NEW c \in Cycles, run_agent_cycle(c) PROVE StoreInv'
  <2>1. found[c] = 0
    BY <1>1 DEF run_agent_cycle, Idle, StoreInv, LetThrough, Cleared
  <2>2. QED
    BY <1>1, <2>1, OthersAreKept, QuietKeeps DEF run_agent_cycle, Quiet, LocalInv, ControlTypes
<1>2. ASSUME NEW c \in Cycles, CycleStep(c) PROVE StoreInv'
  BY <1>2, StoreCycleStep
<1>3. ASSUME NEW c \in Cycles, Dies(c) PROVE StoreInv'
  BY <1>3, EndsWithout, QuietKeeps DEF Dies, Quiet
<1>4. ASSUME NEW id \in 1 .. MaxIds, Approve(id) PROVE StoreInv'
  BY <1>4 DEF Approve, StoreInv, OneRecord, LetThrough, Cleared, Resolving, Spent, Call
<1>5. ASSUME NEW id \in 1 .. MaxIds, MatchRecord(id) PROVE StoreInv'
  <2>1. UNCHANGED <<pending, ids, runs, pc, found, proposal>>
    BY <1>5 DEF MatchRecord
  <2>2. PICK x \in GatedCalls, decision \in Decisions :
           pending[x] = id /\ resolver' = [id |-> id, call |-> x, decision |-> decision]
    BY <1>5 DEF MatchRecord
  <2>3. id # 0 /\ runs[<<None, id>>] = 0
    <3>1. id \in 1 .. MaxIds /\ None \in Runners
      BY DEF Runners
    <3>2. QED
      BY <2>2, <3>1 DEF StoreInv, Spent
  <2>4. Resolving'
    BY <2>1, <2>2, <2>3 DEF StoreInv, OneRecord, Resolving
  <2>5. OneRecord' /\ LetThrough' /\ Spent'
    BY <2>1 DEF StoreInv, OneRecord, LetThrough, Cleared, Spent, Call
  <2>6. QED
    BY <2>4, <2>5 DEF StoreInv
<1>6. CASE Resume
  BY <1>6, ResumeKeeps
<1>7. CASE ResolverDies
  BY <1>7 DEF ResolverDies, StoreInv, OneRecord, LetThrough, Cleared, Resolving, Spent, Call
<1>8. CASE UNCHANGED vars
  BY <1>8 DEF vars, StoreInv, OneRecord, LetThrough, Cleared, Resolving, Spent, Call
<1>9. QED
  BY <1>1, <1>2, <1>3, <1>4, <1>5, <1>6, <1>7, <1>8 DEF Next

-----------------------------------------------------------------------------
(* The store's types, and what was offered *)

\* What a step of a cycle does to the store and to the histories.
LEMMA StoreTypesCycleStep ==
  ASSUME TypeOK, LocalInv, StoreInv, NEW c \in Cycles, CycleStep(c)
  PROVE  StoreTypes'
<1> USE DEF store, history
<1>a. StoreTypes
  BY DEF StoreTypes, TypeOK
<1>b. /\ ids \in Nat /\ ids <= MaxIds
      /\ \A d \in Cycles : found[d] \in 0 .. ids
      /\ \A x \in GatedCalls : pending[x] \in 0 .. ids
      /\ pending \in [GatedCalls -> 0 .. ids]
      /\ offered \subseteq 1 .. ids /\ answered \subseteq 1 .. ids
  BY SMTT(60), BoundsAssumption DEF TypeOK
<1>1. CASE Stop(c) \/ Propose(c) \/ RefuseCall(c) \/ PassRead(c) \/ WriteRefused(c) \/ WarnRepeat(c)
  BY <1>a, <1>1 DEF StoreTypes, Stop, Propose, RefuseCall, PassRead, WriteRefused, WarnRepeat
<1>2. CASE FindPending(c)
  <2>1. /\ UNCHANGED <<workload, pending, ids, resolver, approved, runs, answered, overlap>>
        /\ Call(c) \in GatedCalls
        /\ \/ offered' = offered
           \/ pending[Call(c)] # 0 /\ offered' = offered \cup {pending[Call(c)]}
    BY <1>2 DEF FindPending, find_pending_approval, ReportPending
  <2>2. offered' \subseteq 1 .. ids
    <3>1. pending[Call(c)] # 0 => pending[Call(c)] \in 1 .. ids
      BY <1>b, <2>1
    <3>2. QED
      BY <1>b, <2>1, <3>1
  <2>3. QED
    BY <1>a, <2>1, <2>2 DEF StoreTypes
<1>3. CASE Consume(c)
  <2>1. /\ UNCHANGED <<workload, ids, resolver, approved, runs, offered, overlap>>
        /\ pending' = [pending EXCEPT ![Call(c)] = 0]
        /\ answered' = answered \cup {found[c]}
    BY <1>3 DEF Consume
  <2>2. found[c] # 0
    BY <1>3 DEF Consume, StoreInv, LetThrough, Cleared
  <2>3. found[c] \in 1 .. ids
    BY <1>b, <2>2
  <2>4. answered' \subseteq 1 .. ids
    BY <1>b, <2>1, <2>3
  <2>5. pending' \in [GatedCalls -> 0 .. ids]
    <3>1. 0 \in 0 .. ids
      BY <1>b
    <3>2. QED
      BY <1>b, <2>1, <3>1
  <2>6. QED
    BY <1>a, <2>1, <2>4, <2>5 DEF StoreTypes
<1>4. CASE FindAgain(c)
  <2>1. /\ UNCHANGED <<workload, pending, ids, resolver, approved, runs, answered, overlap>>
        /\ Call(c) \in GatedCalls
        /\ \/ offered' = offered
           \/ pending[Call(c)] # 0 /\ offered' = offered \cup {pending[Call(c)]}
    BY <1>4 DEF FindAgain, find_pending_approval, ReportPending, LocalInv, HandTypes,
                  CallsAtHand, AtGate
  <2>2. offered' \subseteq 1 .. ids
    <3>1. pending[Call(c)] # 0 => pending[Call(c)] \in 1 .. ids
      BY <1>b, <2>1
    <3>2. QED
      BY <1>b, <2>1, <3>1
  <2>3. QED
    BY <1>a, <2>1, <2>2 DEF StoreTypes
<1>5. CASE WriteRecord(c)
  <2>1. /\ UNCHANGED <<workload, approved, runs, answered, overlap>>
        /\ resolver = None /\ resolver' = None
        /\ ids < workload.ids /\ ids' = ids + 1
        /\ pending' = [pending EXCEPT ![Call(c)] = ids + 1]
        /\ offered' = offered \cup {ids + 1}
    BY <1>5 DEF WriteRecord, ReportPending
  <2>2. workload.ids \in Nat
    BY BoundsAssumption DEF TypeOK
  <2>3. /\ ids' \in 0 .. workload.ids /\ ids + 1 \in 1 .. ids' /\ ids + 1 \in 0 .. ids'
        /\ 0 .. ids \subseteq 0 .. ids' /\ 1 .. ids \subseteq 1 .. ids'
    BY <1>b, <2>1, <2>2
  <2>4. /\ approved' \subseteq 1 .. ids' /\ answered' \subseteq 1 .. ids'
        /\ offered' \subseteq 1 .. ids'
    <3>1. approved \subseteq 1 .. ids
      BY <1>a DEF StoreTypes
    <3>2. QED
      BY <1>b, <2>1, <2>3, <3>1
  <2>5. pending' \in [GatedCalls -> 0 .. ids']
    BY <1>b, <2>1, <2>3
  <2>6. QED
    BY <1>a, <2>1, <2>3, <2>4, <2>5 DEF StoreTypes
<1>6. CASE Execute(c)
  <2>1. UNCHANGED <<workload, pending, ids, resolver, approved, offered, answered, overlap>>
    BY <1>6 DEF Execute
  <2>2. runs' = runs \/ (found[c] # 0 /\ runs' = [runs EXCEPT ![<<c, found[c]>>] = @ + 1])
    BY <1>6 DEF Execute
  <2>3. found[c] # 0 => <<c, found[c]>> \in Runners \X (1 .. MaxIds)
    BY <1>b, BoundsAssumption DEF Runners
  <2>4. runs' \in [Runners \X (1 .. MaxIds) -> Nat]
    <3>1. CASE runs' = runs
      BY <1>a, <3>1 DEF StoreTypes
    <3>2. CASE found[c] # 0 /\ runs' = [runs EXCEPT ![<<c, found[c]>>] = @ + 1]
      BY <1>a, <2>3, <3>2 DEF StoreTypes
    <3>3. QED
      BY <2>2, <3>1, <3>2
  <2>5. QED
    BY <1>a, <2>1, <2>4 DEF StoreTypes
<1>7. QED
  BY <1>1, <1>2, <1>3, <1>4, <1>5, <1>6 DEF CycleStep


\* Every step keeps the store and the histories in their types.
LEMMA StoreTypesStep ==
  ASSUME TypeOK, LocalInv, StoreInv, [Next]_vars
  PROVE  StoreTypes'
<1> USE DEF store, cycle, history
<1>a. StoreTypes
  BY DEF StoreTypes, TypeOK
<1>b. ids \in 0 .. MaxIds /\ None \in Runners
  BY BoundsAssumption DEF TypeOK, Runners
<1>1. ASSUME NEW c \in Cycles, run_agent_cycle(c) \/ Dies(c) PROVE StoreTypes'
  BY <1>a, <1>1 DEF StoreTypes, run_agent_cycle, Dies
<1>2. ASSUME NEW c \in Cycles, CycleStep(c) PROVE StoreTypes'
  BY <1>2, StoreTypesCycleStep
<1>3. ASSUME NEW id \in 1 .. MaxIds, Approve(id) PROVE StoreTypes'
  <2>1. id \in 1 .. ids
    BY <1>a, <1>b, <1>3 DEF Approve, Shown, StoreTypes
  <2>2. QED
    BY <1>a, <1>3, <2>1 DEF Approve, StoreTypes
<1>4. ASSUME NEW id \in 1 .. MaxIds, MatchRecord(id) PROVE StoreTypes'
  <2>1. id \in 1 .. ids
    BY <1>a, <1>b, <1>4 DEF MatchRecord, Shown, StoreTypes
  <2>2. QED
    BY <1>a, <1>4, <2>1 DEF MatchRecord, StoreTypes
<1>5. CASE Resume
  <2>1. /\ UNCHANGED <<workload, ids, approved, offered, overlap>> /\ resolver' = None
        /\ pending' = [pending EXCEPT ![resolver.call] = 0]
        /\ answered' = answered \cup {resolver.id}
        /\ runs' = runs \/ runs' = [runs EXCEPT ![<<None, resolver.id>>] = @ + 1]
        /\ resolver.id \in 1 .. ids
    BY <1>a, <1>5 DEF Resume, StoreTypes
  <2>2. pending' \in [GatedCalls -> 0 .. ids]
    <3>1. 0 \in 0 .. ids
      BY <1>b
    <3>2. QED
      BY <1>a, <2>1, <3>1 DEF StoreTypes
  <2>3. runs' \in [Runners \X (1 .. MaxIds) -> Nat]
    <3>1. <<None, resolver.id>> \in Runners \X (1 .. MaxIds)
      BY <1>b, <2>1, BoundsAssumption
    <3>2. CASE runs' = runs
      BY <1>a, <3>2 DEF StoreTypes
    <3>3. CASE runs' = [runs EXCEPT ![<<None, resolver.id>>] = @ + 1]
      BY <1>a, <3>1, <3>3 DEF StoreTypes
    <3>4. QED
      BY <2>1, <3>2, <3>3
  <2>4. QED
    BY <1>a, <2>1, <2>2, <2>3 DEF StoreTypes
<1>6. CASE ResolverDies \/ UNCHANGED vars
  BY <1>a, <1>6 DEF ResolverDies, vars, StoreTypes
<1>7. QED
  BY <1>1, <1>2, <1>3, <1>4, <1>5, <1>6 DEF Next

\* What a step of a working cycle has to leave as it was, so that no offered
\* approval is lost: a record goes only with its answer.
LEMMA OfferKeeps ==
  ASSUME LocalInv, OfferInv, NEW c \in Cycles, OthersKeep(c), pc[c] # "idle",
         overlap' = overlap, answered \subseteq answered',
         offered' \subseteq offered \cup Shown',
         ~overlap => /\ Shown \ Shown' \subseteq answered'
                     /\ pc'[c] = "write" => pending'[Call(c)'] = 0
                     /\ pc'[c] = "consume" => pending'[Call(c)'] \in {0, found'[c]}
  PROVE  OfferInv'
<1> SUFFICES ASSUME ~overlap
             PROVE  OfferInv'
  BY DEF OfferInv, Alone, Waiting, OfferedIsPending
<1>1. \A d \in Cycles : d # c => pc[d] = "idle" /\ pc'[d] = "idle"
  BY DEF OfferInv, Alone, Idle, OthersKeep
<1>2. Alone'
  BY <1>1 DEF Alone, Idle
<1>3. Waiting'
  BY <1>1 DEF Waiting
<1>4. OfferedIsPending'
  BY DEF OfferInv, OfferedIsPending
<1>5. QED
  BY <1>2, <1>3, <1>4 DEF OfferInv

\* The reports, deletions and writes of a cycle.
LEMMA OfferCycleStep ==
  ASSUME TypeOK, LocalInv, StoreInv, OfferInv, NEW c \in Cycles, CycleStep(c)
  PROVE  OfferInv'
<1> USE DEF store, history
<1>1. CASE Stop(c) \/ RefuseCall(c) \/ WriteRefused(c)
  <2>1. End(c) /\ pc[c] # "idle" /\ UNCHANGED <<pending, overlap, answered, offered>>
    BY <1>1 DEF Stop, RefuseCall, WriteRefused
  <2>2. QED
    BY <2>1, EndsWithout, OfferKeeps DEF Shown
<1>2. CASE Propose(c)
  <2>1. pc'[c] = "call" /\ pc[c] # "idle" /\ UNCHANGED <<pending, overlap, answered, offered>>
    BY <1>2 DEF Propose, LocalInv, ControlTypes
  <2>2. QED
    BY <1>2, <2>1, OthersAreKept, OfferKeeps DEF Shown
<1>3. CASE PassRead(c)
  <2>1. /\ pc'[c] = "execute" /\ pc[c] # "idle"
        /\ UNCHANGED <<pending, overlap, answered, offered>> /\ OthersKeep(c)
    BY <1>3 DEF PassRead, OthersKeep, LocalInv, ControlTypes
  <2>2. QED
    BY <2>1, OfferKeeps DEF Shown
<1>4. CASE FindPending(c)
  <2>1. /\ pc[c] = "call" /\ UNCHANGED <<pending, overlap, answered>>
        /\ \/ offered' = offered
           \/ pending[Call(c)] # 0 /\ offered' = offered \cup {pending[Call(c)]}
        /\ Call(c) \in GatedCalls
    BY <1>4 DEF FindPending, find_pending_approval, ReportPending
  <2>2. Shown' = Shown /\ offered' \subseteq offered \cup Shown
    BY <2>1 DEF Shown
  <2>3. CASE End(c)
    BY <2>1, <2>2, <2>3, EndsWithout, OfferKeeps
  <2>4. CASE ~End(c)
    <3>1. /\ proposal' = proposal
          /\ \/ /\ pc' = [pc EXCEPT ![c] = "consume"]
                /\ found' = [found EXCEPT ![c] = pending[Call(c)]]
             \/ \E p \in {"execute", "persist"} : pc' = [pc EXCEPT ![c] = p] /\ found' = found
      BY <1>4, <2>4 DEF FindPending, find_pending_approval, ReportPending
    <3>2. /\ OthersKeep(c) /\ pc'[c] # "write"
          /\ pc'[c] = "consume" => found'[c] = pending[Call(c)]
      BY <3>1 DEF OthersKeep, LocalInv, ControlTypes
    <3>3. QED
      BY <2>1, <2>2, <3>1, <3>2, OfferKeeps DEF Call
  <2>5. QED
    BY <2>3, <2>4
<1>5. CASE Consume(c)
  <2>1. /\ pc[c] = "consume" /\ UNCHANGED <<overlap, offered>>
        /\ pending' = [pending EXCEPT ![Call(c)] = 0]
        /\ answered' = answered \cup {found[c]}
    BY <1>5 DEF Consume
  <2>2. OthersKeep(c) /\ pc'[c] \in {"idle", "execute"}
    BY <1>5, EndsWithout DEF Consume, OthersKeep, LocalInv, ControlTypes
  <2>3. \A x \in GatedCalls : pending'[x] = IF x = Call(c) THEN 0 ELSE pending[x]
    BY <2>1 DEF TypeOK
  <2>4. ~overlap => Shown \ Shown' \subseteq answered'
    BY <2>1, <2>3 DEF Shown, OfferInv, Waiting
  <2>5. offered' \subseteq offered \cup Shown'
    BY <2>1
  <2>6. QED
    BY <2>1, <2>2, <2>4, <2>5, OfferKeeps
<1>6. CASE FindAgain(c)
  <2>1. /\ pc[c] = "persist" /\ UNCHANGED <<pending, overlap, answered>>
        /\ \/ offered' = offered
           \/ pending[Call(c)] # 0 /\ offered' = offered \cup {pending[Call(c)]}
        /\ Call(c) \in GatedCalls
    BY <1>6 DEF FindAgain, find_pending_approval, ReportPending, LocalInv, HandTypes,
                  CallsAtHand, AtGate
  <2>2. Shown' = Shown /\ offered' \subseteq offered \cup Shown
    BY <2>1 DEF Shown
  <2>3. CASE End(c)
    BY <2>1, <2>2, <2>3, EndsWithout, OfferKeeps
  <2>4. CASE ~End(c)
    <3>1. proposal' = proposal /\ pc' = [pc EXCEPT ![c] = "write"] /\ found' = found
          /\ pending[Call(c)] = 0
      BY <1>6, <2>4 DEF FindAgain, find_pending_approval, ReportPending
    <3>2. OthersKeep(c) /\ pc'[c] = "write"
      BY <3>1 DEF OthersKeep, LocalInv, ControlTypes
    <3>3. QED
      BY <2>1, <2>2, <3>1, <3>2, OfferKeeps DEF Call
  <2>5. QED
    BY <2>3, <2>4
<1>7. CASE WriteRecord(c)
  <2>1. /\ pc[c] = "write" /\ UNCHANGED <<overlap, answered>> /\ End(c)
        /\ pending' = [pending EXCEPT ![Call(c)] = ids + 1]
        /\ offered' = offered \cup {ids + 1} /\ ids \in Nat
        /\ Call(c) \in GatedCalls
    BY <1>7 DEF WriteRecord, ReportPending, LocalInv, HandTypes, CallsAtHand, AtGate, TypeOK
  <2>2. \A x \in GatedCalls : pending'[x] = IF x = Call(c) THEN ids + 1 ELSE pending[x]
    BY <2>1 DEF TypeOK
  <2>3. ~overlap => Shown \subseteq Shown'
    <3> SUFFICES ASSUME ~overlap
                 PROVE  Shown \subseteq Shown'
      OBVIOUS
    <3>1. pending[Call(c)] = 0
      BY <2>1 DEF OfferInv, Waiting
    <3>2. QED
      BY <2>1, <2>2, <3>1 DEF Shown
  <2>4. ids + 1 \in Shown'
    <3>1. pending'[Call(c)] = ids + 1 /\ ids + 1 # 0
      BY <2>1, <2>2
    <3>2. QED
      BY <2>1, <3>1 DEF Shown
  <2>5. QED
    BY <2>1, <2>3, <2>4, EndsWithout, OfferKeeps
<1>8. CASE WarnRepeat(c) \/ Execute(c)
  <2>1. pc[c] = "execute" /\ UNCHANGED <<pending, overlap, answered, offered>>
    BY <1>8 DEF WarnRepeat, Execute
  <2>2. OthersKeep(c) /\ pc'[c] \notin {"write", "consume"}
    <3>1. CASE End(c)
      BY <3>1, EndsWithout
    <3>2. CASE ~End(c)
      <4>1. /\ pc' = [pc EXCEPT ![c] = "call"] \/ pc' = [pc EXCEPT ![c] = "propose"]
            /\ found' = [found EXCEPT ![c] = 0]
            /\ \E hand : proposal' = [proposal EXCEPT ![c] = hand]
        BY ZenonT(60), <1>8, <3>2 DEF WarnRepeat, Execute, EndTurn
      <4>2. QED
        BY <4>1 DEF OthersKeep, LocalInv, ControlTypes, HandTypes
    <3>3. QED
      BY <3>1, <3>2
  <2>3. QED
    BY <2>1, <2>2, OfferKeeps DEF Shown
<1>9. QED
  BY <1>1, <1>2, <1>3, <1>4, <1>5, <1>6, <1>7, <1>8 DEF CycleStep

\* Every step keeps the offered approvals, as long as cycles do not overlap.
LEMMA OfferStep ==
  ASSUME TypeOK, LocalInv, StoreInv, OfferInv, [Next]_vars
  PROVE  OfferInv'
<1> USE DEF store, cycle, history
<1>1. ASSUME NEW c \in Cycles, run_agent_cycle(c) PROVE OfferInv'
  <2>1. /\ UNCHANGED <<pending, offered, answered>> /\ pc[c] = "idle"
        /\ overlap' = (overlap \/ \E d \in Cycles \ {c} : ~Idle(d))
        /\ pc'[c] = "propose" /\ OthersKeep(c)
    BY <1>1, OthersAreKept DEF run_agent_cycle, Idle, LocalInv, ControlTypes
  <2>2. ~overlap' => \A d \in Cycles \ {c} : pc'[d] = "idle"
    BY <2>1 DEF OthersKeep, Idle
  <2>3. Alone' /\ Waiting'
    BY <2>1, <2>2 DEF Alone, Waiting, Idle
  <2>4. OfferedIsPending'
    BY <2>1 DEF OfferInv, OfferedIsPending, Shown
  <2>5. QED
    BY <2>3, <2>4 DEF OfferInv
<1>2. ASSUME NEW c \in Cycles, CycleStep(c) PROVE OfferInv'
  BY <1>2, OfferCycleStep
<1>3. ASSUME NEW c \in Cycles, Dies(c) PROVE OfferInv'
  <2>1. End(c) /\ pc[c] # "idle" /\ UNCHANGED <<pending, overlap, answered, offered>>
    BY <1>3 DEF Dies, Idle
  <2>2. QED
    BY <2>1, EndsWithout, OfferKeeps DEF Shown
<1>4. ASSUME NEW id \in 1 .. MaxIds, Approve(id) \/ MatchRecord(id) PROVE OfferInv'
  BY <1>4 DEF Approve, MatchRecord, OfferInv, Alone, Waiting, OfferedIsPending, Shown, Idle, Call
<1>5. CASE Resume
  <2>1. /\ resolver # None /\ UNCHANGED <<pc, proposal, found, overlap, offered>>
        /\ pending' = [pending EXCEPT ![resolver.call] = 0]
        /\ answered' = answered \cup {resolver.id}
    BY <1>5 DEF Resume
  <2>2. \A x \in GatedCalls : pending'[x] = IF x = resolver.call THEN 0 ELSE pending[x]
    BY <2>1 DEF TypeOK
  <2>3. Shown \ Shown' \subseteq answered'
    BY <2>1, <2>2 DEF Shown, StoreInv, Resolving
  <2>4. OfferedIsPending'
    BY <2>1, <2>3 DEF OfferInv, OfferedIsPending
  <2>5. Waiting'
    <3>1. \A c \in Cycles : pc[c] \in {"write", "consume"} => Call(c) \in GatedCalls
      BY DEF LocalInv, HandTypes, CallsAtHand, AtGate
    <3>2. QED
      BY <2>1, <2>2, <3>1 DEF OfferInv, Waiting, Call
  <2>6. Alone'
    BY <2>1 DEF OfferInv, Alone, Idle
  <2>7. QED
    BY <2>4, <2>5, <2>6 DEF OfferInv
<1>6. CASE ResolverDies \/ UNCHANGED vars
  BY <1>6 DEF ResolverDies, vars, OfferInv, Alone, Waiting, OfferedIsPending, Shown, Idle, Call
<1>7. QED
  BY <1>1, <1>2, <1>3, <1>4, <1>5, <1>6 DEF Next

-----------------------------------------------------------------------------
(* The inductive invariant and what follows from it *)

\* It holds before any cycle runs, ...
LEMMA InitIInv == Init => IInv
<1> SUFFICES ASSUME Init
             PROVE  IInv
  OBVIOUS
<1> USE DEF Init
<1>1. Fresh \in Counters /\ Covers(Fresh, 0)
  BY BoundsAssumption DEF Fresh, Counters, Covers
<1>2. workload.ids \in Nat /\ workload.max_turns \in [Cycles -> Nat]
  BY BoundsAssumption
<1>3. TypeOK
  <2>1. StoreTypes
    <3>1. ids \in 0 .. workload.ids /\ pending \in [GatedCalls -> 0 .. ids]
      BY <1>2
    <3>2. runs \in [Runners \X (1 .. MaxIds) -> Nat]
      OBVIOUS
    <3>3. QED
      BY <3>1, <3>2 DEF StoreTypes
  <2>2. ControlTypes
    BY <1>2 DEF ControlTypes, Callbacks
  <2>3. HandTypes /\ CounterTypes
    BY <1>1 DEF HandTypes, CounterTypes, CallsAtHand, AtCall, AtGate
  <2>4. QED
    BY <2>1, <2>2, <2>3 DEF TypeOK, StoreTypes, ControlTypes, HandTypes, CounterTypes
<1>4. CallsAtHand /\ Streaks
  BY <1>1 DEF CallsAtHand, AtCall, AtGate, Streaks
<1>5. StoreInv
  BY DEF StoreInv, OneRecord, LetThrough, Cleared, Resolving, Spent
<1>6. OfferInv
  BY DEF OfferInv, Alone, Waiting, OfferedIsPending, Idle
<1>7. QED
  BY <1>3, <1>4, <1>5, <1>6 DEF IInv

\* ... and every step keeps it.
LEMMA NextIInv == IInv /\ [Next]_vars => IInv'
<1> SUFFICES ASSUME IInv, [Next]_vars
             PROVE  IInv'
  OBVIOUS
<1>1. TypeOK /\ CallsAtHand /\ StoreInv /\ OfferInv /\ Streaks /\ LocalInv
  BY LocalInvHolds DEF IInv
<1>2. LocalInv' /\ StoreInv' /\ OfferInv' /\ StoreTypes'
  BY <1>1, LocalStep, StoreStep, OfferStep, StoreTypesStep
<1>3. TypeOK' /\ CallsAtHand' /\ Streaks'
  BY <1>2 DEF LocalInv, ControlTypes, HandTypes, CounterTypes, StoreTypes, TypeOK
<1>4. QED
  BY <1>2, <1>3 DEF IInv

\* Every state of the cycles and of the store of approvals satisfies the
\* inductive invariant.
THEOREM CyclesInvariant == Spec => []IInv
BY InitIInv, NextIInv, PTL DEF Spec

\* Ids, records, counters, turns and proposals stay in their ranges.
THEOREM CycleTypes == Spec => []TypeOK
<1>1. IInv => TypeOK
  BY DEF IInv
<1>2. QED
  BY <1>1, CyclesInvariant, PTL

\* No cycle, and not the endpoint, runs a call twice under one approval id,
\* however many cycles share the store and whoever dies between two steps.
THEOREM NobodyRunsTwice == Spec => []HolderRunsOnce
<1>1. IInv => HolderRunsOnce
  <2> SUFFICES ASSUME IInv, NEW r \in Runners, NEW id \in 1 .. MaxIds
               PROVE  runs[<<r, id>>] <= 1
    BY DEF HolderRunsOnce
  <2>1. runs[<<r, id>>] # 0 => runs[<<r, id>>] = 1
    BY DEF IInv, StoreInv, Spent
  <2>2. QED
    BY <2>1
<1>2. QED
  BY <1>1, CyclesInvariant, PTL

\* Unless cycles have overlapped, an approval reported to a caller is in the
\* store until it is answered.
THEOREM OfferedStaysPending == Spec => []OfferedIsPending
<1>1. IInv => OfferedIsPending
  BY DEF IInv, OfferInv
<1>2. QED
  BY <1>1, CyclesInvariant, PTL

\* A cycle runs at most max_read_misses + 1 unproductive calls in a row, whatever
\* is proposed and returned.
THEOREM FruitlessCallsAreBounded == Spec => []FruitlessIsBounded
<1>1. IInv => FruitlessIsBounded
  <2> SUFFICES ASSUME IInv, NEW c \in Cycles
               PROVE  fruitless[c] <= max_read_misses + 1
    BY DEF FruitlessIsBounded
  <2>1. fruitless[c] \in Nat /\ repeat[c] \in Counters /\ max_read_misses \in Nat
    BY BoundsAssumption DEF IInv, TypeOK
  <2>2. repeat[c].miss_streak \in Nat /\ repeat[c].read_miss_streak \in Nat
    BY <2>1 DEF Counters
  <2>3. Covers(repeat[c], fruitless[c])
    BY DEF IInv, Streaks
  <2>4. QED
    BY <2>1, <2>2, <2>3 DEF Covers
<1>2. QED
  BY <1>1, CyclesInvariant, PTL

-----------------------------------------------------------------------------
(* Repairs under governance *)

\* The turns a task's bureau allows.
TurnsAllowed == TurnBudget(BureauOf(task.scale))

\* A repair is asked for only within both limits, and from the second on its plan
\* runs in the degraded mode.
Governed ==
    /\ task \in Tasks
    /\ attempt \in Nat
    /\ attempt <= EffectiveAttempts
    /\ phase = "failed" => attempt < EffectiveAttempts
    /\ attempt >= 2 => mode = "degraded"

\* The lower limit is one of the two, and no more than either.
LEMMA AttemptsAre ==
  ASSUME task \in Tasks
  PROVE  /\ EffectiveAttempts \in Nat
         /\ EffectiveAttempts <= MaxAttempts /\ EffectiveAttempts <= TurnsAllowed
<1>1. BureauOf(task.scale) \in 2 .. 6
  BY TasksAssumption DEF BureauOf
<1>2. TurnsAllowed \in Nat
  BY <1>1 DEF TurnsAllowed, TurnBudget
<1>3. MaxAttempts \in Nat
  BY AttemptsAssumption
<1> HIDE DEF TurnsAllowed
<1>4. \E x \in {MaxAttempts, TurnsAllowed} : \A y \in {MaxAttempts, TurnsAllowed} : x <= y
  <2>1. CASE MaxAttempts <= TurnsAllowed
    BY <1>2, <1>3, <2>1
  <2>2. CASE TurnsAllowed <= MaxAttempts
    BY <1>2, <1>3, <2>2
  <2>3. QED
    BY <1>2, <1>3, <2>1, <2>2
<1>5. EffectiveAttempts = Min({MaxAttempts, TurnsAllowed})
  BY DEF EffectiveAttempts, TurnsAllowed
<1>6. QED
  BY <1>2, <1>3, <1>4, <1>5 DEF Min

\* Every step stays within the limits.
LEMMA GovernedStep ==
  ASSUME Governed, [GovernanceNext]_governanceVars
  PROVE  Governed'
<1> DEFINE Failing == phase' # "failed" \/ attempt < EffectiveAttempts
<1>1. EffectiveAttempts \in Nat
  BY AttemptsAre DEF Governed
<1>2. ASSUME UNCHANGED <<task, attempt, mode>>, Failing
      PROVE  Governed'
  BY <1>1, <1>2 DEF Governed, EffectiveAttempts
<1>3. \A next : Fails(next) => Failing
  BY DEF Fails
<1>4. \A next : Halts(next) => Failing
  BY <1>3 DEF Halts
<1>5. \A shape : Refused(shape) \/ Breaks \/ Runs(shape) => Failing
  BY <1>3, <1>4 DEF Refused, Breaks, Runs
<1>6. CASE FirstPlan
  BY <1>2, <1>5, <1>6 DEF FirstPlan
<1>7. CASE AskForRepair
  <2>1. /\ attempt < EffectiveAttempts /\ attempt' = attempt + 1 /\ phase' = "asked"
        /\ task' = task /\ mode' = RepairMode(attempt + 1)
    BY <1>7 DEF AskForRepair, Governed
  <2>2. attempt' >= 2 => mode' = "degraded"
    BY <2>1 DEF RepairMode
  <2>3. EffectiveAttempts' = EffectiveAttempts
    BY <2>1 DEF EffectiveAttempts
  <2>4. QED
    BY <1>1, <2>1, <2>2, <2>3 DEF Governed
<1>8. CASE PlanRefused
  BY <1>2, <1>3, <1>8 DEF PlanRefused
<1>9. CASE Repair
  BY <1>2, <1>5, <1>9 DEF Repair
<1>10. CASE Done \/ UNCHANGED governanceVars
  BY <1>1, <1>10 DEF Done, governanceVars, Governed, EffectiveAttempts
<1>11. QED
  BY <1>6, <1>7, <1>8, <1>9, <1>10 DEF GovernanceNext

\* A task asks for no more repairs than max_repair_attempts and than its bureau
\* allows, and from its second repair on each plan runs in the degraded mode,
\* whatever codes its attempts end with.
THEOREM RepairsAreGoverned ==
  GovernanceSpec => [](/\ attempt <= MaxAttempts /\ attempt <= TurnsAllowed
             /\ attempt >= 2 => mode = "degraded")
<1>1. GovernanceInit => Governed
  <2> SUFFICES ASSUME GovernanceInit PROVE Governed
    OBVIOUS
  <2>1. task \in Tasks /\ attempt = 0 /\ phase = "plan"
    BY DEF GovernanceInit
  <2>2. EffectiveAttempts \in Nat
    BY <2>1, AttemptsAre
  <2>3. QED
    BY <2>1, <2>2 DEF Governed
<1>2. Governed /\ [GovernanceNext]_governanceVars => Governed'
  BY GovernedStep
<1>3. Governed => /\ attempt <= MaxAttempts /\ attempt <= TurnsAllowed
                  /\ attempt >= 2 => mode = "degraded"
  <2> SUFFICES ASSUME Governed
               PROVE  attempt <= MaxAttempts /\ attempt <= TurnsAllowed
    BY DEF Governed
  <2>1. TurnsAllowed \in Int /\ EffectiveAttempts \in Nat
        /\ EffectiveAttempts <= MaxAttempts /\ EffectiveAttempts <= TurnsAllowed
    BY AttemptsAre, TasksAssumption DEF Governed, TurnsAllowed, TurnBudget, BureauOf
  <2>2. QED
    BY <2>1, AttemptsAssumption DEF Governed
<1>4. QED
  BY <1>1, <1>2, <1>3, PTL DEF GovernanceSpec

-----------------------------------------------------------------------------
(* Which failures are trusted *)

\* The codes a failure by itself leaves: at rest, a timeout, an executor's fault
\* and a boundary.
FaultCodes == {0, 17, 32, 40}

\* The trigrams' numbers.
LEMMA Numbers ==
  /\ CanonicalNumber("kun") = 0 /\ CanonicalNumber("zhen") = 1 /\ CanonicalNumber("kan") = 2
  /\ CanonicalNumber("gen") = 4 /\ CanonicalNumber("li") = 5
<1>1. /\ At(TrigramByNumber, 0) = "kun" /\ At(TrigramByNumber, 1) = "zhen"
      /\ At(TrigramByNumber, 2) = "kan" /\ At(TrigramByNumber, 3) = "dui"
      /\ At(TrigramByNumber, 4) = "gen" /\ At(TrigramByNumber, 5) = "li"
      /\ At(TrigramByNumber, 6) = "xun" /\ At(TrigramByNumber, 7) = "qian"
  BY DEF At, TrigramByNumber
<1>2. \A n \in 0 .. 7 : n \in {0, 1, 2, 3, 4, 5, 6, 7}
  OBVIOUS
<1>3. \A n \in 0 .. 7 : At(TrigramByNumber, n) = "kun" => n = 0
  BY <1>1, <1>2
<1>4. \A n \in 0 .. 7 : At(TrigramByNumber, n) = "zhen" => n = 1
  BY <1>1, <1>2
<1>5. \A n \in 0 .. 7 : At(TrigramByNumber, n) = "kan" => n = 2
  BY <1>1, <1>2
<1>6. \A n \in 0 .. 7 : At(TrigramByNumber, n) = "gen" => n = 4
  BY <1>1, <1>2
<1>7. \A n \in 0 .. 7 : At(TrigramByNumber, n) = "li" => n = 5
  BY <1>1, <1>2
<1> HIDE DEF At, TrigramByNumber
<1>8. CanonicalNumber("kun") = 0
  BY <1>1, <1>3 DEF CanonicalNumber
<1>9. CanonicalNumber("zhen") = 1
  BY <1>1, <1>4 DEF CanonicalNumber
<1>10. CanonicalNumber("kan") = 2
  BY <1>1, <1>5 DEF CanonicalNumber
<1>11. CanonicalNumber("gen") = 4
  BY <1>1, <1>6 DEF CanonicalNumber
<1>12. CanonicalNumber("li") = 5
  BY <1>1, <1>7 DEF CanonicalNumber
<1>13. QED
  BY <1>8, <1>9, <1>10, <1>11, <1>12

\* The transitions of the four stay where they are.
LEMMA FaultsStay ==
  /\ TransitionAction(<<"li", "kun">>) = "halt" /\ TransitionCode(<<"li", "kun">>) = <<"li", "kun">>
  /\ TransitionAction(<<"kan", "zhen">>) = "checkpoint"
  /\ TransitionCode(<<"kan", "zhen">>) = <<"kan", "zhen">>
  /\ TransitionCode(<<"gen", "kun">>) = <<"gen", "kun">>
  /\ TransitionCode(<<"kun", "kun">>) = <<"kun", "kun">>
<1>1. /\ ~HardControl(<<"li", "kun">>) /\ ~HardControl(<<"kan", "zhen">>)
      /\ ~HardControl(<<"gen", "kun">>) /\ ~HardControl(<<"kun", "kun">>)
  BY DEF HardControl, OuterElement, InnerElement, TRIGRAM_ELEMENTS
<1>2. TransitionAction(<<"li", "kun">>) = "halt"
  BY DEF TransitionAction
<1>3. TransitionAction(<<"kan", "zhen">>) = "checkpoint"
  <2>1. ~YangOverload(<<"kan", "zhen">>)
    BY DEF YangOverload, yang_count, YangLines
  <2>2. RecoverySeed(<<"kan", "zhen">>)
    BY DEF RecoverySeed, OuterElement, InnerElement, TRIGRAM_ELEMENTS
  <2>3. QED
    BY <1>1, <2>1, <2>2 DEF TransitionAction
<1>4. TransitionAction(<<"gen", "kun">>) = "checkpoint"
  BY <1>1 DEF TransitionAction
<1>5. TransitionAction(<<"kun", "kun">>) = "discover"
  BY DEF TransitionAction
<1>6. QED
  BY <1>1, <1>2, <1>3, <1>4, <1>5 DEF TransitionCode

\* The codes of the outcomes a failure is classified as.
LEMMA FaultOutcomes ==
  /\ OutcomeCode("halted", "verifier_failed") = 40
  /\ OutcomeCode("halted", "patch_search_not_found") = 40
  /\ OutcomeCode("halted", "tool_failed") = 32
  /\ OutcomeCode("halted", "http_timeout") = 17
  /\ OutcomeCode("halted", "path_not_found") = 0
<1>1. classify_outcome("halted", "verifier_failed") = <<"li", "kun">>
  BY DEF classify_outcome, BoundaryReasons
<1>2. classify_outcome("halted", "patch_search_not_found") = <<"li", "kun">>
  <2>1. /\ "patch_search_not_found" \notin BoundaryReasons
        /\ "patch_search_not_found" \notin TimeoutReasons
        /\ "patch_search_not_found" \notin SOFT_MISS_REASONS
        /\ "patch_search_not_found" \notin ExecutorFaults
    BY DEF BoundaryReasons, TimeoutReasons, SOFT_MISS_REASONS, ExecutorFaults
  <2>2. "patch_search_not_found" \notin DOMAIN ScheduleStatus
    BY DEF ScheduleStatus
  <2>3. QED
    BY <2>1, <2>2 DEF classify_outcome
<1>3. classify_outcome("halted", "tool_failed") = <<"gen", "kun">>
  BY DEF classify_outcome, BoundaryReasons, TimeoutReasons, SOFT_MISS_REASONS, ExecutorFaults
<1>4. classify_outcome("halted", "http_timeout") = <<"kan", "zhen">>
  BY DEF classify_outcome, BoundaryReasons, TimeoutReasons
<1>5. classify_outcome("halted", "path_not_found") = <<"kun", "kun">>
  BY DEF classify_outcome, BoundaryReasons, TimeoutReasons, SOFT_MISS_REASONS
<1>6. /\ CodeOf(<<"li", "kun">>) = 40 /\ CodeOf(<<"gen", "kun">>) = 32
      /\ CodeOf(<<"kan", "zhen">>) = 17 /\ CodeOf(<<"kun", "kun">>) = 0
  BY Numbers DEF CodeOf, compute_status
<1>7. QED
  BY <1>1, <1>2, <1>3, <1>4, <1>5, <1>6, FaultsStay DEF OutcomeCode

\* None of the four is bright: two are asleep, two have too much energy.
LEMMA FaultsAreNotTrusted ==
  ASSUME NEW code \in FaultCodes PROVE GovernanceMode(code, "none") # "autonomous"
<1>1. SUFFICES Brightness(code, "none") \in {"dim", "normal"}
  BY DEF GovernanceMode
<1>2. CASE code \in {0, 32}
  BY <1>2 DEF Brightness, Asleep, Hexagram
<1>3. CASE code = 40
  <2>1. StatusOf(40) = <<"li", "kun">>
    BY DEF StatusOf, Hexagram, At, TrigramByNumber
  <2>2. YangCount(40) = 2
    BY <2>1 DEF YangCount, yang_count, YangLines
  <2>3. Bandwidth(40) = 300
    BY <2>1 DEF Bandwidth, OuterElement, InnerElement, TRIGRAM_ELEMENTS
  <2>4. ActionPenalty[TransitionAction(StatusOf(40))] = 300
    BY <2>1, FaultsStay DEF ActionPenalty
  <2>5. lyapunov_energy(40) = 400
    BY <2>2, <2>3, <2>4 DEF lyapunov_energy
  <2>6. QED
    BY <1>3, <2>5 DEF Brightness
<1>4. CASE code = 17
  <2>1. StatusOf(17) = <<"kan", "zhen">>
    BY DEF StatusOf, Hexagram, At, TrigramByNumber
  <2>2. YangCount(17) = 2
    BY <2>1 DEF YangCount, yang_count, YangLines
  <2>3. Bandwidth(17) = 300
    BY <2>1 DEF Bandwidth, OuterElement, InnerElement, TRIGRAM_ELEMENTS
  <2>4. ActionPenalty[TransitionAction(StatusOf(17))] = 225
    BY <2>1, FaultsStay DEF ActionPenalty
  <2>5. lyapunov_energy(17) = 325
    BY <2>2, <2>3, <2>4 DEF lyapunov_energy
  <2>6. QED
    BY <1>4, <2>5 DEF Brightness
<1>5. QED
  BY <1>2, <1>3, <1>4 DEF FaultCodes

\* A first plan that fails has the codes of a fault, or none, or those of a
\* completed run that the host graded.
Coded(next) ==
    /\ next.task \in FaultCodes \cup {NoCode}
    /\ \/ next.iching \in FaultCodes \cup {NoCode}
       \/ task.grader = "host" /\ next.iching = OutcomeCode("completed", "none")

\* The first repair's mode is that of these codes.
TrustInv ==
    /\ task \in Tasks
    /\ attempt \in Nat
    /\ phase = "plan" => attempt = 0
    /\ phase = "asked" => attempt >= 1
    /\ attempt >= 2 => mode = "degraded"
    /\ phase = "failed" /\ attempt = 0 => Coded(codes)
    /\ phase = "asked" /\ attempt = 1 => Coded(codes) /\ mode = RepairMode(1)

\* What the first plan can fail with has such codes.
LEMMA FirstCodes ==
  ASSUME TrustInv, phase = "plan"
  PROVE  /\ \A next \in FailedCodes : Coded(next)
         /\ Coded([iching |-> NoCode, task |-> NoCode])
         /\ \A r \in {"tool_failed", "http_timeout"} : Coded(Halted(r))
<1>1. task.grader \in {"none", "sandbox", "host"}
  BY TasksAssumption DEF TrustInv
<1>2. \A r \in {"patch_search_not_found", "tool_failed", "http_timeout", "path_not_found"} :
        Coded(Halted(r))
  BY FaultOutcomes DEF Coded, Halted, FaultCodes
<1>3. Coded([iching |-> OutcomeCode("halted", "verifier_failed"),
             task |-> OutcomeCode("halted", "verifier_failed")])
  BY FaultOutcomes DEF Coded, FaultCodes
<1>4. task.grader = "host" =>
        Coded([iching |-> OutcomeCode("completed", "none"), task |-> NoCode])
  BY DEF Coded
<1>5. \A next \in FailedCodes : Coded(next)
  <2>1. CASE task.grader = "none"
    BY <1>2, <2>1 DEF FailedCodes
  <2>2. CASE task.grader = "sandbox"
    BY <1>3, <2>2 DEF FailedCodes
  <2>3. CASE task.grader = "host"
    BY <1>4, <2>3 DEF FailedCodes
  <2>4. QED
    BY <1>1, <2>1, <2>2, <2>3
<1>6. Coded([iching |-> NoCode, task |-> NoCode])
  BY DEF Coded
<1>7. QED
  BY <1>2, <1>5, <1>6

\* Every step keeps it.
LEMMA TrustStep ==
  ASSUME TrustInv, [GovernanceNext]_governanceVars
  PROVE  TrustInv'
<1>1. CASE FirstPlan
  <2>1. /\ phase = "plan" /\ attempt = 0 /\ UNCHANGED <<task, attempt, mode>>
    BY <1>1 DEF FirstPlan, TrustInv
  <2>2. \A next : Coded(next)' <=> Coded(next)
    BY <2>1 DEF Coded
  <2>3. \A next : Fails(next) => phase' \in {"failed", "done"} /\ codes' = next
    BY DEF Fails
  <2>4. \A next : Halts(next) => phase' = "done" \/ (phase' = "failed" /\ codes' = next)
    BY <2>1, <2>3 DEF Halts
  <2>5. \A shape : Refused(shape) \/ Breaks \/ Runs(shape) =>
          phase' = "done" \/ (phase' = "failed" /\ Coded(codes'))
    <3>1. \A shape : Refused(shape) => phase' = "done" \/ (phase' = "failed" /\ Coded(codes'))
      BY <2>1, <2>4, FirstCodes DEF Refused
    <3>2. Breaks => phase' = "done" \/ (phase' = "failed" /\ Coded(codes'))
      BY <2>1, <2>4, FirstCodes DEF Breaks
    <3>3. \A shape : Runs(shape) => phase' = "done" \/ (phase' = "failed" /\ Coded(codes'))
      BY <2>1, <2>3, FirstCodes DEF Runs
    <3>4. QED
      BY <3>1, <3>2, <3>3
  <2>6. phase' = "done" \/ (phase' = "failed" /\ Coded(codes'))
    BY <1>1, <2>5 DEF FirstPlan
  <2>7. phase' = "failed" => Coded(codes)'
    BY <2>1, <2>6 DEF Coded
  <2>8. QED
    BY <2>1, <2>6, <2>7 DEF TrustInv
<1>2. CASE AskForRepair
  <2>1. /\ phase = "failed" /\ phase' = "asked" /\ attempt' = attempt + 1
        /\ mode' = RepairMode(attempt + 1) /\ UNCHANGED <<task, codes>>
    BY <1>2 DEF AskForRepair
  <2>2. attempt' >= 2 => mode' = "degraded"
    BY <2>1 DEF RepairMode
  <2>3. attempt = 0 => mode' = RepairMode(1)'
    BY <2>1 DEF RepairMode, failed_code
  <2>4. attempt = 0 => Coded(codes)'
    BY <2>1 DEF TrustInv, Coded
  <2>5. QED
    BY <2>1, <2>2, <2>3, <2>4 DEF TrustInv
<1>3. CASE PlanRefused \/ Repair
  <2>1. /\ phase = "asked" /\ attempt >= 1 /\ UNCHANGED <<task, attempt, mode>>
    BY <1>3 DEF PlanRefused, Repair, TrustInv
  <2>2. \A next : Fails(next) => phase' \in {"failed", "done"}
    BY DEF Fails
  <2>3. \A next : Halts(next) => phase' \in {"failed", "done"}
    BY <2>2 DEF Halts
  <2>4. phase' \in {"failed", "done"}
    BY <1>3, <2>2, <2>3 DEF PlanRefused, Repair, Refused, Breaks, Runs
  <2>5. QED
    BY <2>1, <2>4 DEF TrustInv
<1>4. CASE Done \/ UNCHANGED governanceVars
  BY <1>4 DEF Done, governanceVars, TrustInv, Coded, RepairMode, failed_code
<1>5. QED
  BY <1>1, <1>2, <1>3, <1>4 DEF GovernanceNext

\* What failed by itself is never repaired in the autonomous mode: that mode is
\* left to the first repair of a completed run that the host's grade overruled,
\* for any tasks and any number of attempts.
THEOREM FaultsAreGuarded == GovernanceSpec => []OnlyOverruledIsTrusted
<1>1. GovernanceInit => TrustInv
  BY DEF GovernanceInit, TrustInv
<1>2. TrustInv /\ [GovernanceNext]_governanceVars => TrustInv'
  BY TrustStep
<1>3. TrustInv => OnlyOverruledIsTrusted
  <2> SUFFICES ASSUME TrustInv, phase = "asked", mode = "autonomous"
               PROVE  /\ attempt = 1 /\ task.grader = "host"
                      /\ codes.iching = OutcomeCode("completed", "none")
    BY DEF OnlyOverruledIsTrusted
  <2>1. attempt = 1 /\ Coded(codes) /\ GovernanceMode(failed_code(1), "none") = "autonomous"
    BY DEF TrustInv, RepairMode
  <2>2. codes.iching \notin FaultCodes \cup {NoCode}
    <3> SUFFICES ASSUME codes.iching \in FaultCodes \cup {NoCode} PROVE FALSE
      OBVIOUS
    <3>1. failed_code(1) \in FaultCodes
      BY <2>1 DEF Coded, failed_code, FaultCodes, NoCode
    <3>2. QED
      BY <2>1, <3>1, FaultsAreNotTrusted
  <2>3. QED
    BY <2>1, <2>2 DEF Coded
<1>4. QED
  BY <1>1, <1>2, <1>3, PTL DEF GovernanceSpec
=============================================================================
