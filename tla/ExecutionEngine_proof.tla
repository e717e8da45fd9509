------------------------ MODULE ExecutionEngine_proof ------------------------
(***************************************************************************)
(* Proofs about ExecutionEngine for any plans and limits: steps that       *)
(* conflict never run together, what runs is cleared to run, and a trace   *)
(* tells what became of every step.                                        *)
(***************************************************************************)
EXTENDS ExecutionEngine, SequenceTheorems, WellFoundedInduction, TLAPS

-----------------------------------------------------------------------------
(* Recursion along a plan *)

\* The order of the naturals is well-founded.
LEMMA LessIsWellFounded == IsWellFoundedOn({ss \in Nat \X Nat : ss[1] < ss[2]}, Nat)
BY NatLessThanWellFounded DEF OpToRel

\* A set of naturals that is not empty has a least member.
LEMMA Least ==
  ASSUME NEW T \in SUBSET Nat, T # {}
  PROVE  \E m \in T : \A k \in T : m <= k
<1> DEFINE R == {ss \in Nat \X Nat : ss[1] < ss[2]}
<1>1. IsWellFoundedOn(R, Nat)
  BY LessIsWellFounded
<1>2. PICK m \in T : \A k \in T : ~(<<k, m>> \in R)
  <2> HIDE DEF R
  <2>1. QED
    BY <1>1, WFMin
<1>3. \A k \in T : ~(k < m)
  BY <1>2
<1>4. QED
  BY <1>3

\* What holds of the first value of a function and is carried on from value to
\* value holds of all of them.
LEMMA CarriedOn ==
  ASSUME NEW n \in Nat, NEW S, NEW f, f[0] \in S,
         \A i \in 1 .. n : f[i - 1] \in S => f[i] \in S
  PROVE  \A i \in 0 .. n : f[i] \in S
<1> DEFINE T == {i \in 0 .. n : f[i] \notin S}
<1> SUFFICES ASSUME T # {} PROVE FALSE
  OBVIOUS
<1>1. PICK m \in T : \A k \in T : m <= k
  <2>1. T \in SUBSET Nat
    OBVIOUS
  <2> HIDE DEF T
  <2>2. QED
    BY <2>1, Least
<1>2. m \in 1 .. n /\ m - 1 \in 0 .. n /\ m - 1 \notin T
  BY <1>1
<1>3. QED
  BY <1>1, <1>2

\* A function along an interval that is given from value to value.
Follows(f, n, c, F) == f[0] = c /\ \A i \in 1 .. n : f[i] = F[i][f[i - 1]]

\* There is one.
LEMMA Recursion ==
  ASSUME NEW n \in Nat, NEW S, NEW c \in S, NEW F \in [1 .. n -> [S -> S]]
  PROVE  \E f \in [0 .. n -> S] : Follows(f, n, c, F)
<1> DEFINE Upto(k) ==
      \E f \in [0 .. k -> S] : f[0] = c /\ \A i \in 1 .. k : f[i] = F[i][f[i - 1]]
           T == {k \in 0 .. n : ~Upto(k)}
<1>1. Upto(0)
  <2>1. [i \in 0 .. 0 |-> c] \in [0 .. 0 -> S] /\ [i \in 0 .. 0 |-> c][0] = c
    OBVIOUS
  <2>2. \A i \in 1 .. 0 : FALSE
    OBVIOUS
  <2>3. QED
    BY <2>1, <2>2
<1>2. ASSUME NEW m \in 1 .. n, Upto(m - 1) PROVE Upto(m)
  <2>1. PICK f \in [0 .. m - 1 -> S] :
          f[0] = c /\ \A i \in 1 .. m - 1 : f[i] = F[i][f[i - 1]]
    BY <1>2
  <2> DEFINE g == [i \in 0 .. m |-> IF i = m THEN F[m][f[m - 1]] ELSE f[i]]
  <2>2. f[m - 1] \in S /\ F[m] \in [S -> S]
    OBVIOUS
  <2>3. F[m][f[m - 1]] \in S
    BY <2>2
  <2>4. g \in [0 .. m -> S]
    BY <2>3
  <2>5. \A i \in 0 .. m - 1 : g[i] = f[i]
    OBVIOUS
  <2>6. g[m] = F[m][g[m - 1]] /\ g[0] = c
    BY <2>1, <2>5
  <2>7. \A i \in 1 .. m - 1 : g[i] = F[i][g[i - 1]]
    BY <2>1, <2>5
  <2> HIDE DEF g
  <2>8. \A i \in 1 .. m : i = m \/ i \in 1 .. m - 1
    OBVIOUS
  <2>9. \A i \in 1 .. m : g[i] = F[i][g[i - 1]]
    BY <2>6, <2>7, <2>8
  <2>10. QED
    BY <2>4, <2>6, <2>9
<1> HIDE DEF Upto
<1>3. T = {}
  <2> SUFFICES ASSUME T # {} PROVE FALSE
    OBVIOUS
  <2>1. PICK m \in T : \A k \in T : m <= k
    <3>1. T \in SUBSET Nat
      OBVIOUS
    <3> HIDE DEF T
    <3>2. QED
      BY <3>1, Least
  <2>2. m \in 1 .. n /\ m - 1 \in 0 .. n /\ m - 1 \notin T
    BY <1>1, <2>1
  <2>3. QED
    BY <1>2, <2>1, <2>2
<1>4. Upto(n)
  BY <1>3
<1>5. QED
  BY <1>4 DEF Upto, Follows

-----------------------------------------------------------------------------
(* The steps of a layer *)

\* A conflict is one of both.
LEMMA ConflictsAreMutual == \A i, j : Conflict(i, j) => Conflict(j, i)
BY DEF Conflict

\* Sets of steps of a layer without a conflict between them.
Apart(steps) ==
    {s \in SUBSET steps : \A i, j \in s : i # j => ~Conflict(i, j)}

\* Steps that are taken one after the other as they conflict with none taken do
\* not conflict.
LEMMA PartitionIsApart ==
  ASSUME NEW steps, Len(plan) \in Nat
  PROVE  _partition_non_conflicting_steps(steps) \in Apart(steps)
<1> DEFINE n == Len(plan)
           Taken(i, s) == IF i \in steps /\ \A j \in s : ~Conflict(i, j)
                          THEN s \cup {i} ELSE s
           Walks(g) == g = [i \in 0 .. n |-> IF i = 0 THEN {} ELSE Taken(i, g[i - 1])]
           chosen == CHOOSE g : Walks(g)
           F == [i \in 1 .. n |-> [s \in Apart(steps) |-> Taken(i, s)]]
<1>1. _partition_non_conflicting_steps(steps) = chosen[n]
  BY DEF _partition_non_conflicting_steps
<1>2. \A s \in Apart(steps), i \in 1 .. n : Taken(i, s) \in Apart(steps)
  BY ConflictsAreMutual DEF Apart
<1>3. {} \in Apart(steps)
  BY DEF Apart
<1> HIDE DEF Taken
<1>4. F \in [1 .. n -> [Apart(steps) -> Apart(steps)]]
  BY <1>2
<1>5. PICK f \in [0 .. n -> Apart(steps)] : f[0] = {} /\ \A i \in 1 .. n : f[i] = F[i][f[i - 1]]
  <2> HIDE DEF F
  <2>1. PICK f \in [0 .. n -> Apart(steps)] : Follows(f, n, {}, F)
    BY <1>3, <1>4, Recursion
  <2>2. QED
    BY <2>1 DEF Follows
<1>6. \A i \in 0 .. n : f[i] = IF i = 0 THEN {} ELSE Taken(i, f[i - 1])
  <2> TAKE i \in 0 .. n
  <2>1. CASE i # 0
    <3>1. i \in 1 .. n /\ f[i - 1] \in Apart(steps)
      BY <2>1
    <3>2. QED
      BY <1>5, <2>1, <3>1
  <2>2. QED
    BY <1>5, <2>1
<1>7. Walks(f)
  BY <1>6
<1>8. Walks(chosen)
  <2> HIDE DEF Walks
  <2>1. QED
    BY <1>7
<1> HIDE DEF chosen
<1>9. \A i \in 0 .. n : chosen[i] = IF i = 0 THEN {} ELSE Taken(i, chosen[i - 1])
  BY <1>8
<1>10. chosen[0] \in Apart(steps)
  BY <1>3, <1>9
<1>11. ASSUME NEW i \in 1 .. n, chosen[i - 1] \in Apart(steps)
       PROVE  chosen[i] \in Apart(steps)
  <2>1. i \in 0 .. n /\ i # 0
    OBVIOUS
  <2>2. chosen[i] = Taken(i, chosen[i - 1])
    BY <1>9, <2>1
  <2>3. QED
    BY <1>2, <1>11, <2>2
<1> HIDE DEF n
<1>12. \A i \in 0 .. n : chosen[i] \in Apart(steps)
  <2>1. n \in Nat
    BY DEF n
  <2>2. QED
    BY <1>10, <1>11, <2>1, CarriedOn
<1>13. n \in 0 .. n
  BY DEF n
<1>14. QED
  BY <1>1, <1>12, <1>13

-----------------------------------------------------------------------------
(* The inductive invariant *)

\* What execute_step returns for a step.
StepOutcomes == {Result("completed", NoReason), Result("failed", "action_exception"),
                 Result("failed", "permission_denied"), Result("failed", "sovereignty_breach")}

\* A thread is under way only in its layer, and has brought a result when it is done;
\* a step that was ever let through is booked by the next round, or of this layer.
ThreadOK(i) ==
    /\ thread[i] \in {"submitted", "running"} => pc = "layer" /\ i \in layer
    /\ thread[i] = "done" => outcome[i] \in StepOutcomes
    /\ thread[i] # "none" /\ pc = "top" => i \in processed
    /\ thread[i] # "none" /\ pc = "layer" => i \in processed \cup layer

\* A step that was let through has its dependencies on the trace and its approval.
Cleared(i) ==
    /\ \A d \in plan[i].deps :
          d \in completed /\ d \in Indices /\ results[d] = Result("completed", NoReason)
    /\ plan[i].gate # "open" =>
          \/ approver = "callback" /\ answers[i] = TRUE
          \/ approver = "implicit" /\ plan[i].gate = "guarded"

\* While the plan goes on, what was dealt with is booked, and completed if it is
\* booked so.
BookedOK(i) ==
    i \in processed /\ pc \in {"top", "layer"} =>
        /\ results[i] # None
        /\ results[i].status = "completed" => i \in completed

IInv ==
    /\ TypeOK
    /\ \A i \in Indices : ThreadOK(i) /\ BookedOK(i)
    /\ \A i \in Indices : thread[i] # "none" => Cleared(i)
    /\ \A i \in completed : results[i] = Result("completed", NoReason)
    /\ pc = "layer" => layer \cap processed = {}
    /\ layer \in Apart(Indices)
    /\ TraceIsWhole

-----------------------------------------------------------------------------
(* Helpers *)

\* The fields of a result, and that it is none of None.
LEMMA ResultFields ==
  /\ \A status, reason : /\ Result(status, reason).status = status
                         /\ Result(status, reason).reason = reason
  /\ \A status \in {"completed", "failed", "skipped"}, reason \in Reasons :
        Result(status, reason) \in StepResults /\ Result(status, reason) # None
<1>1. \A status, reason : /\ Result(status, reason).status = status
                          /\ Result(status, reason).reason = reason
  BY DEF Result
<1>2. \A status \in {"completed", "failed", "skipped"}, reason \in Reasons :
        Result(status, reason) \in StepResults
  BY DEF Result, StepResults
<1>3. QED
  BY <1>1, <1>2, NoneAssumption

\* What execute_step returns is a result; the only one that is completed has no reason.
LEMMA OutcomeFields ==
  ASSUME NEW r \in StepOutcomes
  PROVE  /\ r \in StepResults /\ r # None /\ r.status \in {"completed", "failed"}
         /\ r.status = "completed" => r = Result("completed", NoReason)
<1>1. CASE r = Result("completed", NoReason)
  BY <1>1, ResultFields DEF Reasons
<1>2. CASE \E reason \in Reasons : r = Result("failed", reason)
  BY <1>2, ResultFields
<1>3. r = Result("completed", NoReason) \/ \E reason \in Reasons : r = Result("failed", reason)
  BY DEF StepOutcomes, Reasons
<1>4. QED
  BY <1>1, <1>2, <1>3

\* The failures are counted.
LEMMA FailuresAreCounted ==
  ASSUME Len(plan) \in Nat, failures \in Nat
  PROVE  FailuresAfter[Len(plan)] \in Nat
<1> DEFINE n == Len(plan)
           Counted(i, k) == IF i \notin layer THEN k
                            ELSE IF outcome[i].status = "completed" THEN 0
                            ELSE k + 1
           Walks(g) == g = [i \in 0 .. n |-> IF i = 0 THEN failures ELSE Counted(i, g[i - 1])]
           count == CHOOSE g : Walks(g)
           F == [i \in 1 .. n |-> [k \in Nat |-> Counted(i, k)]]
<1>1. FailuresAfter = count
  BY DEF FailuresAfter
<1>2. \A k \in Nat, i \in 1 .. n : Counted(i, k) \in Nat
  OBVIOUS
<1> HIDE DEF Counted
<1>3. F \in [1 .. n -> [Nat -> Nat]]
  BY <1>2
<1>4. PICK f \in [0 .. n -> Nat] : f[0] = failures /\ \A i \in 1 .. n : f[i] = F[i][f[i - 1]]
  <2> DEFINE Counts == Nat
             first == failures
  <2>1. n \in Nat /\ first \in Counts /\ F \in [1 .. n -> [Counts -> Counts]]
    BY <1>3
  <2> HIDE DEF F, n, Counts, first
  <2>2. PICK f \in [0 .. n -> Counts] : Follows(f, n, first, F)
    BY <2>1, Recursion
  <2>3. QED
    BY <2>2 DEF Follows, Counts, first
<1>5. \A i \in 0 .. n : f[i] = IF i = 0 THEN failures ELSE Counted(i, f[i - 1])
  <2> TAKE i \in 0 .. n
  <2>1. CASE i # 0
    <3>1. i \in 1 .. n /\ f[i - 1] \in Nat
      BY <2>1
    <3>2. QED
      BY <1>4, <2>1, <3>1
  <2>2. QED
    BY <1>4, <2>1
<1>6. Walks(f)
  BY <1>5
<1>7. Walks(count)
  <2> HIDE DEF Walks
  <2>1. QED
    BY <1>6
<1> HIDE DEF count
<1>8. \A i \in 0 .. n : count[i] = IF i = 0 THEN failures ELSE Counted(i, count[i - 1])
  BY <1>7
<1>9. count[0] \in Nat
  BY <1>8
<1>10. ASSUME NEW i \in 1 .. n, count[i - 1] \in Nat PROVE count[i] \in Nat
  <2>1. i \in 0 .. n /\ i # 0
    OBVIOUS
  <2>2. count[i] = Counted(i, count[i - 1])
    BY <1>8, <2>1
  <2>3. QED
    BY <1>2, <1>10, <2>2
<1> HIDE DEF n
<1>11. \A i \in 0 .. n : count[i] \in Nat
  <2>1. n \in Nat
    BY DEF n
  <2>2. QED
    BY <1>9, <1>10, <2>1, CarriedOn
<1>12. n \in 0 .. n
  BY DEF n
<1>13. QED
  BY <1>1, <1>11, <1>12 DEF n

\* The least of some steps is one of them.
LEMMA LeastIsOfThem ==
  ASSUME NEW steps \in SUBSET Indices, steps # {}
  PROVE  /\ \E i \in steps : \A j \in steps : i <= j
         /\ (CHOOSE i \in steps : \A j \in steps : i <= j) \in steps
<1>1. steps \in SUBSET Nat
  BY DEF Indices
<1>2. \E i \in steps : \A j \in steps : i <= j
  BY <1>1, Least
<1>3. QED
  BY <1>2

\* What is scheduled is without conflicts, whether in part or alone.
LEMMA ScheduledIsApart ==
  ASSUME NEW steps \in SUBSET Indices, Len(plan) \in Nat
  PROVE  Scheduled(steps) \in Apart(steps)
<1>1. CASE PathBreaches(steps) # {}
  <2> DEFINE one == CHOOSE i \in PathBreaches(steps) : \A j \in PathBreaches(steps) : i <= j
  <2>1. one \in PathBreaches(steps)
    BY <1>1, LeastIsOfThem DEF PathBreaches
  <2>2. Scheduled(steps) = {one}
    BY <1>1 DEF Scheduled
  <2> HIDE DEF one
  <2>3. one \in steps
    BY <2>1 DEF PathBreaches
  <2>4. QED
    BY <2>2, <2>3 DEF Apart
<1>2. CASE PathBreaches(steps) = {}
  BY <1>2, PartitionIsApart DEF Scheduled
<1>3. QED
  BY <1>1, <1>2

-----------------------------------------------------------------------------
(* The steps between layers *)

\* A plan is finite, and its steps are numbered.
LEMMA PlanShape ==
  ASSUME TypeOK
  PROVE  Len(plan) \in Nat /\ plan \in Seq(Steps) /\ Indices \subseteq Nat
<1>1. plan \in Seq(Steps)
  BY PlansAssumption DEF TypeOK
<1>2. QED
  BY <1>1, LenProperties DEF Indices

\* A plan that ended with a result that is not completed does not report success.
LEMMA NoSuccess ==
  ASSUME NEW i \in Indices, results[i] # None, results[i].status # "completed"
  PROVE  ~Success
BY DEF Success

\* The time budget books one step that was not dealt with.
LEMMA TimeBudgetKeeps == IInv /\ TimeBudget => IInv'
<1> SUFFICES ASSUME IInv, TimeBudget PROVE IInv'
  OBVIOUS
<1> DEFINE one == CHOOSE i \in Unprocessed : \A j \in Unprocessed : i <= j
           late == Result("failed", "time_budget_exceeded")
<1>1. /\ pc = "top" /\ pc' = "end" /\ Unprocessed # {}
      /\ results' = [results EXCEPT ![one] = late]
      /\ UNCHANGED <<plan, approver, layer, thread, outcome, processed, completed, failures,
                     answers>>
  BY DEF TimeBudget
<1>2. one \in Indices /\ one \notin processed
  <2>1. Unprocessed \in SUBSET Indices /\ Unprocessed \cap processed = {}
    BY DEF Unprocessed
  <2>2. one \in Unprocessed
    BY <1>1, <2>1, LeastIsOfThem
  <2>3. QED
    BY <2>1, <2>2
<1>3. late \in StepResults /\ late # None /\ late.status = "failed"
  BY ResultFields DEF Reasons
<1> HIDE DEF one, late
<1>4. TypeOK /\ Indices' = Indices
  BY <1>1 DEF IInv, Indices
<1>5. TypeOK'
  BY <1>1, <1>2, <1>3, <1>4 DEF TypeOK
<1>6. results'[one] = late /\ \A i \in Indices \ {one} : results'[i] = results[i]
  BY <1>1, <1>2, <1>4 DEF TypeOK
<1>7. \A d \in completed : d \in Indices /\ results'[d] = results[d]
  BY <1>2, <1>4, <1>6 DEF TypeOK
<1>8. \A i \in Indices : ThreadOK(i)' /\ BookedOK(i)'
  BY <1>1 DEF IInv, ThreadOK, BookedOK
<1>9. \A i \in Indices : thread[i] # "none" => Cleared(i)'
  BY <1>1, <1>4, <1>7 DEF IInv, Cleared
<1>10. layer \in Apart(Indices)'
  BY <1>1, <1>4 DEF IInv, Apart, Conflict, PathsOf
<1>11. TraceIsWhole'
  <2>1. ~Success'
    BY <1>2, <1>3, <1>4, <1>6 DEF Success
  <2>2. \A i \in Indices : thread[i] # "none" => results[i] # None /\ i # one
    BY <1>1, <1>2 DEF IInv, ThreadOK, BookedOK
  <2>3. QED
    BY <1>1, <1>4, <1>6, <2>1, <2>2 DEF TraceIsWhole, Ran
<1>12. QED
  BY <1>1, <1>4, <1>5, <1>7, <1>8, <1>9, <1>10, <1>11 DEF IInv

\* Blocked steps are booked, all of them.
LEMMA BlockedKeeps == IInv /\ BlockedSteps => IInv'
<1> SUFFICES ASSUME IInv, BlockedSteps PROVE IInv'
  OBVIOUS
<1> DEFINE blocked == Result("skipped", "dependencies_not_met")
<1>1. /\ pc = "top" /\ pc' = "end" /\ Unprocessed # {} /\ processed' = Indices
      /\ results' = [i \in Indices |-> IF i \in Unprocessed THEN blocked ELSE results[i]]
      /\ UNCHANGED <<plan, approver, layer, thread, outcome, completed, failures, answers>>
  BY DEF BlockedSteps
<1>2. blocked \in StepResults /\ blocked # None /\ blocked.status = "skipped"
  BY ResultFields DEF Reasons
<1> HIDE DEF blocked
<1>3. TypeOK /\ Indices' = Indices
  BY <1>1 DEF IInv, Indices
<1>4. TypeOK'
  BY <1>1, <1>2, <1>3 DEF TypeOK
<1>5. \A i \in Indices : results'[i] = IF i \in processed THEN results[i] ELSE blocked
  BY <1>1 DEF Unprocessed
<1>6. \A d \in completed : d \in Indices /\ results'[d] = results[d]
  BY <1>3, <1>5 DEF TypeOK
<1>7. \A i \in Indices : ThreadOK(i)' /\ BookedOK(i)'
  BY <1>1 DEF IInv, ThreadOK, BookedOK
<1>8. \A i \in Indices : thread[i] # "none" => Cleared(i)'
  BY <1>1, <1>3, <1>6 DEF IInv, Cleared
<1>9. layer \in Apart(Indices)'
  BY <1>1, <1>3 DEF IInv, Apart, Conflict, PathsOf
<1>10. TraceIsWhole'
  <2>1. \E i \in Indices : results'[i] = blocked
    BY <1>1, <1>5 DEF Unprocessed
  <2>2. ~Success'
    BY <1>2, <1>3, <2>1 DEF Success
  <2>3. \A i \in Indices : thread[i] # "none" => results[i] # None /\ i \in processed
    BY <1>1 DEF IInv, ThreadOK, BookedOK
  <2>4. QED
    BY <1>1, <1>3, <1>5, <2>2, <2>3 DEF TraceIsWhole, Ran
<1>11. QED
  BY <1>1, <1>3, <1>4, <1>6, <1>7, <1>8, <1>9, <1>10 DEF IInv

\* The steps a round has no approval for, was refused it for, or restrains are
\* booked; what is scheduled of the others becomes the layer.
LEMMA RoundKeeps == IInv /\ Round => IInv'
<1> SUFFICES ASSUME IInv, Round PROVE IInv'
  OBVIOUS
<1>1. PICK rejected \in SUBSET {i \in ready_layer : Asked(i)} :
        LET missing == {i \in ready_layer : ApprovalMissing(i)}
            approved == ready_layer \ (missing \cup rejected)
            restrained == {i \in approved : step_restrained_by_relation(i)}
            remaining == approved \ restrained
        IN /\ answers' = [i \in Indices |-> IF i \in ready_layer /\ Asked(i)
                                            THEN i \notin rejected ELSE answers[i]]
           /\ results' = [i \in Indices |->
                 IF i \in missing THEN Result("failed", "approval_required")
                 ELSE IF i \in rejected THEN Result("skipped", "approval_rejected")
                 ELSE IF i \in restrained THEN Result("failed", "restrained")
                 ELSE results[i]]
           /\ processed' = processed \cup missing \cup rejected \cup restrained
           /\ layer' = Scheduled(remaining)
           /\ thread' = [i \in Indices |-> IF i \in Scheduled(remaining)
                                           THEN "submitted" ELSE thread[i]]
           /\ pc' = IF remaining # {} THEN "layer"
                    ELSE IF processed' = Indices THEN "end" ELSE "top"
  BY DEF Round
<1> DEFINE missing == {i \in ready_layer : ApprovalMissing(i)}
           approved == ready_layer \ (missing \cup rejected)
           restrained == {i \in approved : step_restrained_by_relation(i)}
           remaining == approved \ restrained
           booked == missing \cup rejected \cup restrained
<1>2. /\ pc = "top" /\ ready_layer # {}
      /\ UNCHANGED <<plan, approver, outcome, completed, failures>>
  BY DEF Round
<1>3. /\ TypeOK /\ Indices' = Indices /\ Len(plan) \in Nat
  BY <1>2, PlanShape DEF IInv, Indices
<1>4. /\ ready_layer \subseteq Indices /\ ready_layer \cap processed = {}
      /\ \A i \in ready_layer : plan[i].deps \subseteq completed
  BY DEF ready_layer, Unprocessed
<1>5. /\ booked \cup remaining = ready_layer /\ booked \cap remaining = {}
      /\ remaining \in SUBSET Indices
  BY <1>4
<1>6. layer' = Scheduled(remaining) /\ layer' \in Apart(remaining) /\ layer' \subseteq remaining
  <2>1. layer' = Scheduled(remaining)
    BY <1>1
  <2> HIDE DEF remaining
  <2>2. Scheduled(remaining) \in Apart(remaining)
    BY <1>3, <1>5, ScheduledIsApart
  <2>3. QED
    BY <2>1, <2>2 DEF Apart
<1>7. ASSUME NEW i \in Indices
      PROVE  /\ i \notin booked => results'[i] = results[i]
             /\ i \in booked => /\ results'[i] \in StepResults /\ results'[i] # None
                                /\ results'[i].status # "completed"
  <2>1. results'[i] = IF i \in missing THEN Result("failed", "approval_required")
                      ELSE IF i \in rejected THEN Result("skipped", "approval_rejected")
                      ELSE IF i \in restrained THEN Result("failed", "restrained")
                      ELSE results[i]
    BY <1>1
  <2>2. {"approval_required", "approval_rejected", "restrained"} \subseteq Reasons
    BY DEF Reasons
  <2> HIDE DEF missing, restrained
  <2>3. QED
    BY <2>1, <2>2, ResultFields
<1>8. \A i \in Indices : thread'[i] = IF i \in layer' THEN "submitted" ELSE thread[i]
  BY <1>1, <1>6
<1>9. processed' = processed \cup booked
  BY <1>1
<1>10. pc' = IF remaining # {} THEN "layer" ELSE IF processed' = Indices THEN "end" ELSE "top"
  BY <1>1
<1>11. ASSUME NEW i \in remaining
       PROVE  plan[i].gate # "open" =>
                 \/ approver = "callback" /\ answers'[i] = TRUE
                 \/ approver = "implicit" /\ plan[i].gate = "guarded"
  <2>1. i \in ready_layer /\ ~ApprovalMissing(i) /\ i \notin rejected /\ i \in Indices
    BY <1>4
  <2>2. CASE Asked(i)
    <3>1. answers'[i] = TRUE
      BY <1>1, <2>1, <2>2
    <3>2. QED
      BY <2>2, <3>1 DEF Asked
  <2>3. CASE ~Asked(i) /\ plan[i].gate # "open"
    <3>1. approver = "implicit" /\ plan[i].gate # "mcp"
      BY <2>1, <2>3, <1>3 DEF Asked, ApprovalMissing, TypeOK
    <3>2. plan[i].gate \in {"open", "guarded", "mcp"}
      <4>1. plan[i] \in Steps
        BY <2>1, <1>3, PlanShape, ElementOfSeq DEF Indices
      <4>2. QED
        BY <4>1 DEF Steps
    <3>3. QED
      BY <2>3, <3>1, <3>2
  <2>4. QED
    BY <2>2, <2>3
<1>12. \A i \in Indices : i \notin ready_layer => answers'[i] = answers[i]
  BY <1>1
<1>13. /\ DOMAIN answers' = Indices /\ DOMAIN results' = Indices /\ DOMAIN thread' = Indices
       /\ answers' = [i \in Indices |-> answers'[i]]
       /\ results' = [i \in Indices |-> results'[i]]
       /\ thread' = [i \in Indices |-> thread'[i]]
       /\ \A i \in Indices : answers'[i] \in BOOLEAN \cup {None}
  BY <1>1, <1>3 DEF TypeOK
<1> HIDE DEF missing, approved, restrained, remaining, booked
<1>14. TypeOK'
  <2>1. \A i \in Indices : results'[i] \in StepResults \cup {None}
    BY <1>3, <1>7 DEF TypeOK
  <2>2. \A i \in Indices :
          thread'[i] \in {"none", "submitted", "running", "done", "raised"}
    BY <1>3, <1>8 DEF TypeOK
  <2>3. processed' \subseteq Indices /\ completed \subseteq processed' /\ layer' \subseteq Indices
    BY <1>3, <1>4, <1>5, <1>6, <1>9 DEF TypeOK
  <2>4. pc' \in {"top", "layer", "end", "raised"}
    BY <1>10
  <2>5. answers' \in [Indices -> BOOLEAN \cup {None}]
    BY <1>13
  <2>6. QED
    BY <1>2, <1>3, <1>13, <2>1, <2>2, <2>3, <2>4, <2>5 DEF TypeOK
<1>15. ASSUME NEW i \in Indices PROVE ThreadOK(i)' /\ BookedOK(i)'
  <2>1. ThreadOK(i)'
    BY <1>2, <1>5, <1>6, <1>8, <1>9, <1>10 DEF IInv, ThreadOK
  <2>2. BookedOK(i)'
    BY <1>2, <1>7, <1>9 DEF IInv, BookedOK
  <2>3. QED
    BY <2>1, <2>2
<1>16. \A d \in completed : d \in Indices /\ results'[d] = results[d] /\ d \in processed
  BY <1>3, <1>4, <1>5, <1>7 DEF TypeOK
<1>17. ASSUME NEW i \in Indices, thread'[i] # "none" PROVE Cleared(i)'
  <2>1. CASE i \in layer'
    <3>1. i \in remaining /\ plan[i].deps \subseteq completed
      BY <1>4, <1>5, <1>6, <2>1
    <3>2. \A d \in completed : results'[d] = Result("completed", NoReason)
      BY <1>16 DEF IInv
    <3>3. QED
      BY <1>2, <1>3, <1>11, <1>16, <3>1, <3>2 DEF Cleared, Result
  <2>2. CASE i \notin layer'
    <3>1. thread[i] # "none" /\ Cleared(i) /\ i \in processed
      BY <1>2, <1>8, <1>17, <2>2 DEF IInv, ThreadOK
    <3>2. answers'[i] = answers[i]
      BY <1>4, <1>12, <3>1
    <3>3. QED
      BY <1>2, <1>3, <1>16, <3>1, <3>2 DEF Cleared, Result
  <2>3. QED
    BY <2>1, <2>2
<1>18. pc' = "layer" => layer' \cap processed' = {}
  BY <1>4, <1>5, <1>6, <1>9
<1>19. (layer \in Apart(Indices))'
  BY <1>2, <1>3, <1>5, <1>6 DEF Apart, Conflict, PathsOf
<1>20. TraceIsWhole'
  <2> SUFFICES ASSUME pc' = "end" PROVE TraceIsWhole'
    BY DEF TraceIsWhole, Success
  <2>1. remaining = {} /\ layer' = {}
    BY <1>6, <1>10
  <2>2. \E i \in Indices : i \in booked
    BY <1>2, <1>4, <1>5, <2>1
  <2>3. ~Success'
    BY <1>3, <1>7, <2>2 DEF Success
  <2>4. \A i \in Indices : thread'[i] # "none" => results'[i] # None
    <3> SUFFICES ASSUME NEW i \in Indices, thread'[i] # "none" PROVE results'[i] # None
      OBVIOUS
    <3>1. thread[i] # "none" /\ i \in processed
      BY <1>2, <1>8, <2>1 DEF IInv, ThreadOK
    <3>2. results[i] # None
      BY <1>2, <3>1 DEF IInv, BookedOK
    <3>3. QED
      BY <1>7, <3>2
  <2>5. QED
    BY <1>3, <2>3, <2>4 DEF TraceIsWhole, Ran
<1>21. QED
  BY <1>2, <1>3, <1>14, <1>15, <1>16, <1>17, <1>18, <1>19, <1>20 DEF IInv, Result

-----------------------------------------------------------------------------
(* Layers *)

\* An exception leaves everything as it is.
LEMMA RaisesKeeps == IInv /\ (RoundRaises \/ CollectRaises) => IInv'
<1> SUFFICES ASSUME IInv, RoundRaises \/ CollectRaises PROVE IInv'
  OBVIOUS
<1>1. /\ pc' = "raised" /\ (pc = "layer" => LayerDone)
      /\ UNCHANGED <<plan, approver, layer, thread, outcome, results, processed, completed,
                     failures, answers>>
  BY DEF RoundRaises, CollectRaises
<1>2. TypeOK' /\ Indices' = Indices
  BY <1>1 DEF IInv, TypeOK, Indices
<1>3. \A i \in Indices : ThreadOK(i)' /\ BookedOK(i)'
  BY <1>1 DEF IInv, ThreadOK, BookedOK, LayerDone
<1>4. \A i \in Indices : thread[i] # "none" => Cleared(i)'
  BY <1>1, <1>2 DEF IInv, Cleared, Result
<1>5. (layer \in Apart(Indices))'
  BY <1>1, <1>2 DEF IInv, Apart, Conflict, PathsOf
<1>6. TraceIsWhole'
  BY <1>1 DEF TraceIsWhole, Success
<1>7. QED
  BY <1>1, <1>2, <1>3, <1>4, <1>5, <1>6 DEF IInv, Result

\* What the threads do changes nothing on the trace.
LEMMA ThreadsFrame ==
  ASSUME IInv, TypeOK', NEW i \in Indices, pc = "layer", i \in layer, thread[i] # "none",
         \A j \in Indices \ {i} : thread'[j] = thread[j] /\ outcome'[j] = outcome[j],
         ThreadOK(i)',
         UNCHANGED <<plan, approver, pc, layer, results, processed, completed, failures, answers>>
  PROVE  IInv'
<1>1. Indices' = Indices
  BY DEF Indices
<1>2. \A j \in Indices : ThreadOK(j)' /\ BookedOK(j)'
  BY DEF IInv, ThreadOK, BookedOK
<1>3. \A j \in Indices : thread'[j] # "none" => Cleared(j)'
  BY <1>1 DEF IInv, Cleared, Result
<1>4. (layer \in Apart(Indices))'
  BY <1>1 DEF IInv, Apart, Conflict, PathsOf
<1>5. TraceIsWhole'
  BY DEF TraceIsWhole, Success
<1>6. QED
  BY <1>1, <1>2, <1>3, <1>4, <1>5 DEF IInv, Result

\* A thread that starts, and one that brings a result or raises.
LEMMA ThreadKeeps ==
  ASSUME IInv, NEW i \in Indices, StartStep(i) \/ EndStep(i) PROVE IInv'
<1>1. TypeOK /\ Indices' = Indices
  BY DEF IInv, StartStep, EndStep, Indices
<1>2. CASE StartStep(i)
  <2>1. /\ pc = "layer" /\ thread[i] = "submitted" /\ thread' = [thread EXCEPT ![i] = "running"]
        /\ UNCHANGED <<plan, approver, pc, layer, outcome, results, processed, completed,
                       failures, answers>>
    BY <1>2 DEF StartStep
  <2>2. i \in layer
    BY <2>1 DEF IInv, ThreadOK
  <2>3. TypeOK'
    BY <1>1, <2>1 DEF TypeOK
  <2>4. ThreadOK(i)'
    BY <1>1, <2>1, <2>2 DEF TypeOK, ThreadOK
  <2>5. \A j \in Indices \ {i} : thread'[j] = thread[j]
    BY <1>1, <2>1 DEF TypeOK
  <2>6. QED
    BY <2>1, <2>2, <2>3, <2>4, <2>5, ThreadsFrame
<1>3. CASE EndStep(i)
  <2>1. /\ thread[i] = "running"
        /\ UNCHANGED <<plan, approver, pc, layer, results, processed, completed, failures,
                       answers>>
        /\ \/ /\ thread' = [thread EXCEPT ![i] = "done"]
              /\ \E result \in StepOutcomes : outcome' = [outcome EXCEPT ![i] = result]
           \/ thread' = [thread EXCEPT ![i] = "raised"] /\ UNCHANGED outcome
    BY <1>3 DEF EndStep, StepOutcomes
  <2>2. pc = "layer" /\ i \in layer
    BY <2>1 DEF IInv, ThreadOK
  <2>3. CASE /\ thread' = [thread EXCEPT ![i] = "done"]
             /\ \E result \in StepOutcomes : outcome' = [outcome EXCEPT ![i] = result]
    <3>1. PICK result \in StepOutcomes : outcome' = [outcome EXCEPT ![i] = result]
      BY <2>3
    <3>2. result \in StepResults
      BY OutcomeFields
    <3>3. outcome' \in [Indices -> StepResults \cup {None}] /\ outcome'[i] \in StepOutcomes
          /\ \A j \in Indices \ {i} : outcome'[j] = outcome[j]
      BY <1>1, <3>1, <3>2 DEF TypeOK
    <3>4. thread'[i] = "done" /\ \A j \in Indices \ {i} : thread'[j] = thread[j]
      BY <1>1, <2>3 DEF TypeOK
    <3>5. TypeOK'
      BY <1>1, <2>1, <2>3, <3>3 DEF TypeOK
    <3>6. ThreadOK(i)'
      BY <2>1, <2>2, <3>3, <3>4 DEF ThreadOK
    <3>7. QED
      BY <2>1, <2>2, <3>3, <3>4, <3>5, <3>6, ThreadsFrame
  <2>4. CASE thread' = [thread EXCEPT ![i] = "raised"] /\ UNCHANGED outcome
    <3>1. thread'[i] = "raised" /\ \A j \in Indices \ {i} : thread'[j] = thread[j]
      BY <1>1, <2>4 DEF TypeOK
    <3>2. TypeOK'
      BY <1>1, <2>1, <2>4 DEF TypeOK
    <3>3. ThreadOK(i)'
      BY <2>1, <2>2, <3>1 DEF ThreadOK
    <3>4. QED
      BY <2>1, <2>2, <2>4, <3>1, <3>2, <3>3, ThreadsFrame
  <2>5. QED
    BY <2>1, <2>3, <2>4
<1>4. QED
  BY <1>2, <1>3

\* The results of a layer are booked up to the first that breaks the plan off.
LEMMA CollectKeeps == IInv /\ Collect => IInv'
<1> SUFFICES ASSUME IInv, Collect PROVE IInv'
  OBVIOUS
<1> DEFINE booked == {i \in layer : \A j \in layer : j < i => ~Breaks(j)}
           broken == \E i \in layer : Breaks(i)
           count == FailuresAfter[Len(plan)]
<1>1. /\ pc = "layer" /\ \A i \in layer : thread[i] = "done"
      /\ results' = [i \in Indices |-> IF i \in booked THEN outcome[i] ELSE results[i]]
      /\ processed' = processed \cup booked
      /\ completed' = completed \cup {i \in booked : outcome[i].status = "completed"}
      /\ pc' = IF broken \/ processed' = Indices THEN "end" ELSE "top"
      /\ failures' = count
      /\ UNCHANGED <<plan, approver, layer, thread, outcome, answers>>
  BY DEF Collect
<1>2. /\ TypeOK /\ Indices' = Indices /\ Len(plan) \in Nat
      /\ layer \subseteq Indices /\ layer \cap processed = {} /\ Indices \subseteq Nat
  BY <1>1, PlanShape DEF IInv, Indices, TypeOK
<1>3. booked \subseteq layer /\ (~broken => booked = layer)
  OBVIOUS
<1>4. ASSUME broken
      PROVE  \E j \in booked : Breaks(j) /\ \A i \in layer \ booked : j < i
  <2> DEFINE breaking == {i \in layer : Breaks(i)}
  <2>1. PICK j \in breaking : \A k \in breaking : j <= k
    <3>1. breaking \in SUBSET Indices /\ breaking # {}
      BY <1>2, <1>4
    <3> HIDE DEF breaking
    <3>2. QED
      BY <3>1, LeastIsOfThem
  <2>2. \A k \in layer : k < j => ~Breaks(k)
    <3> SUFFICES ASSUME NEW k \in layer, k < j, Breaks(k) PROVE FALSE
      OBVIOUS
    <3>1. j <= k /\ j \in Nat /\ k \in Nat
      BY <1>2, <2>1
    <3>2. QED
      BY <3>1
  <2>3. j \in booked /\ Breaks(j)
    BY <2>1, <2>2
  <2>4. ASSUME NEW i \in layer \ booked PROVE j < i
    <3>1. PICK k \in layer : k < i /\ Breaks(k)
      BY <2>4
    <3>2. j <= k /\ j \in Nat /\ k \in Nat /\ i \in Nat
      BY <1>2, <2>1, <3>1
    <3>3. QED
      BY <3>1, <3>2
  <2>5. QED
    BY <2>3, <2>4
<1>5. count \in Nat
  BY <1>2, FailuresAreCounted DEF TypeOK
<1> HIDE DEF booked, broken, count
<1>6. \A i \in layer : /\ outcome[i] \in StepResults /\ outcome[i] # None
                       /\ outcome[i].status \in {"completed", "failed"}
                       /\ outcome[i].status = "completed" =>
                             outcome[i] = Result("completed", NoReason)
                       /\ Breaks(i) => outcome[i].status # "completed"
  BY <1>1, <1>2, OutcomeFields DEF IInv, ThreadOK, Breaks
<1>7. \A i \in Indices : results'[i] = IF i \in booked THEN outcome[i] ELSE results[i]
  BY <1>1
<1>8. TypeOK'
  <2>1. results' \in [Indices -> StepResults \cup {None}]
    BY <1>1, <1>2, <1>3, <1>6 DEF TypeOK
  <2>2. completed' \subseteq processed' /\ processed' \subseteq Indices
    BY <1>1, <1>2, <1>3 DEF TypeOK
  <2>3. pc' \in {"top", "layer", "end", "raised"}
    BY <1>1
  <2>4. failures' \in Nat
    BY <1>1, <1>5
  <2>5. QED
    BY <1>1, <1>2, <2>1, <2>2, <2>3, <2>4 DEF TypeOK
<1>9. \A d \in completed : d \in Indices /\ d \in processed /\ results'[d] = results[d]
  BY <1>2, <1>3, <1>7 DEF TypeOK
<1>10. ASSUME NEW d \in completed' PROVE results'[d] = Result("completed", NoReason)
  <2>1. CASE d \in completed
    BY <1>9, <2>1 DEF IInv
  <2>2. CASE d \in booked /\ outcome[d].status = "completed"
    BY <1>2, <1>3, <1>6, <1>7, <2>2
  <2>3. QED
    BY <1>1, <2>1, <2>2
<1>11. ASSUME NEW i \in Indices PROVE ThreadOK(i)' /\ BookedOK(i)'
  <2>1. ThreadOK(i)'
    BY <1>1, <1>3 DEF IInv, ThreadOK
  <2>2. ASSUME i \in booked PROVE BookedOK(i)'
    BY <1>1, <1>3, <1>6, <1>7, <2>2 DEF BookedOK
  <2>3. ASSUME i \notin booked PROVE BookedOK(i)'
    BY <1>1, <1>7, <2>3 DEF IInv, BookedOK
  <2>4. QED
    BY <2>1, <2>2, <2>3
<1>12. ASSUME NEW i \in Indices, thread[i] # "none" PROVE Cleared(i)'
  BY ZenonT(60), <1>1, <1>2, <1>9, <1>12 DEF IInv, Cleared, Result
<1>13. (layer \in Apart(Indices))'
  BY <1>1, <1>2 DEF IInv, Apart, Conflict, PathsOf
<1>14. TraceIsWhole'
  <2> SUFFICES ASSUME pc' = "end" PROVE TraceIsWhole'
    BY DEF TraceIsWhole, Success
  <2>1. \A i \in Indices : thread[i] # "none" /\ i \notin layer => i \notin booked /\ results[i] # None
    BY <1>1, <1>3 DEF IInv, ThreadOK, BookedOK
  <2>2. CASE broken
    <3>1. PICK j \in booked : Breaks(j) /\ \A i \in layer \ booked : j < i
      BY <1>4, <2>2
    <3>2. j \in layer /\ j \in Indices /\ results'[j] = outcome[j]
      BY <1>2, <1>3, <1>7
    <3>3. results'[j] # None /\ results'[j].status = "failed"
      BY <1>6, <3>1, <3>2
    <3>4. ~Success'
      BY <1>2, <3>2, <3>3 DEF Success
    <3>5. \A i \in Indices : thread[i] # "none" /\ results'[i] = None =>
             i \in layer /\ j < i
      BY <1>6, <1>7, <2>1, <3>1, <1>3
    <3>6. QED
      BY <1>1, <1>2, <3>2, <3>3, <3>4, <3>5 DEF TraceIsWhole, Ran
  <2>3. CASE ~broken
    <3>1. processed' = Indices /\ booked = layer
      BY <1>1, <1>3, <2>3
    <3>2. \A i \in Indices : results'[i] # None
      BY <1>1, <1>6, <1>7, <3>1 DEF IInv, BookedOK
    <3>3. ASSUME NEW i \in Indices, results'[i].status = "completed" PROVE i \in completed'
      <4>1. CASE i \in booked
        BY <1>1, <1>7, <3>3, <4>1
      <4>2. CASE i \notin booked
        BY <1>1, <1>7, <3>1, <3>3, <4>2 DEF IInv, BookedOK
      <4>3. QED
        BY <4>1, <4>2
    <3>4. Success' => Indices \subseteq completed'
      BY <1>2, <3>2, <3>3 DEF Success
    <3>5. completed' \subseteq Indices
      BY <1>8, <1>2 DEF TypeOK
    <3>6. Success' => completed' = Indices
      BY <3>4, <3>5
    <3>7. QED
      BY <1>2, <3>2, <3>6 DEF TraceIsWhole
  <2>4. QED
    BY <2>2, <2>3
<1>15. pc' # "layer"
  BY <1>1
<1>16. QED
  BY <1>1, <1>2, <1>8, <1>10, <1>11, <1>12, <1>13, <1>14, <1>15 DEF IInv, Result

-----------------------------------------------------------------------------
(* The theorems *)

\* Before the first round.
LEMMA InitHolds == Init => IInv
<1> SUFFICES ASSUME Init PROVE IInv
  OBVIOUS
<1>1. \A i \in Indices : thread[i] = "none" /\ results[i] = None
  BY DEF Init
<1>2. TypeOK
  BY DEF Init, TypeOK
<1>3. \A i \in Indices : ThreadOK(i) /\ BookedOK(i)
  BY <1>1 DEF Init, ThreadOK, BookedOK
<1>4. layer \in Apart(Indices) /\ pc # "layer" /\ completed = {}
  BY DEF Init, Apart
<1>5. TraceIsWhole
  BY <1>1 DEF TraceIsWhole, Success, Ran
<1>6. QED
  BY <1>1, <1>2, <1>3, <1>4, <1>5 DEF IInv

\* Every step keeps the invariant.
LEMMA NextKeeps == IInv /\ [Next]_vars => IInv'
<1> SUFFICES ASSUME IInv, [Next]_vars PROVE IInv'
  OBVIOUS
<1>1. CASE TimeBudget
  BY <1>1, TimeBudgetKeeps
<1>2. CASE Advance
  BY <1>2, BlockedKeeps, RoundKeeps, RaisesKeeps, CollectKeeps DEF Advance
<1>3. CASE \E i \in Indices : StartStep(i) \/ EndStep(i)
  BY <1>3, ThreadKeeps
<1>4. CASE UNCHANGED vars
  <2>1. UNCHANGED <<plan, approver, pc, layer, thread, outcome, results, processed, completed,
                    failures, answers>>
    BY <1>4 DEF vars
  <2>2. TypeOK' /\ Indices' = Indices
    BY <2>1 DEF IInv, TypeOK, Indices
  <2>3. \A i \in Indices : ThreadOK(i)' /\ BookedOK(i)' /\ (thread[i] # "none" => Cleared(i)')
    BY <2>1, <2>2 DEF IInv, ThreadOK, BookedOK, Cleared, Result
  <2>4. (layer \in Apart(Indices))' /\ TraceIsWhole'
    BY <2>1, <2>2 DEF IInv, Apart, Conflict, PathsOf, TraceIsWhole, Success, Ran
  <2>5. QED
    BY <2>1, <2>2, <2>3, <2>4 DEF IInv, Result
<1>5. QED
  BY <1>1, <1>2, <1>3, <1>4 DEF Next

\* The inductive invariant of a plan's rounds holds throughout.
THEOREM RoundsInvariant == Spec => []IInv
BY InitHolds, NextKeeps, PTL DEF Spec

\* The variables have their types, the number of failures in a row among them.
THEOREM EngineTypes == Spec => []TypeOK
<1>1. IInv => TypeOK
  BY DEF IInv
<1>2. QED
  BY <1>1, RoundsInvariant, PTL

\* Two steps whose threads run at the same time never name a path that one of them
\* writes, however long the plan (_partition_non_conflicting_steps).
THEOREM RunningApart == Spec => []ConflictsRunApart
<1>1. IInv => ConflictsRunApart
  BY DEF IInv, ThreadOK, Apart, Conflict, ConflictsRunApart
<1>2. QED
  BY <1>1, RoundsInvariant, PTL

\* A step that ran has its dependencies on the trace and its last approval, also
\* when it was put off and asked for again.
THEOREM OnlyClearedRun == Spec => []RunsAreCleared
<1>1. IInv => RunsAreCleared
  BY DEF IInv, Cleared, Ran, RunsAreCleared
<1>2. QED
  BY <1>1, RoundsInvariant, PTL

\* A plan reported as completed completed every step, and a step that ran and is not
\* on the trace was in the last layer, behind the failure that broke the plan off.
THEOREM TracesAreWhole == Spec => []TraceIsWhole
<1>1. IInv => TraceIsWhole
  BY DEF IInv
<1>2. QED
  BY <1>1, RoundsInvariant, PTL
=============================================================================
