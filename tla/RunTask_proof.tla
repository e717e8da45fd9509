--------------------------- MODULE RunTask_proof ---------------------------
(***************************************************************************)
(* Proofs about RunTask: that a run leaves the evidence of at most one     *)
(* action behind (WritesAreRecorded), from an invariant over the run, its  *)
(* worker thread and its records; that an admitted resume overwrites       *)
(* nobody's edit (ResumesKeepEdits); and that a run which reports success  *)
(* has applied its plan, alone or over a resume (SuccessApplies).          *)
(***************************************************************************)
EXTENDS RunTask, SequenceTheorems, FiniteSetTheorems, WellFoundedInduction, TLAPS

-----------------------------------------------------------------------------
(* Types *)

Plans == {request.plan : request \in Requests} \cup {<<>>}
Jobs == [plan : Plans, multi : BOOLEAN, mode : {"full", "wal"}, source : Runs \cup {None},
         ready : SUBSET [path : Paths, type : {"write_text", "patch_text"}],
         clean : BOOLEAN, admitted : BOOLEAN, n : Nat, pending : Seq(CheckpointType)]
Workers == [at : Phases, n : Nat, text : File, pre : File, post : File]
Stages == {"idle", "admitted", "over", "act", "wait", "observe", "close", "leave", "end", "dead"}

\* A plan is a sequence of actions; only one given as a list has several.
LEMMA PlanShape ==
  /\ \A plan \in Plans : plan \in Seq(Actions)
  /\ \A request \in Requests :
       /\ request.plan \in Plans /\ request.plan # <<>> /\ Len(request.plan) > 0
       /\ Len(request.plan) > 1 => request.multi
       /\ request.multi \in BOOLEAN /\ request.mode \in {"full", "wal"}
  /\ Len(<<>>) = 0
<1>1. \A request \in Requests :
        /\ request.plan \in Seq(Actions) /\ Len(request.plan) > 0
        /\ Len(request.plan) > 1 => request.multi
        /\ request.multi \in BOOLEAN /\ request.mode \in {"full", "wal"}
  BY RequestsAssumption
<1>2. <<>> \in Seq(Actions) /\ Len(<<>>) = 0
  OBVIOUS
<1>3. \A request \in Requests : request.plan \in Plans /\ request.plan # <<>>
  BY <1>1, <1>2 DEF Plans
<1>4. \A plan \in Plans : plan \in Seq(Actions)
  BY <1>1, <1>2 DEF Plans
<1>5. QED
  BY <1>1, <1>2, <1>3, <1>4

\* What an action is.
LEMMA ActionShape ==
  ASSUME NEW action \in Actions
  PROVE  /\ action.type \in {"write_text", "patch_text", "refused"} /\ action.path \in Paths
         /\ action.type = "write_text" => action.text \in Seq(STRING)
         /\ action.type = "patch_text" => action.search \in Seq(STRING) /\ action.replace \in Seq(STRING)
         /\ action.type = "refused" =>
               action.status \in {"denied", "halted"} /\ action.reason \in BoundaryReasons
BY DEF Actions

\* A patch that applies leaves lines.
LEMMA PatchedLines ==
  ASSUME NEW content \in File, NEW action \in Actions, action.type = "patch_text",
         PatchRejection(content, action) = NoReason
  PROVE  content \in Seq(STRING) /\ Patched(content, action) \in Seq(STRING)
<1>1. action.search \in Seq(STRING) /\ action.replace \in Seq(STRING)
  BY ActionShape
<1>2. content \in Seq(STRING)
  BY DEF File, PatchRejection, NoReason
<1>3. Matches(content, action.search) # {}
  BY DEF PatchRejection, NoReason
<1> DEFINE k == CHOOSE i \in Matches(content, action.search) : TRUE
<1>4. k \in 1 .. Len(content) /\ k + Len(action.search) - 1 <= Len(content)
  BY <1>3 DEF Matches
<1>5. Len(content) \in Nat /\ Len(action.search) \in Nat
  BY <1>1, <1>2
<1>6. SubSeq(content, 1, k - 1) \in Seq(STRING)
  <2>1. \A i \in 1 .. k - 1 : content[i] \in STRING
    BY <1>2, <1>4, <1>5
  <2> HIDE DEF k
  <2>2. QED
    BY <1>4, <1>5, <2>1, SubSeqProperties
<1>7. SubSeq(content, k + Len(action.search), Len(content)) \in Seq(STRING)
  <2>1. \A i \in k + Len(action.search) .. Len(content) : content[i] \in STRING
    BY <1>2, <1>4, <1>5
  <2> HIDE DEF k
  <2>2. QED
    BY <1>4, <1>5, <2>1, SubSeqProperties
<1> HIDE DEF k
<1>8. SubSeq(content, 1, k - 1) \o action.replace \in Seq(STRING)
  BY <1>1, <1>6, ConcatProperties
<1>9. (SubSeq(content, 1, k - 1) \o action.replace)
         \o SubSeq(content, k + Len(action.search), Len(content)) \in Seq(STRING)
  BY <1>7, <1>8, ConcatProperties
<1>10. Patched(content, action) =
         (SubSeq(content, 1, k - 1) \o action.replace)
           \o SubSeq(content, k + Len(action.search), Len(content))
  BY DEF Patched, k
<1>11. QED
  BY <1>2, <1>9, <1>10

-----------------------------------------------------------------------------
(* The last of some records *)

\* A set of naturals that is not empty has a least member.
LEMMA Least ==
  ASSUME NEW T \in SUBSET Nat, T # {}
  PROVE  \E m \in T : \A k \in T : m <= k
<1> DEFINE R == {ss \in Nat \X Nat : ss[1] < ss[2]}
<1>1. IsWellFoundedOn(R, Nat)
  BY NatLessThanWellFounded DEF OpToRel
<1>2. PICK m \in T : \A k \in T : ~(<<k, m>> \in R)
  <2> HIDE DEF R
  <2>1. QED
    BY <1>1, WFMin
<1>3. \A k \in T : ~(k < m)
  BY <1>2
<1>4. QED
  BY <1>3

\* Of some of the first n there is a last.
LEMMA Greatest ==
  ASSUME NEW n \in Nat, NEW T \in SUBSET (1 .. n), T # {}
  PROVE  \E m \in T : \A k \in T : k <= m
<1> DEFINE D == {n - k : k \in T}
<1>1. D \in SUBSET Nat /\ D # {}
  <2>1. \A k \in T : n - k \in Nat
    OBVIOUS
  <2>2. QED
    BY <2>1
<1>2. PICK d \in D : \A e \in D : d <= e
  <2> HIDE DEF D
  <2>1. QED
    BY <1>1, Least
<1>3. PICK m \in T : d = n - m
  BY <1>2
<1>4. ASSUME NEW k \in T PROVE k <= m
  <2>1. n - k \in D
    OBVIOUS
  <2>2. n - m <= n - k
    BY <1>2, <1>3, <2>1
  <2>3. QED
    BY <2>2
<1>5. QED
  BY <1>4

-----------------------------------------------------------------------------
(* The inductive invariant *)

Active(r) == pc[r] \notin {"idle", "end", "dead"}

\* Before its first action a run has left nothing.
Fresh(r) ==
    pc[r] \in {"idle", "admitted", "over"} =>
        /\ work[r].at = "none" /\ landed[r] = {} /\ manifests[r] = <<>>
        /\ \A i \in DOMAIN wal : wal[i].run # r
        /\ job[r].n = 0 /\ job[r].pending = <<>>
        /\ pc[r] = "idle" => ~job[r].admitted

\* How far a run is in its plan, and that it goes on after no failure.
Walks(r) ==
    LET p == pc[r] j == job[r] o == outcome[r] IN
    /\ p \notin {"idle", "end"} => j.plan # <<>>
    /\ Len(j.plan) > 1 => j.multi
    /\ p \in {"admitted", "over", "act", "wait", "observe", "leave"} =>
          j.n < Len(j.plan) /\ j.pending = <<>>
    /\ p = "close" => j.n \in 1 .. Len(j.plan)
    /\ j.pending # <<>> => p \in {"close", "dead"} /\ Defers(r)
    /\ p = "leave" => result[r] = "halted"
    /\ p = "observe" /\ o.status \in {"halted", "denied"} => ~RunContinues(o.status, o.reason)

\* The worker has the action at hand, unless the run has left it behind.
Worker(r) ==
    LET p == pc[r] j == job[r] w == work[r] IN
    /\ p = "wait" => w.at # "none"
    /\ w.at # "none" =>
          /\ p \in {"wait", "observe", "close", "leave", "end"}
          /\ w.n \in 1 .. Len(j.plan)
          /\ p \in {"wait", "observe", "leave"} => w.n = j.n + 1
          /\ p = "close" => w.n = j.n
          /\ p = "end" => w.n >= j.n
          /\ p \in {"observe", "close"} => outcome[r].status = "halted"
          /\ p \in {"leave", "end"} => result[r] = "halted"
          /\ Given(r).type \in {"write_text", "patch_text"}
          /\ w.at \in {"read", "hash"} => Given(r).type = "patch_text"
          /\ w.at \in {"hash", "write", "rehash", "done"} => w.text # Missing
          /\ w.at \in {"rehash", "done"} => w.n \in landed[r]

\* The actions of a run that are in the workspace and not on record.
OnRecord(r) ==
    LET p == pc[r] j == job[r] o == outcome[r] IN
    \A n \in landed[r] \ Recorded(r) :
        \/ p = "wait" /\ n = j.n + 1
        \/ p = "observe" /\ n = j.n + 1 /\ o.status \in {"completed", "halted"}
        \/ p = "close" /\ n = j.n /\ o.status = "halted"
        \/ p = "close" /\ n = j.n /\ o.status = "completed"
           /\ \E i \in DOMAIN j.pending : j.pending[i].n = n /\ j.pending[i].run = r
                                          /\ j.pending[i].status = "completed"
        \/ p = "leave" /\ n = j.n + 1
        \/ p = "end" /\ n >= j.n /\ result[r] = "halted"
        \/ p = "dead" /\ n >= j.n

\* If the n-th action is a patch, it made one content of the other.
IsPatch(action, pre, post) ==
    action.type = "patch_text" =>
        PatchRejection(pre, action) = NoReason /\ post = Patched(pre, action)

\* The records of a run are of its actions, and of a patch what the patch did.
Faithful(r, records) ==
    \A i \in DOMAIN records :
        records[i].run = r /\ records[i].status = "completed" =>
            /\ records[i].n \in DOMAIN job[r].plan
            /\ records[i].type = job[r].plan[records[i].n].type
            /\ ~disturbed[r] =>
                  IsPatch(job[r].plan[records[i].n], records[i].pre, records[i].post)

\* What the worker holds, and the outcome it gave, while nobody else writes.
Patches(r) ==
    LET w == work[r] IN
    ~disturbed[r] =>
        /\ w.at = "hash" => IsPatch(Given(r), files[Given(r).path], w.text)
        /\ w.at \in {"write", "rehash", "done"} => IsPatch(Given(r), w.pre, w.text)
        /\ w.at = "rehash" => files[Given(r).path] = w.text
        /\ w.at = "done" => w.post = w.text
        /\ pc[r] = "observe" /\ outcome[r].status = "completed" =>
              IsPatch(Current(r), outcome[r].pre, outcome[r].post)

Records(r) ==
    /\ \A i \in DOMAIN manifests[r] : manifests[r][i].run = r
    /\ \A i \in DOMAIN job[r].pending : job[r].pending[i].run = r
    /\ Faithful(r, manifests[r]) /\ Faithful(r, wal) /\ Faithful(r, job[r].pending)

Holds(r) == Fresh(r) /\ Walks(r) /\ Worker(r) /\ OnRecord(r) /\ Patches(r) /\ Records(r)

IInv == TypeOK /\ \A r \in Runs : Holds(r)

-----------------------------------------------------------------------------
(* Types are kept *)

\* The job of a run that begins.
LEMMA StartsType ==
  ASSUME TypeOK, NEW r \in Runs, NEW plan \in Plans, NEW multi \in BOOLEAN,
         NEW mode \in {"full", "wal"}, NEW source \in Runs \cup {None},
         Starts(r, plan, multi, mode, source)
  PROVE  /\ job' \in [Runs -> Jobs] /\ pc' \in [Runs -> Stages]
         /\ origin' \in [Runs -> [Paths -> File]]
<1>1. source # None => load_resume_state(source) \in
         SUBSET [path : Paths, type : {"write_text", "patch_text"}]
  <2> SUFFICES ASSUME source \in Runs
               PROVE  load_resume_state(source) \in
                        SUBSET [path : Paths, type : {"write_text", "patch_text"}]
    OBVIOUS
  <2> DEFINE records == IF manifests[source] # <<>> THEN manifests[source] ELSE wal
  <2>1. \A i \in DOMAIN records : records[i] \in CheckpointType
    BY DEF TypeOK
  <2> HIDE DEF records
  <2>2. \A i \in DOMAIN records : records[i].type # "refused" =>
          [path |-> records[i].path, type |-> records[i].type] \in
             [path : Paths, type : {"write_text", "patch_text"}]
    BY <2>1 DEF CheckpointType
  <2>3. QED
    BY <2>2 DEF load_resume_state, records
<1> DEFINE ready == IF source = None THEN {} ELSE load_resume_state(source)
           clean == source # None /\ Settled(source)
<1>2. ready \in SUBSET [path : Paths, type : {"write_text", "patch_text"}]
  BY <1>1
<1>3. clean \in BOOLEAN /\ job[r].admitted \in BOOLEAN
  BY DEF TypeOK, Settled
<1> HIDE DEF ready, clean
<1>4. <<>> \in Seq(CheckpointType)
  OBVIOUS
<1>5. [Idle EXCEPT !.plan = plan, !.multi = multi, !.mode = mode, !.source = source,
                   !.ready = ready, !.clean = clean, !.admitted = job[r].admitted] \in Jobs
  BY <1>2, <1>3, <1>4 DEF Idle, Jobs
<1>6. job' = [job EXCEPT ![r] =
         [Idle EXCEPT !.plan = plan, !.multi = multi, !.mode = mode, !.source = source,
                   !.ready = ready, !.clean = clean, !.admitted = job[r].admitted]]
  BY DEF Starts, ready, clean
<1>7. job' \in [Runs -> Jobs]
  BY <1>5, <1>6 DEF TypeOK, Jobs, Plans
<1>8. pc' \in [Runs -> Stages] /\ origin' \in [Runs -> [Paths -> File]]
  BY DEF Starts, TypeOK, Stages
<1>9. QED
  BY <1>7, <1>8

\* The initial state.
LEMMA InitTypes == Init => TypeOK
<1> SUFFICES ASSUME Init PROVE TypeOK
  OBVIOUS
<1>1. files \in [Paths -> File]
  BY ContentsAssumption DEF Init, File
<1>2. <<>> \in Seq(CheckpointType) /\ <<>> \in Plans
  BY DEF Plans
<1>3. Idle \in Jobs
  BY <1>2 DEF Idle, Jobs
<1>4. NoWork \in Workers /\ NoOutcome \in OutcomeType
  BY DEF NoWork, Workers, NoOutcome, OutcomeType, File, Phases, Statuses, Reasons
<1>5. job \in [Runs -> Jobs] /\ work \in [Runs -> Workers] /\ outcome \in [Runs -> OutcomeType]
  BY <1>3, <1>4 DEF Init
<1>6. /\ manifests \in [Runs -> Seq(CheckpointType)] /\ wal \in Seq(CheckpointType)
      /\ pc \in [Runs -> Stages]
      /\ gate \in [Runs -> BOOLEAN] /\ result \in [Runs -> Statuses]
      /\ origin \in [Runs -> [Paths -> File]] /\ landed \in [Runs -> SUBSET (Nat \ {0})]
      /\ disturbed \in [Runs -> BOOLEAN] /\ faults \in Nat
  BY <1>1, <1>2 DEF Init, Stages, Statuses
<1>7. QED
  BY <1>1, <1>5, <1>6 DEF TypeOK, Jobs, Plans, Workers, Stages

\* The types, by the sets named here.
LEMMA Types ==
  /\ TypeOK => /\ job \in [Runs -> Jobs] /\ work \in [Runs -> Workers] /\ pc \in [Runs -> Stages]
               /\ files \in [Paths -> File] /\ wal \in Seq(CheckpointType)
               /\ manifests \in [Runs -> Seq(CheckpointType)]
               /\ outcome \in [Runs -> OutcomeType] /\ result \in [Runs -> Statuses]
               /\ landed \in [Runs -> SUBSET (Nat \ {0})] /\ disturbed \in [Runs -> BOOLEAN]
  /\ /\ files' \in [Paths -> File] /\ manifests' \in [Runs -> Seq(CheckpointType)]
     /\ wal' \in Seq(CheckpointType) /\ pc' \in [Runs -> Stages] /\ job' \in [Runs -> Jobs]
     /\ gate' \in [Runs -> BOOLEAN] /\ work' \in [Runs -> Workers]
     /\ outcome' \in [Runs -> OutcomeType] /\ result' \in [Runs -> Statuses]
     /\ origin' \in [Runs -> [Paths -> File]] /\ landed' \in [Runs -> SUBSET (Nat \ {0})]
     /\ disturbed' \in [Runs -> BOOLEAN] /\ faults' \in Nat
     => TypeOK'
BY DEF TypeOK, Jobs, Plans, Workers, Stages

\* The action at hand, and what the worker was given.
LEMMA AtHand ==
  ASSUME TypeOK, NEW r \in Runs
  PROVE  /\ job[r] \in Jobs /\ job[r].plan \in Seq(Actions) /\ job[r].n \in Nat
         /\ Len(job[r].plan) \in Nat /\ DOMAIN job[r].plan = 1 .. Len(job[r].plan)
         /\ job[r].n < Len(job[r].plan) =>
              job[r].n + 1 \in 1 .. Len(job[r].plan) /\ Current(r) \in Actions
         /\ work[r].n \in 1 .. Len(job[r].plan) => Given(r) \in Actions
<1>1. job[r] \in Jobs
  BY Types
<1>2. job[r].plan \in Seq(Actions) /\ job[r].n \in Nat
  BY <1>1, PlanShape DEF Jobs
<1>3. Len(job[r].plan) \in Nat /\ DOMAIN job[r].plan = 1 .. Len(job[r].plan)
  BY <1>2
<1>4. job[r].n < Len(job[r].plan) =>
              job[r].n + 1 \in 1 .. Len(job[r].plan) /\ Current(r) \in Actions
  BY SMTT(60), <1>2, <1>3 DEF Current
<1>5. work[r].n \in 1 .. Len(job[r].plan) => Given(r) \in Actions
  BY <1>2, <1>3 DEF Given
<1>6. QED
  BY <1>1, <1>2, <1>3, <1>4, <1>5

-----------------------------------------------------------------------------
(* What a step leaves alone *)

\* What is on record stays so, and is all there is while nothing is added.
LEMMA RecordedSame ==
  ASSUME NEW r \in Runs, manifests'[r] = manifests[r], wal' = wal
  PROVE  Recorded(r)' = Recorded(r)
BY DEF Recorded

\* The number of a completed record is on record.
LEMMA RecordedFrom ==
  ASSUME NEW r \in Runs, NEW n
  PROVE  n \in Recorded(r) <=>
            \/ \E i \in DOMAIN manifests[r] : manifests[r][i].run = r
                   /\ manifests[r][i].status = "completed" /\ manifests[r][i].n = n
            \/ \E i \in DOMAIN wal : wal[i].run = r
                   /\ wal[i].status = "completed" /\ wal[i].n = n
BY DEF Recorded

\* Records that stay are as faithful as they were.
LEMMA RecordsSame ==
  ASSUME NEW r \in Runs, Records(r), manifests'[r] = manifests[r], wal' = wal,
         job'[r].plan = job[r].plan, job'[r].pending = job[r].pending,
         ~disturbed'[r] => ~disturbed[r]
  PROVE  Records(r)'
BY DEF Records, Faithful

\* Of a run nothing of which changes, what holds stays true when others write.
LEMMA OthersKeep ==
  ASSUME IInv, NEW q \in Runs, pc'[q] = pc[q], job'[q] = job[q], work'[q] = work[q],
         outcome'[q] = outcome[q], result'[q] = result[q], landed'[q] = landed[q],
         manifests'[q] = manifests[q], ~disturbed'[q] => ~disturbed[q],
         files' = files \/ disturbed'[q],
         NEW added \in Seq(CheckpointType), wal' = wal \o added,
         \A i \in DOMAIN added : added[i].run # q
  PROVE  Holds(q)'
<1>1. Holds(q) /\ wal \in Seq(CheckpointType)
  BY DEF IInv, TypeOK
<1>2. \A i \in DOMAIN wal' : (i \in DOMAIN wal /\ wal'[i] = wal[i]) \/ wal'[i].run # q
  <2>1. /\ wal' \in Seq(CheckpointType) /\ Len(wal') = Len(wal) + Len(added)
        /\ \A i \in 1 .. Len(wal) + Len(added) :
              wal'[i] = IF i <= Len(wal) THEN wal[i] ELSE added[i - Len(wal)]
    BY <1>1, ConcatProperties
  <2>2. Len(wal) \in Nat /\ Len(added) \in Nat
    BY <1>1
  <2>3. ASSUME NEW i \in 1 .. Len(wal) + Len(added), i > Len(wal)
        PROVE  i - Len(wal) \in DOMAIN added
    BY <2>2, <2>3
  <2>4. QED
    BY <1>1, <2>1, <2>2, <2>3
<1>3. \A i \in DOMAIN wal : i \in DOMAIN wal' /\ wal'[i] = wal[i]
  BY <1>1, ConcatProperties
<1>4. Fresh(q)'
  BY <1>1, <1>2 DEF Holds, Fresh
<1>5. Walks(q)' /\ Worker(q)'
  BY <1>1 DEF Holds, Walks, Worker, Defers, Given
<1>6. OnRecord(q)'
  <2>1. \A n : n \in Recorded(q) => n \in Recorded(q)'
    BY <1>3, RecordedFrom DEF Recorded
  <2>2. QED
    BY <1>1, <2>1 DEF Holds, OnRecord
<1>7. Patches(q)'
  BY <1>1 DEF Holds, Patches, Given, Current
<1>8. Records(q)'
  <2>1. Records(q)
    BY <1>1 DEF Holds
  <2>2. Faithful(q, manifests[q])' /\ Faithful(q, job[q].pending)'
    <3>1. Faithful(q, manifests[q]) /\ Faithful(q, job[q].pending)
      BY <2>1 DEF Records
    <3>2. Faithful(q, manifests[q])'
      BY <3>1 DEF Faithful
    <3>3. Faithful(q, job[q].pending)'
      BY <3>1 DEF Faithful
    <3>4. QED
      BY <3>2, <3>3
  <2>3. Faithful(q, wal)'
    <3>1. Faithful(q, wal)
      BY <2>1 DEF Records
    <3>2. ASSUME NEW i \in DOMAIN wal', wal'[i].run = q, wal'[i].status = "completed"
          PROVE  i \in DOMAIN wal /\ wal'[i] = wal[i]
      BY <1>2, <3>2
    <3>3. QED
      BY <3>1, <3>2 DEF Faithful
  <2>4. QED
    BY <2>1, <2>2, <2>3 DEF Records
<1>9. QED
  BY <1>4, <1>5, <1>6, <1>7, <1>8 DEF Holds

\* What is not of r is left alone by its steps, but for a file it replaces and an
\* entry of its own in the global ledger.
Alone(r) ==
    /\ \A q \in Runs \ {r} :
          /\ pc'[q] = pc[q] /\ job'[q] = job[q] /\ work'[q] = work[q]
          /\ outcome'[q] = outcome[q] /\ result'[q] = result[q] /\ landed'[q] = landed[q]
          /\ manifests'[q] = manifests[q] /\ (~disturbed'[q] => ~disturbed[q])
          /\ files' = files \/ disturbed'[q]
    /\ wal' = wal \/ (wal' = wal \o job[r].pending)

\* A step that leaves the other runs alone keeps the invariant when it keeps it for its own run.
LEMMA StepKeeps ==
  ASSUME IInv, NEW r \in Runs, Alone(r), TypeOK', Holds(r)'
  PROVE  IInv'
<1> SUFFICES ASSUME NEW q \in Runs \ {r} PROVE Holds(q)'
  BY DEF IInv
<1>1. \E added \in Seq(CheckpointType) :
         wal' = wal \o added /\ \A i \in DOMAIN added : added[i].run = r
  <2>1. wal \in Seq(CheckpointType) /\ job[r].pending \in Seq(CheckpointType)
    BY Types DEF IInv, Jobs
  <2>2. CASE wal' = wal
    <3>1. <<>> \in Seq(CheckpointType) /\ wal \o <<>> = wal
      BY <2>1, ConcatEmptySeq
    <3>2. DOMAIN <<>> = {}
      OBVIOUS
    <3>3. QED
      BY <2>2, <3>1, <3>2
  <2>3. CASE wal' = wal \o job[r].pending
    BY <2>1, <2>3 DEF IInv, Holds, Records
  <2>4. QED
    BY <2>2, <2>3 DEF Alone
<1>2. QED
  BY ZenonT(60), <1>1, OthersKeep DEF Alone

-----------------------------------------------------------------------------
(* The steps of a run *)

\* A run that begins has done nothing yet.
LEMMA StartsKeep ==
  ASSUME IInv, NEW r \in Runs, pc[r] \in {"idle", "admitted"},
         NEW plan \in Plans, plan # <<>>, NEW multi \in BOOLEAN, Len(plan) > 1 => multi,
         NEW mode \in {"full", "wal"}, NEW source \in Runs \cup {None},
         Starts(r, plan, multi, mode, source), disturbed' \in [Runs -> BOOLEAN],
         \A q \in Runs \ {r} : disturbed'[q] = disturbed[q],
         UNCHANGED <<files, evidence, gate, work, outcome, result, landed, faults>>
  PROVE  IInv'
<1>1. TypeOK /\ Holds(r)
  BY DEF IInv
<1>2. job' \in [Runs -> Jobs] /\ pc' \in [Runs -> Stages] /\ origin' \in [Runs -> [Paths -> File]]
  BY <1>1, StartsType
<1>3. UNCHANGED <<files, manifests, wal, gate, work, outcome, result, landed, faults>>
  BY DEF evidence
<1>4. TypeOK'
  BY ZenonT(60), <1>1, <1>2, <1>3, Types DEF TypeOK
<1>5. /\ job'[r].plan = plan /\ job'[r].multi = multi /\ job'[r].n = 0 /\ job'[r].pending = <<>>
      /\ pc'[r] \in {"over", "act"}
      /\ \A q \in Runs \ {r} : job'[q] = job[q] /\ pc'[q] = pc[q]
  <2>1. /\ job' = [job EXCEPT ![r] = [Idle EXCEPT !.plan = plan, !.multi = multi, !.mode = mode, !.source = source,
                      !.ready = IF source = None THEN {} ELSE load_resume_state(source),
                      !.clean = source # None /\ Settled(source),
                      !.admitted = job[r].admitted]]
        /\ pc' = [pc EXCEPT ![r] = IF validate_resource_budget(plan) THEN "over" ELSE "act"]
    BY DEF Starts
  <2>2. job \in [Runs -> Jobs] /\ pc \in [Runs -> Stages]
    BY <1>1, Types
  <2>3. /\ job'[r].plan = plan /\ job'[r].multi = multi /\ job'[r].n = 0 /\ job'[r].pending = <<>>
    BY <2>1, <2>2 DEF Idle
  <2>4. QED
    BY <2>1, <2>2, <2>3
<1>6. /\ work[r].at = "none" /\ landed[r] = {} /\ manifests[r] = <<>>
      /\ \A i \in DOMAIN wal : wal[i].run # r
  BY <1>1 DEF Holds, Fresh
<1>7. plan \in Seq(Actions) /\ 0 < Len(plan) /\ Len(plan) \in Nat
  BY PlanShape
<1>8. Fresh(r)' /\ Walks(r)' /\ Worker(r)' /\ OnRecord(r)' /\ Patches(r)' /\ Records(r)'
  <2>1. DOMAIN <<>> = {}
    OBVIOUS
  <2>2. Fresh(r)' /\ Walks(r)'
    BY <1>3, <1>5, <1>6, <1>7 DEF Fresh, Walks
  <2>3. Worker(r)' /\ OnRecord(r)' /\ Patches(r)'
    BY <1>3, <1>5, <1>6 DEF Worker, OnRecord, Patches
  <2>4. Records(r)'
    BY <1>3, <1>5, <1>6, <2>1 DEF Records, Faithful
  <2>5. QED
    BY <2>2, <2>3, <2>4
<1>9. Alone(r)
  BY <1>3, <1>5 DEF Alone
<1>10. QED
  BY <1>4, <1>8, <1>9, StepKeeps DEF Holds

\* Begin: a request, which may resume another run.
LEMMA BeginKeeps == ASSUME IInv, NEW r \in Runs, Begin(r) PROVE IInv'
<1>1. PICK request \in Requests, source \in {s \in Runs : pc[s] # "idle"} \cup {None} :
         Starts(r, request.plan, request.multi, request.mode, source)
  BY DEF Begin
<1>2. disturbed' \in [Runs -> BOOLEAN] /\ \A q \in Runs \ {r} : disturbed'[q] = disturbed[q]
  BY DEF Begin, IInv, TypeOK
<1>3. /\ request.plan \in Plans /\ request.plan # <<>>
      /\ Len(request.plan) > 1 => request.multi
      /\ request.multi \in BOOLEAN /\ request.mode \in {"full", "wal"}
      /\ source \in Runs \cup {None}
  BY <1>1, PlanShape
<1>4. pc[r] = "idle" /\ UNCHANGED <<files, evidence, gate, work, outcome, result, landed, faults>>
  BY DEF Begin
<1>5. QED
  BY <1>1, <1>2, <1>3, <1>4, StartsKeep

\* BeginAdmitted: the run-plan that was admitted.
LEMMA BeginAdmittedKeeps == ASSUME IInv, NEW r \in Runs, BeginAdmitted(r) PROVE IInv'
<1>1. /\ pc[r] = "admitted" /\ Starts(r, job[r].plan, TRUE, "full", job[r].source)
      /\ UNCHANGED <<files, evidence, gate, work, outcome, result, landed, faults>>
      /\ disturbed' = disturbed
  BY DEF BeginAdmitted
<1>2. job[r].plan \in Plans /\ job[r].source \in Runs \cup {None} /\ job[r].plan # <<>>
  BY <1>1, Types DEF IInv, Jobs, Holds, Walks
<1>3. disturbed \in [Runs -> BOOLEAN]
  BY DEF IInv, TypeOK
<1>4. QED
  BY <1>1, <1>2, <1>3, StartsKeep

\* classify_task_resume: refused, or admitted.
LEMMA ClassifyKeeps == ASSUME IInv, NEW r \in Runs, classify_task_resume(r) PROVE IInv'
<1>1. TypeOK /\ Holds(r) /\ pc[r] = "idle"
  BY DEF IInv, classify_task_resume
<1>2. /\ disturbed' = [disturbed EXCEPT ![r] = FALSE]
      /\ UNCHANGED <<files, manifests, wal, gate, work, outcome, origin, landed, faults>>
  BY DEF classify_task_resume, evidence
<1>3. PICK request \in Requests, source \in Runs :
         \/ /\ result' = [result EXCEPT ![r] = "halted"]
            /\ pc' = [pc EXCEPT ![r] = "end"]
            /\ UNCHANGED job
         \/ /\ job' = [job EXCEPT ![r] =
                  [Idle EXCEPT !.plan = request.plan, !.multi = TRUE, !.source = source,
                               !.admitted = TRUE]]
            /\ pc' = [pc EXCEPT ![r] = "admitted"]
            /\ UNCHANGED result
  BY DEF classify_task_resume
<1>4. request.plan \in Plans /\ request.plan # <<>> /\ 0 < Len(request.plan)
  BY PlanShape
<1> DEFINE admitted == [Idle EXCEPT !.plan = request.plan, !.multi = TRUE, !.source = source,
                               !.admitted = TRUE]
<1>5. /\ admitted \in Jobs /\ admitted.plan = request.plan /\ admitted.multi
      /\ admitted.n = 0 /\ admitted.pending = <<>>
  <2>1. <<>> \in Seq(CheckpointType)
    OBVIOUS
  <2>2. QED
    BY <1>4, <2>1 DEF Idle, Jobs
<1> HIDE DEF admitted
<1>6. /\ result' \in [Runs -> Statuses] /\ pc' \in [Runs -> Stages] /\ job' \in [Runs -> Jobs]
      /\ \A q \in Runs \ {r} : job'[q] = job[q] /\ pc'[q] = pc[q] /\ result'[q] = result[q]
      /\ \/ pc'[r] = "end" /\ job'[r] = job[r]
         \/ pc'[r] = "admitted" /\ job'[r] = admitted
  <2>1. job \in [Runs -> Jobs] /\ pc \in [Runs -> Stages] /\ result \in [Runs -> Statuses]
    BY <1>1, Types
  <2>2. CASE /\ result' = [result EXCEPT ![r] = "halted"]
             /\ pc' = [pc EXCEPT ![r] = "end"] /\ UNCHANGED job
    BY <2>1, <2>2 DEF Statuses, Stages
  <2>3. CASE /\ job' = [job EXCEPT ![r] = admitted]
             /\ pc' = [pc EXCEPT ![r] = "admitted"] /\ UNCHANGED result
    BY <1>5, <2>1, <2>3 DEF Stages
  <2>4. QED
    BY <1>3, <2>2, <2>3 DEF admitted
<1>7. TypeOK'
  BY <1>1, <1>2, <1>6, Types DEF TypeOK
<1>8. /\ work[r].at = "none" /\ landed[r] = {} /\ manifests[r] = <<>>
      /\ \A i \in DOMAIN wal : wal[i].run # r
      /\ job[r].n = 0 /\ job[r].pending = <<>>
  BY <1>1 DEF Holds, Fresh
<1>9. Fresh(r)' /\ Walks(r)'
  BY <1>1, <1>2, <1>4, <1>5, <1>6, <1>8 DEF Holds, Fresh, Walks
<1>10. Worker(r)' /\ OnRecord(r)' /\ Patches(r)'
  BY <1>2, <1>6, <1>8 DEF Worker, OnRecord, Patches
<1>11. Records(r)'
  <2>1. DOMAIN <<>> = {}
    OBVIOUS
  <2>2. QED
    BY <1>2, <1>5, <1>6, <1>8, <2>1 DEF Records, Faithful
<1>12. Alone(r)
  <2>1. \A q \in Runs \ {r} : disturbed'[q] = disturbed[q]
    BY <1>1, <1>2 DEF TypeOK
  <2>2. QED
    BY <1>2, <1>6, <2>1 DEF Alone
<1>13. QED
  BY <1>7, <1>9, <1>10, <1>11, <1>12, StepKeeps DEF Holds

\* What every step below knows of its run.
LEMMA Here ==
  ASSUME IInv, NEW r \in Runs
  PROVE  /\ TypeOK /\ Holds(r)
         /\ job \in [Runs -> Jobs] /\ work \in [Runs -> Workers] /\ pc \in [Runs -> Stages]
         /\ files \in [Paths -> File] /\ wal \in Seq(CheckpointType)
         /\ manifests \in [Runs -> Seq(CheckpointType)]
         /\ outcome \in [Runs -> OutcomeType] /\ result \in [Runs -> Statuses]
         /\ landed \in [Runs -> SUBSET (Nat \ {0})] /\ disturbed \in [Runs -> BOOLEAN]
         /\ gate \in [Runs -> BOOLEAN] /\ origin \in [Runs -> [Paths -> File]] /\ faults \in Nat
BY Types DEF IInv, TypeOK

\* A fault counts.
LEMMA Faults == ASSUME TypeOK, Fault PROVE faults' \in Nat
BY DEF TypeOK, Fault

\* Refuse, Skip, Timeout: an outcome without the workspace.
LEMMA ObservedKeeps ==
  ASSUME IInv, NEW r \in Runs, pc[r] \in {"act", "wait"},
         NEW status \in {"skipped", "halted", "denied"}, NEW reason \in Reasons,
         status # "skipped" => ~RunContinues(status, reason),
         pc[r] = "wait" => status = "halted",
         Observed(r, status, reason, Missing, Missing),
         gate' \in [Runs -> BOOLEAN],
         UNCHANGED <<files, evidence, job, work, result, history, faults>>
  PROVE  IInv'
<1>1. /\ UNCHANGED <<files, manifests, wal, job, work, result, origin, landed, disturbed, faults>>
  BY DEF evidence, history
<1>2. [status |-> status, reason |-> reason, pre |-> Missing, post |-> Missing] \in OutcomeType
  BY DEF OutcomeType, Statuses, File
<1>3. /\ outcome' \in [Runs -> OutcomeType] /\ pc' \in [Runs -> Stages]
      /\ outcome'[r].status = status /\ outcome'[r].reason = reason /\ pc'[r] = "observe"
      /\ \A q \in Runs \ {r} : outcome'[q] = outcome[q] /\ pc'[q] = pc[q]
  BY <1>2, Here DEF Observed, Stages
<1>4. TypeOK'
  BY <1>1, <1>3, Here, Types
<1>5. Recorded(r)' = Recorded(r)
  BY <1>1, RecordedSame
<1>6. Fresh(r)' /\ Walks(r)'
  <2>1. Fresh(r)'
    BY <1>3 DEF Fresh
  <2>2. Walks(r)
    BY Here DEF Holds
  <2>3. QED
    BY <1>1, <1>3, <2>1, <2>2 DEF Walks, Defers
<1>7. Worker(r)'
  BY ZenonT(60), <1>1, <1>3, Here DEF Holds, Worker, Given
<1>8. OnRecord(r)'
  BY <1>1, <1>3, <1>5, Here DEF Holds, OnRecord
<1>9. Patches(r)'
  BY <1>1, <1>3, Here DEF Holds, Patches, Given, Current
<1>10. Records(r)'
  BY <1>1, Here, RecordsSame DEF Holds
<1>11. Alone(r)
  BY <1>1, <1>3 DEF Alone
<1>12. QED
  BY <1>4, <1>6, <1>7, <1>8, <1>9, <1>10, <1>11, StepKeeps DEF Holds

\* What the rule surface makes of a failure: the run does not go on.
LEMMA FailuresStop ==
  /\ \A reason \in BoundaryReasons : \A status : ~RunContinues(status, reason)
  /\ \A reason \in {"http_timeout", "patch_rejected", "action_exception"} :
        ~RunContinues("halted", reason)
<1> USE DEF RunContinues, Dispatches, TransitionAction, HardControl, OuterElement, InnerElement,
       TRIGRAM_ELEMENTS
<1>1. \A reason \in BoundaryReasons : \A status : ~RunContinues(status, reason)
  BY DEF classify_outcome
<1>2. classify_outcome("halted", "http_timeout") = <<"kan", "zhen">>
  BY DEF classify_outcome, BoundaryReasons, TimeoutReasons
<1>3. classify_outcome("halted", "patch_rejected") = <<"li", "kun">>
  BY DEF classify_outcome, BoundaryReasons, TimeoutReasons, SOFT_MISS_REASONS, ExecutorFaults,
     ScheduleStatus
<1>4. classify_outcome("halted", "action_exception") = <<"gen", "kun">>
  BY DEF classify_outcome, BoundaryReasons, TimeoutReasons, SOFT_MISS_REASONS, ExecutorFaults
<1>5. ~RunContinues("halted", "http_timeout")
  BY <1>2 DEF YangOverload, yang_count, YangLines, RecoverySeed
<1>6. ~RunContinues("halted", "patch_rejected")
  BY <1>3
<1>7. ~RunContinues("halted", "action_exception")
  BY <1>4
<1>8. QED
  BY <1>1, <1>5, <1>6, <1>7

\* The gate refuses an action.
LEMMA RefuseKeeps == ASSUME IInv, NEW r \in Runs, Refuse(r) PROVE IInv'
<1>1. /\ pc[r] = "act" /\ Current(r).type = "refused"
      /\ Observed(r, Current(r).status, Current(r).reason, Missing, Missing)
      /\ gate' = gate /\ UNCHANGED <<files, evidence, job, work, result, history, faults>>
  BY DEF Refuse
<1>2. job[r].n < Len(job[r].plan)
  BY <1>1, Here DEF Holds, Walks
<1>3. Current(r).status \in {"denied", "halted"} /\ Current(r).reason \in BoundaryReasons
  BY <1>1, <1>2, AtHand, Here, ActionShape
<1>4. Current(r).reason \in Reasons /\ ~RunContinues(Current(r).status, Current(r).reason)
  BY <1>3, FailuresStop DEF Reasons
<1>5. gate \in [Runs -> BOOLEAN]
  BY Here
<1>6. QED
  BY <1>1, <1>3, <1>4, <1>5, ObservedKeeps

\* A resume skips an action.
LEMMA SkipKeeps == ASSUME IInv, NEW r \in Runs, Skip(r) PROVE IInv'
<1>1. /\ pc[r] = "act" /\ Observed(r, "skipped", "resumed_asset_ready", Missing, Missing)
      /\ gate' = gate /\ UNCHANGED <<files, evidence, job, work, result, history, faults>>
  BY DEF Skip
<1>2. "resumed_asset_ready" \in Reasons /\ gate \in [Runs -> BOOLEAN]
  BY Here DEF Reasons
<1>3. QED
  BY <1>1, <1>2, ObservedKeeps

\* A run leaves a late worker behind.
LEMMA TimeoutKeeps == ASSUME IInv, NEW r \in Runs, Timeout(r) PROVE IInv'
<1>1. /\ pc[r] = "wait" /\ Observed(r, "halted", "http_timeout", Missing, Missing)
      /\ gate' = [gate EXCEPT ![r] = FALSE]
      /\ UNCHANGED <<files, evidence, job, work, result, history, faults>>
  BY DEF Timeout
<1>2. "http_timeout" \in Reasons /\ ~RunContinues("halted", "http_timeout")
  BY FailuresStop DEF Reasons
<1>3. gate' \in [Runs -> BOOLEAN]
  BY <1>1, Here
<1>4. QED
  BY <1>1, <1>2, <1>3, ObservedKeeps

\* Submit: the worker begins.
LEMMA SubmitKeeps == ASSUME IInv, NEW r \in Runs, Submit(r) PROVE IInv'
<1>1. /\ pc[r] = "act" /\ Current(r).type # "refused"
      /\ UNCHANGED <<files, manifests, wal, job, outcome, result, origin, landed, disturbed, faults>>
  BY DEF Submit, evidence, history
<1>2. /\ job[r].n < Len(job[r].plan) /\ job[r].pending = <<>> /\ work[r].at = "none"
      /\ \A n \in landed[r] : n \in Recorded(r)
  BY <1>1, Here DEF Holds, Walks, Worker, OnRecord
<1>3. /\ Current(r) \in Actions /\ job[r].n + 1 \in 1 .. Len(job[r].plan) /\ job[r].n + 1 \in Nat
      /\ Current(r).type \in {"write_text", "patch_text"}
      /\ Current(r).type = "write_text" => Current(r).text \in Seq(STRING)
  BY <1>1, <1>2, AtHand, Here, ActionShape
<1> DEFINE w == [NoWork EXCEPT
                     !.n = job[r].n + 1,
                     !.at = IF Current(r).type = "write_text" THEN "write" ELSE "read",
                     !.text = IF Current(r).type = "write_text" THEN Current(r).text ELSE Missing]
<1>4. /\ w \in Workers /\ w.n = job[r].n + 1
      /\ \/ w.at = "write" /\ Current(r).type = "write_text" /\ w.text \in Seq(STRING)
         \/ w.at = "read" /\ Current(r).type = "patch_text"
  BY <1>3 DEF NoWork, Workers, Phases, File
<1> HIDE DEF w
<1>5. /\ work' \in [Runs -> Workers] /\ pc' \in [Runs -> Stages] /\ gate' \in [Runs -> BOOLEAN]
      /\ work'[r] = w /\ pc'[r] = "wait"
      /\ \A q \in Runs \ {r} : work'[q] = work[q] /\ pc'[q] = pc[q]
  BY <1>4, Here DEF Submit, w, Stages
<1>6. TypeOK'
  BY <1>1, <1>5, Here, Types
<1>7. Recorded(r)' = Recorded(r)
  BY <1>1, RecordedSame
<1>8. Given(r)' = Current(r)
  BY <1>1, <1>4, <1>5 DEF Given, Current
<1>9. Fresh(r)' /\ Walks(r)'
  BY <1>1, <1>5, Here DEF Holds, Fresh, Walks, Defers
<1>10. Worker(r)'
  BY <1>1, <1>3, <1>4, <1>5, <1>8, ContentsAssumption DEF Worker
<1>11. OnRecord(r)'
  BY <1>1, <1>2, <1>5, <1>7 DEF OnRecord
<1>12. Patches(r)'
  BY <1>4, <1>5, <1>8 DEF Patches, IsPatch
<1>13. Records(r)'
  BY <1>1, Here, RecordsSame DEF Holds
<1>14. Alone(r)
  BY <1>1, <1>5 DEF Alone
<1>15. QED
  BY <1>6, <1>9, <1>10, <1>11, <1>12, <1>13, <1>14, StepKeeps DEF Holds

\* Collect: what the worker returned or raised.
LEMMA CollectKeeps == ASSUME IInv, NEW r \in Runs, Collect(r) PROVE IInv'
<1>1. /\ pc[r] = "wait" /\ work' = [work EXCEPT ![r] = NoWork]
      /\ UNCHANGED <<files, manifests, wal, job, gate, result, origin, landed, disturbed, faults>>
  BY DEF Collect, evidence, history
<1>2. PICK status \in {"completed", "halted"}, reason \in Reasons, pre \in File, post \in File :
         /\ Observed(r, status, reason, pre, post)
         /\ \/ status = "completed" /\ work[r].at = "done" /\ pre = work[r].pre /\ post = work[r].post
            \/ status = "halted" /\ ~RunContinues(status, reason)
  <2>1. work[r].pre \in File /\ work[r].post \in File /\ Missing \in File
    BY Here DEF Workers, File
  <2>2. {NoReason, "patch_rejected", "action_exception"} \subseteq Reasons
    BY DEF Reasons
  <2>3. QED
    BY <2>1, <2>2, FailuresStop DEF Collect
<1>3. [status |-> status, reason |-> reason, pre |-> pre, post |-> post] \in OutcomeType
  BY <1>2 DEF OutcomeType, Statuses
<1>4. /\ outcome' \in [Runs -> OutcomeType] /\ pc' \in [Runs -> Stages]
      /\ outcome'[r] = [status |-> status, reason |-> reason, pre |-> pre, post |-> post]
      /\ pc'[r] = "observe"
      /\ \A q \in Runs \ {r} : outcome'[q] = outcome[q] /\ pc'[q] = pc[q]
  BY <1>2, <1>3, Here DEF Observed, Stages
<1>5. /\ work' \in [Runs -> Workers] /\ work'[r] = NoWork
      /\ \A q \in Runs \ {r} : work'[q] = work[q]
  <2>1. NoWork \in Workers
    BY DEF NoWork, Workers, File, Phases
  <2>2. QED
    BY <1>1, <2>1, Here
<1>6. TypeOK'
  BY <1>1, <1>4, <1>5, Here, Types
<1>7. Recorded(r)' = Recorded(r)
  BY <1>1, RecordedSame
<1>8. NoWork.at = "none"
  BY DEF NoWork
<1>9. Fresh(r)' /\ Walks(r)'
  BY <1>1, <1>2, <1>4, Here DEF Holds, Fresh, Walks, Defers
<1>10. Worker(r)'
  BY <1>4, <1>5, <1>8 DEF Worker
<1>11. OnRecord(r)'
  <2>1. OnRecord(r) /\ outcome'[r].status \in {"completed", "halted"}
    BY <1>2, <1>4, Here DEF Holds
  <2>2. QED
    BY <1>1, <1>4, <1>7, <2>1 DEF OnRecord
<1>12. Patches(r)'
  <2>1. CASE status = "completed"
    <3>1. work[r].at = "done" /\ pre = work[r].pre /\ post = work[r].post
      BY <1>2, <2>1
    <3>2. work[r].n = job[r].n + 1
      BY <1>1, <3>1, Here DEF Holds, Worker
    <3>3. Given(r) = Current(r)
      BY <3>2 DEF Given, Current
    <3>4. ~disturbed[r] => IsPatch(Current(r), pre, post)
      BY <3>1, <3>3, Here DEF Holds, Patches
    <3>5. QED
      BY <1>1, <1>4, <1>5, <1>8, <3>4 DEF Patches, Current
  <2>2. CASE status = "halted"
    BY <1>4, <1>5, <1>8, <2>2 DEF Patches
  <2>3. QED
    BY <2>1, <2>2
<1>13. Records(r)'
  BY <1>1, Here, RecordsSame DEF Holds
<1>14. Alone(r)
  BY <1>1, <1>4, <1>5 DEF Alone
<1>15. QED
  BY <1>6, <1>9, <1>10, <1>11, <1>12, <1>13, <1>14, StepKeeps DEF Holds

\* HaltOnBudget: a refused record in place of the action's.
LEMMA HaltKeeps ==
  ASSUME IInv, NEW r \in Runs, pc[r] \in {"over", "observe"}, HaltOnBudget(r), faults' \in Nat
  PROVE  IInv'
<1>1. UNCHANGED <<files, wal, gate, work, origin, landed, disturbed>>
  BY DEF HaltOnBudget, history
<1>2. job[r].n < Len(job[r].plan) /\ job[r].pending = <<>>
  BY Here DEF Holds, Walks
<1>3. Current(r) \in Actions /\ job[r].n \in Nat
  BY <1>2, AtHand, Here
<1> DEFINE c == [run |-> r, n |-> job[r].n + 1, type |-> "refused", path |-> Current(r).path,
           status |-> "halted", pre |-> Missing, post |-> Missing]
<1>4. c \in CheckpointType /\ c.run = r /\ c.status = "halted"
  BY <1>3, ActionShape DEF CheckpointType, Statuses, File
<1>5. manifests' = [manifests EXCEPT ![r] = Append(manifests[r] \o job[r].pending, c)]
  BY DEF HaltOnBudget
<1> HIDE DEF c
<1>6. manifests[r] \in Seq(CheckpointType) /\ manifests[r] \o job[r].pending = manifests[r]
  BY <1>2, Here, ConcatEmptySeq
<1>7. /\ manifests' \in [Runs -> Seq(CheckpointType)]
      /\ manifests'[r] = Append(manifests[r], c)
      /\ \A q \in Runs \ {r} : manifests'[q] = manifests[q]
  BY <1>4, <1>5, <1>6, Here
<1>8. /\ DOMAIN manifests'[r] = 1 .. Len(manifests[r]) + 1
      /\ \A i \in DOMAIN manifests[r] : i \in DOMAIN manifests'[r] /\ manifests'[r][i] = manifests[r][i]
      /\ \A i \in DOMAIN manifests'[r] : i \in DOMAIN manifests[r] \/ manifests'[r][i] = c
  BY <1>4, <1>6, <1>7, AppendProperties
<1>9. /\ job' \in [Runs -> Jobs] /\ result' \in [Runs -> Statuses] /\ pc' \in [Runs -> Stages]
      /\ outcome' \in [Runs -> OutcomeType]
      /\ job'[r].plan = job[r].plan /\ job'[r].multi = job[r].multi /\ job'[r].mode = job[r].mode
      /\ job'[r].n = job[r].n /\ job'[r].pending = <<>>
      /\ pc'[r] = "leave" /\ result'[r] = "halted"
      /\ \A q \in Runs \ {r} : /\ job'[q] = job[q] /\ pc'[q] = pc[q] /\ outcome'[q] = outcome[q]
                               /\ result'[q] = result[q]
  <2>1. job' = [job EXCEPT ![r].pending = <<>>] /\ <<>> \in Seq(CheckpointType)
    BY DEF HaltOnBudget
  <2>2. job[r] \in Jobs /\ job \in [Runs -> Jobs]
    BY Here
  <2>3. [job[r] EXCEPT !.pending = <<>>] \in Jobs
    BY <2>1, <2>2 DEF Jobs
  <2>4. /\ job' \in [Runs -> Jobs]
        /\ job'[r].plan = job[r].plan /\ job'[r].multi = job[r].multi /\ job'[r].mode = job[r].mode
        /\ job'[r].n = job[r].n /\ job'[r].pending = <<>>
        /\ \A q \in Runs \ {r} : job'[q] = job[q]
    BY <2>1, <2>2, <2>3 DEF Jobs
  <2>5. NoOutcome \in OutcomeType
    BY DEF NoOutcome, OutcomeType, Statuses, Reasons, File
  <2>6. /\ result' \in [Runs -> Statuses] /\ pc' \in [Runs -> Stages] /\ outcome' \in [Runs -> OutcomeType]
        /\ pc'[r] = "leave" /\ result'[r] = "halted"
        /\ \A q \in Runs \ {r} : pc'[q] = pc[q] /\ outcome'[q] = outcome[q] /\ result'[q] = result[q]
    BY <2>5, Here DEF HaltOnBudget, Statuses, Stages
  <2>7. QED
    BY <2>4, <2>6
<1>10. TypeOK'
  BY <1>1, <1>7, <1>9, Here, Types
<1>11. \A n : n \in Recorded(r) => n \in Recorded(r)'
  BY <1>1, <1>8, RecordedFrom DEF Recorded
<1>12. Fresh(r)' /\ Walks(r)'
  BY <1>1, <1>2, <1>9, Here DEF Holds, Fresh, Walks, Defers
<1>13. Worker(r)'
  BY SMTT(60), <1>1, <1>9, Here DEF Holds, Worker, Given
<1>14. OnRecord(r)'
  <2> SUFFICES ASSUME NEW n \in landed[r], n \notin Recorded(r) PROVE n = job[r].n + 1
    BY <1>1, <1>9, <1>11 DEF OnRecord
  <2>1. CASE pc[r] = "over"
    BY <2>1, Here DEF Holds, Fresh
  <2>2. CASE pc[r] = "observe"
    BY <2>2, Here DEF Holds, OnRecord
  <2>3. QED
    BY <1>1, <2>1, <2>2
<1>15. Patches(r)'
  BY <1>1, <1>9, Here DEF Holds, Patches, Given
<1>16. Records(r)'
  <2>1. DOMAIN <<>> = {}
    OBVIOUS
  <2>2. Records(r)
    BY Here DEF Holds
  <2>3. Faithful(r, manifests[r])'
    <3>1. Faithful(r, manifests[r])
      BY <2>2 DEF Records
    <3>2. ASSUME NEW i \in DOMAIN manifests'[r], manifests'[r][i].status = "completed"
          PROVE  i \in DOMAIN manifests[r] /\ manifests'[r][i] = manifests[r][i]
      BY <1>4, <1>8, <3>2
    <3>3. QED
      BY <1>1, <1>9, <3>1, <3>2 DEF Faithful
  <2>4. \A i \in DOMAIN manifests'[r] : manifests'[r][i].run = r
    BY <1>4, <1>8, <2>2 DEF Records
  <2>5. Faithful(r, wal)'
    <3>1. Faithful(r, wal)
      BY <2>2 DEF Records
    <3>2. QED
      BY <1>1, <1>9, <3>1 DEF Faithful
  <2>6. Faithful(r, job[r].pending)' /\ \A i \in DOMAIN job'[r].pending : job'[r].pending[i].run = r
    BY <1>9, <2>1 DEF Faithful
  <2>7. QED
    BY <2>3, <2>4, <2>5, <2>6 DEF Records
<1>17. Alone(r)
  BY <1>1, <1>7, <1>9 DEF Alone
<1>18. QED
  BY <1>10, <1>12, <1>13, <1>14, <1>15, <1>16, <1>17, StepKeeps DEF Holds

\* Leave: halted, with a worker it has left behind or none.
LEMMA LeaveKeeps == ASSUME IInv, NEW r \in Runs, Leave(r) PROVE IInv'
<1>1. /\ pc[r] = "leave" /\ gate' = [gate EXCEPT ![r] = FALSE] /\ pc' = [pc EXCEPT ![r] = "end"]
      /\ UNCHANGED <<files, manifests, wal, job, work, outcome, result, origin, landed, disturbed, faults>>
  BY DEF Leave, evidence, history
<1>2. /\ gate' \in [Runs -> BOOLEAN] /\ pc' \in [Runs -> Stages] /\ pc'[r] = "end"
      /\ \A q \in Runs \ {r} : pc'[q] = pc[q]
  BY <1>1, Here DEF Stages
<1>3. TypeOK'
  BY <1>1, <1>2, Here, Types
<1>4. Recorded(r)' = Recorded(r)
  BY <1>1, RecordedSame
<1>5. job[r].n \in Nat
  BY Here DEF Jobs
<1>6. Fresh(r)' /\ Walks(r)'
  BY <1>1, <1>2, Here DEF Holds, Fresh, Walks, Defers
<1>7. Worker(r)'
  BY SMTT(60), <1>1, <1>2, <1>5, Here DEF Holds, Worker, Given
<1>8. OnRecord(r)'
  <2>1. OnRecord(r) /\ result[r] = "halted"
    BY <1>1, Here DEF Holds, Walks
  <2>2. QED
    BY <1>1, <1>2, <1>4, <1>5, <2>1 DEF OnRecord
<1>9. Patches(r)'
  BY <1>1, <1>2, Here DEF Holds, Patches, Given, Current
<1>10. Records(r)'
  BY <1>1, Here, RecordsSame DEF Holds
<1>11. Alone(r)
  BY <1>1, <1>2 DEF Alone
<1>12. QED
  BY <1>3, <1>6, <1>7, <1>8, <1>9, <1>10, <1>11, StepKeeps DEF Holds

\* Crash: what was not on record is not any more.
LEMMA CrashKeeps == ASSUME IInv, NEW r \in Runs, Crash(r) PROVE IInv'
<1>1. /\ pc' = [pc EXCEPT ![r] = IF @ = "end" THEN @ ELSE "dead"]
      /\ work' = [work EXCEPT ![r] = NoWork] /\ gate' = [gate EXCEPT ![r] = FALSE]
      /\ outcome' = [outcome EXCEPT ![r] = NoOutcome] /\ pc[r] \notin {"idle", "dead"}
      /\ UNCHANGED <<files, manifests, wal, job, result, origin, landed, disturbed>>
  BY DEF Crash, evidence, history
<1>2. NoWork \in Workers /\ NoWork.at = "none" /\ NoOutcome \in OutcomeType
  BY DEF NoWork, Workers, File, Phases, NoOutcome, OutcomeType, Statuses, Reasons
<1>3. /\ work' \in [Runs -> Workers] /\ gate' \in [Runs -> BOOLEAN]
      /\ outcome' \in [Runs -> OutcomeType]
  BY <1>1, <1>2, Here
<1>4. pc' \in [Runs -> Stages] /\ (pc'[r] = "dead" \/ (pc'[r] = "end" /\ pc[r] = "end"))
  BY <1>1, Here DEF Stages
<1>5. /\ work'[r].at = "none"
      /\ \A q \in Runs \ {r} : pc'[q] = pc[q] /\ work'[q] = work[q] /\ outcome'[q] = outcome[q]
  BY <1>1, <1>2, Here
<1>6. TypeOK'
  BY <1>1, <1>3, <1>4, Here, Types, Faults DEF Crash
<1>7. Recorded(r)' = Recorded(r)
  BY <1>1, RecordedSame
<1>8. job[r].n \in Nat
  BY Here DEF Jobs
<1>9. Fresh(r)' /\ Walks(r)'
  <2>1. Fresh(r)'
    BY <1>4 DEF Fresh
  <2>2. Walks(r)'
    BY <1>1, <1>4, Here DEF Holds, Walks, Defers
  <2>3. QED
    BY <2>1, <2>2
<1>10. Worker(r)'
  BY <1>4, <1>5 DEF Worker
<1>11. OnRecord(r)'
  BY <1>1, <1>4, <1>7, <1>8, Here DEF Holds, OnRecord
<1>12. Patches(r)'
  BY <1>4, <1>5 DEF Patches
<1>13. Records(r)'
  BY <1>1, Here, RecordsSame DEF Holds
<1>14. Alone(r)
  BY <1>1, <1>5 DEF Alone
<1>15. QED
  BY <1>6, <1>9, <1>10, <1>11, <1>12, <1>13, <1>14, StepKeeps DEF Holds

\* Edit: everybody is disturbed.
LEMMA EditKeeps == ASSUME IInv, NEW path \in Paths, Edit(path) PROVE IInv'
<1>1. /\ disturbed' = [r \in Runs |-> TRUE] /\ Fault
      /\ UNCHANGED <<manifests, wal, pc, job, gate, work, outcome, result, origin, landed>>
  BY DEF Edit, evidence
<1>2. files' \in [Paths -> File]
  BY ContentsAssumption, Types DEF Edit, IInv, File
<1>3. TypeOK'
  BY <1>1, <1>2, Types, Faults DEF IInv, TypeOK
<1>4. ASSUME NEW q \in Runs PROVE Holds(q)'
  <2>1. <<>> \in Seq(CheckpointType) /\ DOMAIN <<>> = {} /\ wal \o <<>> = wal
    BY Types, ConcatEmptySeq DEF IInv
  <2>2. disturbed'[q]
    BY <1>1
  <2>3. wal' = wal \o <<>> /\ \A i \in DOMAIN <<>> : <<>>[i].run # q
    BY <1>1, <2>1
  <2>4. QED
    BY <1>1, <2>1, <2>2, <2>3, OthersKeep
<1>5. QED
  BY <1>3, <1>4 DEF IInv

\* The members of u are those of s and of t.
IsJoined(u, s, t) ==
    /\ \A i \in DOMAIN u : (\E k \in DOMAIN s : u[i] = s[k]) \/ (\E k \in DOMAIN t : u[i] = t[k])
    /\ \A k \in DOMAIN s : \E i \in DOMAIN u : u[i] = s[k]
    /\ \A k \in DOMAIN t : \E i \in DOMAIN u : u[i] = t[k]

\* A sequence that is joined to another has its members, and no others.
LEMMA Joined ==
  ASSUME NEW S, NEW s \in Seq(S), NEW t \in Seq(S)
  PROVE  s \o t \in Seq(S) /\ IsJoined(s \o t, s, t)
<1> DEFINE u == s \o t
<1>1. /\ u \in Seq(S) /\ Len(u) = Len(s) + Len(t)
      /\ \A i \in 1 .. Len(s) + Len(t) : u[i] = IF i <= Len(s) THEN s[i] ELSE t[i - Len(s)]
  BY ConcatProperties
<1>2. Len(s) \in Nat /\ Len(t) \in Nat /\ DOMAIN s = 1 .. Len(s) /\ DOMAIN t = 1 .. Len(t)
  OBVIOUS
<1> HIDE DEF u
<1>3. DOMAIN u = 1 .. Len(s) + Len(t)
  BY <1>1
<1>4. ASSUME NEW i \in DOMAIN u
      PROVE  (\E k \in DOMAIN s : u[i] = s[k]) \/ (\E k \in DOMAIN t : u[i] = t[k])
  <2>1. CASE i <= Len(s)
    BY <1>1, <1>2, <1>3, <2>1
  <2>2. CASE ~(i <= Len(s))
    <3>1. i - Len(s) \in DOMAIN t /\ u[i] = t[i - Len(s)]
      BY <1>1, <1>2, <1>3, <2>2
    <3>2. QED
      BY <3>1
  <2>3. QED
    BY <2>1, <2>2
<1>5. ASSUME NEW k \in DOMAIN s PROVE k \in DOMAIN u /\ u[k] = s[k]
  BY <1>1, <1>2, <1>3
<1>6. ASSUME NEW k \in DOMAIN t PROVE Len(s) + k \in DOMAIN u /\ u[Len(s) + k] = t[k]
  <2>1. Len(s) + k \in 1 .. Len(s) + Len(t) /\ ~(Len(s) + k <= Len(s)) /\ (Len(s) + k) - Len(s) = k
    BY <1>2
  <2>2. QED
    BY <1>1, <1>3, <2>1
<1>7. QED
  BY <1>1, <1>4, <1>5, <1>6 DEF IsJoined, u

\* Observe: the record of the action, or what will be it.
LEMMA ObserveKeeps == ASSUME IInv, NEW r \in Runs, Observe(r) PROVE IInv'
<1>1. /\ pc[r] = "observe" /\ RecordCheckpoint(r)
      /\ UNCHANGED <<files, wal, gate, work, outcome, result, origin, landed, disturbed, faults>>
  BY DEF Observe, history
<1> DEFINE c == Checkpoint(r)
           goes == RunContinues(outcome[r].status, outcome[r].reason) /\ job[r].n + 1 < Len(job[r].plan)
<1>2. /\ job[r].n < Len(job[r].plan) /\ job[r].pending = <<>> /\ job[r].n \in Nat
      /\ job[r].n + 1 \in 1 .. Len(job[r].plan) /\ Len(job[r].plan) \in Nat
      /\ DOMAIN job[r].plan = 1 .. Len(job[r].plan) /\ Current(r) \in Actions
  BY <1>1, AtHand, Here DEF Holds, Walks
<1>3. /\ c \in CheckpointType /\ c.run = r /\ c.n = job[r].n + 1 /\ c.type = Current(r).type
      /\ c.status = outcome[r].status /\ c.pre = outcome[r].pre /\ c.post = outcome[r].post
  <2>1. outcome[r] \in OutcomeType
    BY Here
  <2>2. QED
    BY <1>2, <2>1, ActionShape DEF Checkpoint, CheckpointType, OutcomeType
<1>4. pc' = [pc EXCEPT ![r] = IF goes THEN "act" ELSE "close"]
  BY DEF Observe
<1>5. Defers(r) => ~goes
  BY <1>2, Here DEF Holds, Walks, Defers
<1> HIDE DEF c
<1>6. /\ manifests' \in [Runs -> Seq(CheckpointType)] /\ job' \in [Runs -> Jobs]
      /\ \A q \in Runs \ {r} : job'[q] = job[q] /\ manifests'[q] = manifests[q]
      /\ job'[r].plan = job[r].plan /\ job'[r].multi = job[r].multi /\ job'[r].mode = job[r].mode
      /\ job'[r].n = job[r].n + 1
      /\ \/ Defers(r) /\ job'[r].pending = Append(<<>>, c) /\ manifests'[r] = manifests[r]
         \/ ~Defers(r) /\ job'[r].pending = <<>> /\ manifests'[r] = Append(manifests[r], c)
  <2>1. job \in [Runs -> Jobs] /\ job[r] \in Jobs /\ manifests \in [Runs -> Seq(CheckpointType)]
    BY Here
  <2>2. CASE Defers(r)
    <3>1. /\ job' = [job EXCEPT ![r].n = @ + 1, ![r].pending = Append(@, c)]
          /\ manifests' = manifests
      BY <1>1, <2>2 DEF RecordCheckpoint, c
    <3>2. PICK first \in Seq(CheckpointType) : first = Append(<<>>, c)
      <4>1. Append(<<>>, c) \in Seq(CheckpointType)
        BY <1>3, AppendProperties
      <4>2. QED
        BY <4>1
    <3> DEFINE j == [job[r] EXCEPT !.n = job[r].n + 1, !.pending = first]
    <3>3. job' = [job EXCEPT ![r] = j]
      BY <1>2, <2>1, <3>1, <3>2 DEF Jobs
    <3>4. /\ j \in Jobs /\ j.plan = job[r].plan /\ j.multi = job[r].multi /\ j.mode = job[r].mode
          /\ j.n = job[r].n + 1 /\ j.pending = first
      <4>1. job[r].n + 1 \in Nat
        BY <1>2
      <4>2. QED
        BY <2>1, <4>1 DEF Jobs
    <3> HIDE DEF j
    <3>5. QED
      BY ZenonT(60), <2>1, <2>2, <3>1, <3>2, <3>3, <3>4
  <2>3. CASE ~Defers(r)
    <3>1. /\ job' = [job EXCEPT ![r].n = @ + 1]
          /\ manifests' = [manifests EXCEPT ![r] = Append(@, c)]
      BY <1>1, <2>3 DEF RecordCheckpoint, c
    <3>2. Append(manifests[r], c) \in Seq(CheckpointType)
      BY <1>3, <2>1, AppendProperties
    <3> DEFINE j == [job[r] EXCEPT !.n = job[r].n + 1]
    <3>3. job' = [job EXCEPT ![r] = j]
      BY <2>1, <3>1 DEF Jobs
    <3>4. /\ j \in Jobs /\ j.plan = job[r].plan /\ j.multi = job[r].multi /\ j.mode = job[r].mode
          /\ j.n = job[r].n + 1 /\ j.pending = job[r].pending
      <4>1. job[r].n + 1 \in Nat /\ job[r].pending \in Seq(CheckpointType)
        BY <1>2, <2>1 DEF Jobs
      <4>2. QED
        BY <2>1, <4>1 DEF Jobs
    <3> HIDE DEF j
    <3>5. QED
      BY <1>2, <2>1, <2>3, <3>1, <3>2, <3>3, <3>4
  <2>4. QED
    BY <2>2, <2>3
<1>7. /\ pc' \in [Runs -> Stages] /\ pc'[r] = (IF goes THEN "act" ELSE "close")
      /\ \A q \in Runs \ {r} : pc'[q] = pc[q]
  BY <1>4, Here DEF Stages
<1>8. TypeOK'
  BY <1>1, <1>6, <1>7, Here, Types
<1>9. manifests[r] \in Seq(CheckpointType) /\ DOMAIN <<>> = {} /\ <<>> \in Seq(CheckpointType)
  BY Here
<1>10. /\ \A i \in DOMAIN Append(manifests[r], c) :
             (i \in DOMAIN manifests[r] /\ Append(manifests[r], c)[i] = manifests[r][i])
             \/ Append(manifests[r], c)[i] = c
       /\ \A i \in DOMAIN manifests[r] :
             i \in DOMAIN Append(manifests[r], c) /\ Append(manifests[r], c)[i] = manifests[r][i]
       /\ \E i \in DOMAIN Append(manifests[r], c) : Append(manifests[r], c)[i] = c
       /\ \A i \in DOMAIN Append(<<>>, c) : Append(<<>>, c)[i] = c
       /\ 1 \in DOMAIN Append(<<>>, c) /\ Append(<<>>, c) # <<>>
  <2>1. \A s \in Seq(CheckpointType) :
          /\ DOMAIN s = 1 .. Len(s) /\ DOMAIN Append(s, c) = 1 .. Len(s) + 1
          /\ Len(s) \in Nat /\ Append(s, c)[Len(s) + 1] = c
          /\ \A i \in 1 .. Len(s) : Append(s, c)[i] = s[i]
    BY <1>3, AppendProperties, LenProperties
  <2>2. /\ \A i \in DOMAIN Append(manifests[r], c) :
               (i \in DOMAIN manifests[r] /\ Append(manifests[r], c)[i] = manifests[r][i])
               \/ Append(manifests[r], c)[i] = c
        /\ \A i \in DOMAIN manifests[r] :
               i \in DOMAIN Append(manifests[r], c) /\ Append(manifests[r], c)[i] = manifests[r][i]
    BY <1>9, <2>1
  <2>3. \E i \in DOMAIN Append(manifests[r], c) : Append(manifests[r], c)[i] = c
    BY <1>9, <2>1
  <2>4. DOMAIN Append(<<>>, c) = 1 .. 1 /\ Append(<<>>, c)[1] = c
    BY <1>9, <2>1
  <2>5. QED
    BY <2>2, <2>3, <2>4
<1>11. \A n : n \in Recorded(r) => n \in Recorded(r)'
  BY <1>1, <1>6, <1>10, RecordedFrom DEF Recorded
<1>12. ~Defers(r) /\ outcome[r].status = "completed" => job[r].n + 1 \in Recorded(r)'
  <2> SUFFICES ASSUME ~Defers(r), outcome[r].status = "completed"
               PROVE  job[r].n + 1 \in Recorded(r)'
    OBVIOUS
  <2>1. PICK i \in DOMAIN manifests'[r] : manifests'[r][i] = c
    BY <1>6, <1>10
  <2>2. manifests'[r][i].run = r /\ manifests'[r][i].status = "completed"
        /\ manifests'[r][i].n = job[r].n + 1
    BY <1>3, <2>1
  <2>3. QED
    BY <2>2 DEF Recorded
<1>13. goes => outcome[r].status \notin {"halted", "denied"}
  BY <1>1, Here DEF Holds, Walks
<1>14. Fresh(r)'
  BY <1>7 DEF Fresh
<1>15. Walks(r)'
  <2>1. Len(job[r].plan) > 1 => job[r].multi
    BY Here DEF Holds, Walks
  <2>2. job[r].plan # <<>>
    BY <1>1, Here DEF Holds, Walks
  <2>3. QED
    BY <1>1, <1>2, <1>5, <1>6, <1>7, <2>1, <2>2 DEF Walks, Defers
<1>16. Worker(r)'
  <2>1. work[r].at # "none" => ~goes
    BY <1>1, <1>13, Here DEF Holds, Worker
  <2>2. QED
    BY SMTT(60), <1>1, <1>2, <1>6, <1>7, <2>1, Here DEF Holds, Worker, Given
<1>17. OnRecord(r)'
  <2> SUFFICES ASSUME NEW n \in landed[r], n \notin Recorded(r)'
               PROVE  /\ ~goes /\ n = job[r].n + 1
                      /\ \/ outcome[r].status = "halted"
                         \/ /\ outcome[r].status = "completed"
                            /\ \E i \in DOMAIN job'[r].pending :
                                  /\ job'[r].pending[i].n = n /\ job'[r].pending[i].run = r
                                  /\ job'[r].pending[i].status = "completed"
    BY <1>1, <1>6, <1>7 DEF OnRecord
  <2>1. n = job[r].n + 1 /\ outcome[r].status \in {"completed", "halted"}
    BY <1>1, <1>11, Here DEF Holds, OnRecord
  <2>2. outcome[r].status = "completed" => Defers(r)
    BY <1>12, <2>1
  <2>3. outcome[r].status = "completed" =>
          \E i \in DOMAIN job'[r].pending :
              /\ job'[r].pending[i].n = n /\ job'[r].pending[i].run = r
              /\ job'[r].pending[i].status = "completed"
    <3>1. 1 \in DOMAIN Append(<<>>, c) /\ Append(<<>>, c)[1] = c
      BY <1>10
    <3>2. Defers(r) => job'[r].pending = Append(<<>>, c)
      BY <1>6
    <3>3. QED
      BY <1>3, <2>1, <2>2, <3>1, <3>2
  <2>4. QED
    BY <1>5, <1>13, <2>1, <2>2, <2>3
<1>18. Patches(r)'
  BY <1>1, <1>6, <1>7, Here DEF Holds, Patches, Given
<1>19. Records(r)'
  <2>1. c.status = "completed" =>
           /\ c.n \in DOMAIN job[r].plan /\ c.type = job[r].plan[c.n].type
           /\ ~disturbed[r] => IsPatch(job[r].plan[c.n], c.pre, c.post)
    BY ZenonT(60), <1>1, <1>2, <1>3, Here DEF Holds, Patches, Current
  <2>2. Records(r)
    BY Here DEF Holds
  <2>3. Faithful(r, wal)'
    <3>1. Faithful(r, wal)
      BY <2>2 DEF Records
    <3>2. QED
      BY <1>1, <1>6, <3>1 DEF Faithful
  <2>4. CASE Defers(r)
    <3>1. job'[r].pending = Append(<<>>, c) /\ manifests'[r] = manifests[r]
      BY <1>6, <2>4
    <3>2. Faithful(r, manifests[r])' /\ \A i \in DOMAIN manifests'[r] : manifests'[r][i].run = r
      <4>1. Faithful(r, manifests[r]) /\ \A i \in DOMAIN manifests[r] : manifests[r][i].run = r
        BY <2>2 DEF Records
      <4>2. QED
        BY <1>1, <1>6, <3>1, <4>1 DEF Faithful
    <3>3. \A i \in DOMAIN job'[r].pending : job'[r].pending[i] = c
      BY <1>10, <3>1
    <3>4. Faithful(r, job[r].pending)' /\ \A i \in DOMAIN job'[r].pending : job'[r].pending[i].run = r
      <4>1. \A i \in DOMAIN job'[r].pending : job'[r].pending[i].run = r
        BY <1>3, <3>3
      <4> SUFFICES ASSUME NEW i \in DOMAIN job'[r].pending, job'[r].pending[i].status = "completed"
                   PROVE  /\ job'[r].pending[i].n \in DOMAIN job[r].plan
                          /\ job'[r].pending[i].type = job[r].plan[job'[r].pending[i].n].type
                          /\ ~disturbed[r] => IsPatch(job[r].plan[job'[r].pending[i].n],
                                                      job'[r].pending[i].pre,
                                                      job'[r].pending[i].post)
        BY <1>1, <1>6, <4>1 DEF Faithful
      <4>2. job'[r].pending[i] = c
        BY <3>3
      <4>3. QED
        BY <2>1, <4>2
    <3>5. QED
      BY <2>3, <3>2, <3>4 DEF Records
  <2>5. CASE ~Defers(r)
    <3>1. job'[r].pending = <<>> /\ manifests'[r] = Append(manifests[r], c)
      BY <1>6, <2>5
    <3>2. \A i \in DOMAIN manifests'[r] :
             (i \in DOMAIN manifests[r] /\ manifests'[r][i] = manifests[r][i]) \/ manifests'[r][i] = c
      BY <1>10, <3>1
    <3>3. Faithful(r, manifests[r])'
      <4>1. Faithful(r, manifests[r])
        BY <2>2 DEF Records
      <4> SUFFICES ASSUME NEW i \in DOMAIN manifests'[r], manifests'[r][i].status = "completed",
                          manifests'[r][i].run = r
                   PROVE  /\ manifests'[r][i].n \in DOMAIN job[r].plan
                          /\ manifests'[r][i].type = job[r].plan[manifests'[r][i].n].type
                          /\ ~disturbed[r] => IsPatch(job[r].plan[manifests'[r][i].n],
                                                      manifests'[r][i].pre, manifests'[r][i].post)
        BY <1>1, <1>6 DEF Faithful
      <4>2. CASE i \in DOMAIN manifests[r] /\ manifests'[r][i] = manifests[r][i]
        BY <4>1, <4>2 DEF Faithful
      <4>3. CASE manifests'[r][i] = c
        BY <2>1, <4>3
      <4>4. QED
        BY <3>2, <4>2, <4>3
    <3>4. \A i \in DOMAIN manifests'[r] : manifests'[r][i].run = r
      BY <1>3, <2>2, <3>2 DEF Records
    <3>5. QED
      BY <1>9, <2>3, <3>1, <3>3, <3>4 DEF Records, Faithful
  <2>6. QED
    BY <2>4, <2>5
<1>20. Alone(r)
  BY <1>1, <1>6, <1>7 DEF Alone
<1>21. QED
  BY <1>8, <1>14, <1>15, <1>16, <1>17, <1>18, <1>19, <1>20, StepKeeps DEF Holds

\* Finish: what was pending is on record.
LEMMA FinishKeeps == ASSUME IInv, NEW r \in Runs, Finish(r) PROVE IInv'
<1>1. /\ pc[r] = "close" /\ pc' = [pc EXCEPT ![r] = "end"]
      /\ gate' = [gate EXCEPT ![r] = FALSE]
      /\ result' = [result EXCEPT ![r] = FinalStatus(r)]
      /\ outcome' = [outcome EXCEPT ![r] = NoOutcome]
      /\ job' = [job EXCEPT ![r].pending = <<>>]
      /\ UNCHANGED <<files, work, origin, landed, disturbed, faults>>
  BY DEF Finish, history
<1> DEFINE pending == job[r].pending
<1>2. /\ job[r] \in Jobs /\ pending \in Seq(CheckpointType) /\ wal \in Seq(CheckpointType)
      /\ manifests[r] \in Seq(CheckpointType) /\ job[r].n \in Nat /\ job \in [Runs -> Jobs]
      /\ manifests \in [Runs -> Seq(CheckpointType)]
  BY Here DEF Jobs
<1>3. \/ wal' = wal \o pending /\ manifests' = manifests
      \/ wal' = wal /\ manifests' = [manifests EXCEPT ![r] = @ \o pending]
  BY DEF Finish
<1> HIDE DEF pending
<1>4. /\ job' \in [Runs -> Jobs] /\ job'[r].plan = job[r].plan /\ job'[r].multi = job[r].multi
      /\ job'[r].n = job[r].n /\ job'[r].pending = <<>>
      /\ \A q \in Runs \ {r} : job'[q] = job[q]
  <2>1. <<>> \in Seq(CheckpointType)
    OBVIOUS
  <2>2. [job[r] EXCEPT !.pending = <<>>] \in Jobs
    BY <1>2, <2>1 DEF Jobs
  <2>3. QED
    BY <1>1, <1>2, <2>2 DEF Jobs
<1>5. NoOutcome \in OutcomeType
  BY DEF NoOutcome, OutcomeType, Statuses, Reasons, File
<1>6. FinalStatus(r) \in Statuses /\ (outcome[r].status = "halted" => FinalStatus(r) = "halted")
  BY Here DEF FinalStatus, OutcomeType, Statuses
<1>7. /\ pc' \in [Runs -> Stages] /\ gate' \in [Runs -> BOOLEAN] /\ result' \in [Runs -> Statuses]
      /\ outcome' \in [Runs -> OutcomeType] /\ pc'[r] = "end" /\ result'[r] = FinalStatus(r)
      /\ \A q \in Runs \ {r} : pc'[q] = pc[q] /\ result'[q] = result[q] /\ outcome'[q] = outcome[q]
  BY <1>1, <1>5, <1>6, Here DEF Stages
<1>8. /\ wal \o pending \in Seq(CheckpointType) /\ IsJoined(wal \o pending, wal, pending)
      /\ manifests[r] \o pending \in Seq(CheckpointType)
      /\ IsJoined(manifests[r] \o pending, manifests[r], pending)
  BY <1>2, Joined
<1>9. /\ \/ IsJoined(wal', wal, pending) /\ manifests'[r] = manifests[r]
         \/ wal' = wal /\ IsJoined(manifests'[r], manifests[r], pending)
      /\ wal' = wal \/ IsJoined(wal', wal, pending)
      /\ manifests'[r] = manifests[r] \/ IsJoined(manifests'[r], manifests[r], pending)
  BY <1>2, <1>3, <1>8
<1>10. Records(r)
  BY Here DEF Holds
<1>12. /\ manifests' \in [Runs -> Seq(CheckpointType)] /\ wal' \in Seq(CheckpointType)
       /\ \A q \in Runs \ {r} : manifests'[q] = manifests[q]
  BY <1>2, <1>3, <1>8
<1>13. TypeOK'
  BY <1>1, <1>4, <1>7, <1>12, Here, Types
<1>14. \A n : n \in Recorded(r) => n \in Recorded(r)'
  <2> SUFFICES ASSUME NEW n \in Recorded(r) PROVE n \in Recorded(r)'
    OBVIOUS
  <2>1. CASE \E i \in DOMAIN manifests[r] : manifests[r][i].run = r
                   /\ manifests[r][i].status = "completed" /\ manifests[r][i].n = n
    <3>1. PICK k \in DOMAIN manifests[r] : manifests[r][k].run = r
                   /\ manifests[r][k].status = "completed" /\ manifests[r][k].n = n
      BY <2>1
    <3>2. PICK i \in DOMAIN manifests'[r] : manifests'[r][i] = manifests[r][k]
      BY <1>9, <3>1 DEF IsJoined
    <3>3. QED
      BY <3>1, <3>2 DEF Recorded
  <2>2. CASE \E i \in DOMAIN wal : wal[i].run = r
                   /\ wal[i].status = "completed" /\ wal[i].n = n
    <3>1. PICK k \in DOMAIN wal : wal[k].run = r /\ wal[k].status = "completed" /\ wal[k].n = n
      BY <2>2
    <3>2. PICK i \in DOMAIN wal' : wal'[i] = wal[k]
      BY <1>9, <3>1 DEF IsJoined
    <3>3. QED
      BY <3>1, <3>2 DEF Recorded
  <2>3. QED
    BY <2>1, <2>2, RecordedFrom
<1>15. \A k \in DOMAIN pending : pending[k].run = r /\ pending[k].status = "completed" =>
          pending[k].n \in Recorded(r)'
  <2> SUFFICES ASSUME NEW k \in DOMAIN pending, pending[k].run = r, pending[k].status = "completed"
               PROVE  pending[k].n \in Recorded(r)'
    OBVIOUS
  <2>1. CASE IsJoined(wal', wal, pending)
    <3>1. PICK i \in DOMAIN wal' : wal'[i] = pending[k]
      BY <2>1 DEF IsJoined
    <3>2. QED
      BY <3>1 DEF Recorded
  <2>2. CASE IsJoined(manifests'[r], manifests[r], pending)
    <3>1. PICK i \in DOMAIN manifests'[r] : manifests'[r][i] = pending[k]
      BY <2>2 DEF IsJoined
    <3>2. QED
      BY <3>1 DEF Recorded
  <2>3. QED
    BY <1>9, <2>1, <2>2
<1>16. Fresh(r)'
  BY <1>7 DEF Fresh
<1>17. Walks(r)'
  BY <1>1, <1>4, <1>7, Here DEF Holds, Walks
<1>18. Worker(r)'
  <2>1. Worker(r)
    BY Here DEF Holds
  <2>2. QED
    BY <1>1, <1>2, <1>4, <1>6, <1>7, <2>1 DEF Worker, Given
<1>19. OnRecord(r)'
  <2> SUFFICES ASSUME NEW n \in landed[r], n \notin Recorded(r)'
               PROVE  n >= job[r].n /\ FinalStatus(r) = "halted"
    BY <1>1, <1>4, <1>7 DEF OnRecord
  <2>1. n \notin Recorded(r)
    BY <1>14
  <2>2. \/ n = job[r].n /\ outcome[r].status = "halted"
        \/ n = job[r].n /\ \E i \in DOMAIN pending : pending[i].n = n /\ pending[i].run = r
                                          /\ pending[i].status = "completed"
    BY <1>1, <2>1, Here DEF Holds, OnRecord, pending
  <2>3. QED
    BY <1>2, <1>6, <1>15, <2>2
<1>20. Patches(r)'
  <2>1. Patches(r)
    BY Here DEF Holds
  <2>2. Given(r)' = Given(r)
    BY <1>1, <1>4, <1>7 DEF Given
  <2>3. QED
    BY <1>1, <1>4, <1>7, <2>1, <2>2 DEF Patches
<1>21. Records(r)'
  <2>1. Faithful(r, pending) /\ \A i \in DOMAIN pending : pending[i].run = r
    BY <1>10 DEF Records, pending
  <2>2. \A i \in DOMAIN manifests'[r] :
           (\E k \in DOMAIN manifests[r] : manifests'[r][i] = manifests[r][k])
           \/ (\E k \in DOMAIN pending : manifests'[r][i] = pending[k])
    BY <1>9 DEF IsJoined
  <2>3. \A i \in DOMAIN wal' :
           (\E k \in DOMAIN wal : wal'[i] = wal[k])
           \/ (\E k \in DOMAIN pending : wal'[i] = pending[k])
    BY <1>9 DEF IsJoined
  <2>4. Faithful(r, manifests[r])'
    BY <1>1, <1>4, <1>10, <2>1, <2>2 DEF Records, Faithful
  <2>5. Faithful(r, wal)'
    BY <1>1, <1>4, <1>10, <2>1, <2>3 DEF Records, Faithful
  <2>6. \A i \in DOMAIN manifests'[r] : manifests'[r][i].run = r
    BY <1>10, <2>1, <2>2 DEF Records
  <2>7. DOMAIN <<>> = {}
    OBVIOUS
  <2>8. QED
    BY <1>4, <2>4, <2>5, <2>6, <2>7 DEF Records, Faithful
<1>22. Alone(r)
  BY <1>1, <1>3, <1>4, <1>7, <1>12 DEF Alone, pending
<1>23. QED
  BY <1>13, <1>16, <1>17, <1>18, <1>19, <1>20, <1>21, <1>22, StepKeeps DEF Holds

-----------------------------------------------------------------------------
(* The steps of a worker *)

\* A worker that moves on, and does not touch the workspace.
LEMMA WorkerKeeps ==
  ASSUME IInv, NEW r \in Runs, work[r].at # "none", NEW w \in Workers, w.n = work[r].n,
         work' = [work EXCEPT ![r] = w],
         UNCHANGED <<files, evidence, pc, job, gate, outcome, result, origin, landed, disturbed>>,
         faults' \in Nat, w.at \notin {"none", "read", "hash"} \/ Given(r).type = "patch_text",
         w.at # "none", w.at \in {"hash", "write", "rehash", "done"} => w.text # Missing,
         w.at \in {"rehash", "done"} => w.n \in landed[r],
         ~disturbed[r] =>
            /\ w.at = "hash" => IsPatch(Given(r), files[Given(r).path], w.text)
            /\ w.at \in {"write", "rehash", "done"} => IsPatch(Given(r), w.pre, w.text)
            /\ w.at = "rehash" => files[Given(r).path] = w.text
            /\ w.at = "done" => w.post = w.text
  PROVE  IInv'
<1>1. UNCHANGED <<files, manifests, wal, pc, job, gate, outcome, result, origin, landed, disturbed>>
  BY DEF evidence
<1>2. /\ work' \in [Runs -> Workers] /\ work'[r] = w
      /\ \A q \in Runs \ {r} : work'[q] = work[q]
  BY Here
<1>3. TypeOK'
  BY <1>1, <1>2, Here, Types
<1>4. Recorded(r)' = Recorded(r) /\ Given(r)' = Given(r)
  BY <1>1, <1>2, RecordedSame DEF Given
<1>5. Fresh(r)' /\ Walks(r)'
  BY <1>1, Here DEF Holds, Fresh, Walks, Worker, Defers
<1>6. Worker(r)'
  BY <1>1, <1>2, <1>4, Here DEF Holds, Worker
<1>7. OnRecord(r)'
  <2>1. OnRecord(r)
    BY Here DEF Holds
  <2>2. QED
    BY <1>1, <1>4, <2>1 DEF OnRecord
<1>8. Patches(r)'
  BY <1>1, <1>2, <1>4, Here DEF Holds, Patches, Current
<1>9. Records(r)'
  BY <1>1, Here, RecordsSame DEF Holds
<1>10. Alone(r)
  BY <1>1, <1>2 DEF Alone
<1>11. QED
  BY <1>3, <1>5, <1>6, <1>7, <1>8, <1>9, <1>10, StepKeeps DEF Holds

\* What a worker at hand is.
LEMMA AtWork ==
  ASSUME IInv, NEW r \in Runs, work[r].at # "none"
  PROVE  /\ work[r] \in Workers /\ Given(r) \in Actions /\ Given(r).path \in Paths
         /\ files[Given(r).path] \in File
         /\ Given(r).type \in {"write_text", "patch_text"}
         /\ work[r].at \in {"read", "hash"} => Given(r).type = "patch_text"
         /\ work[r].at \in {"hash", "write", "rehash", "done"} => work[r].text # Missing
         /\ work[r].at \in {"rehash", "done"} => work[r].n \in landed[r]
<1>1. Worker(r) /\ work[r] \in Workers
  BY Here DEF Holds
<1>2. Given(r) \in Actions
  BY <1>1, AtHand, Here DEF Worker
<1>3. QED
  BY <1>1, <1>2, ActionShape, Here DEF Worker

\* A worker reads its file.
LEMMA ReadTargetKeeps == ASSUME IInv, NEW r \in Runs, ReadTarget(r) PROVE IInv'
<1>1. /\ work[r].at = "read"
      /\ UNCHANGED <<files, evidence, pc, job, gate, outcome, result, origin, landed, disturbed>>
      /\ faults' = faults
  BY DEF ReadTarget, Works
<1> DEFINE content == files[Given(r).path]
           w == IF PatchRejection(content, Given(r)) # NoReason
                THEN [work[r] EXCEPT !.at = "rejected"]
                ELSE [work[r] EXCEPT !.at = "hash", !.text = Patched(content, Given(r))]
<1>2. work' = [work EXCEPT ![r] = w]
  BY DEF ReadTarget
<1>3. /\ work[r] \in Workers /\ Given(r) \in Actions /\ content \in File /\ Given(r).type = "patch_text"
  BY <1>1, AtWork
<1>4. PatchRejection(content, Given(r)) = NoReason => Patched(content, Given(r)) \in Seq(STRING)
  BY <1>3, PatchedLines
<1>5. /\ w \in Workers /\ w.n = work[r].n
      /\ \/ w.at = "rejected"
         \/ w.at = "hash" /\ w.text # Missing /\ IsPatch(Given(r), content, w.text)
  <2>1. CASE PatchRejection(content, Given(r)) # NoReason
    BY <1>3, <2>1 DEF Workers, Phases
  <2>2. CASE PatchRejection(content, Given(r)) = NoReason
    <3>1. PICK text \in Seq(STRING) : text = Patched(content, Given(r))
      BY <1>4, <2>2
    <3>2. w = [work[r] EXCEPT !.at = "hash", !.text = text] /\ text \in File /\ text # Missing
      BY <2>2, <3>1, ContentsAssumption DEF File
    <3>3. w \in Workers /\ w.n = work[r].n /\ w.at = "hash" /\ w.text = text
      BY <1>3, <3>2 DEF Workers, Phases
    <3>4. QED
      BY <2>2, <3>1, <3>2, <3>3 DEF IsPatch
  <2>3. QED
    BY <2>1, <2>2
<1> HIDE DEF w
<1>6. faults' \in Nat
  BY <1>1, Here
<1>7. QED
  BY <1>1, <1>2, <1>3, <1>5, <1>6, WorkerKeeps

\* It opens the file again for the hash.
LEMMA HashTargetKeeps == ASSUME IInv, NEW r \in Runs, HashTarget(r) PROVE IInv'
<1>1. /\ work[r].at = "hash"
      /\ UNCHANGED <<files, evidence, pc, job, gate, outcome, result, origin, landed, disturbed>>
      /\ faults' = faults
  BY DEF HashTarget, Works
<1> DEFINE content == files[Given(r).path]
           w == IF content = Missing THEN [work[r] EXCEPT !.at = "raised"]
                ELSE IF ~Compiles(work[r].text) THEN [work[r] EXCEPT !.at = "rejected"]
                ELSE [work[r] EXCEPT !.at = "write", !.pre = content]
<1>2. work' = [work EXCEPT ![r] = w]
  BY DEF HashTarget
<1>3. /\ work[r] \in Workers /\ content \in File /\ work[r].text # Missing
      /\ Given(r).type = "patch_text"
  BY <1>1, AtWork
<1>4. ~disturbed[r] => IsPatch(Given(r), content, work[r].text)
  BY <1>1, Here DEF Holds, Patches
<1>5. /\ w \in Workers /\ w.n = work[r].n
      /\ \/ w.at \in {"raised", "rejected"}
         \/ w.at = "write" /\ w.text = work[r].text /\ w.pre = content
  BY <1>3 DEF Workers, Phases
<1> HIDE DEF w
<1>6. faults' \in Nat
  BY <1>1, Here
<1>7. QED
  BY <1>1, <1>2, <1>3, <1>4, <1>5, <1>6, WorkerKeeps

\* It reads back what it wrote.
LEMMA RehashTargetKeeps == ASSUME IInv, NEW r \in Runs, RehashTarget(r) PROVE IInv'
<1>1. /\ work[r].at = "rehash"
      /\ UNCHANGED <<files, evidence, pc, job, gate, outcome, result, origin, landed, disturbed>>
      /\ faults' = faults
  BY DEF RehashTarget, Works
<1> DEFINE content == files[Given(r).path]
           w == IF content = Missing THEN [work[r] EXCEPT !.at = "raised"]
                ELSE [work[r] EXCEPT !.at = "done", !.post = content]
<1>2. work' = [work EXCEPT ![r] = w]
  BY DEF RehashTarget
<1>3. /\ work[r] \in Workers /\ content \in File /\ work[r].text # Missing
      /\ work[r].n \in landed[r]
  BY <1>1, AtWork
<1>4. ~disturbed[r] => content = work[r].text /\ IsPatch(Given(r), work[r].pre, work[r].text)
  BY <1>1, Here DEF Holds, Patches
<1>5. /\ w \in Workers /\ w.n = work[r].n
      /\ \/ w.at = "raised"
         \/ w.at = "done" /\ w.text = work[r].text /\ w.pre = work[r].pre /\ w.post = content
  BY <1>3 DEF Workers, Phases
<1> HIDE DEF w
<1>6. faults' \in Nat
  BY <1>1, Here
<1>7. QED
  BY <1>1, <1>2, <1>3, <1>4, <1>5, <1>6, WorkerKeeps

\* It fails before the file is replaced.
LEMMA WorkFailsKeeps == ASSUME IInv, NEW r \in Runs, WorkFails(r) PROVE IInv'
<1>1. /\ work[r].at \in {"read", "hash", "write"} /\ Fault
      /\ UNCHANGED <<files, evidence, pc, job, gate, outcome, result, origin, landed, disturbed>>
  BY DEF WorkFails, Works
<1> DEFINE w == [work[r] EXCEPT !.at = "raised"]
<1>2. work[r] \in Workers /\ work \in [Runs -> Workers]
  BY Here
<1>3. work' = [work EXCEPT ![r] = w]
  BY <1>2 DEF WorkFails
<1>4. w \in Workers /\ w.n = work[r].n /\ w.at = "raised"
  BY <1>2 DEF Workers, Phases
<1> HIDE DEF w
<1>5. faults' \in Nat
  BY <1>1, Here, Faults
<1>6. QED
  BY <1>1, <1>3, <1>4, <1>5, WorkerKeeps

\* ReplaceTarget: the action has landed; it is the one at hand, or the last of a
\* run that is halted or will be.
LEMMA ReplaceTargetKeeps == ASSUME IInv, NEW r \in Runs, ReplaceTarget(r) PROVE IInv'
<1>1. /\ work[r].at = "write"
      /\ UNCHANGED <<manifests, wal, pc, job, gate, outcome, result, origin, faults>>
      /\ files' = [files EXCEPT ![Given(r).path] = work[r].text]
      /\ landed' = [landed EXCEPT ![r] = @ \cup {work[r].n}]
      /\ disturbed' = [s \in Runs |-> disturbed[s] \/ s # r]
      /\ work' = [work EXCEPT ![r].at = "rehash"]
  BY DEF ReplaceTarget, Works, evidence
<1>2. /\ work[r] \in Workers /\ Given(r).path \in Paths /\ work[r].text # Missing
      /\ Given(r).type \in {"write_text", "patch_text"} /\ work \in [Runs -> Workers]
  BY <1>1, AtWork, Here
<1> DEFINE w == [work[r] EXCEPT !.at = "rehash"]
<1>3. w \in Workers /\ w.n = work[r].n /\ w.at = "rehash" /\ w.text = work[r].text /\ w.pre = work[r].pre
  BY <1>2 DEF Workers, Phases
<1>4. work' = [work EXCEPT ![r] = w]
  BY <1>1, <1>2
<1> HIDE DEF w
<1>5. /\ work' \in [Runs -> Workers] /\ work'[r] = w
      /\ \A q \in Runs \ {r} : work'[q] = work[q]
  BY <1>2, <1>3, <1>4
<1>6. files' \in [Paths -> File] /\ files'[Given(r).path] = work[r].text
  BY <1>1, <1>2, Here DEF Workers
<1>7. Worker(r) /\ OnRecord(r) /\ Patches(r) /\ job[r].n \in Nat
  BY Here DEF Holds, Jobs
<1>8. work[r].n \in Nat \ {0}
  BY <1>1, <1>7, AtHand, Here DEF Worker
<1>9. /\ landed' \in [Runs -> SUBSET (Nat \ {0})] /\ landed'[r] = landed[r] \cup {work[r].n}
      /\ \A q \in Runs \ {r} : landed'[q] = landed[q]
  BY <1>1, <1>8, Here
<1>10. /\ disturbed' \in [Runs -> BOOLEAN] /\ disturbed'[r] = disturbed[r]
       /\ \A q \in Runs \ {r} : disturbed'[q]
  BY <1>1, Here
<1>11. TypeOK'
  BY <1>1, <1>5, <1>6, <1>9, <1>10, Here, Types
<1>12. Recorded(r)' = Recorded(r) /\ Given(r)' = Given(r)
  BY <1>1, <1>3, <1>5, RecordedSame DEF Given
<1>13. Fresh(r)' /\ Walks(r)'
  <2>1. pc[r] \notin {"idle", "admitted", "over"}
    BY <1>1, <1>7 DEF Worker
  <2>2. Walks(r)'
    BY <1>1, Here DEF Holds, Walks, Defers
  <2>3. QED
    BY <1>1, <2>1, <2>2 DEF Fresh
<1>14. Worker(r)'
  BY <1>1, <1>2, <1>3, <1>5, <1>7, <1>9, <1>12 DEF Worker
<1>15. OnRecord(r)'
  BY <1>1, <1>7, <1>9, <1>12 DEF OnRecord, Worker
<1>16. Patches(r)'
  BY <1>1, <1>3, <1>5, <1>6, <1>7, <1>10, <1>12 DEF Patches, Current
<1>17. Records(r)'
  BY <1>1, <1>10, Here, RecordsSame DEF Holds
<1>18. Alone(r)
  BY <1>1, <1>5, <1>9, <1>10 DEF Alone
<1>19. QED
  BY <1>11, <1>13, <1>14, <1>15, <1>16, <1>17, <1>18, StepKeeps DEF Holds

-----------------------------------------------------------------------------
(* The theorems *)

LEMMA InitHolds == Init => IInv
<1> SUFFICES ASSUME Init PROVE IInv
  OBVIOUS
<1>1. TypeOK
  BY InitTypes
<1>2. ASSUME NEW r \in Runs PROVE Holds(r)
  <2>1. /\ pc[r] = "idle" /\ work[r] = NoWork /\ landed[r] = {} /\ manifests[r] = <<>>
        /\ wal = <<>> /\ job[r] = Idle
    BY DEF Init
  <2>2. DOMAIN <<>> = {} /\ Len(<<>>) = 0
    OBVIOUS
  <2>3. Fresh(r) /\ Walks(r)
    BY <2>1, <2>2 DEF Fresh, Walks, Idle, NoWork
  <2>4. Worker(r) /\ Patches(r)
    BY <2>1 DEF Worker, Patches, NoWork
  <2>5. OnRecord(r) /\ Records(r)
    BY <2>1, <2>2 DEF OnRecord, Records, Faithful, Idle
  <2>6. QED
    BY <2>3, <2>4, <2>5 DEF Holds
<1>3. QED
  BY <1>1, <1>2 DEF IInv

\* Every step of every run, and every edit, keeps the invariant.
LEMMA NextKeeps == IInv /\ [Next]_vars => IInv'
<1> SUFFICES ASSUME IInv, [Next]_vars PROVE IInv'
  OBVIOUS
<1>1. ASSUME NEW r \in Runs,
             Begin(r) \/ classify_task_resume(r) \/ Step(r) \/ Work(r) \/ BudgetBreach(r) \/ Crash(r)
      PROVE  IInv'
  <2>1. CASE Begin(r)
    BY <2>1, BeginKeeps
  <2>2. CASE classify_task_resume(r)
    BY <2>2, ClassifyKeeps
  <2>3. CASE Dispatch(r)
    <3>1. CASE BeginAdmitted(r)
      BY <3>1, BeginAdmittedKeeps
    <3>2. CASE OverBudget(r)
      <4>1. pc[r] = "over" /\ HaltOnBudget(r) /\ faults' \in Nat
        BY <3>2, Here DEF OverBudget
      <4>2. QED
        BY <4>1, HaltKeeps
    <3>3. CASE Refuse(r)
      BY <3>3, RefuseKeeps
    <3>4. CASE Skip(r)
      BY <3>4, SkipKeeps
    <3>5. CASE Submit(r)
      BY <3>5, SubmitKeeps
    <3>6. QED
      BY <2>3, <3>1, <3>2, <3>3, <3>4, <3>5 DEF Dispatch
  <2>4. CASE Timeout(r)
    BY <2>4, TimeoutKeeps
  <2>5. CASE Collect(r)
    BY <2>5, CollectKeeps
  <2>6. CASE Observe(r)
    BY <2>6, ObserveKeeps
  <2>7. CASE Leave(r)
    BY <2>7, LeaveKeeps
  <2>8. CASE Finish(r)
    BY <2>8, FinishKeeps
  <2>9. CASE Work(r)
    BY <2>9, ReadTargetKeeps, HashTargetKeeps, ReplaceTargetKeeps, RehashTargetKeeps, WorkFailsKeeps
    DEF Work
  <2>10. CASE BudgetBreach(r)
    <3>1. pc[r] = "observe" /\ HaltOnBudget(r) /\ faults' \in Nat
      BY <2>10, Here, Faults DEF BudgetBreach
    <3>2. QED
      BY <3>1, HaltKeeps
  <2>11. CASE Crash(r)
    BY <2>11, CrashKeeps
  <2>12. QED
    BY <1>1, <2>1, <2>2, <2>3, <2>4, <2>5, <2>6, <2>7, <2>8, <2>9, <2>10, <2>11 DEF Step
<1>2. CASE UNCHANGED vars
  <2>1. UNCHANGED <<files, manifests, wal, pc, job, gate, work, outcome, result, origin, landed, disturbed, faults>>
    BY <1>2 DEF vars, evidence, history
  <2>2. TypeOK'
    BY <2>1, Types DEF IInv, TypeOK, Jobs, Plans, Workers, Stages
  <2>3. ASSUME NEW q \in Runs PROVE Holds(q)'
    <3>1. <<>> \in Seq(CheckpointType) /\ DOMAIN <<>> = {}
      OBVIOUS
    <3>2. wal' = wal \o <<>>
      BY <2>1, Here
    <3>3. QED
      BY <2>1, <3>1, <3>2, OthersKeep
  <2>4. QED
    BY <2>2, <2>3 DEF IInv
<1>3. QED
  BY <1>1, <1>2, EditKeeps DEF Next

\* The invariant that the properties follow from.
THEOREM RunsInvariant == Spec => []IInv
<1>1. QED
  BY InitHolds, NextKeeps, PTL DEF Spec

\* Every variable of the runs keeps its type.
THEOREM RunTypes == Spec => []TypeOK
<1>1. IInv => TypeOK
  BY DEF IInv
<1>2. QED
  BY <1>1, RunsInvariant, PTL

\* A run leaves the evidence of at most one action behind, and what a record says
\* of a patch is what the patch did.
LEMMA OnRecordSuffices == IInv => WritesAreOnRecord
<1> SUFFICES ASSUME IInv, NEW r \in Runs
             PROVE  /\ \A n \in landed[r] \ Recorded(r) :
                          /\ n >= job[r].n
                          /\ n > job[r].n => pc[r] \in {"wait", "observe", "leave", "end", "dead"}
                          /\ pc[r] = "end" => result[r] = "halted"
                    /\ ~disturbed[r] =>
                       \A record \in {manifests[r][i] : i \in DOMAIN manifests[r]}
                                     \cup {wal[i] : i \in {i \in DOMAIN wal : wal[i].run = r}} :
                          record.type = "patch_text" /\ record.status = "completed" =>
                             /\ PatchRejection(record.pre, job[r].plan[record.n]) = NoReason
                             /\ record.post = Patched(record.pre, job[r].plan[record.n])
  BY DEF WritesAreOnRecord
<1>1. job[r].n \in Nat /\ OnRecord(r) /\ Records(r)
  BY Here DEF Holds, Jobs
<1>2. ASSUME NEW n \in landed[r] \ Recorded(r)
      PROVE  /\ n >= job[r].n
             /\ n > job[r].n => pc[r] \in {"wait", "observe", "leave", "end", "dead"}
             /\ pc[r] = "end" => result[r] = "halted"
  BY <1>1, <1>2 DEF OnRecord
<1>3. ASSUME ~disturbed[r],
             NEW record \in {manifests[r][i] : i \in DOMAIN manifests[r]}
                            \cup {wal[i] : i \in {i \in DOMAIN wal : wal[i].run = r}},
             record.type = "patch_text", record.status = "completed"
      PROVE  /\ PatchRejection(record.pre, job[r].plan[record.n]) = NoReason
             /\ record.post = Patched(record.pre, job[r].plan[record.n])
  <2>1. /\ record.type = job[r].plan[record.n].type
        /\ IsPatch(job[r].plan[record.n], record.pre, record.post)
    BY <1>1, <1>3 DEF Records, Faithful
  <2>2. QED
    BY <1>3, <2>1 DEF IsPatch
<1>4. QED
  BY <1>2, <1>3

\* run_task loses the evidence of one action at most, and never that of a run that
\* reports success; the record of a patch shows the patch.
THEOREM WritesAreRecorded == Spec => []WritesAreOnRecord
<1>1. QED
  BY RunsInvariant, OnRecordSuffices, PTL

-----------------------------------------------------------------------------
(* A resume that was compared with the records *)

\* Of the runs to resume and to be resumed only one is under way.
OneActive == \A q, r \in Runs : Active(q) /\ Active(r) => q = r

\* What an admitted resume will overwrite is as the other run left it, or was
\* overwritten by the resume itself, while nobody else writes.
Compared(r) ==
    job[r].admitted =>
        /\ pc[r] # "idle" /\ job[r].source \in Runs /\ pc[job[r].source] \in {"end", "dead"}
        /\ ~disturbed[r] => \A i \in DOMAIN job[r].plan :
              \/ Decision(job[r].source, job[r].plan[i].path) # "halt"
              \/ \E n \in landed[r] : job[r].plan[n].path = job[r].plan[i].path

ResumeInv == IInv /\ OneActive /\ \A r \in Runs : Compared(r)

\* A step of r makes no run active, takes nothing back, and adds to no record
\* but its own.
Steady(r) ==
    /\ \A q \in Runs : Active(q)' => Active(q)
    /\ \A q \in Runs : pc[q] \in {"end", "dead"} =>
          pc'[q] \in {"end", "dead"} /\ manifests'[q] = manifests[q]
    /\ \A q \in Runs : pc[q] # "idle" => pc'[q] # "idle"
    /\ \A q \in Runs : /\ job'[q].plan = job[q].plan /\ job'[q].source = job[q].source
                       /\ job'[q].admitted = job[q].admitted
    /\ \E added \in Seq(CheckpointType) :
          wal' = wal \o added /\ \A i \in DOMAIN added : added[i].run = r /\ pc[r] = "close"

\* A step of a run that is under way, or the death of one.
LEMMA QuietSteps ==
  ASSUME IInv, NEW r \in Runs, UNCHANGED <<manifests, wal, job>>,
         NEW stage \in Stages \ {"idle"}, pc' = [pc EXCEPT ![r] = stage],
         Active(r) \/ (pc[r] = "end" /\ stage = "end")
  PROVE  Steady(r)
<1>1. <<>> \in Seq(CheckpointType) /\ DOMAIN <<>> = {} /\ wal \o <<>> = wal
  BY Here
<1>2. /\ pc'[r] = stage /\ \A q \in Runs \ {r} : pc'[q] = pc[q]
  BY Here
<1>3. \E added \in Seq(CheckpointType) :
          wal' = wal \o added /\ \A i \in DOMAIN added : added[i].run = r /\ pc[r] = "close"
  BY <1>1
<1>4. QED
  BY <1>2, <1>3 DEF Steady, Active

\* The steps of a worker.
LEMMA WorkIsSteady == ASSUME IInv, NEW r \in Runs, Work(r) PROVE Steady(r)
<1>1. UNCHANGED <<manifests, wal, pc, job>>
  BY DEF Work, ReadTarget, HashTarget, ReplaceTarget, RehashTarget, WorkFails, Works, evidence
<1>2. <<>> \in Seq(CheckpointType) /\ DOMAIN <<>> = {} /\ wal \o <<>> = wal
  BY Here
<1>3. \E added \in Seq(CheckpointType) :
          wal' = wal \o added /\ \A i \in DOMAIN added : added[i].run = r /\ pc[r] = "close"
  BY <1>1, <1>2
<1>4. QED
  BY <1>1, <1>3 DEF Steady, Active

\* The records a step adds are its own run's.
LEMMA RecordingIsSteady ==
  ASSUME IInv, NEW r \in Runs, Observe(r) \/ OverBudget(r) \/ BudgetBreach(r) \/ Finish(r)
  PROVE  Steady(r)
<1>1. /\ Active(r) /\ pc[r] \in {"observe", "over", "close"} /\ job \in [Runs -> Jobs]
      /\ job[r].pending \in Seq(CheckpointType)
      /\ \A i \in DOMAIN job[r].pending : job[r].pending[i].run = r
  <2>1. pc[r] \in {"observe", "over", "close"}
    BY DEF Observe, OverBudget, BudgetBreach, Finish
  <2>2. QED
    BY <2>1, Here DEF Active, Holds, Records, Jobs
<1>2. PICK stage \in {"act", "close", "leave", "end"} : pc' = [pc EXCEPT ![r] = stage]
  <2>1. CASE Observe(r)
    BY <2>1 DEF Observe
  <2>2. CASE OverBudget(r) \/ BudgetBreach(r)
    BY <2>2 DEF OverBudget, BudgetBreach, HaltOnBudget
  <2>3. CASE Finish(r)
    BY <2>3 DEF Finish
  <2>4. QED
    BY <2>1, <2>2, <2>3
<1>3. /\ pc'[r] = stage /\ \A q \in Runs \ {r} : pc'[q] = pc[q]
  BY <1>2, Here
<1>4. \A q \in Runs : /\ job'[q].plan = job[q].plan /\ job'[q].source = job[q].source
                      /\ job'[q].admitted = job[q].admitted
  <2>1. CASE Observe(r)
    BY SMTT(60), <1>1, <2>1 DEF Observe, RecordCheckpoint, Jobs
  <2>2. CASE OverBudget(r) \/ BudgetBreach(r)
    <3>1. job' = [job EXCEPT ![r].pending = <<>>]
      BY <2>2 DEF OverBudget, BudgetBreach, HaltOnBudget
    <3>2. QED
      BY <1>1, <3>1 DEF Jobs
  <2>3. CASE Finish(r)
    BY <1>1, <2>3 DEF Finish, Jobs
  <2>4. QED
    BY <2>1, <2>2, <2>3
<1>5. \A q \in Runs \ {r} : manifests'[q] = manifests[q]
  <2>1. CASE Observe(r)
    BY <2>1, Here DEF Observe, RecordCheckpoint
  <2>2. CASE OverBudget(r) \/ BudgetBreach(r)
    BY ZenonT(60), <2>2, Here DEF OverBudget, BudgetBreach, HaltOnBudget
  <2>3. CASE Finish(r)
    <3>1. \/ manifests' = manifests
          \/ manifests' = [manifests EXCEPT ![r] = manifests[r] \o job[r].pending]
      BY <2>3 DEF Finish
    <3>2. QED
      BY <3>1, Here
  <2>4. QED
    BY <2>1, <2>2, <2>3
<1>6. wal' = wal \/ (pc[r] = "close" /\ wal' = wal \o job[r].pending)
  BY DEF Observe, OverBudget, BudgetBreach, HaltOnBudget, Finish
<1>7. \E added \in Seq(CheckpointType) :
          wal' = wal \o added /\ \A i \in DOMAIN added : added[i].run = r /\ pc[r] = "close"
  <2>1. <<>> \in Seq(CheckpointType) /\ DOMAIN <<>> = {} /\ wal \o <<>> = wal
    BY Here
  <2>2. CASE wal' = wal
    BY <2>1, <2>2
  <2>3. CASE pc[r] = "close" /\ wal' = wal \o job[r].pending
    BY <1>1, <2>3
  <2>4. QED
    BY <1>6, <2>2, <2>3
<1>8. QED
  BY <1>1, <1>3, <1>4, <1>5, <1>7 DEF Steady, Active

\* The other steps of a run.
LEMMA RunIsSteady ==
  ASSUME IInv, NEW r \in Runs,
         BeginAdmitted(r) \/ Refuse(r) \/ Skip(r) \/ Submit(r) \/ Timeout(r) \/ Collect(r)
           \/ Leave(r) \/ Crash(r)
  PROVE  Steady(r)
<1>1. CASE BeginAdmitted(r)
  <2>1. /\ pc[r] = "admitted" /\ UNCHANGED <<manifests, wal>>
        /\ \E stage \in {"over", "act"} : pc' = [pc EXCEPT ![r] = stage]
    BY <1>1 DEF BeginAdmitted, Starts, evidence
  <2>2. /\ pc'[r] \in {"over", "act"} /\ \A q \in Runs \ {r} : pc'[q] = pc[q]
    BY <2>1, Here
  <2>3. \A q \in Runs : /\ job'[q].plan = job[q].plan /\ job'[q].source = job[q].source
                        /\ job'[q].admitted = job[q].admitted
    BY <1>1, Here DEF BeginAdmitted, Starts, Idle
  <2>4. <<>> \in Seq(CheckpointType) /\ DOMAIN <<>> = {} /\ wal \o <<>> = wal
    BY Here
  <2>5. \E added \in Seq(CheckpointType) :
          wal' = wal \o added /\ \A i \in DOMAIN added : added[i].run = r /\ pc[r] = "close"
    BY <2>1, <2>4
  <2>6. QED
    BY <2>1, <2>2, <2>3, <2>5 DEF Steady, Active
<1>2. CASE Refuse(r) \/ Skip(r) \/ Submit(r) \/ Timeout(r) \/ Collect(r) \/ Leave(r)
  <2>1. /\ pc[r] \in {"act", "wait", "leave"} /\ UNCHANGED <<manifests, wal, job>>
        /\ \E stage \in {"observe", "wait", "end"} : pc' = [pc EXCEPT ![r] = stage]
    BY <1>2 DEF Refuse, Skip, Submit, Timeout, Collect, Leave, Observed, evidence
  <2>2. QED
    BY <2>1, QuietSteps DEF Active, Stages
<1>3. CASE Crash(r)
  <2>1. /\ pc[r] \notin {"idle", "dead"} /\ UNCHANGED <<manifests, wal, job>>
        /\ pc' = [pc EXCEPT ![r] = IF pc[r] = "end" THEN "end" ELSE "dead"]
    BY <1>3, Here DEF Crash, evidence
  <2>2. QED
    BY <2>1, QuietSteps DEF Active, Stages
<1>4. QED
  BY <1>1, <1>2, <1>3

\* A decision reads one file and the records of one run.
LEMMA DecisionSame ==
  ASSUME IInv, NEW s \in Runs, NEW path, manifests'[s] = manifests[s], files'[path] = files[path],
         NEW added \in Seq(CheckpointType), wal' = wal \o added,
         \A i \in DOMAIN added : added[i].run # s
  PROVE  Decision(s, path)' = Decision(s, path)
<1> DEFINE Completed(records) == {i \in DOMAIN records :
                        /\ records[i].run = s /\ records[i].path = path
                        /\ records[i].status = "completed"}
           Last(records) == CHOOSE i \in Completed(records) : \A j \in Completed(records) : j <= i
<1>1. wal \in Seq(CheckpointType) /\ Len(wal) \in Nat /\ Len(added) \in Nat
  BY Here
<1>2. /\ Len(wal') = Len(wal) + Len(added) /\ wal' \in Seq(CheckpointType)
      /\ \A i \in 1 .. Len(wal) + Len(added) :
            wal'[i] = IF i <= Len(wal) THEN wal[i] ELSE added[i - Len(wal)]
  BY <1>1, ConcatProperties
<1>3. DOMAIN wal' = 1 .. Len(wal) + Len(added) /\ DOMAIN wal = 1 .. Len(wal)
      /\ DOMAIN added = 1 .. Len(added)
  BY <1>1, <1>2
<1>4. ASSUME NEW i \in DOMAIN wal', wal'[i].run = s
      PROVE  i \in DOMAIN wal /\ wal'[i] = wal[i]
  <2>1. CASE i <= Len(wal)
    BY <1>1, <1>2, <1>3, <2>1
  <2>2. CASE ~(i <= Len(wal))
    <3>1. i - Len(wal) \in DOMAIN added /\ wal'[i] = added[i - Len(wal)]
      BY <1>1, <1>2, <1>3, <2>2
    <3>2. QED
      BY <1>4, <3>1
  <2>3. QED
    BY <2>1, <2>2
<1>5. ASSUME NEW i \in DOMAIN wal PROVE i \in DOMAIN wal' /\ wal'[i] = wal[i]
  BY <1>1, <1>2, <1>3
<1>6. Completed(wal') = Completed(wal) /\ \A i \in Completed(wal) : wal'[i] = wal[i]
  BY <1>4, <1>5
<1>7. checkpoint_payloads_by_path(wal', s, path) = checkpoint_payloads_by_path(wal, s, path)
  <2>1. CASE Completed(wal) = {}
    BY <1>6, <2>1 DEF checkpoint_payloads_by_path
  <2>2. CASE Completed(wal) # {}
    <3>1. Last(wal') = Last(wal)
      BY <1>6
    <3>2. /\ checkpoint_payloads_by_path(wal', s, path) = wal'[Last(wal')].post
          /\ checkpoint_payloads_by_path(wal, s, path) = wal[Last(wal)].post
      BY <1>6, <2>2 DEF checkpoint_payloads_by_path
    <3>3. Last(wal) \in Completed(wal)
      <4>1. PICK m \in Completed(wal) : \A k \in Completed(wal) : k <= m
        <5>1. Completed(wal) \in SUBSET (1 .. Len(wal))
          BY <1>3
        <5> HIDE DEF Completed
        <5>2. QED
          BY <1>1, <2>2, <5>1, Greatest
      <4>2. QED
        BY <4>1
    <3>4. wal'[Last(wal)].post = wal[Last(wal)].post
      BY <1>6, <3>3
    <3>5. QED
      BY <3>1, <3>2, <3>4
  <2>3. QED
    BY <2>1, <2>2
<1>8. QED
  BY <1>7 DEF Decision, wal_payloads_by_path

\* A run that was compared stays so when nothing of what it compared changes but
\* what it overwrites itself.
LEMMA ComparedKeeps ==
  ASSUME IInv, NEW q \in Runs, Compared(q), job'[q].plan = job[q].plan,
         job'[q].source = job[q].source, job'[q].admitted = job[q].admitted,
         pc[q] # "idle" => pc'[q] # "idle",
         \A s \in Runs : pc[s] \in {"end", "dead"} =>
            pc'[s] \in {"end", "dead"} /\ manifests'[s] = manifests[s],
         ~disturbed'[q] => ~disturbed[q], landed[q] \subseteq landed'[q],
         \A path : ~disturbed'[q] =>
            files'[path] = files[path] \/ \E n \in landed'[q] : job[q].plan[n].path = path,
         NEW added \in Seq(CheckpointType), wal' = wal \o added,
         \A i \in DOMAIN added : pc[added[i].run] \notin {"end", "dead"}
  PROVE  Compared(q)'
<1> SUFFICES ASSUME job[q].admitted, job'[q].admitted PROVE Compared(q)'
  BY DEF Compared
<1>1. PICK s, plan : s = job[q].source /\ plan = job[q].plan
  OBVIOUS
<1>2. /\ pc[q] # "idle" /\ s \in Runs /\ pc[s] \in {"end", "dead"}
      /\ ~disturbed[q] => \A i \in DOMAIN plan :
            \/ Decision(s, plan[i].path) # "halt"
            \/ \E n \in landed[q] : plan[n].path = plan[i].path
  BY <1>1 DEF Compared
<1>3. ASSUME ~disturbed'[q], NEW i \in DOMAIN plan
      PROVE  \/ Decision(s, plan[i].path)' # "halt"
             \/ \E n \in landed'[q] : plan[n].path = plan[i].path
  <2>1. CASE files'[plan[i].path] = files[plan[i].path]
    <3>1. manifests'[s] = manifests[s] /\ \A k \in DOMAIN added : added[k].run # s
      BY <1>2
    <3>2. PICK path : path = plan[i].path
      OBVIOUS
    <3>3. files'[path] = files[path]
      BY <2>1, <3>2
    <3>4. Decision(s, path)' = Decision(s, path)
      BY SMTT(60), <1>2, <3>1, <3>3, DecisionSame
    <3>5. QED
      BY <1>2, <1>3, <3>2, <3>4
  <2>2. CASE \E n \in landed'[q] : plan[n].path = plan[i].path
    BY <2>2
  <2>3. QED
    BY <1>1, <1>3, <2>1, <2>2
<1>4. pc'[q] # "idle" /\ pc'[s] \in {"end", "dead"} /\ job'[q].source = s /\ job'[q].plan = plan
  BY <1>1, <1>2
<1>5. QED
  BY <1>2, <1>3, <1>4 DEF Compared

\* Where a run may begin when one at a time is under way, none is.
LEMMA NobodyElse ==
  ASSUME OneActive, MaxActive = 1, Free PROVE \A q \in Runs : ~Active(q)
<1> SUFFICES ASSUME NEW q \in Runs, Active(q) PROVE FALSE
  OBVIOUS
<1>1. {r \in Runs : pc[r] \notin {"idle", "end", "dead"}} = {q}
  BY DEF OneActive, Active
<1>2. Cardinality({q}) = 1
  BY FS_Singleton
<1>3. QED
  BY <1>1, <1>2 DEF Free

\* A run that begins, or is compared with another's records.
LEMMA BeginIsCompared ==
  ASSUME ResumeInv, MaxActive = 1, NEW r \in Runs, Begin(r) \/ classify_task_resume(r)
  PROVE  OneActive' /\ \A q \in Runs : Compared(q)'
<1>1. /\ IInv /\ OneActive /\ pc[r] = "idle" /\ Free /\ Fresh(r) /\ \A q \in Runs : ~Active(q)
  <2>1. IInv /\ OneActive /\ pc[r] = "idle" /\ Free
    BY DEF ResumeInv, Begin, classify_task_resume
  <2>2. QED
    BY <2>1, NobodyElse, Here DEF Holds
<1>2. /\ UNCHANGED <<files, manifests, wal, landed>>
      /\ disturbed' = [disturbed EXCEPT ![r] = FALSE]
  BY DEF Begin, classify_task_resume, evidence
<1>3. /\ \E stage \in {"act", "over", "admitted", "end"} : pc' = [pc EXCEPT ![r] = stage]
      /\ job' = job \/ \E new : job' = [job EXCEPT ![r] = new]
  BY DEF Begin, classify_task_resume, Starts
<1>4. /\ pc'[r] # "idle" /\ \A q \in Runs \ {r} : pc'[q] = pc[q] /\ job'[q] = job[q]
      /\ \A q \in Runs \ {r} : disturbed'[q] = disturbed[q]
  <2>1. IInv
    BY <1>1
  <2>2. QED
    BY <1>2, <1>3, <2>1, Here
<1>5. OneActive'
  BY <1>1, <1>4 DEF OneActive, Active
<1>6. <<>> \in Seq(CheckpointType) /\ DOMAIN <<>> = {} /\ wal' = wal \o <<>>
  BY <1>1, <1>2, Here
<1>7. ASSUME NEW q \in Runs \ {r} PROVE Compared(q)'
  <2>1. Compared(q)
    BY DEF ResumeInv
  <2>2. \A s \in Runs : pc[s] \in {"end", "dead"} =>
            pc'[s] \in {"end", "dead"} /\ manifests'[s] = manifests[s]
    BY <1>1, <1>2, <1>4
  <2>3. QED
    BY <1>1, <1>2, <1>4, <1>6, <2>1, <2>2, ComparedKeeps
<1>8. Compared(r)'
  <2>1. CASE Begin(r)
    <3>1. ~job[r].admitted
      BY <1>1 DEF Fresh
    <3>2. job'[r].admitted = job[r].admitted
      <4>1. PICK request \in Requests, source \in {s \in Runs : pc[s] # "idle"} \cup {None} :
               Starts(r, request.plan, request.multi, request.mode, source)
        BY <2>1 DEF Begin
      <4>2. QED
        BY <1>1, <4>1, Here DEF Starts, Idle
    <3>3. QED
      BY <3>1, <3>2 DEF Compared
  <2>2. CASE classify_task_resume(r)
    <3>1. PICK request \in Requests, source \in {s \in Runs : pc[s] # "idle"} :
            \/ job' = job
            \/ /\ aggregate_summary(source, request.plan) # "halted"
               /\ job' = [job EXCEPT ![r] =
                    [Idle EXCEPT !.plan = request.plan, !.multi = TRUE, !.source = source,
                                 !.admitted = TRUE]]
      BY <2>2 DEF classify_task_resume
    <3>2. CASE job' = job
      BY <1>1, <3>2 DEF Fresh, Compared
    <3>3. CASE /\ aggregate_summary(source, request.plan) # "halted"
               /\ job' = [job EXCEPT ![r] =
                    [Idle EXCEPT !.plan = request.plan, !.multi = TRUE, !.source = source,
                                 !.admitted = TRUE]]
      <4>1. job'[r].plan = request.plan /\ job'[r].source = source
        BY <1>1, <3>3, Here DEF Idle
      <4>2. /\ source \in Runs /\ pc[source] \in {"end", "dead"}
            /\ pc'[source] \in {"end", "dead"}
        BY <1>1, <1>4 DEF Active
      <4>3. ASSUME NEW i \in DOMAIN request.plan
            PROVE  Decision(source, request.plan[i].path)' # "halt"
        <5>1. Decision(source, request.plan[i].path) # "halt"
          BY <3>3 DEF aggregate_summary
        <5>2. Decision(source, request.plan[i].path)' = Decision(source, request.plan[i].path)
          BY <1>1, <1>2, <1>6, <4>2, DecisionSame
        <5>3. QED
          BY <5>1, <5>2
      <4>4. QED
        BY <1>4, <4>1, <4>2, <4>3 DEF Compared
    <3>4. QED
      BY <3>1, <3>2, <3>3
  <2>3. QED
    BY <2>1, <2>2
<1>9. QED
  BY <1>5, <1>7, <1>8

\* A step of a run that is under way, or of its worker.
LEMMA SteadyIsCompared ==
  ASSUME ResumeInv, NEW r \in Runs, Steady(r),
         UNCHANGED <<files, landed, disturbed>> \/ ReplaceTarget(r)
  PROVE  OneActive' /\ \A q \in Runs : Compared(q)'
<1>1. IInv /\ OneActive
  BY DEF ResumeInv
<1>2. OneActive'
  BY <1>1 DEF OneActive, Steady
<1>3. ASSUME NEW q \in Runs PROVE Compared(q)'
  <2>1. PICK added \in Seq(CheckpointType) :
           wal' = wal \o added /\ \A i \in DOMAIN added : added[i].run = r /\ pc[r] = "close"
    BY DEF Steady
  <2>2. \A i \in DOMAIN added : pc[added[i].run] \notin {"end", "dead"}
    BY <2>1
  <2>3. /\ Compared(q) /\ job'[q].plan = job[q].plan
        /\ job'[q].source = job[q].source /\ job'[q].admitted = job[q].admitted
        /\ pc[q] # "idle" => pc'[q] # "idle"
        /\ \A s \in Runs : pc[s] \in {"end", "dead"} =>
            pc'[s] \in {"end", "dead"} /\ manifests'[s] = manifests[s]
    BY DEF ResumeInv, Steady
  <2>4. /\ ~disturbed'[q] => ~disturbed[q]
        /\ landed[q] \subseteq landed'[q]
        /\ \A path : ~disturbed'[q] =>
             files'[path] = files[path] \/ \E n \in landed'[q] : job[q].plan[n].path = path
    <3>1. CASE UNCHANGED <<files, landed, disturbed>>
      BY <3>1
    <3>2. CASE ReplaceTarget(r)
      <4>1. /\ files' = [files EXCEPT ![Given(r).path] = work[r].text]
            /\ landed'[r] = landed[r] \cup {work[r].n}
            /\ \A s \in Runs \ {r} : landed'[s] = landed[s] /\ disturbed'[s]
            /\ disturbed'[r] = disturbed[r]
        BY ZenonT(60), <1>1, <3>2, Here DEF ReplaceTarget
      <4>2. \A path : files'[path] = files[path] \/ path = Given(r).path
        BY <1>1, <4>1, Here
      <4>3. Given(r) = job[r].plan[work[r].n]
        BY DEF Given
      <4>4. CASE q = r
        <5>1. work[r].n \in landed'[q] /\ job[q].plan[work[r].n].path = Given(r).path
          BY <4>1, <4>3, <4>4
        <5>2. (~disturbed'[q] => ~disturbed[q]) /\ landed[q] \subseteq landed'[q]
          BY <4>1, <4>4
        <5>3. QED
          BY <4>2, <5>1, <5>2
      <4>5. CASE q # r
        BY <4>1, <4>5
      <4>6. QED
        BY <4>4, <4>5
    <3>3. QED
      BY <3>1, <3>2
  <2>5. QED
    BY <1>1, <2>1, <2>2, <2>3, <2>4, ComparedKeeps
<1>4. QED
  BY <1>2, <1>3

\* An edit disturbs every run.
LEMMA EditIsCompared ==
  ASSUME ResumeInv, NEW path \in Paths, Edit(path)
  PROVE  OneActive' /\ \A q \in Runs : Compared(q)'
<1>1. /\ UNCHANGED <<manifests, wal, pc, job, landed>> /\ disturbed' = [r \in Runs |-> TRUE]
  BY DEF Edit, evidence
<1>2. OneActive /\ \A q \in Runs : Compared(q)
  BY DEF ResumeInv
<1>3. OneActive'
  BY <1>1, <1>2 DEF OneActive, Active
<1>4. \A q \in Runs : Compared(q)'
  BY <1>1, <1>2 DEF Compared
<1>5. QED
  BY <1>3, <1>4

\* Every step keeps what was compared, one run at a time being under way.
LEMMA ResumeNext ==
  ASSUME MaxActive = 1, ResumeInv, [Next]_vars
  PROVE  ResumeInv'
<1>1. IInv /\ IInv'
  BY NextKeeps DEF ResumeInv
<1>2. ASSUME NEW r \in Runs, Begin(r) \/ classify_task_resume(r)
      PROVE  OneActive' /\ \A q \in Runs : Compared(q)'
  BY <1>2, BeginIsCompared
<1>3. ASSUME NEW r \in Runs, Step(r) \/ Work(r) \/ BudgetBreach(r) \/ Crash(r)
      PROVE  OneActive' /\ \A q \in Runs : Compared(q)'
  <2>1. Steady(r)
    BY <1>1, <1>3, WorkIsSteady, RecordingIsSteady, RunIsSteady DEF Step, Dispatch
  <2>2. UNCHANGED <<files, landed, disturbed>> \/ ReplaceTarget(r)
    <3>1. CASE Step(r) \/ BudgetBreach(r) \/ Crash(r)
      BY <3>1 DEF Step, Dispatch, BeginAdmitted, OverBudget, Refuse, Skip, Submit, Timeout,
                  Collect, Observe, Leave, Finish, BudgetBreach, HaltOnBudget, Crash, history
    <3>2. CASE Work(r)
      BY <3>2 DEF Work, ReadTarget, HashTarget, RehashTarget, WorkFails
    <3>3. QED
      BY <1>3, <3>1, <3>2
  <2>3. QED
    BY <2>1, <2>2, SteadyIsCompared
<1>4. CASE UNCHANGED vars
  <2>1. UNCHANGED <<files, manifests, wal, pc, job, landed, disturbed>>
    BY <1>4 DEF vars, evidence, history
  <2>2. OneActive'
    BY <2>1 DEF ResumeInv, OneActive, Active
  <2>3. ASSUME NEW q \in Runs PROVE Compared(q)'
    <3>1. <<>> \in Seq(CheckpointType) /\ DOMAIN <<>> = {} /\ wal' = wal \o <<>>
      BY <1>1, <2>1, Here
    <3>2. Compared(q)
      BY DEF ResumeInv
    <3>3. QED
      BY <1>1, <2>1, <3>1, <3>2, ComparedKeeps
  <2>4. QED
    BY <1>1, <2>2, <2>3 DEF ResumeInv
<1>5. QED
  BY <1>1, <1>2, <1>3, <1>4, EditIsCompared DEF Next, ResumeInv

\* The run-plan command compares the files with the other run's records before it
\* begins; one run at a time being under way, nothing it overwrites was changed
\* since by anybody but itself.
THEOREM ResumesKeepEdits ==
  ASSUME MaxActive = 1
  PROVE  Spec => ResumeKeepsEdits
<1>1. Init => ResumeInv
  <2> SUFFICES ASSUME Init PROVE ResumeInv
    OBVIOUS
  <2>1. OneActive /\ \A q \in Runs : Compared(q)
    BY DEF Init, OneActive, Active, Compared, Idle
  <2>2. QED
    BY <2>1, InitHolds DEF ResumeInv
<1>2. ResumeInv /\ [Next]_vars => ResumeInv'
  BY ResumeNext
<1>3. ResumeInv /\ [Next]_vars =>
        [\A r \in Runs :
          landed'[r] # landed[r] /\ job[r].admitted /\ ~disturbed[r] =>
          \/ Decision(job[r].source, Given(r).path) # "halt"
          \/ \E n \in landed[r] : job[r].plan[n].path = Given(r).path]_vars
  <2> SUFFICES ASSUME ResumeInv, Next, NEW r \in Runs, landed'[r] # landed[r],
                      job[r].admitted, ~disturbed[r]
               PROVE  \/ Decision(job[r].source, Given(r).path) # "halt"
                      \/ \E n \in landed[r] : job[r].plan[n].path = Given(r).path
    OBVIOUS
  <2>1. IInv /\ Compared(r)
    BY DEF ResumeInv
  <2>2. ReplaceTarget(r)
    <3>1. \/ \E q \in Runs : Begin(q) \/ classify_task_resume(q) \/ Step(q) \/ Work(q)
                              \/ BudgetBreach(q) \/ Crash(q)
          \/ \E path \in Paths : Edit(path)
      BY DEF Next
    <3>2. ~\E q \in Runs : Begin(q) \/ classify_task_resume(q) \/ BudgetBreach(q) \/ Crash(q)
      BY DEF Begin, classify_task_resume, BudgetBreach, HaltOnBudget, Crash, history
    <3>3. ~\E q \in Runs : Step(q)
      BY DEF Step, Dispatch, BeginAdmitted, OverBudget, HaltOnBudget, Refuse, Skip, Submit,
             Timeout, Collect, Observe, Leave, Finish, history
    <3>4. ~\E path \in Paths : Edit(path)
      BY DEF Edit
    <3>5. PICK q \in Runs : Work(q)
      BY <3>1, <3>2, <3>3, <3>4
    <3>6. ReplaceTarget(q)
      BY <3>5 DEF Work, ReadTarget, HashTarget, RehashTarget, WorkFails, history
    <3>7. QED
      BY <2>1, <3>6, Here DEF ReplaceTarget
  <2>3. work[r].n \in DOMAIN job[r].plan
    BY ZenonT(60), <2>1, <2>2, Here, AtHand DEF ReplaceTarget, Works, Holds, Worker
  <2>4. QED
    BY <2>1, <2>3 DEF Compared, Given
<1>4. QED
  BY <1>1, <1>2, <1>3, PTL DEF Spec, ResumeKeepsEdits

-----------------------------------------------------------------------------
(* The workspaces on the way through a plan *)

\* Course is what its recursion says.
LEMMA CourseSteps ==
  ASSUME NEW plan \in Seq(Actions), NEW workspace
  PROVE  /\ Course(plan, workspace)[0] = workspace
         /\ \A n \in 1 .. Len(plan) :
               Course(plan, workspace)[n] =
                  IF Course(plan, workspace)[n - 1] = None THEN None
                  ELSE Apply(plan[n], Course(plan, workspace)[n - 1])
<1> DEFINE Steps(g, k) ==
             g = [n \in 0 .. k |-> IF n = 0 THEN workspace
                                   ELSE IF g[n - 1] = None THEN None
                                   ELSE Apply(plan[n], g[n - 1])]
           T == {k \in 0 .. Len(plan) : ~(\E g : Steps(g, k))}
<1>1. \E g : Steps(g, 0)
  <2>1. Steps([n \in 0 .. 0 |-> workspace], 0)
    OBVIOUS
  <2>2. QED
    BY <2>1
<1>2. ASSUME NEW m \in 1 .. Len(plan), \E g : Steps(g, m - 1) PROVE \E g : Steps(g, m)
  <2>1. PICK g : Steps(g, m - 1)
    BY <1>2
  <2> DEFINE last == IF g[m - 1] = None THEN None ELSE Apply(plan[m], g[m - 1])
             h == [n \in 0 .. m |-> IF n = m THEN last ELSE g[n]]
  <2>2. \A n \in 0 .. m - 1 : h[n] = g[n]
    OBVIOUS
  <2>3. \A n \in 0 .. m - 1 : g[n] = IF n = 0 THEN workspace
                                      ELSE IF g[n - 1] = None THEN None
                                      ELSE Apply(plan[n], g[n - 1])
    BY <2>1
  <2>4. \A n \in 1 .. m - 1 : n - 1 \in 0 .. m - 1 /\ h[n - 1] = g[n - 1]
    BY <2>2
  <2>5. ASSUME NEW n \in 0 .. m
        PROVE  h[n] = IF n = 0 THEN workspace
                      ELSE IF h[n - 1] = None THEN None ELSE Apply(plan[n], h[n - 1])
    <3>1. CASE n = m
      <4>1. h[m] = last /\ h[m - 1] = g[m - 1] /\ m # 0
        BY <2>2
      <4> HIDE DEF h
      <4>2. QED
        BY <3>1, <4>1
    <3>2. CASE n = 0
      BY <2>2, <2>3, <3>2
    <3>3. CASE n \in 1 .. m - 1
      <4>1. h[n] = g[n] /\ h[n - 1] = g[n - 1] /\ n # 0 /\ n \in 0 .. m - 1
        BY <2>2, <2>4, <3>3
      <4> HIDE DEF h
      <4>2. QED
        BY <2>3, <4>1
    <3>4. QED
      BY <3>1, <3>2, <3>3
  <2>6. h = [n \in 0 .. m |-> h[n]]
    OBVIOUS
  <2> HIDE DEF h
  <2>7. Steps(h, m)
    BY <2>5, <2>6
  <2>8. QED
    BY <2>7
<1>3. T = {}
  <2> SUFFICES ASSUME T # {} PROVE FALSE
    OBVIOUS
  <2>1. PICK m \in T : \A k \in T : m <= k
    <3>1. T \in SUBSET Nat
      OBVIOUS
    <3> HIDE DEF T
    <3>2. QED
      BY <3>1, Least
  <2> HIDE DEF Steps
  <2>2. m \in 1 .. Len(plan) /\ m - 1 \in 0 .. Len(plan) /\ m - 1 \notin T
    BY <1>1, <2>1
  <2>3. QED
    BY <1>2, <2>1, <2>2
<1>4. \E g : Steps(g, Len(plan))
  <2> HIDE DEF Steps
  <2>1. Len(plan) \in 0 .. Len(plan)
    OBVIOUS
  <2>2. QED
    BY <1>3, <2>1
<1>5. Course(plan, workspace) = CHOOSE g : Steps(g, Len(plan))
  BY DEF Course
<1>6. Steps(Course(plan, workspace), Len(plan))
  <2> HIDE DEF Steps
  <2>1. QED
    BY <1>4, <1>5
<1>7. QED
  BY <1>6

-----------------------------------------------------------------------------
(* What a step leaves alone, once more *)

\* A step of r leaves the others alone, and what is over stays so.
Aside(r) ==
    /\ Alone(r)
    /\ \A q \in Runs \ {r} : origin'[q] = origin[q]
    /\ \A s \in Runs : pc[s] \in {"end", "dead"} =>
          /\ pc'[s] \in {"end", "dead"} /\ job'[s] = job[s]
          /\ landed'[s] = landed[s] \/ \A q \in Runs \ {s} : disturbed'[q]

\* A step that is not a replacement.
LEMMA AsideWithout ==
  ASSUME IInv, NEW r \in Runs, UNCHANGED <<files, landed>>,
         NEW stage, pc' = [pc EXCEPT ![r] = stage],
         pc[r] \in {"end", "dead"} => stage \in {"end", "dead"} /\ job' = job,
         \A q \in Runs \ {r} :
            /\ job'[q] = job[q] /\ work'[q] = work[q]
            /\ outcome'[q] = outcome[q] /\ result'[q] = result[q] /\ manifests'[q] = manifests[q]
            /\ disturbed'[q] = disturbed[q] /\ origin'[q] = origin[q],
         wal' = wal \/ (wal' = wal \o job[r].pending)
  PROVE  Aside(r)
<1>1. /\ pc'[r] = stage /\ \A q \in Runs \ {r} : pc'[q] = pc[q]
  BY Here
<1>2. Alone(r)
  BY <1>1 DEF Alone
<1>3. QED
  BY <1>1, <1>2 DEF Aside

\* The steps that begin a run.
LEMMA StartsAreAside ==
  ASSUME IInv, NEW r \in Runs, Begin(r) \/ classify_task_resume(r) \/ BeginAdmitted(r)
  PROVE  Aside(r)
<1>1. /\ pc[r] \in {"idle", "admitted"}
      /\ UNCHANGED <<files, manifests, wal, work, outcome, landed>>
  BY DEF Begin, classify_task_resume, BeginAdmitted, evidence
<1>2. \E stage : pc' = [pc EXCEPT ![r] = stage]
  BY DEF Begin, classify_task_resume, BeginAdmitted, Starts
<1>3. PICK stage : pc' = [pc EXCEPT ![r] = stage]
  BY <1>2
<1>4. \A q \in Runs \ {r} : /\ job'[q] = job[q] /\ result'[q] = result[q]
                            /\ disturbed'[q] = disturbed[q] /\ origin'[q] = origin[q]
  <2>1. CASE Begin(r)
    BY ZenonT(60), <2>1, Here DEF Begin, Starts
  <2>2. CASE classify_task_resume(r)
    BY ZenonT(60), <2>2, Here DEF classify_task_resume
  <2>3. CASE BeginAdmitted(r)
    BY <2>3, Here DEF BeginAdmitted, Starts
  <2>4. QED
    BY <2>1, <2>2, <2>3
<1>5. QED
  BY <1>1, <1>3, <1>4, AsideWithout

\* The other steps of a run.
LEMMA StepsAreAside ==
  ASSUME IInv, NEW r \in Runs, Step(r) \/ BudgetBreach(r) \/ Crash(r), ~BeginAdmitted(r)
  PROVE  Aside(r)
<1>1. UNCHANGED <<files, landed, disturbed, origin>>
  BY DEF Step, Dispatch, OverBudget, Refuse, Skip, Submit, Timeout, Collect, Observe, Leave,
         Finish, BudgetBreach, HaltOnBudget, Crash, history
<1>2. CASE Refuse(r) \/ Skip(r) \/ Submit(r) \/ Timeout(r) \/ Collect(r) \/ Leave(r)
  <2>1. /\ pc[r] \in {"act", "wait", "leave"} /\ UNCHANGED <<manifests, wal, job, result>>
        /\ \E stage \in {"observe", "wait", "end"} : pc' = [pc EXCEPT ![r] = stage]
    BY <1>2 DEF Refuse, Skip, Submit, Timeout, Collect, Leave, Observed, evidence
  <2>2. \A q \in Runs \ {r} : outcome'[q] = outcome[q] /\ work'[q] = work[q]
    BY <1>2, Here DEF Refuse, Skip, Submit, Timeout, Collect, Leave, Observed
  <2>3. QED
    BY <1>1, <2>1, <2>2, AsideWithout
<1>3. CASE Observe(r)
  <2>1. /\ pc[r] = "observe" /\ UNCHANGED <<wal, work, outcome, result>>
        /\ \E stage \in {"act", "close"} : pc' = [pc EXCEPT ![r] = stage]
    BY <1>3 DEF Observe
  <2>2. \A q \in Runs \ {r} : job'[q] = job[q] /\ manifests'[q] = manifests[q]
    BY <1>3, Here DEF Observe, RecordCheckpoint
  <2>3. QED
    BY <1>1, <2>1, <2>2, AsideWithout
<1>4. CASE OverBudget(r) \/ BudgetBreach(r)
  <2>1. /\ pc[r] \in {"over", "observe"} /\ UNCHANGED <<wal, work>>
        /\ pc' = [pc EXCEPT ![r] = "leave"]
    BY <1>4 DEF OverBudget, BudgetBreach, HaltOnBudget
  <2>2. \A q \in Runs \ {r} : /\ job'[q] = job[q] /\ manifests'[q] = manifests[q]
                              /\ outcome'[q] = outcome[q] /\ result'[q] = result[q]
    BY ZenonT(60), <1>4, Here DEF OverBudget, BudgetBreach, HaltOnBudget
  <2>3. QED
    BY <1>1, <2>1, <2>2, AsideWithout
<1>5. CASE Finish(r)
  <2>1. /\ pc[r] = "close" /\ UNCHANGED work /\ pc' = [pc EXCEPT ![r] = "end"]
        /\ wal' = wal \/ wal' = wal \o job[r].pending
    BY <1>5 DEF Finish
  <2>2. \A q \in Runs \ {r} : /\ job'[q] = job[q] /\ manifests'[q] = manifests[q]
                              /\ outcome'[q] = outcome[q] /\ result'[q] = result[q]
    BY <1>5, Here DEF Finish
  <2>3. QED
    BY <1>1, <2>1, <2>2, AsideWithout
<1>6. CASE Crash(r)
  <2>1. /\ UNCHANGED <<manifests, wal, job, result>>
        /\ \E stage \in {"end", "dead"} : pc' = [pc EXCEPT ![r] = stage]
    BY <1>6, Here DEF Crash, evidence
  <2>2. \A q \in Runs \ {r} : outcome'[q] = outcome[q] /\ work'[q] = work[q]
    BY <1>6, Here DEF Crash
  <2>3. QED
    BY <1>1, <2>1, <2>2, AsideWithout
<1>7. QED
  BY <1>2, <1>3, <1>4, <1>5, <1>6 DEF Step, Dispatch

\* The steps of a worker.
LEMMA WorkIsAside == ASSUME IInv, NEW r \in Runs, Work(r) PROVE Aside(r)
<1>1. UNCHANGED <<manifests, wal, pc, job, outcome, result, origin>>
  BY DEF Work, ReadTarget, HashTarget, ReplaceTarget, RehashTarget, WorkFails, Works, evidence
<1>2. \A q \in Runs \ {r} : work'[q] = work[q]
  BY Here DEF Work, ReadTarget, HashTarget, ReplaceTarget, RehashTarget, WorkFails, Works
<1>3. CASE ReplaceTarget(r)
  <2>1. \A q \in Runs \ {r} : landed'[q] = landed[q] /\ disturbed'[q]
    BY <1>3, Here DEF ReplaceTarget
  <2>2. QED
    BY <1>1, <1>2, <2>1 DEF Aside, Alone
<1>4. CASE ~ReplaceTarget(r)
  <2>1. UNCHANGED <<files, landed, disturbed>>
    BY <1>4 DEF Work, ReadTarget, HashTarget, RehashTarget, WorkFails
  <2>2. QED
    BY <1>1, <1>2, <2>1 DEF Aside, Alone
<1>5. QED
  BY <1>3, <1>4

-----------------------------------------------------------------------------
(* What a run knows of its files *)

\* The completed records of a run are of files it replaced; while nobody else
\* writes, and no action overwrites another, they tell what is in them.
Vouched(r, records) ==
    \A i \in DOMAIN records :
        records[i].run = r /\ records[i].status = "completed" =>
            /\ records[i].n \in landed[r] /\ records[i].path = job[r].plan[records[i].n].path
            /\ records[i].post # Missing
            /\ ~disturbed[r] /\ DistinctPaths(job[r].plan) =>
                  files[records[i].path] = records[i].post

\* No action lands twice, and none that is not yet at hand has.
Landed(r) ==
    LET p == pc[r] j == job[r] w == work[r] IN
    /\ \A n \in landed[r] : n \in 1 .. Len(j.plan) /\ j.plan[n].type # "refused"
    /\ w.at \in {"read", "hash", "write"} => w.n \notin landed[r]
    /\ p = "act" => \A n \in landed[r] : n <= j.n
    /\ p \in {"wait", "observe"} => \A n \in landed[r] : n <= j.n + 1

\* What an outcome says happened.
Observes(r) ==
    LET p == pc[r] o == outcome[r] w == work[r] IN
    /\ w.at = "done" => w.post # Missing
    /\ p = "observe" /\ o.status = "completed" =>
         job[r].n + 1 \in landed[r] /\ o.post # Missing /\ o.reason = NoReason
    /\ p = "observe" => o.status # "none"
    /\ p = "observe" /\ o.status = "skipped" => o.reason = "resumed_asset_ready"
    /\ p = "end" /\ job[r].plan = <<>> => result[r] = "halted"

\* A run has its completed records in the manifest or in the ledger, never in both.
OneLedger(r) ==
    /\ Defers(r) /\ pc[r] \notin {"leave", "end", "dead"} => manifests[r] = <<>>
    /\ \A i \in DOMAIN wal : wal[i].run = r => pc[r] = "end" /\ manifests[r] = <<>>

\* While nobody else writes, a worker about to replace a file applies its action,
\* and what it found there afterwards is what is there.
Undisturbed(r) ==
    LET w == work[r] IN
    ~disturbed[r] =>
        /\ w.at = "write" => Apply(Given(r), files) = [files EXCEPT ![Given(r).path] = w.text]
        /\ w.at = "done" => files[Given(r).path] = w.post
        /\ pc[r] = "observe" /\ outcome[r].status = "completed" =>
              files[Current(r).path] = outcome[r].post

Kept(r) ==
    /\ Landed(r) /\ Observes(r) /\ OneLedger(r) /\ Undisturbed(r)
    /\ Vouched(r, manifests[r]) /\ Vouched(r, wal) /\ Vouched(r, job[r].pending)

KeptInv == IInv /\ \A r \in Runs : Kept(r)

\* Of a run nothing of which changes, what it knows stays true when others write.
LEMMA OthersAreKept ==
  ASSUME KeptInv, NEW r \in Runs, Alone(r), NEW q \in Runs \ {r}
  PROVE  Kept(q)'
<1>1. /\ pc'[q] = pc[q] /\ job'[q] = job[q] /\ work'[q] = work[q]
      /\ outcome'[q] = outcome[q] /\ result'[q] = result[q] /\ landed'[q] = landed[q]
      /\ manifests'[q] = manifests[q] /\ (~disturbed'[q] => ~disturbed[q])
      /\ files' = files \/ disturbed'[q]
  BY DEF Alone
<1>2. IInv /\ Kept(q) /\ Records(r) /\ wal \in Seq(CheckpointType) /\ job[r].pending \in Seq(CheckpointType)
  BY Here DEF KeptInv, Holds, Jobs
<1>3. \A i \in DOMAIN wal' : wal'[i].run = q => \E k \in DOMAIN wal : wal'[i] = wal[k]
  <2>1. CASE wal' = wal
    BY <2>1
  <2>2. CASE wal' = wal \o job[r].pending
    <3>1. IsJoined(wal', wal, job[r].pending)
      BY <1>2, <2>2, Joined
    <3>2. QED
      BY <1>2, <3>1 DEF IsJoined, Records
  <2>3. QED
    BY <2>1, <2>2 DEF Alone
<1>4. Landed(q)' /\ Observes(q)'
  BY <1>1, <1>2 DEF Kept, Landed, Observes
<1>5. OneLedger(q)'
  BY <1>1, <1>2, <1>3 DEF Kept, OneLedger, Defers
<1>6. Undisturbed(q)'
  BY <1>1, <1>2 DEF Kept, Undisturbed, Given, Current
<1>7. Vouched(q, manifests[q])' /\ Vouched(q, job[q].pending)'
  BY SMTT(60), <1>1, <1>2 DEF Kept, Vouched
<1>8. Vouched(q, wal)'
  BY <1>1, <1>2, <1>3 DEF Kept, Vouched
<1>9. QED
  BY <1>4, <1>5, <1>6, <1>7, <1>8 DEF Kept

\* A step of a run under way that touches no file and no record.
LEMMA QuietIsKept ==
  ASSUME KeptInv, NEW r \in Runs, UNCHANGED <<files, manifests, wal, job, landed, disturbed>>,
         work'[r].at \in {"read", "hash", "write"} => work'[r].n \notin landed[r],
         pc'[r] # "act" \/ pc[r] = "act",
         pc'[r] \in {"wait", "observe"} => pc[r] \in {"act", "wait", "observe"},
         pc'[r] \notin {"leave", "end", "dead"} => pc[r] \notin {"leave", "end", "dead"},
         pc[r] = "end" => pc'[r] = "end", Observes(r)', Undisturbed(r)'
  PROVE  Kept(r)'
<1>1. Kept(r) /\ job[r].n \in Nat /\ landed[r] \subseteq Nat
  BY Here DEF KeptInv, Jobs
<1>2. Landed(r)'
  BY <1>1 DEF Kept, Landed
<1>3. OneLedger(r)'
  BY <1>1 DEF Kept, OneLedger, Defers
<1>4. Vouched(r, manifests[r])' /\ Vouched(r, job[r].pending)' /\ Vouched(r, wal)'
  BY <1>1 DEF Kept, Vouched
<1>5. QED
  BY <1>2, <1>3, <1>4 DEF Kept

\* A run that begins, or is refused, has replaced nothing.
LEMMA StartsAreKept ==
  ASSUME KeptInv, NEW r \in Runs, Begin(r) \/ classify_task_resume(r) \/ BeginAdmitted(r)
  PROVE  Kept(r)'
<1>1. /\ pc[r] \in {"idle", "admitted"} /\ IInv
      /\ UNCHANGED <<files, manifests, wal, work, outcome, landed>>
  BY DEF Begin, classify_task_resume, BeginAdmitted, evidence, KeptInv
<1>2. /\ work[r].at = "none" /\ landed[r] = {} /\ manifests[r] = <<>> /\ DOMAIN <<>> = {}
      /\ \A i \in DOMAIN wal : wal[i].run # r
      /\ job[r].pending = <<>>
  BY <1>1, Here DEF Holds, Fresh
<1>3. /\ pc'[r] \in {"admitted", "over", "act", "end"} /\ job'[r].pending = <<>>
      /\ pc'[r] = "end" => result'[r] = "halted"
  <2>1. CASE Begin(r)
    <3>1. PICK plan, multi, mode, source : Starts(r, plan, multi, mode, source)
      BY <2>1 DEF Begin
    <3>2. QED
      BY <3>1, <1>1, Here DEF Starts, Idle
  <2>2. CASE classify_task_resume(r)
    <3>1. \/ result' = [result EXCEPT ![r] = "halted"] /\ pc' = [pc EXCEPT ![r] = "end"] /\ job' = job
          \/ \E plan, source :
               /\ job' = [job EXCEPT ![r] =
                     [Idle EXCEPT !.plan = plan, !.multi = TRUE, !.source = source,
                                  !.admitted = TRUE]]
               /\ pc' = [pc EXCEPT ![r] = "admitted"]
      <4>1. PICK request \in Requests, source \in {s \in Runs : pc[s] # "idle"} :
              IF aggregate_summary(source, request.plan) = "halted"
              THEN /\ result' = [result EXCEPT ![r] = "halted"]
                   /\ pc' = [pc EXCEPT ![r] = "end"]
                   /\ UNCHANGED job
              ELSE /\ job' = [job EXCEPT ![r] =
                        [Idle EXCEPT !.plan = request.plan, !.multi = TRUE, !.source = source,
                                     !.admitted = TRUE]]
                   /\ pc' = [pc EXCEPT ![r] = "admitted"]
                   /\ UNCHANGED result
        BY <2>2 DEF classify_task_resume
      <4>2. QED
        BY <4>1
    <3>2. CASE job' = job
      BY <3>1, <3>2, <1>1, <1>2, Here
    <3>3. ASSUME NEW plan, NEW source,
                 job' = [job EXCEPT ![r] =
                    [Idle EXCEPT !.plan = plan, !.multi = TRUE, !.source = source,
                                 !.admitted = TRUE]],
                 pc' = [pc EXCEPT ![r] = "admitted"]
          PROVE  pc'[r] = "admitted" /\ job'[r].pending = <<>>
      <4> DEFINE fresh == [Idle EXCEPT !.plan = plan, !.multi = TRUE, !.source = source,
                                       !.admitted = TRUE]
      <4>1. fresh.pending = <<>>
        BY DEF Idle
      <4>2. job' = [job EXCEPT ![r] = fresh]
        BY <3>3
      <4> HIDE DEF fresh
      <4>3. QED
        BY <1>1, <3>3, <4>1, <4>2, Here
    <3>4. QED
      BY <3>1, <3>2, <3>3
  <2>3. CASE BeginAdmitted(r)
    BY <2>3, <1>1, Here DEF BeginAdmitted, Starts, Idle
  <2>4. QED
    BY <2>1, <2>2, <2>3
<1>4. Landed(r)' /\ Observes(r)' /\ OneLedger(r)' /\ Undisturbed(r)'
  BY <1>1, <1>2, <1>3 DEF Landed, Observes, OneLedger, Undisturbed
<1>5. Vouched(r, manifests[r])' /\ Vouched(r, wal)' /\ Vouched(r, job[r].pending)'
  BY <1>1, <1>2, <1>3 DEF Vouched
<1>6. QED
  BY <1>4, <1>5 DEF Kept

\* An outcome without the workspace.
LEMMA OutcomesAreKept ==
  ASSUME KeptInv, NEW r \in Runs, Refuse(r) \/ Skip(r) \/ Timeout(r)
  PROVE  Kept(r)'
<1>1. /\ pc[r] \in {"act", "wait"} /\ IInv
      /\ UNCHANGED <<files, manifests, wal, job, work, result, landed, disturbed>>
  BY DEF Refuse, Skip, Timeout, evidence, history, KeptInv
<1>2. Landed(r) /\ Observes(r) /\ Undisturbed(r)
  BY DEF KeptInv, Kept
<1>3. /\ pc'[r] = "observe"
      /\ \/ outcome'[r].status \in {"halted", "denied"}
         \/ outcome'[r].status = "skipped" /\ outcome'[r].reason = "resumed_asset_ready"
  <2>1. CASE Refuse(r)
    <3>1. job[r].n < Len(job[r].plan)
      BY <2>1, <1>1, Here DEF Holds, Walks, Refuse
    <3>2. Current(r).status \in {"denied", "halted"}
      BY <2>1, <3>1, AtHand, Here, ActionShape, <1>1 DEF Refuse
    <3>3. QED
      BY <2>1, <3>2, <1>1, Here DEF Refuse, Observed
  <2>2. CASE Skip(r)
    BY <2>2, <1>1, Here DEF Skip, Observed
  <2>3. CASE Timeout(r)
    BY <2>3, <1>1, Here DEF Timeout, Observed
  <2>4. QED
    BY <2>1, <2>2, <2>3
<1>4. work'[r].at \in {"read", "hash", "write"} => work'[r].n \notin landed[r]
  BY <1>1, <1>2 DEF Landed
<1>5. Observes(r)'
  BY <1>1, <1>2, <1>3 DEF Observes
<1>6. Undisturbed(r)'
  BY <1>1, <1>2, <1>3 DEF Undisturbed, Given
<1>7. QED
  BY <1>1, <1>3, <1>4, <1>5, <1>6, QuietIsKept

\* The action at hand has not landed.
LEMMA SubmitIsKept == ASSUME KeptInv, NEW r \in Runs, Submit(r) PROVE Kept(r)'
<1>1. /\ pc[r] = "act" /\ IInv /\ Current(r).type # "refused"
      /\ UNCHANGED <<files, manifests, wal, job, outcome, result, landed, disturbed>>
  BY DEF Submit, evidence, history, KeptInv
<1>2. Landed(r) /\ job[r].n \in Nat /\ landed[r] \subseteq Nat
  BY <1>1, Here DEF KeptInv, Kept, Jobs
<1>3. pc'[r] = "wait"
  BY <1>1, Here DEF Submit
<1>4. /\ work'[r].n = job[r].n + 1
      /\ work'[r].at = IF Current(r).type = "write_text" THEN "write" ELSE "read"
      /\ Current(r).type = "write_text" => work'[r].text = Current(r).text
  BY <1>1, Here DEF Submit, NoWork
<1>5. Given(r)' = Current(r)
  BY <1>1, <1>4 DEF Given, Current
<1>6. work'[r].n \notin landed[r]
  BY <1>1, <1>2, <1>4 DEF Landed
<1>7. Observes(r)'
  BY <1>3, <1>4 DEF Observes
<1>8. Undisturbed(r)'
  <2>1. work'[r].at = "write" =>
          Apply(Given(r)', files') = [files' EXCEPT ![Given(r)'.path] = work'[r].text]
    BY <1>4, <1>5 DEF Apply
  <2>2. QED
    BY <1>3, <1>4, <2>1 DEF Undisturbed
<1>9. QED
  BY <1>1, <1>3, <1>6, <1>7, <1>8, QuietIsKept

\* What the worker found is the outcome.
LEMMA CollectIsKept == ASSUME KeptInv, NEW r \in Runs, Collect(r) PROVE Kept(r)'
<1>1. /\ pc[r] = "wait" /\ IInv
      /\ UNCHANGED <<files, manifests, wal, job, result, landed, disturbed>>
  BY DEF Collect, evidence, history, KeptInv
<1>2. /\ Worker(r) /\ Observes(r) /\ Undisturbed(r)
  BY <1>1, Here DEF KeptInv, Kept, Holds
<1>3. pc'[r] = "observe" /\ work'[r].at = "none"
  BY <1>1, Here DEF Collect, Observed, NoWork
<1>4. \/ outcome'[r].status = "halted"
      \/ /\ outcome'[r].status = "completed" /\ outcome'[r].reason = NoReason
         /\ outcome'[r].post = work[r].post /\ work[r].at = "done"
  BY <1>1, Here DEF Collect, Observed
<1>5. work[r].at = "done" => job[r].n + 1 \in landed[r] /\ Given(r) = Current(r)
  BY <1>1, <1>2 DEF Worker, Given, Current
<1>6. Observes(r)'
  BY <1>1, <1>2, <1>3, <1>4, <1>5 DEF Observes
<1>7. Undisturbed(r)'
  BY <1>1, <1>2, <1>3, <1>4, <1>5 DEF Undisturbed, Given, Current
<1>8. QED
  BY <1>1, <1>3, <1>6, <1>7, QuietIsKept

\* The end of a run, and its death.
LEMMA LeaveAndCrashAreKept ==
  ASSUME KeptInv, NEW r \in Runs, Leave(r) \/ Crash(r)
  PROVE  Kept(r)'
<1>1. /\ IInv /\ UNCHANGED <<files, manifests, wal, job, result, landed, disturbed>>
  BY DEF Leave, Crash, evidence, history, KeptInv
<1>2. /\ Walks(r) /\ Observes(r) /\ Undisturbed(r) /\ Landed(r)
  BY <1>1, Here DEF KeptInv, Kept, Holds
<1>3. CASE Leave(r)
  <2>1. pc[r] = "leave" /\ pc'[r] = "end" /\ work' = work /\ result[r] = "halted"
    BY <1>1, <1>2, <1>3, Here DEF Leave, Walks
  <2>2. Observes(r)' /\ Undisturbed(r)'
    BY <1>1, <1>2, <2>1 DEF Observes, Undisturbed, Given
  <2>3. work'[r].at \in {"read", "hash", "write"} => work'[r].n \notin landed[r]
    BY <1>2, <2>1 DEF Landed
  <2>4. QED
    BY <1>1, <2>1, <2>2, <2>3, QuietIsKept
<1>4. CASE Crash(r)
  <2>1. /\ pc'[r] = (IF pc[r] = "end" THEN "end" ELSE "dead") /\ work'[r].at = "none"
        /\ pc[r] # "dead"
    BY <1>1, <1>4, Here DEF Crash, NoWork
  <2>2. Observes(r)' /\ Undisturbed(r)'
    BY <1>1, <1>2, <2>1 DEF Observes, Undisturbed
  <2>3. QED
    BY <1>1, <2>1, <2>2, QuietIsKept
<1>5. QED
  BY <1>3, <1>4

\* A worker that reads, hashes, reads back or fails.
LEMMA ReadingIsKept ==
  ASSUME KeptInv, NEW r \in Runs, ReadTarget(r) \/ HashTarget(r) \/ RehashTarget(r) \/ WorkFails(r)
  PROVE  Kept(r)'
<1>1. /\ IInv
      /\ UNCHANGED <<files, manifests, wal, pc, job, outcome, result, landed, disturbed>>
  BY DEF ReadTarget, HashTarget, RehashTarget, WorkFails, Works, evidence, KeptInv
<1>2. /\ Worker(r) /\ Patches(r) /\ Observes(r) /\ Undisturbed(r) /\ Landed(r)
      /\ work[r] \in Workers /\ work \in [Runs -> Workers]
  BY <1>1, Here DEF KeptInv, Kept, Holds
<1>3. /\ work[r].at \in {"read", "hash", "write", "rehash"} /\ work'[r].n = work[r].n
      /\ work'[r].at \in {"read", "hash", "write"} => work[r].at \in {"read", "hash", "write"}
      /\ work'[r].at = "write" =>
            /\ work[r].at = "hash" /\ work'[r].text = work[r].text
      /\ work'[r].at = "done" =>
            /\ work[r].at = "rehash" /\ work'[r].post = files[Given(r).path]
            /\ files[Given(r).path] # Missing
  <2>1. CASE ReadTarget(r)
    <3>1. /\ work[r].at = "read"
          /\ work' = [work EXCEPT ![r] =
               IF PatchRejection(files[Given(r).path], Given(r)) # NoReason
               THEN [work[r] EXCEPT !.at = "rejected"]
               ELSE [work[r] EXCEPT !.at = "hash", !.text = Patched(files[Given(r).path], Given(r))]]
      BY <2>1 DEF ReadTarget, Works
    <3>2. QED
      BY <1>2, <3>1 DEF Workers
  <2>2. CASE HashTarget(r)
    BY <1>2, <2>2 DEF HashTarget, Works, Workers
  <2>3. CASE RehashTarget(r)
    BY <1>2, <2>3 DEF RehashTarget, Works, Workers
  <2>4. CASE WorkFails(r)
    BY <1>2, <2>4 DEF WorkFails, Works, Workers
  <2>5. QED
    BY <2>1, <2>2, <2>3, <2>4
<1>4. Given(r)' = Given(r)
  BY <1>1, <1>3 DEF Given
<1>5. work'[r].at \in {"read", "hash", "write"} => work'[r].n \notin landed[r]
  BY <1>2, <1>3 DEF Landed
<1>6. Observes(r)'
  BY <1>1, <1>2, <1>3 DEF Observes
<1>7. ~disturbed[r] /\ work[r].at = "hash" =>
        Apply(Given(r), files) = [files EXCEPT ![Given(r).path] = work[r].text]
  <2> SUFFICES ASSUME ~disturbed[r], work[r].at = "hash"
               PROVE  Apply(Given(r), files) = [files EXCEPT ![Given(r).path] = work[r].text]
    OBVIOUS
  <2>1. Given(r).type = "patch_text" /\ IsPatch(Given(r), files[Given(r).path], work[r].text)
    BY <1>2 DEF Worker, Patches
  <2>2. QED
    BY <2>1 DEF IsPatch, Apply
<1>8. Undisturbed(r)'
  <2>1. pc[r] = "observe" /\ outcome[r].status = "completed" /\ ~disturbed[r] =>
            files[Current(r).path] = outcome[r].post
    BY <1>2 DEF Undisturbed
  <2>2. Current(r)' = Current(r)
    BY <1>1 DEF Current
  <2>3. QED
    BY <1>1, <1>3, <1>4, <1>7, <2>1, <2>2 DEF Undisturbed
<1>9. QED
  BY <1>1, <1>5, <1>6, <1>8, QuietIsKept

\* A file is replaced: it is none that an earlier action wrote, when no two write the same.
LEMMA ReplacingIsKept == ASSUME KeptInv, NEW r \in Runs, ReplaceTarget(r) PROVE Kept(r)'
<1>1. /\ IInv /\ work[r].at = "write"
      /\ UNCHANGED <<manifests, wal, pc, job, outcome, result>>
      /\ files' = [files EXCEPT ![Given(r).path] = work[r].text]
  BY DEF ReplaceTarget, Works, evidence, KeptInv
<1>2. /\ Worker(r) /\ Observes(r) /\ OneLedger(r) /\ Landed(r) /\ Undisturbed(r)
      /\ Vouched(r, manifests[r]) /\ Vouched(r, wal) /\ Vouched(r, job[r].pending)
      /\ job[r].n \in Nat /\ landed[r] \subseteq Nat
  BY <1>1, Here DEF KeptInv, Kept, Holds, Jobs
<1>3. /\ work'[r].at = "rehash" /\ work'[r].n = work[r].n
      /\ landed'[r] = landed[r] \cup {work[r].n} /\ disturbed'[r] = disturbed[r]
  BY Here, <1>1 DEF ReplaceTarget, Workers
<1>4. /\ work[r].n \in 1 .. Len(job[r].plan) /\ Given(r).type # "refused"
      /\ work[r].n \notin landed[r] /\ work[r].n # 0
      /\ pc[r] \in {"wait", "observe", "close", "leave", "end"}
      /\ pc[r] \in {"wait", "observe"} => work[r].n = job[r].n + 1
      /\ pc[r] = "observe" => outcome[r].status = "halted"
  BY <1>1, <1>2 DEF Worker, Landed
<1>5. Landed(r)'
  BY <1>1, <1>2, <1>3, <1>4 DEF Landed, Given
<1>6. Observes(r)' /\ OneLedger(r)'
  BY <1>1, <1>2, <1>3, <1>4 DEF Observes, OneLedger, Defers
<1>7. Undisturbed(r)'
  BY <1>1, <1>3, <1>4 DEF Undisturbed
<1>8. ASSUME NEW records, Vouched(r, records)
      PROVE  \A i \in DOMAIN records :
        records[i].run = r /\ records[i].status = "completed" =>
            /\ records[i].n \in landed'[r] /\ records[i].path = job[r].plan[records[i].n].path
            /\ records[i].post # Missing
            /\ ~disturbed'[r] /\ DistinctPaths(job[r].plan) =>
                  files'[records[i].path] = records[i].post
  <2> SUFFICES ASSUME NEW i \in DOMAIN records,
                      records[i].run = r /\ records[i].status = "completed",
                      ~disturbed'[r], DistinctPaths(job[r].plan)
               PROVE  files'[records[i].path] = records[i].post
    BY <1>3, <1>8 DEF Vouched
  <2>1. /\ records[i].n \in landed[r] /\ records[i].path = job[r].plan[records[i].n].path
        /\ files[records[i].path] = records[i].post
    BY <1>3, <1>8 DEF Vouched
  <2>2. records[i].n # work[r].n /\ records[i].n \in DOMAIN job[r].plan /\ work[r].n \in DOMAIN job[r].plan
    BY <1>1, <1>2, <1>4, <2>1, AtHand, Here DEF Landed
  <2>3. records[i].path # Given(r).path
    BY <2>1, <2>2 DEF DistinctPaths, Given
  <2>4. QED
    BY <1>1, <2>1, <2>3, Here
<1>9. Vouched(r, manifests[r])' /\ Vouched(r, wal)' /\ Vouched(r, job[r].pending)'
  BY SMTT(60), <1>1, <1>2, <1>8 DEF Vouched
<1>10. QED
  BY <1>5, <1>6, <1>7, <1>9 DEF Kept

\* An edit disturbs every run.
LEMMA EditIsKept == ASSUME KeptInv, NEW path \in Paths, Edit(path) PROVE \A r \in Runs : Kept(r)'
<1> TAKE r \in Runs
<1>1. /\ UNCHANGED <<manifests, wal, pc, job, work, outcome, result, landed>>
      /\ disturbed' = [s \in Runs |-> TRUE]
  BY DEF Edit, evidence
<1>2. Kept(r) /\ disturbed'[r]
  BY <1>1 DEF KeptInv
<1>3. Landed(r)' /\ Observes(r)' /\ OneLedger(r)' /\ Undisturbed(r)'
  BY <1>1, <1>2 DEF Kept, Landed, Observes, OneLedger, Undisturbed, Defers
<1>4. Vouched(r, manifests[r])' /\ Vouched(r, wal)' /\ Vouched(r, job[r].pending)'
  BY <1>1, <1>2 DEF Kept, Vouched
<1>5. QED
  BY <1>3, <1>4 DEF Kept

\* Observe: the record is of an action that landed.
LEMMA ObserveIsKept == ASSUME KeptInv, NEW r \in Runs, Observe(r) PROVE Kept(r)'
<1>1. /\ pc[r] = "observe" /\ RecordCheckpoint(r) /\ IInv
      /\ UNCHANGED <<files, wal, work, outcome, result, landed, disturbed>>
  BY DEF Observe, history, KeptInv
<1>2. /\ Worker(r) /\ Walks(r) /\ Landed(r) /\ Observes(r) /\ OneLedger(r) /\ Undisturbed(r)
      /\ Vouched(r, manifests[r]) /\ Vouched(r, wal) /\ Vouched(r, job[r].pending)
      /\ job[r].n \in Nat /\ landed[r] \subseteq Nat /\ Len(job[r].plan) \in Nat
      /\ job[r] \in Jobs /\ job \in [Runs -> Jobs] /\ manifests[r] \in Seq(CheckpointType)
      /\ manifests \in [Runs -> Seq(CheckpointType)]
  BY <1>1, AtHand, Here DEF KeptInv, Kept, Holds, Jobs
<1>3. /\ pc'[r] \in {"act", "close"}
      /\ pc'[r] = "act" => /\ RunContinues(outcome[r].status, outcome[r].reason)
                           /\ job[r].n + 1 < Len(job[r].plan)
  BY <1>1, Here DEF Observe
<1>4. PICK c \in CheckpointType : c = Checkpoint(r)
  <2>1. outcome[r] \in OutcomeType /\ Current(r) \in Actions /\ job[r].n + 1 \in Nat \ {0}
    BY <1>1, <1>2, AtHand, Here DEF Walks
  <2>2. Checkpoint(r) \in CheckpointType
    BY <2>1, ActionShape DEF Checkpoint, CheckpointType, OutcomeType
  <2>3. QED
    BY <2>2
<1>5. /\ c.run = r /\ c.n = job[r].n + 1 /\ c.path = Current(r).path
      /\ c.status = outcome[r].status /\ c.post = outcome[r].post
  BY <1>4 DEF Checkpoint
<1>6. /\ job'[r].plan = job[r].plan /\ job'[r].multi = job[r].multi /\ job'[r].mode = job[r].mode
      /\ job'[r].n = job[r].n + 1
      /\ \/ /\ Defers(r) /\ manifests'[r] = manifests[r]
            /\ job'[r].pending = Append(job[r].pending, c)
         \/ /\ ~Defers(r) /\ job'[r].pending = job[r].pending
            /\ manifests'[r] = Append(manifests[r], c)
  BY <1>1, <1>2, <1>4 DEF RecordCheckpoint, Jobs
<1>7. c.status = "completed" =>
        /\ c.n \in landed[r] /\ c.path = job[r].plan[c.n].path /\ c.post # Missing
        /\ ~disturbed[r] => files[c.path] = c.post
  BY <1>1, <1>2, <1>5 DEF Observes, Undisturbed, Current
<1>8. /\ \A i \in DOMAIN manifests'[r] :
           (\E k \in DOMAIN manifests[r] : manifests'[r][i] = manifests[r][k]) \/ manifests'[r][i] = c
      /\ \A i \in DOMAIN job'[r].pending :
           (\E k \in DOMAIN job[r].pending : job'[r].pending[i] = job[r].pending[k])
             \/ job'[r].pending[i] = c
  <2>1. job[r].pending \in Seq(CheckpointType)
    BY <1>2 DEF Jobs
  <2>2. \A s \in Seq(CheckpointType) : \A i \in DOMAIN Append(s, c) :
          (\E k \in DOMAIN s : Append(s, c)[i] = s[k]) \/ Append(s, c)[i] = c
    BY AppendProperties
  <2>3. CASE manifests'[r] = manifests[r] /\ job'[r].pending = Append(job[r].pending, c)
    BY <2>1, <2>2, <2>3
  <2>4. CASE job'[r].pending = job[r].pending /\ manifests'[r] = Append(manifests[r], c)
    BY <1>2, <2>2, <2>4
  <2>5. QED
    BY <1>6, <2>3, <2>4
<1>9. Landed(r)'
  <2>1. pc'[r] = "act" => outcome[r].status \notin {"halted", "denied"}
    BY <1>1, <1>2, <1>3 DEF Walks
  <2>2. \A n \in landed[r] : n <= job[r].n + 1
    BY <1>1, <1>2 DEF Landed
  <2>3. QED
    BY <1>1, <1>2, <1>3, <1>6, <2>2 DEF Landed
<1>10. Observes(r)'
  BY <1>1, <1>2, <1>3, <1>6 DEF Observes
<1>11. OneLedger(r)'
  BY <1>1, <1>2, <1>6 DEF OneLedger, Defers
<1>12. Undisturbed(r)'
  BY <1>1, <1>2, <1>3, <1>6 DEF Undisturbed, Given
<1>13. Vouched(r, manifests[r])' /\ Vouched(r, wal)' /\ Vouched(r, job[r].pending)'
  <2>1. Vouched(r, wal)'
    BY <1>1, <1>2, <1>6 DEF Vouched
  <2>2. ASSUME NEW i \in DOMAIN manifests'[r],
               manifests'[r][i].run = r /\ manifests'[r][i].status = "completed"
        PROVE  /\ manifests'[r][i].n \in landed[r]
               /\ manifests'[r][i].path = job[r].plan[manifests'[r][i].n].path
               /\ manifests'[r][i].post # Missing
               /\ ~disturbed[r] /\ DistinctPaths(job[r].plan) =>
                     files[manifests'[r][i].path] = manifests'[r][i].post
    <3>1. CASE \E k \in DOMAIN manifests[r] : manifests'[r][i] = manifests[r][k]
      <4>1. PICK k \in DOMAIN manifests[r] : manifests'[r][i] = manifests[r][k]
        BY <3>1
      <4>2. QED
        BY <1>2, <2>2, <4>1 DEF Vouched
    <3>2. CASE manifests'[r][i] = c
      BY <1>7, <2>2, <3>2
    <3>3. QED
      BY <1>8, <3>1, <3>2
  <2>3. Vouched(r, manifests[r])'
    BY <1>1, <1>6, <2>2 DEF Vouched
  <2>4. ASSUME NEW i \in DOMAIN job'[r].pending,
               job'[r].pending[i].run = r /\ job'[r].pending[i].status = "completed"
        PROVE  /\ job'[r].pending[i].n \in landed[r]
               /\ job'[r].pending[i].path = job[r].plan[job'[r].pending[i].n].path
               /\ job'[r].pending[i].post # Missing
               /\ ~disturbed[r] /\ DistinctPaths(job[r].plan) =>
                     files[job'[r].pending[i].path] = job'[r].pending[i].post
    <3>1. CASE \E k \in DOMAIN job[r].pending : job'[r].pending[i] = job[r].pending[k]
      <4>1. PICK k \in DOMAIN job[r].pending : job'[r].pending[i] = job[r].pending[k]
        BY <3>1
      <4>2. QED
        BY <1>2, <2>4, <4>1 DEF Vouched
    <3>2. CASE job'[r].pending[i] = c
      BY SMTT(60), <1>7, <2>4, <3>2
    <3>3. QED
      BY <1>8, <3>1, <3>2
  <2>5. Vouched(r, job[r].pending)'
    BY <1>1, <1>6, <2>4 DEF Vouched
  <2>6. QED
    BY <2>1, <2>3, <2>5
<1>14. QED
  BY <1>9, <1>10, <1>11, <1>12, <1>13 DEF Kept

\* Finish: what was pending is on record, in one of the two places.
LEMMA FinishIsKept == ASSUME KeptInv, NEW r \in Runs, Finish(r) PROVE Kept(r)'
<1>1. /\ pc[r] = "close" /\ IInv /\ job' = [job EXCEPT ![r].pending = <<>>]
      /\ UNCHANGED <<files, work, landed, disturbed>>
  BY DEF Finish, history, KeptInv
<1>2. /\ Worker(r) /\ Walks(r) /\ Landed(r) /\ Observes(r) /\ OneLedger(r) /\ Undisturbed(r)
      /\ Vouched(r, manifests[r]) /\ Vouched(r, wal) /\ Vouched(r, job[r].pending)
      /\ job[r].pending \in Seq(CheckpointType) /\ wal \in Seq(CheckpointType)
      /\ manifests[r] \in Seq(CheckpointType) /\ job \in [Runs -> Jobs]
      /\ \A i \in DOMAIN job[r].pending : job[r].pending[i].run = r
      /\ DOMAIN <<>> = {}
  BY <1>1, Here DEF KeptInv, Kept, Holds, Records, Jobs
<1>3. pc'[r] = "end" /\ job'[r].plan = job[r].plan /\ job'[r].pending = <<>>
  BY <1>1, <1>2, Here DEF Finish, Jobs
<1>4. \/ /\ Defers(r) /\ wal' = wal \o job[r].pending /\ manifests'[r] = manifests[r]
      \/ wal' = wal /\ manifests'[r] = manifests[r] \o job[r].pending
  BY Here, <1>1 DEF Finish
<1>5. job[r].plan # <<>>
  BY <1>1, <1>2 DEF Walks
<1>6. Landed(r)' /\ Observes(r)' /\ Undisturbed(r)'
  BY <1>1, <1>2, <1>3, <1>5 DEF Landed, Observes, Undisturbed, Given
<1>7. OneLedger(r)'
  BY <1>1, <1>2, <1>3, <1>4 DEF OneLedger
<1>8. /\ IsJoined(wal \o job[r].pending, wal, job[r].pending)
      /\ IsJoined(manifests[r] \o job[r].pending, manifests[r], job[r].pending)
  BY <1>2, Joined
<1>9. /\ \A i \in DOMAIN wal' : (\E k \in DOMAIN wal : wal'[i] = wal[k])
                                \/ (\E k \in DOMAIN job[r].pending : wal'[i] = job[r].pending[k])
      /\ \A i \in DOMAIN manifests'[r] :
           (\E k \in DOMAIN manifests[r] : manifests'[r][i] = manifests[r][k])
           \/ (\E k \in DOMAIN job[r].pending : manifests'[r][i] = job[r].pending[k])
  <2>1. CASE wal' = wal \o job[r].pending /\ manifests'[r] = manifests[r]
    BY <1>8, <2>1 DEF IsJoined
  <2>2. CASE wal' = wal /\ manifests'[r] = manifests[r] \o job[r].pending
    <3>1. IsJoined(manifests'[r], manifests[r], job[r].pending)
      BY <1>8, <2>2
    <3>2. QED
      BY <2>2, <3>1 DEF IsJoined
  <2>3. QED
    BY <1>4, <2>1, <2>2
<1>10. Vouched(r, manifests[r])' /\ Vouched(r, wal)' /\ Vouched(r, job[r].pending)'
  <2>1. Vouched(r, manifests[r])'
    BY SMTT(60), <1>1, <1>2, <1>3, <1>9 DEF Vouched
  <2>2. Vouched(r, wal)'
    BY <1>1, <1>2, <1>3, <1>9 DEF Vouched
  <2>3. Vouched(r, job[r].pending)'
    BY <1>2, <1>3 DEF Vouched
  <2>4. QED
    BY <2>1, <2>2, <2>3
<1>11. QED
  BY <1>6, <1>7, <1>10 DEF Kept

\* A breached budget adds the record of a halt.
LEMMA HaltIsKept ==
  ASSUME KeptInv, NEW r \in Runs, OverBudget(r) \/ BudgetBreach(r)
  PROVE  Kept(r)'
<1>1. /\ pc[r] \in {"over", "observe"} /\ IInv /\ HaltOnBudget(r)
      /\ job' = [job EXCEPT ![r].pending = <<>>]
      /\ UNCHANGED <<files, wal, work, landed, disturbed>>
  BY DEF OverBudget, BudgetBreach, HaltOnBudget, history, KeptInv
<1>2. /\ Worker(r) /\ Walks(r) /\ Landed(r) /\ Observes(r) /\ OneLedger(r) /\ Undisturbed(r)
      /\ Vouched(r, manifests[r]) /\ Vouched(r, wal)
      /\ manifests[r] \in Seq(CheckpointType) /\ job \in [Runs -> Jobs] /\ job[r].n \in Nat
      /\ manifests \in [Runs -> Seq(CheckpointType)]
      /\ DOMAIN <<>> = {} /\ manifests[r] \o <<>> = manifests[r]
  BY <1>1, Here DEF KeptInv, Kept, Holds, Jobs
<1>3. job[r].pending = <<>>
  BY <1>1, <1>2 DEF Walks
<1>4. pc'[r] = "leave" /\ job'[r].plan = job[r].plan /\ job'[r].pending = <<>>
  BY <1>1, <1>2, Here DEF HaltOnBudget, Jobs
<1>5. PICK c \in CheckpointType :
         c.status = "halted" /\ manifests'[r] = Append(manifests[r], c)
  <2> DEFINE c == [run |-> r, n |-> job[r].n + 1, type |-> "refused", path |-> Current(r).path,
                   status |-> "halted", pre |-> Missing, post |-> Missing]
  <2>1. Current(r) \in Actions /\ job[r].n + 1 \in Nat \ {0}
    BY SMTT(60), <1>1, <1>2, AtHand, Here DEF Walks
  <2>2. c \in CheckpointType
    BY <2>1, ActionShape DEF CheckpointType, Statuses, File
  <2>3. manifests' = [manifests EXCEPT ![r] = Append(manifests[r] \o job[r].pending, c)]
    BY <1>1 DEF HaltOnBudget
  <2> HIDE DEF c
  <2>4. manifests'[r] = Append(manifests[r], c)
    BY <1>2, <1>3, <2>3
  <2>5. QED
    BY <2>2, <2>4 DEF c
<1>6. Landed(r)' /\ Observes(r)' /\ Undisturbed(r)'
  BY <1>1, <1>2, <1>4 DEF Landed, Observes, Undisturbed, Given
<1>7. OneLedger(r)'
  BY <1>1, <1>2, <1>4 DEF OneLedger
<1>8. \A i \in DOMAIN manifests'[r] :
        (\E k \in DOMAIN manifests[r] : manifests'[r][i] = manifests[r][k])
        \/ manifests'[r][i].status = "halted"
  <2>1. \A i \in DOMAIN Append(manifests[r], c) :
          (\E k \in DOMAIN manifests[r] : Append(manifests[r], c)[i] = manifests[r][k])
          \/ Append(manifests[r], c)[i] = c
    BY <1>2, AppendProperties
  <2>2. QED
    BY <1>5, <2>1
<1>9. Vouched(r, manifests[r])' /\ Vouched(r, wal)' /\ Vouched(r, job[r].pending)'
  <2>1. ASSUME NEW i \in DOMAIN manifests'[r],
               manifests'[r][i].run = r /\ manifests'[r][i].status = "completed"
        PROVE  /\ manifests'[r][i].n \in landed[r]
               /\ manifests'[r][i].path = job[r].plan[manifests'[r][i].n].path
               /\ manifests'[r][i].post # Missing
               /\ ~disturbed[r] /\ DistinctPaths(job[r].plan) =>
                     files[manifests'[r][i].path] = manifests'[r][i].post
    <3>1. PICK k \in DOMAIN manifests[r] : manifests'[r][i] = manifests[r][k]
      BY <1>8, <2>1
    <3>2. QED
      BY <1>2, <2>1, <3>1 DEF Vouched
  <2>2. Vouched(r, manifests[r])'
    BY <1>1, <1>4, <2>1 DEF Vouched
  <2>3. Vouched(r, wal)'
    BY <1>1, <1>2, <1>4 DEF Vouched
  <2>4. Vouched(r, job[r].pending)'
    BY <1>2, <1>4 DEF Vouched
  <2>5. QED
    BY <2>2, <2>3, <2>4
<1>10. QED
  BY <1>6, <1>7, <1>9 DEF Kept

\* Every step keeps what the runs know of their files.
LEMMA KeptNext == KeptInv /\ [Next]_vars => KeptInv'
<1> SUFFICES ASSUME KeptInv, [Next]_vars PROVE KeptInv'
  OBVIOUS
<1>1. IInv /\ IInv'
  BY NextKeeps DEF KeptInv
<1>2. ASSUME NEW r \in Runs,
             Begin(r) \/ classify_task_resume(r) \/ Step(r) \/ Work(r) \/ BudgetBreach(r) \/ Crash(r)
      PROVE  \A q \in Runs : Kept(q)'
  <2>1. Alone(r)
    BY <1>1, <1>2, StartsAreAside, StepsAreAside, WorkIsAside DEF Step, Dispatch, Aside
  <2>2. Kept(r)'
    <3>1. CASE Begin(r) \/ classify_task_resume(r) \/ BeginAdmitted(r)
      BY <3>1, StartsAreKept
    <3>2. CASE Refuse(r) \/ Skip(r) \/ Timeout(r)
      BY <3>2, OutcomesAreKept
    <3>3. CASE Submit(r)
      BY <3>3, SubmitIsKept
    <3>4. CASE Collect(r)
      BY <3>4, CollectIsKept
    <3>5. CASE Observe(r)
      BY <3>5, ObserveIsKept
    <3>6. CASE Finish(r)
      BY <3>6, FinishIsKept
    <3>7. CASE OverBudget(r) \/ BudgetBreach(r)
      BY <3>7, HaltIsKept
    <3>8. CASE Leave(r) \/ Crash(r)
      BY <3>8, LeaveAndCrashAreKept
    <3>9. CASE Work(r)
      BY <3>9, ReadingIsKept, ReplacingIsKept DEF Work
    <3>10. QED
      BY <1>2, <3>1, <3>2, <3>3, <3>4, <3>5, <3>6, <3>7, <3>8, <3>9 DEF Step, Dispatch
  <2>3. QED
    BY <2>1, <2>2, OthersAreKept
<1>3. CASE UNCHANGED vars
  <2>1. UNCHANGED <<files, manifests, wal, pc, job, work, outcome, result, landed, disturbed>>
    BY <1>3 DEF vars, evidence, history
  <2>2. ASSUME NEW r \in Runs PROVE Kept(r)'
    <3>1. Kept(r)
      BY DEF KeptInv
    <3>2. Landed(r)' /\ Observes(r)' /\ OneLedger(r)'
      BY <2>1, <3>1 DEF Kept, Landed, Observes, OneLedger, Defers
    <3>3. Undisturbed(r)'
      BY <2>1, <3>1 DEF Kept, Undisturbed, Given, Current
    <3>4. Vouched(r, manifests[r])' /\ Vouched(r, wal)' /\ Vouched(r, job[r].pending)'
      BY <2>1, <3>1 DEF Kept, Vouched
    <3>5. QED
      BY <3>2, <3>3, <3>4 DEF Kept
  <2>3. QED
    BY <1>1, <2>2 DEF KeptInv
<1>4. QED
  BY <1>1, <1>2, <1>3, EditIsKept DEF Next, KeptInv

\* At the start no run knows anything.
LEMMA KeptInit == Init => KeptInv
<1> SUFFICES ASSUME Init, NEW r \in Runs PROVE Kept(r)
  BY InitHolds DEF KeptInv
<1>1. /\ pc[r] = "idle" /\ work[r].at = "none" /\ landed[r] = {} /\ manifests[r] = <<>>
      /\ wal = <<>> /\ job[r].pending = <<>> /\ DOMAIN <<>> = {}
  BY DEF Init, Idle, NoWork
<1>2. Landed(r) /\ Observes(r) /\ OneLedger(r) /\ Undisturbed(r)
  BY <1>1 DEF Landed, Observes, OneLedger, Undisturbed
<1>3. Vouched(r, manifests[r]) /\ Vouched(r, wal) /\ Vouched(r, job[r].pending)
  BY <1>1 DEF Vouched
<1>4. QED
  BY <1>2, <1>3 DEF Kept

-----------------------------------------------------------------------------
(* A run on the course of its plan *)

\* A run that was asked for, and nobody else writing; one that resumes another does
\* so as SuccessIsApplied says.
Followed(r) ==
    /\ pc[r] \notin {"idle", "admitted"} /\ job[r].plan # <<>> /\ ~disturbed[r]
    /\ \/ job[r].source = None
       \/ pc[r] # "dead" /\ Resumes(r, job[r].source) /\ DistinctPaths(job[r].plan)

\* What the run it resumes has done.
Base(r) == IF job[r].source = None THEN {} ELSE landed[job[r].source]

\* The i-th action is ready.
Asset(r, i) ==
    \E asset \in job[r].ready :
        asset.path = job[r].plan[i].path /\ asset.type = job[r].plan[i].type

Good(r) == outcome[r].status \in {"completed", "skipped"}

\* Where a run is when K actions of its plan are in the workspace.
At(r, K) ==
    LET p == pc[r] j == job[r] w == work[r] IN
    /\ w.at \in {"read", "hash", "write"} => w.n = K + 1
    /\ p \in {"act", "wait"} => j.n <= K
    /\ p = "observe" /\ Good(r) => j.n + 1 <= K
    /\ p = "close" /\ Good(r) => K = Len(j.plan)
    /\ Succeeded(r) => K = Len(j.plan)

\* The first K actions have landed, and the workspace is what they make of it.
Track(r, K) ==
    /\ Base(r) \cup landed[r] = 1 .. K
    /\ files = Course(job[r].plan, origin[r])[K]
    /\ At(r, K)

Assets(r) == \A i \in 1 .. Len(job[r].plan) : Asset(r, i) <=> i \in Base(r)

OnCourse(r) ==
    Followed(r) => Assets(r) /\ \E K \in 0 .. Len(job[r].plan) : Track(r, K)

\* A run that was not asked for has no plan; a resume that began from a run that
\* was over has a run that is over behind it.
Closed(r) ==
    /\ pc[r] = "idle" => job[r].plan = <<>> /\ job[r].source = None
    /\ pc[r] = "admitted" => job[r].source # None
    /\ pc[r] \notin {"idle", "admitted", "dead"} /\ job[r].source # None /\ job[r].clean =>
          pc[job[r].source] \in {"end", "dead"}

CourseInv == KeptInv /\ \A r \in Runs : Closed(r) /\ OnCourse(r)

\* A step that does not begin q and replaces no file of it.
LEMMA CourseStays ==
  ASSUME KeptInv, NEW r \in Runs, Aside(r), NEW q \in Runs, Closed(q), OnCourse(q),
         job'[q].plan = job[q].plan, job'[q].source = job[q].source,
         job'[q].ready = job[q].ready, job'[q].clean = job[q].clean,
         pc[q] = "dead" => pc'[q] = "dead", pc[q] = "idle" <=> pc'[q] = "idle",
         pc[q] = "admitted" => pc'[q] \in {"admitted", "dead"}, pc'[q] = "admitted" => pc[q] = "admitted",
         origin'[q] = origin[q], landed'[q] = landed[q],
         ~disturbed'[q] => ~disturbed[q] /\ files' = files,
         \A K \in 0 .. Len(job[q].plan) : Followed(q) /\ Assets(q) /\ Track(q, K) => At(q, K)'
  PROVE  Closed(q)' /\ OnCourse(q)'
<1>1. job[q].source \in Runs \cup {None} /\ Len(job[q].plan) \in Nat
  BY Here, AtHand DEF KeptInv, Jobs
<1>2. Closed(q)'
  BY <1>1 DEF Closed, Aside
<1>3. ASSUME Followed(q)' PROVE Followed(q) /\ Base(q)' = Base(q)
  <2>1. pc[q] \notin {"idle", "admitted"} /\ job[q].plan # <<>> /\ ~disturbed[q] /\ ~disturbed'[q]
    BY <1>3, <1>1 DEF Followed, Closed
  <2>2. CASE job[q].source = None
    BY <2>1, <2>2 DEF Followed, Base
  <2>3. CASE job[q].source # None
    <3>1. PICK s \in Runs : s = job[q].source
      BY <1>1, <2>3
    <3>2. pc'[q] # "dead" /\ Resumes(q, s)' /\ DistinctPaths(job[q].plan)
      BY <1>3, <2>3, <3>1 DEF Followed
    <3>3. pc[q] # "dead" /\ job[q].clean /\ s # q
      BY <3>1, <3>2 DEF Resumes
    <3>4. pc[s] \in {"end", "dead"}
      BY <2>1, <2>3, <3>1, <3>3 DEF Closed
    <3>5. job'[s] = job[s] /\ landed'[s] = landed[s]
      BY <2>1, <3>3, <3>4 DEF Aside
    <3>6. Resumes(q, s)
      BY <2>1, <3>1, <3>2, <3>5 DEF Resumes
    <3>7. QED
      BY <2>1, <2>3, <3>1, <3>2, <3>3, <3>5, <3>6 DEF Followed, Base
  <2>4. QED
    BY <2>2, <2>3
<1>4. ASSUME Followed(q)'
      PROVE  Assets(q)' /\ \E K \in 0 .. Len(job'[q].plan) : Track(q, K)'
  <2>1. Followed(q) /\ Base(q)' = Base(q) /\ ~disturbed'[q]
    BY <1>3, <1>4 DEF Followed
  <2>2. PICK K \in 0 .. Len(job[q].plan) : Track(q, K)
    BY <2>1 DEF OnCourse
  <2>3. Assets(q) /\ At(q, K)'
    BY <1>1, <2>1, <2>2 DEF OnCourse
  <2>4. Track(q, K)'
    BY <2>1, <2>2, <2>3 DEF Track
  <2>5. Assets(q)'
    BY <2>1, <2>3 DEF Assets, Asset
  <2>6. QED
    BY <2>2, <2>4, <2>5
<1>5. QED
  BY <1>2, <1>4 DEF OnCourse

\* The other runs.
LEMMA OthersStay ==
  ASSUME CourseInv, NEW r \in Runs, Aside(r), NEW q \in Runs \ {r}
  PROVE  Closed(q)' /\ OnCourse(q)'
<1>1. /\ pc'[q] = pc[q] /\ job'[q] = job[q] /\ work'[q] = work[q]
      /\ outcome'[q] = outcome[q] /\ result'[q] = result[q] /\ landed'[q] = landed[q]
      /\ (~disturbed'[q] => ~disturbed[q]) /\ (files' = files \/ disturbed'[q])
      /\ origin'[q] = origin[q]
  BY DEF Aside, Alone
<1>2. \A K \in 0 .. Len(job[q].plan) : Track(q, K) => At(q, K)'
  BY <1>1 DEF Track, At, Good, Succeeded
<1>3. QED
  BY <1>1, <1>2, CourseStays DEF CourseInv

\* What the rule surface makes of a success: the run goes on.
LEMMA SuccessGoesOn ==
  RunContinues("completed", NoReason) /\ RunContinues("skipped", "resumed_asset_ready")
<1>1. /\ classify_outcome("completed", NoReason) = <<"qian", "qian">>
      /\ classify_outcome("skipped", "resumed_asset_ready") = <<"qian", "dui">>
  BY DEF classify_outcome, NoReason, BoundaryReasons, TimeoutReasons, SOFT_MISS_REASONS,
         ExecutorFaults, ScheduleStatus
<1>2. \A inner \in {"qian", "dui"} : TransitionAction(<<"qian", inner>>) = "cooldown"
  BY DEF TransitionAction, HardControl, OuterElement, InnerElement, TRIGRAM_ELEMENTS,
         YangOverload, yang_count, YangLines
<1>3. QED
  BY <1>1, <1>2 DEF RunContinues, Dispatches

\* A step of a run under way after which it is where it was on its course.
LEMMA OwnCourseStays ==
  ASSUME CourseInv, NEW r \in Runs, Aside(r), job'[r].plan = job[r].plan,
         job'[r].source = job[r].source, job'[r].ready = job[r].ready,
         job'[r].clean = job[r].clean,
         UNCHANGED <<files, landed, disturbed, origin>>,
         pc[r] \notin {"idle", "dead"}, pc[r] = "admitted" => pc'[r] = "dead",
         pc'[r] \notin {"idle", "admitted"},
         \A K \in 0 .. Len(job[r].plan) : Followed(r) /\ Assets(r) /\ Track(r, K) => At(r, K)'
  PROVE  Closed(r)' /\ OnCourse(r)'
<1>1. QED
  BY CourseStays DEF CourseInv

\* The gate, the wait and what comes of it.
LEMMA OutcomesStay ==
  ASSUME CourseInv, NEW r \in Runs, Refuse(r) \/ Skip(r) \/ Timeout(r) \/ Collect(r)
  PROVE  Closed(r)' /\ OnCourse(r)'
<1>1. /\ pc[r] \in {"act", "wait"} /\ IInv /\ KeptInv
      /\ UNCHANGED <<files, job, landed, disturbed, origin>>
  BY DEF Refuse, Skip, Timeout, Collect, history, CourseInv, KeptInv
<1>2. Aside(r)
  BY <1>1, StepsAreAside DEF Step, Dispatch, BeginAdmitted
<1>3. /\ Worker(r) /\ Walks(r) /\ job[r].n \in Nat /\ Len(job[r].plan) \in Nat
  BY <1>1, AtHand, Here DEF Holds
<1>4. pc'[r] = "observe"
  BY <1>1, Here DEF Refuse, Skip, Timeout, Collect, Observed
<1>5. work' = work \/ work'[r].at = "none"
  BY <1>1, Here DEF Refuse, Skip, Timeout, Collect, NoWork
<1>6. ASSUME NEW K \in 0 .. Len(job[r].plan), Followed(r), Assets(r), Track(r, K), Good(r)'
      PROVE  job[r].n + 1 <= K
  <2>1. Base(r) \cup landed[r] = 1 .. K
    BY <1>6 DEF Track
  <2>2. CASE Refuse(r)
    <3>1. job[r].n < Len(job[r].plan)
      BY <1>1, <1>3, <2>2 DEF Walks, Refuse
    <3>2. Current(r).status \in {"denied", "halted"}
      BY <2>2, <3>1, AtHand, Here, ActionShape, <1>1 DEF Refuse
    <3>3. outcome'[r].status = Current(r).status
      BY <1>1, <2>2, Here DEF Refuse, Observed
    <3>4. QED
      BY <1>6, <3>2, <3>3 DEF Good
  <2>3. CASE Skip(r)
    <3>1. job[r].n + 1 \in 1 .. Len(job[r].plan) /\ Asset(r, job[r].n + 1)
      BY SMTT(60), <1>1, <1>3, <2>3 DEF Walks, Skip, ReadyAsset, Asset, Current
    <3>2. job[r].n + 1 \in Base(r)
      BY <1>6, <3>1 DEF Assets
    <3>3. QED
      BY <2>1, <3>2
  <2>4. CASE Timeout(r)
    <3>1. outcome'[r].status = "halted"
      BY <1>1, <2>4, Here DEF Timeout, Observed
    <3>2. QED
      BY <1>6, <3>1 DEF Good
  <2>5. CASE Collect(r)
    <3>1. work[r].at = "done" \/ outcome'[r].status = "halted"
      BY <1>1, <2>5, Here DEF Collect, Observed
    <3>2. work[r].at = "done" /\ pc[r] = "wait"
      BY <1>6, <2>5, <3>1 DEF Good, Collect
    <3>3. job[r].n + 1 \in landed[r]
      BY <1>3, <3>2 DEF Worker
    <3>4. QED
      BY <2>1, <3>3
  <2>6. QED
    BY <1>1, <2>2, <2>3, <2>4, <2>5
<1>7. ASSUME NEW K \in 0 .. Len(job[r].plan), Followed(r), Assets(r), Track(r, K)
      PROVE  At(r, K)'
  BY <1>1, <1>4, <1>5, <1>6, <1>7 DEF Track, At, Succeeded
<1>8. QED
  BY <1>1, <1>2, <1>4, <1>7, OwnCourseStays

\* An action is submitted that is not in the workspace.
LEMMA SubmitStays == ASSUME CourseInv, NEW r \in Runs, Submit(r) PROVE Closed(r)' /\ OnCourse(r)'
<1>1. /\ pc[r] = "act" /\ IInv /\ KeptInv /\ ~ReadyAsset(r)
      /\ UNCHANGED <<files, job, landed, disturbed, origin>>
  BY DEF Submit, history, CourseInv, KeptInv
<1>2. Aside(r)
  BY <1>1, StepsAreAside DEF Step, Dispatch, BeginAdmitted, Submit
<1>3. /\ Landed(r) /\ Walks(r) /\ job[r].n \in Nat /\ Len(job[r].plan) \in Nat /\ landed[r] \subseteq Nat
  BY <1>1, AtHand, Here DEF Holds, KeptInv, Kept
<1>4. pc'[r] = "wait" /\ work'[r].n = job[r].n + 1
  BY <1>1, Here DEF Submit, NoWork
<1>5. ASSUME NEW K \in 0 .. Len(job[r].plan), Followed(r), Assets(r), Track(r, K)
      PROVE  At(r, K)'
  <2>1. Base(r) \cup landed[r] = 1 .. K /\ job[r].n <= K
    BY <1>1, <1>5 DEF Track, At
  <2>2. job[r].n + 1 \in 1 .. Len(job[r].plan) /\ ~Asset(r, job[r].n + 1)
    BY <1>1, <1>3 DEF Walks, ReadyAsset, Asset, Current
  <2>3. job[r].n + 1 \notin Base(r)
    BY <1>5, <2>2 DEF Assets
  <2>4. job[r].n + 1 \notin landed[r]
    BY <1>1, <1>3 DEF Landed
  <2>5. job[r].n = K
    BY <1>3, <2>1, <2>3, <2>4
  <2>6. QED
    BY <1>1, <1>4, <2>5 DEF At, Succeeded
<1>6. QED
  BY <1>1, <1>2, <1>4, <1>5, OwnCourseStays

\* The next action, or the end: after a success only when none is left.
LEMMA ObserveStays == ASSUME CourseInv, NEW r \in Runs, Observe(r) PROVE Closed(r)' /\ OnCourse(r)'
<1>1. /\ pc[r] = "observe" /\ IInv /\ KeptInv /\ RecordCheckpoint(r)
      /\ UNCHANGED <<files, work, outcome, landed, disturbed, origin>>
  BY DEF Observe, history, CourseInv, KeptInv
<1>2. Aside(r)
  BY <1>1, StepsAreAside DEF Step, Dispatch, BeginAdmitted
<1>3. /\ Walks(r) /\ Observes(r) /\ job[r].n \in Nat /\ Len(job[r].plan) \in Nat
      /\ job \in [Runs -> Jobs] /\ outcome[r].status \in Statuses
  BY <1>1, AtHand, Here DEF Holds, KeptInv, Kept, OutcomeType
<1>4. /\ job'[r].plan = job[r].plan /\ job'[r].source = job[r].source
      /\ job'[r].ready = job[r].ready /\ job'[r].clean = job[r].clean
      /\ job'[r].n = job[r].n + 1
  BY <1>1, <1>3 DEF RecordCheckpoint, Jobs
<1>5. /\ pc'[r] \in {"act", "close"}
      /\ pc'[r] = "act" <=> /\ RunContinues(outcome[r].status, outcome[r].reason)
                            /\ job[r].n + 1 < Len(job[r].plan)
  BY <1>1, Here DEF Observe
<1>6. Good(r) <=> RunContinues(outcome[r].status, outcome[r].reason)
  BY <1>1, <1>3, SuccessGoesOn DEF Good, Observes, Walks, Statuses
<1>7. ASSUME NEW K \in 0 .. Len(job[r].plan), Followed(r), Assets(r), Track(r, K)
      PROVE  At(r, K)'
  <2>1. Good(r) => job[r].n + 1 <= K
    BY <1>1, <1>7 DEF Track, At
  <2>2. job[r].n < Len(job[r].plan)
    BY <1>1, <1>3 DEF Walks
  <2>3. K <= Len(job[r].plan)
    BY <1>3
  <2>4. pc'[r] = "close" /\ Good(r) => K = Len(job[r].plan)
    BY <1>3, <1>5, <1>6, <2>1, <2>2, <2>3
  <2>5. QED
    BY <1>1, <1>4, <1>5, <1>6, <1>7, <2>1, <2>4 DEF Track, At, Good, Succeeded
<1>8. QED
  BY <1>1, <1>2, <1>4, <1>5, <1>7, OwnCourseStays

\* The end of a run.
LEMMA EndsStay ==
  ASSUME CourseInv, NEW r \in Runs,
         Finish(r) \/ OverBudget(r) \/ BudgetBreach(r) \/ Leave(r) \/ Crash(r)
  PROVE  Closed(r)' /\ OnCourse(r)'
<1>1. /\ pc[r] \notin {"idle", "dead"} /\ IInv /\ KeptInv
      /\ UNCHANGED <<files, landed, disturbed, origin>>
  BY DEF Finish, OverBudget, BudgetBreach, HaltOnBudget, Leave, Crash, history, CourseInv, KeptInv
<1>2. Walks(r) /\ job \in [Runs -> Jobs]
  BY <1>1, Here DEF Holds
<1>3. /\ job'[r].plan = job[r].plan /\ job'[r].source = job[r].source
      /\ job'[r].ready = job[r].ready /\ job'[r].clean = job[r].clean
  <2>1. CASE Finish(r)
    <3>1. job' = [job EXCEPT ![r].pending = <<>>]
      BY <2>1 DEF Finish
    <3>2. QED
      BY <1>2, <3>1 DEF Jobs
  <2>2. CASE OverBudget(r) \/ BudgetBreach(r)
    <3>1. job' = [job EXCEPT ![r].pending = <<>>]
      BY <2>2 DEF OverBudget, BudgetBreach, HaltOnBudget
    <3>2. QED
      BY <1>2, <3>1 DEF Jobs
  <2>3. CASE Leave(r) \/ Crash(r)
    <3>1. UNCHANGED job
      BY <2>3 DEF Leave, Crash
    <3>2. QED
      BY <3>1
  <2>4. QED
    BY <2>1, <2>2, <2>3
<1>4. /\ pc'[r] \in {"end", "leave", "dead"} /\ (pc[r] = "admitted" => pc'[r] = "dead")
      /\ work' = work \/ work'[r].at = "none"
  <2>1. CASE Finish(r)
    BY <1>1, <2>1, Here DEF Finish
  <2>2. CASE OverBudget(r) \/ BudgetBreach(r)
    BY <1>1, <2>2, Here DEF OverBudget, BudgetBreach, HaltOnBudget
  <2>3. CASE Leave(r)
    BY <1>1, <2>3, Here DEF Leave
  <2>4. CASE Crash(r)
    BY <1>1, <2>4, Here DEF Crash, NoWork
  <2>5. QED
    BY <1>1, <2>1, <2>2, <2>3, <2>4
<1>5. Aside(r)
  <2>1. ~BeginAdmitted(r)
    BY <1>1, <1>4, Here DEF BeginAdmitted, Starts
  <2>2. QED
    BY <1>1, <2>1, StepsAreAside DEF Step, Dispatch
<1>6. Succeeded(r)' => Succeeded(r) \/ (pc[r] = "close" /\ Good(r))
  <2>1. CASE Finish(r)
    BY <1>1, <2>1, Here DEF Finish, Succeeded, FinalStatus, Good
  <2>2. CASE OverBudget(r) \/ BudgetBreach(r)
    BY <1>1, <2>2, Here DEF OverBudget, BudgetBreach, HaltOnBudget, Succeeded
  <2>3. CASE Leave(r)
    BY <1>1, <1>2, <2>3, Here DEF Leave, Walks, Succeeded
  <2>4. CASE Crash(r)
    BY <1>1, <2>4, Here DEF Crash, Succeeded
  <2>5. QED
    BY <1>1, <2>1, <2>2, <2>3, <2>4
<1>7. ASSUME NEW K \in 0 .. Len(job[r].plan), Followed(r), Assets(r), Track(r, K)
      PROVE  At(r, K)'
  BY <1>3, <1>4, <1>6, <1>7 DEF Track, At
<1>8. QED
  BY <1>1, <1>5, <1>3, <1>4, <1>7, OwnCourseStays

\* A worker that replaces nothing.
LEMMA ReadingStays ==
  ASSUME CourseInv, NEW r \in Runs, ReadTarget(r) \/ HashTarget(r) \/ RehashTarget(r) \/ WorkFails(r)
  PROVE  Closed(r)' /\ OnCourse(r)'
<1>1. /\ IInv /\ KeptInv /\ work[r].at \in {"read", "hash", "write", "rehash"}
      /\ UNCHANGED <<files, pc, job, outcome, result, landed, disturbed, origin>>
  BY DEF ReadTarget, HashTarget, RehashTarget, WorkFails, Works, CourseInv, KeptInv
<1>2. Aside(r)
  BY <1>1, WorkIsAside DEF Work
<1>3. Worker(r) /\ work \in [Runs -> Workers] /\ work[r] \in Workers
  BY <1>1, Here DEF Holds
<1>4. /\ work'[r].n = work[r].n
      /\ work'[r].at \in {"read", "hash", "write"} => work[r].at \in {"read", "hash", "write"}
  <2>1. CASE ReadTarget(r)
    <3>1. /\ work[r].at = "read"
          /\ work' = [work EXCEPT ![r] =
               IF PatchRejection(files[Given(r).path], Given(r)) # NoReason
               THEN [work[r] EXCEPT !.at = "rejected"]
               ELSE [work[r] EXCEPT !.at = "hash", !.text = Patched(files[Given(r).path], Given(r))]]
      BY <2>1 DEF ReadTarget, Works
    <3>2. QED
      BY <1>3, <3>1 DEF Workers
  <2>2. CASE HashTarget(r)
    BY <1>3, <2>2 DEF HashTarget, Works, Workers
  <2>3. CASE RehashTarget(r)
    BY <1>3, <2>3 DEF RehashTarget, Works, Workers
  <2>4. CASE WorkFails(r)
    BY <1>3, <2>4 DEF WorkFails, Works, Workers
  <2>5. QED
    BY <2>1, <2>2, <2>3, <2>4
<1>5. pc[r] \notin {"idle", "admitted", "dead"}
  BY <1>1, <1>3 DEF Worker
<1>6. ASSUME NEW K \in 0 .. Len(job[r].plan), Followed(r), Assets(r), Track(r, K)
      PROVE  At(r, K)'
  BY <1>1, <1>4, <1>6 DEF Track, At, Good, Succeeded
<1>7. QED
  BY <1>1, <1>2, <1>5, <1>6, OwnCourseStays

\* A file is replaced: the run is one action further on its course.
LEMMA ReplacingStays ==
  ASSUME CourseInv, NEW r \in Runs, ReplaceTarget(r)
  PROVE  Closed(r)' /\ OnCourse(r)'
<1>1. /\ IInv /\ KeptInv /\ work[r].at = "write"
      /\ UNCHANGED <<pc, job, outcome, result, origin>>
      /\ files' = [files EXCEPT ![Given(r).path] = work[r].text]
  BY DEF ReplaceTarget, Works, CourseInv, KeptInv
<1>2. /\ Worker(r) /\ Undisturbed(r) /\ job[r].n \in Nat /\ Len(job[r].plan) \in Nat
      /\ job[r].plan \in Seq(Actions) /\ files \in [Paths -> File] /\ None \notin [Paths -> File]
      /\ job[r].source \in Runs \cup {None} /\ Closed(r) /\ OnCourse(r)
  BY <1>1, AtHand, Here, ContentsAssumption DEF Holds, KeptInv, Kept, Jobs, File, CourseInv
<1>3. /\ work'[r].at = "rehash" /\ landed'[r] = landed[r] \cup {work[r].n}
      /\ disturbed'[r] = disturbed[r] /\ \A q \in Runs \ {r} : landed'[q] = landed[q]
  BY Here, <1>1 DEF ReplaceTarget, Workers
<1>4. /\ work[r].n \in 1 .. Len(job[r].plan)
      /\ pc[r] \in {"wait", "observe", "close", "leave", "end"}
      /\ pc[r] = "wait" => work[r].n = job[r].n + 1
      /\ pc[r] \in {"observe", "close"} => outcome[r].status = "halted"
      /\ pc[r] = "end" => result[r] = "halted"
  BY <1>1, <1>2 DEF Worker
<1>5. Closed(r)'
  BY <1>1, <1>2 DEF Closed
<1>6. ASSUME Followed(r)'
      PROVE  Assets(r)' /\ \E K \in 0 .. Len(job'[r].plan) : Track(r, K)'
  <2>1. Followed(r) /\ Base(r)' = Base(r) /\ ~disturbed[r]
    BY <1>1, <1>2, <1>3, <1>6 DEF Followed, Resumes, Base
  <2>2. PICK K \in 0 .. Len(job[r].plan) : Track(r, K)
    BY <1>2, <2>1 DEF OnCourse
  <2>3. /\ work[r].n = K + 1 /\ Base(r) \cup landed[r] = 1 .. K
        /\ files = Course(job[r].plan, origin[r])[K]
    BY <1>1, <2>2 DEF Track, At
  <2>4. Base(r)' \cup landed'[r] = 1 .. K + 1
    BY <1>3, <2>1, <2>3
  <2>5. files' = Course(job[r].plan, origin[r])[K + 1]
    <3>1. files' = Apply(Given(r), files)
      BY <1>1, <1>2, <2>1 DEF Undisturbed
    <3>2. K + 1 \in 1 .. Len(job[r].plan) /\ (K + 1) - 1 = K
      BY <1>4, <2>3
    <3>3. Course(job[r].plan, origin[r])[K + 1] = Apply(job[r].plan[K + 1], files)
      BY <1>2, <2>3, <3>2, CourseSteps
    <3>4. QED
      BY <2>3, <3>1, <3>3 DEF Given
  <2>6. At(r, K + 1)'
    BY <1>1, <1>2, <1>3, <1>4, <2>3 DEF At, Good, Succeeded
  <2>7. Track(r, K + 1)'
    BY <1>1, <2>4, <2>5, <2>6 DEF Track
  <2>8. Assets(r)'
    BY <1>1, <1>2, <2>1 DEF OnCourse, Assets, Asset
  <2>9. QED
    BY <1>1, <1>2, <1>4, <2>3, <2>7, <2>8
<1>7. QED
  BY <1>5, <1>6 DEF OnCourse

\* Of a run that is over, with all it wrote on record and nobody else writing, the
\* assets that are ready are those of the actions that landed.
LEMMA ReadyIsLanded ==
  ASSUME KeptInv, NEW s \in Runs, Settled(s), DistinctPaths(job[s].plan),
         NEW i \in 1 .. Len(job[s].plan)
  PROVE  (\E asset \in load_resume_state(s) :
             asset.path = job[s].plan[i].path /\ asset.type = job[s].plan[i].type)
         <=> i \in landed[s]
<1> DEFINE records == IF manifests[s] # <<>> THEN manifests[s] ELSE wal
           Ready(k) == /\ records[k].run = s /\ records[k].type # "refused"
                       /\ checkpoint_to_ready_asset(records[k])
           Last(k) == \A j \in DOMAIN records :
                         j > k /\ Ready(j) => records[j].path # records[k].path
<1>1. /\ IInv /\ Holds(s) /\ Kept(s) /\ ~disturbed[s] /\ landed[s] \subseteq Recorded(s)
      /\ DOMAIN job[s].plan = 1 .. Len(job[s].plan)
      /\ manifests[s] \in Seq(CheckpointType) /\ wal \in Seq(CheckpointType)
  BY Here, AtHand DEF KeptInv, Settled
<1>2. load_resume_state(s) =
        {[path |-> records[k].path, type |-> records[k].type] :
           k \in {k \in DOMAIN records : Ready(k) /\ Last(k)}}
  BY DEF load_resume_state
<1>3. records \in Seq(CheckpointType) /\ Vouched(s, records) /\ Faithful(s, records)
  BY <1>1 DEF Holds, Records, Kept
<1>4. \A n \in landed[s] :
         \E k \in DOMAIN records : /\ records[k].run = s /\ records[k].n = n
                                   /\ records[k].status = "completed"
  <2> SUFFICES ASSUME NEW n \in landed[s]
               PROVE  \E k \in DOMAIN records : /\ records[k].run = s /\ records[k].n = n
                                                /\ records[k].status = "completed"
    OBVIOUS
  <2>1. PICK c \in {manifests[s][k] : k \in DOMAIN manifests[s]}
                     \cup {wal[k] : k \in DOMAIN wal} :
          c.run = s /\ c.status = "completed" /\ c.n = n
    BY <1>1 DEF Recorded
  <2>2. CASE c \in {manifests[s][k] : k \in DOMAIN manifests[s]}
    <3>1. manifests[s] # <<>>
      BY <2>2
    <3>2. QED
      BY <2>1, <2>2, <3>1
  <2>3. CASE c \in {wal[k] : k \in DOMAIN wal}
    <3>1. manifests[s] = <<>>
      BY <1>1, <2>1, <2>3 DEF Kept, OneLedger
    <3>2. QED
      BY <2>1, <2>3, <3>1
  <2>4. QED
    BY <2>1, <2>2, <2>3
<1> HIDE DEF records
<1>5. ASSUME NEW k \in DOMAIN records, records[k].run = s, records[k].status = "completed",
             records[k].path = job[s].plan[i].path
      PROVE  records[k].n = i /\ i \in landed[s]
  <2>1. records[k].n \in landed[s] /\ records[k].path = job[s].plan[records[k].n].path
    BY <1>3, <1>5 DEF Vouched
  <2>2. records[k].n \in DOMAIN job[s].plan
    BY <1>1, <2>1 DEF Kept, Landed
  <2>3. QED
    BY <1>1, <1>5, <2>1, <2>2 DEF DistinctPaths
<1>6. ASSUME NEW asset \in load_resume_state(s), asset.path = job[s].plan[i].path
      PROVE  i \in landed[s]
  <2>1. PICK k \in DOMAIN records :
          Ready(k) /\ asset = [path |-> records[k].path, type |-> records[k].type]
    BY <1>2, <1>6
  <2>2. QED
    BY <1>5, <1>6, <2>1 DEF checkpoint_to_ready_asset
<1>7. ASSUME i \in landed[s]
      PROVE  \E asset \in load_resume_state(s) :
                asset.path = job[s].plan[i].path /\ asset.type = job[s].plan[i].type
  <2> DEFINE T == {k \in DOMAIN records : Ready(k) /\ records[k].path = job[s].plan[i].path}
  <2>1. \E k \in DOMAIN records : k \in T
    <3>1. PICK k \in DOMAIN records : /\ records[k].run = s /\ records[k].n = i
                                      /\ records[k].status = "completed"
      BY <1>4, <1>7
    <3>2. /\ records[k].path = job[s].plan[i].path
          /\ records[k].post # Missing /\ files[records[k].path] = records[k].post
      BY <1>1, <1>3, <3>1 DEF Vouched
    <3>3. records[k].type # "refused"
      BY <1>1, <1>3, <1>7, <3>1 DEF Faithful, Kept, Landed
    <3>4. QED
      BY <3>1, <3>2, <3>3 DEF checkpoint_to_ready_asset
  <2>2. Len(records) \in Nat /\ DOMAIN records = 1 .. Len(records)
    BY <1>3
  <2>3. PICK m \in T : \A k \in T : k <= m
    <3>1. T \in SUBSET (1 .. Len(records)) /\ T # {}
      BY <2>1, <2>2
    <3> HIDE DEF T
    <3>2. QED
      BY <2>2, <3>1, Greatest
  <2>4. m \in DOMAIN records /\ Ready(m) /\ records[m].path = job[s].plan[i].path
    BY <2>3
  <2>5. Last(m)
    <3> SUFFICES ASSUME NEW j \in DOMAIN records, j > m, Ready(j), records[j].path = records[m].path
                 PROVE  FALSE
      OBVIOUS
    <3>1. j \in T
      BY <2>4
    <3>2. j <= m
      BY <2>3, <3>1
    <3>3. QED
      BY <2>2, <2>4, <3>2
  <2>6. records[m].type = job[s].plan[i].type
    BY <1>3, <1>5, <2>4 DEF Faithful, checkpoint_to_ready_asset
  <2>7. [path |-> records[m].path, type |-> records[m].type] \in load_resume_state(s)
    BY <1>2, <2>4, <2>5
  <2>8. QED
    BY <2>4, <2>6, <2>7
<1>8. QED
  BY <1>6, <1>7

\* A run that begins: on the course of its plan at its start, or where the run it
\* resumes has left it.
LEMMA StartedStays ==
  ASSUME CourseInv, NEW r \in Runs, pc[r] \in {"idle", "admitted"},
         NEW plan \in Plans, NEW multi, NEW mode, NEW source \in Runs \cup {None},
         Starts(r, plan, multi, mode, source),
         UNCHANGED <<files, work, landed>>,
         \A q \in Runs \ {r} : disturbed'[q] = disturbed[q]
  PROVE  Closed(r)' /\ OnCourse(r)'
<1>1. /\ IInv /\ KeptInv /\ \A q \in Runs : OnCourse(q)
      /\ job \in [Runs -> Jobs] /\ pc \in [Runs -> Stages]
  BY Here DEF CourseInv, KeptInv
<1>2. /\ work'[r].at = "none" /\ landed[r] = {} /\ landed'[r] = {}
  BY <1>1 DEF IInv, Holds, Fresh
<1>3. /\ job'[r].plan = plan /\ job'[r].source = source /\ job'[r].n = 0
      /\ job'[r].ready = IF source = None THEN {} ELSE load_resume_state(source)
      /\ job'[r].clean = (source # None /\ Settled(source))
      /\ \A q \in Runs \ {r} : job'[q] = job[q]
      /\ origin'[r] = IF source = None THEN files ELSE origin[source]
      /\ pc'[r] \in {"over", "act"} /\ \A q \in Runs \ {r} : pc'[q] = pc[q]
  BY <1>1, Here DEF Starts, Idle
<1>4. plan \in Seq(Actions) /\ Len(plan) \in Nat /\ DOMAIN plan = 1 .. Len(plan)
  BY PlanShape
<1>5. source # None /\ job'[r].clean => source \in Runs \ {r} /\ pc[source] \in {"end", "dead"}
  BY <1>3 DEF Settled
<1>6. Closed(r)'
  BY <1>3, <1>5 DEF Closed
<1>7. \A K \in Nat : At(r, K)'
  BY <1>2, <1>3 DEF At, Succeeded
<1>8. ASSUME source = None
      PROVE  Assets(r)' /\ \E K \in 0 .. Len(job'[r].plan) : Track(r, K)'
  <2>1. Base(r)' = {} /\ Assets(r)'
    BY <1>3, <1>8 DEF Base, Assets, Asset
  <2>2. Track(r, 0)'
    <3>1. files' = Course(plan, files)[0]
      BY <1>4, CourseSteps
    <3>2. QED
      BY <1>2, <1>3, <1>7, <1>8, <2>1, <3>1 DEF Track
  <2>3. QED
    BY <1>3, <1>4, <2>1, <2>2
<1>9. ASSUME source \in Runs, source # None, Followed(r)'
      PROVE  Assets(r)' /\ \E K \in 0 .. Len(job'[r].plan) : Track(r, K)'
  <2>1. Resumes(r, source)' /\ DistinctPaths(plan) /\ plan # <<>>
    BY <1>3, <1>9 DEF Followed
  <2>2. source \in Runs \ {r} /\ Settled(source)
    BY <1>3, <1>5, <1>9, <2>1 DEF Resumes
  <2>3. plan = job[source].plan /\ job[source].source = None
    BY <1>3, <2>1, <2>2 DEF Resumes
  <2>4. Followed(source) /\ Base(source) = {}
    BY <2>1, <2>2, <2>3 DEF Followed, Settled, Base
  <2>5. PICK K \in 0 .. Len(plan) : Track(source, K)
    BY <1>1, <2>2, <2>3, <2>4 DEF OnCourse
  <2>6. landed[source] = 1 .. K /\ files = Course(plan, origin[source])[K]
    BY <2>3, <2>4, <2>5 DEF Track
  <2>7. Base(r)' = landed[source]
    BY <1>3, <1>9 DEF Base
  <2>8. Track(r, K)'
    BY <1>2, <1>3, <1>4, <1>7, <1>9, <2>6, <2>7 DEF Track
  <2>9. Assets(r)'
    <3>1. \A i \in 1 .. Len(plan) :
            (\E asset \in load_resume_state(source) :
               asset.path = plan[i].path /\ asset.type = plan[i].type) <=> i \in landed[source]
      BY <1>1, <2>1, <2>2, <2>3, ReadyIsLanded
    <3>2. QED
      BY <1>3, <1>9, <2>7, <3>1 DEF Assets, Asset
  <2>10. QED
    BY <1>3, <2>8, <2>9
<1>10. QED
  BY <1>6, <1>8, <1>9 DEF OnCourse

\* The steps that begin a run.
LEMMA StartsStay ==
  ASSUME CourseInv, NEW r \in Runs, Begin(r) \/ classify_task_resume(r) \/ BeginAdmitted(r)
  PROVE  Closed(r)' /\ OnCourse(r)'
<1>1. /\ IInv /\ KeptInv /\ Closed(r) /\ job[r] \in Jobs /\ job \in [Runs -> Jobs]
      /\ pc \in [Runs -> Stages] /\ disturbed \in [Runs -> BOOLEAN]
  BY Here DEF CourseInv, KeptInv
<1>2. CASE Begin(r)
  <2>1. PICK request \in Requests, source \in {s \in Runs : pc[s] # "idle"} \cup {None} :
          Starts(r, request.plan, request.multi, request.mode, source)
    BY <1>2 DEF Begin
  <2>2. request.plan \in Plans /\ source \in Runs \cup {None}
    BY PlanShape
  <2>3. /\ pc[r] = "idle" /\ UNCHANGED <<files, work, landed>>
        /\ \A q \in Runs \ {r} : disturbed'[q] = disturbed[q]
    BY <1>1, <1>2 DEF Begin
  <2>4. QED
    BY <2>1, <2>2, <2>3, StartedStays
<1>3. CASE BeginAdmitted(r)
  <2>1. /\ pc[r] = "admitted" /\ UNCHANGED <<files, work, landed, disturbed>>
        /\ Starts(r, job[r].plan, TRUE, "full", job[r].source)
    BY <1>3 DEF BeginAdmitted
  <2>2. job[r].plan \in Plans /\ job[r].source \in Runs \cup {None}
    BY <1>1 DEF Jobs
  <2>3. QED
    BY <2>1, <2>2, StartedStays
<1>4. CASE classify_task_resume(r)
  <2>1. PICK request \in Requests, source \in {s \in Runs : pc[s] # "idle"} :
          IF aggregate_summary(source, request.plan) = "halted"
          THEN /\ result' = [result EXCEPT ![r] = "halted"]
               /\ pc' = [pc EXCEPT ![r] = "end"]
               /\ UNCHANGED job
          ELSE /\ job' = [job EXCEPT ![r] =
                    [Idle EXCEPT !.plan = request.plan, !.multi = TRUE, !.source = source,
                                 !.admitted = TRUE]]
               /\ pc' = [pc EXCEPT ![r] = "admitted"]
               /\ UNCHANGED result
    BY <1>4 DEF classify_task_resume
  <2>2. pc[r] = "idle"
    BY <1>4 DEF classify_task_resume
  <2>3. CASE aggregate_summary(source, request.plan) = "halted"
    <3>1. pc'[r] = "end" /\ job' = job /\ job[r].plan = <<>> /\ job[r].source = None
      BY <1>1, <2>1, <2>2, <2>3 DEF Closed
    <3>2. QED
      BY <3>1 DEF Closed, OnCourse, Followed
  <2>4. CASE aggregate_summary(source, request.plan) # "halted"
    <3>1. /\ job' = [job EXCEPT ![r] =
                  [Idle EXCEPT !.plan = request.plan, !.multi = TRUE, !.source = source,
                               !.admitted = TRUE]]
          /\ pc' = [pc EXCEPT ![r] = "admitted"]
      BY <2>1, <2>4
    <3>2. pc'[r] = "admitted" /\ job'[r].source = source /\ source \in Runs
      BY <1>1, <3>1 DEF Idle
    <3>3. QED
      BY <3>2, RunsAssumption DEF Closed, OnCourse, Followed
  <2>5. QED
    BY <2>3, <2>4
<1>5. QED
  BY <1>2, <1>3, <1>4

\* Every step keeps the runs on their course.
LEMMA CourseNext == CourseInv /\ [Next]_vars => CourseInv'
<1> SUFFICES ASSUME CourseInv, [Next]_vars PROVE CourseInv'
  OBVIOUS
<1>1. IInv /\ KeptInv /\ KeptInv'
  BY KeptNext DEF CourseInv, KeptInv
<1>2. ASSUME NEW r \in Runs,
             Begin(r) \/ classify_task_resume(r) \/ Step(r) \/ Work(r) \/ BudgetBreach(r) \/ Crash(r)
      PROVE  \A q \in Runs : Closed(q)' /\ OnCourse(q)'
  <2>1. Aside(r)
    BY <1>1, <1>2, StartsAreAside, StepsAreAside, WorkIsAside DEF Step, Dispatch
  <2>2. Closed(r)' /\ OnCourse(r)'
    <3>1. CASE Begin(r) \/ classify_task_resume(r) \/ BeginAdmitted(r)
      BY <3>1, StartsStay
    <3>2. CASE Refuse(r) \/ Skip(r) \/ Timeout(r) \/ Collect(r)
      BY <3>2, OutcomesStay
    <3>3. CASE Submit(r)
      BY <3>3, SubmitStays
    <3>4. CASE Observe(r)
      BY <3>4, ObserveStays
    <3>5. CASE Finish(r) \/ OverBudget(r) \/ BudgetBreach(r) \/ Leave(r) \/ Crash(r)
      BY <3>5, EndsStay
    <3>6. CASE Work(r)
      BY <3>6, ReadingStays, ReplacingStays DEF Work
    <3>7. QED
      BY <1>2, <3>1, <3>2, <3>3, <3>4, <3>5, <3>6 DEF Step, Dispatch
  <2>3. QED
    BY <2>1, <2>2, OthersStay
<1>3. ASSUME NEW path \in Paths, Edit(path) PROVE \A q \in Runs : Closed(q)' /\ OnCourse(q)'
  <2>1. UNCHANGED <<pc, job>> /\ \A q \in Runs : disturbed'[q] /\ Closed(q)
    BY <1>3 DEF Edit, CourseInv
  <2>2. QED
    BY <2>1 DEF Closed, OnCourse, Followed
<1>4. CASE UNCHANGED vars
  <2>1. UNCHANGED <<files, pc, job, work, outcome, result, landed, disturbed, origin>>
    BY <1>4 DEF vars, evidence, history
  <2>2. ASSUME NEW q \in Runs PROVE Closed(q)' /\ OnCourse(q)'
    <3>1. Closed(q) /\ OnCourse(q)
      BY DEF CourseInv
    <3>2. Closed(q)'
      BY <2>1, <3>1 DEF Closed
    <3>3. (Followed(q)' <=> Followed(q)) /\ (Assets(q)' <=> Assets(q))
      BY <2>1 DEF Followed, Resumes, Assets, Asset, Base
    <3>4. \A K : Track(q, K)' <=> Track(q, K)
      BY <2>1 DEF Track, At, Base, Good, Succeeded
    <3>5. QED
      BY <2>1, <3>1, <3>2, <3>3, <3>4 DEF OnCourse
  <2>3. QED
    BY <1>1, <2>2 DEF CourseInv
<1>5. QED
  BY <1>1, <1>2, <1>3, <1>4 DEF Next, CourseInv

\* At the start no run was asked for.
LEMMA CourseInit == Init => CourseInv
<1> SUFFICES ASSUME Init, NEW r \in Runs PROVE Closed(r) /\ OnCourse(r)
  BY KeptInit DEF CourseInv
<1>1. pc[r] = "idle" /\ job[r].plan = <<>> /\ job[r].source = None
  BY DEF Init, Idle
<1>2. QED
  BY <1>1 DEF Closed, OnCourse, Followed

\* A run on its course that reports success is at its end.
LEMMA CourseSuffices == CourseInv => SuccessIsApplied
<1> SUFFICES ASSUME CourseInv PROVE SuccessIsApplied
  OBVIOUS
<1>1. \A r \in Runs : Succeeded(r) => pc[r] = "end" /\ job[r].plan # <<>>
  BY DEF CourseInv, KeptInv, Kept, Observes, Succeeded
<1>2. ASSUME NEW r \in Runs, Followed(r), Succeeded(r)
      PROVE  files = AppliedTo(job[r].plan, origin[r])
  <2>1. PICK K \in 0 .. Len(job[r].plan) : Track(r, K)
    BY <1>2 DEF CourseInv, OnCourse
  <2>2. K = Len(job[r].plan) /\ files = Course(job[r].plan, origin[r])[K]
    BY <1>2, <2>1 DEF Track, At
  <2>3. QED
    BY <2>2 DEF AppliedTo
<1>3. ASSUME NEW r \in Runs, Succeeded(r), job[r].source = None, ~disturbed[r]
      PROVE  files = AppliedTo(job[r].plan, origin[r])
  BY <1>1, <1>2, <1>3 DEF Followed
<1>4. ASSUME NEW r \in Runs, NEW s \in Runs, Resumes(r, s), Succeeded(r), DistinctPaths(job[r].plan)
      PROVE  files = AppliedTo(job[r].plan, origin[r])
  BY <1>1, <1>2, <1>4 DEF Followed, Resumes
<1>5. QED
  BY <1>3, <1>4 DEF SuccessIsApplied

\* A run that reports success has made of the workspace what its plan makes of
\* it, unless somebody else wrote to it meanwhile, and a run that resumes another
\* has applied each action once: run_task, ready_asset_for_intent,
\* load_resume_state.
THEOREM SuccessApplies == Spec => []SuccessIsApplied
BY CourseInit, CourseNext, CourseSuffices, PTL DEF Spec
=============================================================================
