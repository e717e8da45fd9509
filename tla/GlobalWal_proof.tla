-------------------------- MODULE GlobalWal_proof --------------------------
(***************************************************************************)
(* Proofs about GlobalWal for any sets of writers, readers and entries:    *)
(* type correctness, that only the tail of a segment is ever damaged, that *)
(* no acknowledged entry is lost without a trace, and that reads without   *)
(* the lock are in order and complete unless the ledger was rotated.       *)
(***************************************************************************)
EXTENDS GlobalWal, SequenceTheorems, TLAPS

\* The lock is held by exactly the writer that is inside append_global_wal_entry.
LockHeld == \A w \in Writers : pc[w] \in Holding <=> lock = w

\* Every line carries the hash of the line before it, readable or not.
Chained(file) ==
    \A i \in 1..Len(file) :
        /\ file[i].prev = (IF i = 1 THEN <<>> ELSE file[i - 1].hash)
        /\ file[i].hash = wal_entry_hash(file[i].prev, file[i].body)

\* Every line but the last is whole.
WholeButTail(file) == \A i \in 1..(Len(file) - 1) : file[i].form = "line"

GoodFile(file) == Chained(file) /\ WholeButTail(file)

\* A writer inside append_global_wal_entry has an entry, and one that is flushing
\* has started a line.
Busy(w) ==
    /\ pc[w] # "idle" => body[w] \in Entries
    /\ pc[w] = "flushing" => active # <<>>

\* The last hash a writer has read is still the last one when it writes: nobody
\* else touches the active file.
HashIsLast(w) ==
    pc[w] = "writing" => /\ prev[w] = last_global_wal_hash(active)
                         /\ active # <<>> => Readable(active[Len(active)])

FilesGood == GoodFile(active) /\ \A i \in 1..Len(rotated) : GoodFile(rotated[i])

ReadersBehind == \A r \in Readers : globbed[r] <= Len(rotated)

\* The inductive invariant.
IInv ==
    /\ TypeOK
    /\ LockHeld
    /\ FilesGood
    /\ \A w \in Writers : Busy(w) /\ HashIsLast(w)
    /\ ReadersBehind

-----------------------------------------------------------------------------
(* Types *)

\* The entries of a file form a sequence of entries.
LEMMA BodiesType == ASSUME NEW file \in File PROVE Bodies(file) \in Seq(Entries)
<1>1. Len(file) \in Nat /\ DOMAIN file = 1..Len(file)
  BY LenProperties DEF File
<1>2. ASSUME NEW i \in 1..Len(file) PROVE file[i].body \in Entries
  <2>1. file[i] \in Line
    BY ElementOfSeq DEF File
  <2>2. QED
    BY <2>1 DEF Line
<1> DEFINE e(i) == file[i].body
<1>3. [i \in 1..Len(file) |-> e(i)] \in Seq(Entries)
  <2> HIDE DEF e
  <2>1. \A i \in 1..Len(file) : e(i) \in Entries
    BY <1>2 DEF e
  <2>2. QED
    BY <1>1, <2>1, IsASeq
<1>4. QED
  BY <1>1, <1>3 DEF Bodies

\* Giving the last line of a file another form leaves a file.
LEMMA ReformType ==
  ASSUME NEW file \in File, file # <<>>, NEW f \in Forms
  PROVE  [file EXCEPT ![Len(file)].form = f] \in File
<1>1. Len(file) \in Nat \ {0}
  BY EmptySeq DEF File
<1>2. file[Len(file)] \in Line
  BY <1>1, ElementOfSeq DEF File
<1>3. [file[Len(file)] EXCEPT !.form = f] \in Line
  BY <1>2 DEF Line
<1>4. QED
  BY <1>1, <1>3, ExceptSeq DEF File

\* A writer's step keeps the types.
LEMMA AppendStepType ==
  ASSUME TypeOK, NEW w \in Writers, Busy(w), AppendStep(w) PROVE TypeOK'
<1>1. CASE Begin(w)
  BY <1>1 DEF Begin, TypeOK, files, readers, WriterPcs
<1>2. CASE Lock(w)
  BY <1>2 DEF Lock, TypeOK, files, readers, history, WriterPcs
<1>3. CASE rotate_global_wal_if_needed(w)
  <2>1. <<>> \in File /\ Append(rotated, active) \in Seq(File)
    BY DEF TypeOK, File
  <2>2. rotated' \in Seq(File) /\ active' \in File
    BY <1>3, <2>1 DEF rotate_global_wal_if_needed, TypeOK, files
  <2>3. pc' \in [Writers -> WriterPcs]
    BY <1>3 DEF rotate_global_wal_if_needed, TypeOK, WriterPcs
  <2>4. QED
    BY <1>3, <2>2, <2>3 DEF rotate_global_wal_if_needed, TypeOK, readers, history
<1>4. CASE HashEntry(w)
  <2>1. last_global_wal_hash(active) \in Hashes
    <3>1. CASE active = <<>>
      BY <3>1 DEF last_global_wal_hash, Hashes
    <3>2. CASE active # <<>>
      <4>1. active \in Seq(Line)
        BY DEF TypeOK, File
      <4>2. Len(active) \in 1..Len(active)
        BY <3>2, <4>1, EmptySeq
      <4>3. active[Len(active)] \in Line
        BY <4>1, <4>2, ElementOfSeq
      <4>4. QED
        BY <3>2, <4>3 DEF last_global_wal_hash, Line
    <3>3. QED
      BY <3>1, <3>2
  <2>2. prev' \in [Writers -> Hashes]
    BY <1>4, <2>1 DEF HashEntry, TypeOK
  <2>3. QED
    BY <1>4, <2>2 DEF HashEntry, TypeOK, files, readers, history, WriterPcs
<1>5. CASE RefuseDamaged(w)
  BY <1>5 DEF RefuseDamaged, TypeOK, files, readers, history, WriterPcs
<1>6. CASE StartLine(w)
  <2> DEFINE e == body[w]
             part(form) == [body |-> e, prev |-> prev[w],
                            hash |-> wal_entry_hash(prev[w], e), form |-> form]
  <2>1. e \in Entries /\ prev[w] \in Hashes
    BY <1>6 DEF StartLine, Busy, TypeOK
  <2>2. wal_entry_hash(prev[w], e) \in Hashes
    BY <2>1 DEF wal_entry_hash, Hashes
  <2>3. \A f \in Forms : part(f) \in Line
    BY <2>1, <2>2 DEF Line
  <2>4. \A f \in Forms : Append(active, part(f)) \in File
    BY <2>3 DEF TypeOK, File
  <2>5. active' \in File /\ order' \in Seq(Entries)
    <3>1. CASE active # <<>> /\ active' = [active EXCEPT ![Len(active)].form = "joined"]
               /\ UNCHANGED order
      BY <3>1, ReformType DEF TypeOK, Forms
    <3>2. CASE active' = Append(active, part("cut")) /\ UNCHANGED order
      BY <3>2, <2>4 DEF TypeOK, Forms
    <3>3. CASE active' = Append(active, part("noeol")) /\ order' = Append(order, e)
      BY <3>3, <2>1, <2>4 DEF TypeOK, Forms
    <3>4. QED
      BY <1>6, <3>1, <3>2, <3>3 DEF StartLine
  <2>6. pc' \in [Writers -> WriterPcs]
    BY <1>6 DEF StartLine, TypeOK, WriterPcs
  <2>7. QED
    BY <1>6, <2>5, <2>6 DEF StartLine, TypeOK, readers
<1>7. CASE FinishLine(w)
  <2>1. active # <<>> /\ body[w] \in Entries
    BY <1>7 DEF FinishLine, Busy
  <2>2. active' \in File
    <3>1. active \in File
      BY DEF TypeOK
    <3>2. active' = active \/ \E f \in Forms : active' = [active EXCEPT ![Len(active)].form = f]
      BY <1>7 DEF FinishLine, Forms
    <3>3. QED
      BY <2>1, <3>1, <3>2, ReformType
  <2>3. order' \in Seq(Entries)
    <3>1. order \in Seq(Entries) /\ Append(order, body[w]) \in Seq(Entries)
      BY <2>1 DEF TypeOK
    <3>2. order' = order \/ order' = Append(order, body[w])
      BY <1>7 DEF FinishLine
    <3>3. QED
      BY <3>1, <3>2
  <2>4. pc' \in [Writers -> WriterPcs]
    BY <1>7 DEF FinishLine, TypeOK, WriterPcs
  <2>5. QED
    BY <1>7, <2>2, <2>3, <2>4 DEF FinishLine, TypeOK, readers
<1>8. CASE Return(w)
  <2>1. body[w] \in Entries
    BY <1>8 DEF Return, Busy
  <2>2. QED
    BY <1>8, <2>1 DEF Return, TypeOK, files, readers, WriterPcs
<1>9. CASE Interrupt(w)
  BY <1>9 DEF Interrupt, TypeOK, files, readers, WriterPcs
<1>10. QED
  BY <1>1, <1>2, <1>3, <1>4, <1>5, <1>6, <1>7, <1>8, <1>9 DEF AppendStep

\* A reader's step keeps the types.
LEMMA ReadStepType ==
  ASSUME TypeOK, NEW r \in Readers, globbed[r] <= Len(rotated), ReadStep(r)
  PROVE  TypeOK'
<1>1. CASE global_wal_paths(r)
  BY <1>1 DEF global_wal_paths, TypeOK, files, writers, history, ReaderPcs
<1>2. CASE ReadRotated(r)
  <2>1. next[r] \in 1..Len(rotated)
    BY <1>2, LenProperties DEF ReadRotated, TypeOK
  <2>2. rotated[next[r]] \in File
    BY <2>1, ElementOfSeq DEF TypeOK
  <2>3. result[r] \in Seq(Entries) /\ Bodies(rotated[next[r]]) \in Seq(Entries)
    BY <2>2, BodiesType DEF TypeOK
  <2>4. result[r] \o Bodies(rotated[next[r]]) \in Seq(Entries)
    BY <2>3, ConcatProperties
  <2>5. next[r] + 1 \in Nat \ {0}
    BY DEF TypeOK
  <2>6. result' \in [Readers -> Seq(Entries)] /\ next' \in [Readers -> Nat \ {0}]
    <3>1. result \in [Readers -> Seq(Entries)] /\ next \in [Readers -> Nat \ {0}]
      BY DEF TypeOK
    <3>2. CASE /\ result' = [result EXCEPT ![r] = result[r] \o Bodies(rotated[next[r]])]
               /\ next' = [next EXCEPT ![r] = next[r] + 1]
      BY <2>4, <2>5, <3>1, <3>2
    <3>3. CASE UNCHANGED <<result, next>>
      BY <3>1, <3>3
    <3>4. QED
      BY <1>2, <3>2, <3>3 DEF ReadRotated
  <2>7. rpc' \in [Readers -> ReaderPcs]
    BY <1>2 DEF ReadRotated, TypeOK, ReaderPcs
  <2>8. QED
    BY <1>2, <2>6, <2>7 DEF ReadRotated, TypeOK, files, writers, history
<1>3. CASE FindActive(r)
  BY <1>3 DEF FindActive, TypeOK, files, writers, history, ReaderPcs
<1>4. CASE ReadActive(r)
  <2>1. result[r] \in Seq(Entries) /\ Bodies(active) \in Seq(Entries)
    BY BodiesType DEF TypeOK
  <2>2. result[r] \o Bodies(active) \in Seq(Entries)
    BY <2>1, ConcatProperties
  <2>3. QED
    BY ZenonT(60), <1>4, <2>2 DEF ReadActive, TypeOK, files, writers, history, ReaderPcs
<1>5. QED
  BY <1>1, <1>2, <1>3, <1>4 DEF ReadStep

-----------------------------------------------------------------------------
(* The chain *)

\* A new line that commits to the last hash keeps a file whose last line is whole
\* a good file.
LEMMA AppendGood ==
  ASSUME NEW file \in File, GoodFile(file),
         file # <<>> => file[Len(file)].form = "line",
         NEW line \in Line,
         line.prev = last_global_wal_hash(file),
         line.hash = wal_entry_hash(line.prev, line.body)
  PROVE  GoodFile(Append(file, line))
<1> DEFINE new == Append(file, line)
<1>1. /\ file \in Seq(Line)
      /\ Len(file) \in Nat
      /\ file # <<>> => Len(file) \in Nat \ {0}
      /\ file = <<>> => Len(file) = 0
  BY EmptySeq, LenProperties DEF File
<1>2. /\ Len(new) = Len(file) + 1
      /\ \A i \in 1..Len(file) : new[i] = file[i]
      /\ new[Len(file) + 1] = line
  BY <1>1
<1>3. Chained(new)
  <2> SUFFICES ASSUME NEW i \in 1..Len(new)
               PROVE  /\ new[i].prev = (IF i = 1 THEN <<>> ELSE new[i - 1].hash)
                      /\ new[i].hash = wal_entry_hash(new[i].prev, new[i].body)
    BY DEF Chained
  <2>1. CASE i \in 1..Len(file)
    <3>1. i # 1 => i - 1 \in 1..Len(file)
      BY <1>1, <2>1
    <3>2. QED
      BY <1>2, <2>1, <3>1 DEF GoodFile, Chained
  <2>2. CASE i = Len(file) + 1
    <3>1. CASE file = <<>>
      BY <1>1, <1>2, <2>2, <3>1 DEF last_global_wal_hash
    <3>2. CASE file # <<>>
      <4>1. i # 1 /\ i - 1 = Len(file) /\ Len(file) \in 1..Len(file)
        BY <1>1, <2>2, <3>2
      <4>2. new[i - 1].hash = last_global_wal_hash(file)
        BY <1>2, <3>2, <4>1 DEF last_global_wal_hash
      <4>3. QED
        BY <1>2, <2>2, <4>1, <4>2
    <3>3. QED
      BY <3>1, <3>2
  <2>3. QED
    BY <1>1, <1>2, <2>1, <2>2
<1>4. WholeButTail(new)
  <2> SUFFICES ASSUME NEW i \in 1..(Len(new) - 1) PROVE new[i].form = "line"
    BY DEF WholeButTail
  <2>1. i \in 1..Len(file) /\ new[i] = file[i]
    BY <1>1, <1>2
  <2>2. CASE i = Len(file)
    BY <1>1, <2>1, <2>2
  <2>3. CASE i # Len(file)
    <3>1. i \in 1..(Len(file) - 1)
      BY <1>1, <2>1, <2>3
    <3>2. QED
      BY <2>1, <3>1 DEF GoodFile, WholeButTail
  <2>4. QED
    BY <2>2, <2>3
<1>5. QED
  BY <1>3, <1>4 DEF GoodFile

\* The form of the last line does not matter to the chain.
LEMMA ReformGood ==
  ASSUME NEW file \in File, file # <<>>, GoodFile(file), NEW f \in Forms
  PROVE  GoodFile([file EXCEPT ![Len(file)].form = f])
<1> DEFINE n == Len(file)
           new == [file EXCEPT ![n].form = f]
<1>1. file \in Seq(Line) /\ n \in Nat \ {0} /\ file[n] \in Line
  BY EmptySeq, ElementOfSeq DEF File
<1>2. [file[n] EXCEPT !.form = f] \in Line
  BY <1>1 DEF Line
<1>3. /\ Len(new) = n
      /\ \A i \in 1..n : new[i] = IF i = n THEN [file[n] EXCEPT !.form = f] ELSE file[i]
  BY <1>1, <1>2, ExceptSeq
<1>4. \A i \in 1..n : /\ new[i].prev = file[i].prev
                      /\ new[i].hash = file[i].hash
                      /\ new[i].body = file[i].body
  BY <1>1, <1>3 DEF Line
<1>5. Chained(new)
  <2> HIDE DEF new
  <2> SUFFICES ASSUME NEW i \in 1..n
               PROVE  /\ new[i].prev = (IF i = 1 THEN <<>> ELSE new[i - 1].hash)
                      /\ new[i].hash = wal_entry_hash(new[i].prev, new[i].body)
    BY <1>3 DEF Chained
  <2>1. i # 1 => i - 1 \in 1..n
    BY <1>1
  <2>2. QED
    BY <1>4, <2>1 DEF GoodFile, Chained
<1>6. WholeButTail(new)
  BY <1>1, <1>3 DEF GoodFile, WholeButTail
<1>7. QED
  BY <1>5, <1>6 DEF GoodFile

\* Only the holder of the lock is between Lock and Return.
LEMMA HoldersAlone ==
  ASSUME LockHeld, NEW w \in Writers, pc[w] \in Holding
  PROVE  \A v \in Writers : v # w => pc[v] \notin Holding
  BY DEF LockHeld

\* A writer's step keeps the inductive invariant.
LEMMA AppendStepInv ==
  ASSUME IInv, NEW w \in Writers, AppendStep(w) PROVE IInv'
<1> USE SetsAssumption
<1>t. TypeOK'
  BY AppendStepType DEF IInv
<1>a. /\ active \in File /\ rotated \in Seq(File) /\ Len(rotated) \in Nat
      /\ pc \in [Writers -> WriterPcs] /\ body \in [Writers -> Entries \cup {None}]
      /\ prev \in [Writers -> Hashes] /\ globbed \in [Readers -> Nat]
      /\ active # <<>> => Len(active) \in Nat \ {0}
  BY LenProperties, EmptySeq DEF IInv, TypeOK, File
<1>b. pc[w] \in Holding => \A v \in Writers : v # w => pc[v] \notin Holding
  BY HoldersAlone DEF IInv
<1>1. CASE Begin(w)
  BY <1>1, <1>t, <1>a DEF Begin, IInv, LockHeld, FilesGood, Busy, HashIsLast,
    ReadersBehind, Holding, files, readers
<1>2. CASE Lock(w)
  BY <1>2, <1>t, <1>a DEF Lock, IInv, LockHeld, FilesGood, Busy, HashIsLast,
    ReadersBehind, Holding, files, readers
<1>3. CASE rotate_global_wal_if_needed(w)
  <2>1. LockHeld'
    BY <1>3, <1>a DEF rotate_global_wal_if_needed, IInv, LockHeld, Holding
  <2>2. GoodFile(<<>>)
    BY EmptySeq DEF GoodFile, Chained, WholeButTail
  <2>3. FilesGood' /\ ReadersBehind'
    <3>1. CASE UNCHANGED files
      BY <1>3, <3>1 DEF rotate_global_wal_if_needed, files, readers, IInv,
        FilesGood, ReadersBehind
    <3>2. CASE rotated' = Append(rotated, active) /\ active' = <<>>
      <4>1. /\ Len(rotated') = Len(rotated) + 1
            /\ \A i \in 1..Len(rotated) : rotated'[i] = rotated[i]
            /\ rotated'[Len(rotated) + 1] = active
        BY <1>a, <3>2
      <4>2. \A i \in 1..Len(rotated') : GoodFile(rotated'[i])
        BY <1>a, <4>1 DEF IInv, FilesGood
      <4>3. ReadersBehind'
        BY <1>3, <1>a, <4>1 DEF rotate_global_wal_if_needed, readers, IInv, ReadersBehind
      <4>4. QED
        BY <2>2, <3>2, <4>2, <4>3 DEF FilesGood
    <3>3. QED
      BY <1>3, <3>1, <3>2 DEF rotate_global_wal_if_needed
  <2>4. pc[w] \in Holding /\ pc'[w] = "hashing"
    BY <1>3, <1>a DEF rotate_global_wal_if_needed, Holding
  <2>5. ASSUME NEW v \in Writers PROVE (Busy(v) /\ HashIsLast(v))'
    <3>1. CASE v = w
      BY <1>3, <1>a, <2>4, <3>1 DEF rotate_global_wal_if_needed, IInv, Busy, HashIsLast
    <3>2. CASE v # w
      BY <1>3, <1>a, <1>b, <2>4, <3>2
      DEF rotate_global_wal_if_needed, IInv, Busy, HashIsLast, Holding
    <3>3. QED
      BY <3>1, <3>2
  <2>6. QED
    BY <1>t, <2>1, <2>3, <2>5 DEF IInv
<1>4. CASE HashEntry(w)
  <2>1. active # <<>> => Len(active) \in DOMAIN active
    BY <1>a, LenProperties DEF File
  <2>2. active # <<>> => Readable(active[Len(active)])
    BY <1>4, <2>1 DEF HashEntry, Damaged
  <2>3. ASSUME NEW v \in Writers PROVE (Busy(v) /\ HashIsLast(v))'
    <3>1. CASE v = w
      BY <1>4, <1>a, <2>2, <3>1 DEF HashEntry, IInv, Busy, HashIsLast, files
    <3>2. CASE v # w
      BY <1>4, <1>a, <3>2 DEF HashEntry, IInv, Busy, HashIsLast, files
    <3>3. QED
      BY <3>1, <3>2
  <2>4. QED
    BY <1>4, <1>t, <1>a, <2>3 DEF HashEntry, IInv, LockHeld, FilesGood,
      ReadersBehind, Holding, files, readers
<1>5. CASE RefuseDamaged(w)
  <2>1. LockHeld'
    BY <1>5, <1>a, <1>b DEF RefuseDamaged, IInv, LockHeld, Holding
  <2>2. QED
    BY <1>5, <1>t, <1>a, <2>1 DEF RefuseDamaged, IInv, FilesGood, Busy, HashIsLast,
      ReadersBehind, files, readers
<1>6. CASE StartLine(w)
  <2> DEFINE e == body[w]
             part(form) == [body |-> e, prev |-> prev[w],
                            hash |-> wal_entry_hash(prev[w], e), form |-> form]
  <2>1. pc[w] = "writing" /\ e \in Entries /\ prev[w] \in Hashes
    BY <1>6, <1>a DEF StartLine, IInv, Busy
  <2>2. \A f \in Forms : part(f) \in Line
    BY <2>1 DEF Line, Hashes, wal_entry_hash
  <2>3. ASSUME active # <<>> /\ active' = [active EXCEPT ![Len(active)].form = "joined"]
        PROVE  GoodFile(active') /\ active' # <<>>
    <3>1. GoodFile(active')
      BY <2>3, <1>a, ReformGood DEF IInv, FilesGood, Forms
    <3>2. active' # <<>>
      BY <2>3, <1>a, <1>t, ExceptSeq, EmptySeq, ReformType DEF TypeOK, File
    <3>3. QED
      BY <3>1, <3>2
  <2>4. ASSUME active # <<>> => active[Len(active)].form # "noeol",
               \E f \in Forms : active' = Append(active, part(f))
        PROVE  GoodFile(active') /\ active' # <<>>
    <3>1. active # <<>> => active[Len(active)].form = "line"
      <4>1. active # <<>> => active[Len(active)].form \in {"line", "noeol"}
        BY <2>1 DEF IInv, HashIsLast, Readable
      <4>2. active # <<>> => active[Len(active)].form # "noeol"
        BY <2>4
      <4>3. QED
        BY <4>1, <4>2
    <3>2. PICK f \in Forms : active' = Append(active, part(f))
      BY <2>4
    <3>3. part(f).prev = last_global_wal_hash(active)
          /\ part(f).hash = wal_entry_hash(part(f).prev, part(f).body)
      BY <2>1 DEF IInv, HashIsLast
    <3>4. part(f) \in Line
      BY <2>2
    <3>5. GoodFile(active')
      <4> HIDE DEF part
      <4>1. QED
        BY <1>a, <3>1, <3>2, <3>3, <3>4, AppendGood DEF IInv, FilesGood
    <3>6. active' # <<>>
      <4> HIDE DEF part
      <4>1. active \in Seq(Line) /\ part(f) \in Line
        BY <1>a, <3>4 DEF File
      <4>2. Len(active') = Len(active) + 1
        BY <3>2, <4>1
      <4>3. QED
        BY <1>a, <4>2, EmptySeq
    <3>7. QED
      BY <3>5, <3>6
  <2>5. GoodFile(active') /\ active' # <<>>
    <3>1. \/ active # <<>> /\ active' = [active EXCEPT ![Len(active)].form = "joined"]
          \/ /\ active # <<>> => active[Len(active)].form # "noeol"
             /\ active' = Append(active, part("cut")) \/ active' = Append(active, part("noeol"))
      BY <1>6 DEF StartLine
    <3>2. "cut" \in Forms /\ "noeol" \in Forms
      BY DEF Forms
    <3>3. QED
      <4> HIDE DEF part
      <4>1. QED
        BY <2>3, <2>4, <3>1, <3>2
  <2>6. FilesGood' /\ ReadersBehind'
    BY <1>6, <2>5 DEF StartLine, IInv, FilesGood, ReadersBehind, readers
  <2>7. LockHeld'
    BY <1>6, <1>a DEF StartLine, IInv, LockHeld, Holding
  <2>8. ASSUME NEW v \in Writers PROVE (Busy(v) /\ HashIsLast(v))'
    <3>1. CASE v = w
      BY <1>6, <1>a, <2>1, <2>5, <3>1 DEF StartLine, Busy, HashIsLast
    <3>2. CASE v # w
      BY <1>6, <1>a, <1>b, <2>1, <3>2 DEF StartLine, IInv, Busy, HashIsLast, Holding
    <3>3. QED
      BY <3>1, <3>2
  <2>9. QED
    BY <1>t, <2>6, <2>7, <2>8 DEF IInv
<1>7. CASE FinishLine(w)
  <2>1. pc[w] = "flushing" /\ active # <<>>
    BY <1>7 DEF FinishLine, IInv, Busy
  <2>2. active' = active \/ \E f \in Forms : active' = [active EXCEPT ![Len(active)].form = f]
    BY <1>7 DEF FinishLine, Forms
  <2>3. GoodFile(active')
    BY <1>a, <2>1, <2>2, ReformGood DEF IInv, FilesGood
  <2>4. FilesGood' /\ ReadersBehind'
    BY <1>7, <2>3 DEF FinishLine, IInv, FilesGood, ReadersBehind, readers
  <2>5. LockHeld'
    BY <1>7, <1>a DEF FinishLine, IInv, LockHeld, Holding
  <2>6. ASSUME NEW v \in Writers PROVE (Busy(v) /\ HashIsLast(v))'
    <3>1. CASE v = w
      BY <1>7, <1>a, <2>1, <3>1 DEF FinishLine, IInv, Busy, HashIsLast
    <3>2. CASE v # w
      BY <1>7, <1>a, <1>b, <2>1, <3>2 DEF FinishLine, IInv, Busy, HashIsLast, Holding
    <3>3. QED
      BY <3>1, <3>2
  <2>7. QED
    BY <1>t, <2>4, <2>5, <2>6 DEF IInv
<1>8. CASE Return(w)
  <2>1. LockHeld'
    BY <1>8, <1>a, <1>b DEF Return, IInv, LockHeld, Holding
  <2>2. QED
    BY <1>8, <1>t, <1>a, <2>1 DEF Return, IInv, FilesGood, Busy, HashIsLast,
      ReadersBehind, files, readers
<1>9. CASE Interrupt(w)
  <2>1. LockHeld'
    BY <1>9, <1>a, <1>b DEF Interrupt, IInv, LockHeld, Holding
  <2>2. QED
    BY <1>9, <1>t, <1>a, <2>1 DEF Interrupt, IInv, FilesGood, Busy, HashIsLast,
      ReadersBehind, files, readers
<1>10. QED
  BY <1>1, <1>2, <1>3, <1>4, <1>5, <1>6, <1>7, <1>8, <1>9 DEF AppendStep

\* A reader's step keeps the inductive invariant.
LEMMA ReadStepInv ==
  ASSUME IInv, NEW r \in Readers, ReadStep(r) PROVE IInv'
<1>1. TypeOK'
  BY ReadStepType DEF IInv, ReadersBehind
<1>2. UNCHANGED <<files, writers>>
  BY DEF ReadStep, global_wal_paths, ReadRotated, FindActive, ReadActive
<1>3. ReadersBehind'
  <2>1. Len(rotated) \in Nat /\ globbed \in [Readers -> Nat]
    BY LenProperties DEF IInv, TypeOK
  <2>2. UNCHANGED globbed \/ globbed' = [globbed EXCEPT ![r] = Len(rotated)]
    BY DEF ReadStep, global_wal_paths, ReadRotated, FindActive, ReadActive
  <2>3. QED
    BY <1>2, <2>1, <2>2 DEF IInv, ReadersBehind, files
<1>4. QED
  BY <1>1, <1>2, <1>3 DEF IInv, LockHeld, FilesGood, Busy, HashIsLast, files, writers

\* An empty ledger, with no lock held and no reader started, satisfies the
\* invariant (the state before the first append_global_wal_entry).
LEMMA InitInv == Init => IInv
<1> SUFFICES ASSUME Init PROVE IInv
  OBVIOUS
<1> USE SetsAssumption
<1>1. TypeOK
  BY DEF Init, TypeOK, File, WriterPcs, ReaderPcs, Hashes
<1>2. LockHeld
  BY DEF Init, LockHeld, Holding
<1>3. FilesGood
  BY EmptySeq DEF Init, FilesGood, GoodFile, Chained, WholeButTail
<1>4. ReadersBehind
  BY EmptySeq DEF Init, ReadersBehind
<1>5. QED
  BY <1>1, <1>2, <1>3, <1>4 DEF Init, IInv, Busy, HashIsLast

\* A step of an append or of a read, whichever process takes it, preserves the
\* invariant.
LEMMA NextInv == IInv /\ [Next]_vars => IInv'
<1> SUFFICES ASSUME IInv, [Next]_vars PROVE IInv'
  OBVIOUS
<1>1. CASE UNCHANGED vars
  BY <1>1 DEF vars, files, writers, readers, history, IInv, TypeOK, LockHeld,
    FilesGood, Busy, HashIsLast, ReadersBehind
<1>2. CASE \E w \in Writers : AppendStep(w)
  BY <1>2, AppendStepInv
<1>3. CASE \E r \in Readers : ReadStep(r)
  BY <1>3, ReadStepInv
<1>4. QED
  BY <1>1, <1>2, <1>3 DEF Next

\* A good file is one the validated reader accepts up to a damaged last line.
LEMMA GoodIsSound ==
  ASSUME NEW file \in File, GoodFile(file) PROVE SegmentValid(Sound(file))
<1>1. /\ file \in Seq(Line) /\ Len(file) \in Nat /\ DOMAIN file = 1..Len(file)
      /\ file # <<>> => Len(file) \in Nat \ {0}
      /\ file = <<>> => Len(file) = 0
  BY LenProperties, EmptySeq DEF File
<1>2. CASE file # <<>> /\ ~Readable(file[Len(file)])
  <2> DEFINE n == Len(file) - 1
             head == SubSeq(file, 1, n)
  <2>1. \A i \in 1..n : file[i] \in Line
    BY <1>1, ElementOfSeq
  <2>2. n \in Nat /\ head \in Seq(Line) /\ Len(head) = n
        /\ \A i \in 1..n : head[i] = file[i]
    BY <1>1, <1>2, <2>1, SubSeqProperties
  <2>3. DOMAIN head = 1..n
    BY <2>2, LenProperties
  <2>4. Sound(file) = head
    BY <1>2 DEF Sound
  <2>5. ASSUME NEW i \in 1..n
        PROVE  /\ Readable(head[i])
               /\ head[i].prev = (IF i = 1 THEN <<>> ELSE head[i - 1].hash)
               /\ head[i].hash = wal_entry_hash(head[i].prev, head[i].body)
    <3>1. i \in 1..Len(file) /\ (i # 1 => i - 1 \in 1..n)
      BY <1>1, <2>2
    <3>2. Readable(file[i])
      BY DEF GoodFile, WholeButTail, Readable
    <3>3. QED
      BY <2>2, <3>1, <3>2 DEF GoodFile, Chained
  <2>6. QED
    BY <2>3, <2>4, <2>5 DEF SegmentValid
<1>3. CASE ~(file # <<>> /\ ~Readable(file[Len(file)]))
  <2>1. Sound(file) = file
    BY <1>3 DEF Sound
  <2>2. ASSUME NEW i \in 1..Len(file) PROVE Readable(file[i])
    <3>1. CASE i = Len(file)
      BY <1>1, <1>3, <3>1
    <3>2. CASE i # Len(file)
      <4>1. Len(file) \in Nat
        BY <1>1
      <4>2. i \in 1..(Len(file) - 1)
        BY <4>1, <3>2
      <4>3. file[i].form = "line"
        BY <4>2 DEF GoodFile, WholeButTail
      <4>4. QED
        BY <4>3 DEF Readable
    <3>3. QED
      BY <3>1, <3>2
  <2>3. QED
    BY <1>1, <2>1, <2>2 DEF SegmentValid, GoodFile, Chained
<1>4. QED
  BY <1>2, <1>3

-----------------------------------------------------------------------------
\* The invariant holds in every reachable state.
THEOREM Invariance == Spec => []IInv
  BY InitInv, NextInv, PTL DEF Spec

\* Every reachable state is well typed, whatever appends, reads, rotations and
\* interruptions there were.
THEOREM TypeCorrect == Spec => []TypeOK
<1>1. IInv => TypeOK
  BY DEF IInv
<1>2. QED
  BY <1>1, Invariance, PTL

\* For any number of processes appending to the ledger, any rotation limit and any
\* interruptions, a segment is a valid hash chain up to a damaged last line:
\* append_global_wal_entry never forks the chain and never writes after damage.
THEOREM ChainIntact == Spec => []OnlyATailIsDamaged
<1>1. IInv => OnlyATailIsDamaged
  <2> SUFFICES ASSUME IInv, NEW file \in Segments PROVE SegmentValid(Sound(file))
    BY DEF OnlyATailIsDamaged
  <2>1. CASE file = active
    BY <2>1, GoodIsSound DEF IInv, TypeOK, FilesGood
  <2>2. CASE \E i \in DOMAIN rotated : file = rotated[i]
    <3>1. PICK i \in 1..Len(rotated) : file = rotated[i]
      BY <2>2, LenProperties DEF IInv, TypeOK
    <3>2. file \in File
      BY <3>1, ElementOfSeq DEF IInv, TypeOK
    <3>3. GoodFile(file)
      BY <3>1 DEF IInv, FilesGood
    <3>4. QED
      BY <3>2, <3>3, GoodIsSound
  <2>3. QED
    BY <2>1, <2>2 DEF Segments
<1>2. QED
  BY <1>1, Invariance, PTL

-----------------------------------------------------------------------------
(* What is on record, and in which order it is read *)

\* The segments of the ledger in the order they were written; the last is active.
Segment(k) == IF k <= Len(rotated) THEN rotated[k] ELSE active

\* What NoSilentLoss says of an entry, by place.
Whole(k, i)  == Segment(k)[i].form \in {"line", "split"}
Joined(k, i) == Segment(k)[i].form = "joined"
OnRecord(e) ==
    \E k \in 1 .. Len(rotated) + 1 : \E i \in 1 .. Len(Segment(k)) :
        (Whole(k, i) /\ Segment(k)[i].body = e) \/ Joined(k, i)

\* An entry is on record when its append is about to return, and the line it has
\* started before that is the last one.
Recorded ==
    /\ \A e \in acked : OnRecord(e)
    /\ \A w \in Writers :
          /\ pc[w] = "flushing" =>
                \/ active[Len(active)].form = "joined"
                \/ /\ active[Len(active)].form \in {"cut", "noeol"}
                   /\ active[Len(active)].body = body[w]
          /\ pc[w] = "written" => OnRecord(body[w])

\* x can have been read, x before y.
Known(x) == \E a \in DOMAIN order : order[a] = x
Precedes(x, y) == \E a, b \in DOMAIN order : a < b /\ order[a] = x /\ order[b] = y

\* Whoever reads the ledger from its first line to its last reads its entries in
\* the order in which they were written.
WrittenInOrder ==
    \A k \in 1 .. Len(rotated) + 1 : \A i \in 1 .. Len(Segment(k)) :
        Readable(Segment(k)[i]) =>
            /\ Known(Segment(k)[i].body)
            /\ \A l \in k .. Len(rotated) + 1 : \A j \in 1 .. Len(Segment(l)) :
                  Readable(Segment(l)[j]) /\ (k < l \/ i < j) =>
                      Precedes(Segment(k)[i].body, Segment(l)[j].body)

Got(r) == {result[r][i] : i \in DOMAIN result[r]}

\* A reader has the bodies of the segments before "next", all valid, in order and
\* before everything it has still to read.
Reading(r) ==
    /\ next[r] <= globbed[r] + 1
    /\ before[r] \subseteq acked
    /\ rpc[r] = "idle" => result[r] = <<>> /\ next[r] = 1
    /\ rpc[r] # "failed" =>
          /\ \A i \in DOMAIN result[r] :
                /\ Known(result[r][i])
                /\ \A j \in DOMAIN result[r] : i < j => Precedes(result[r][i], result[r][j])
          /\ \A k \in 1 .. next[r] - 1 :
                /\ SegmentValid(rotated[k])
                /\ \A i \in 1 .. Len(rotated[k]) : rotated[k][i].body \in Got(r)
    /\ rpc[r] \in {"rotated", "opening"} =>
          \A x \in Got(r) : \A k \in next[r] .. Len(rotated) + 1 : \A i \in 1 .. Len(Segment(k)) :
              Readable(Segment(k)[i]) => Precedes(x, Segment(k)[i].body)
    /\ rpc[r] = "opening" =>
          next[r] = globbed[r] + 1 /\ (Len(rotated) = globbed[r] => active # <<>>)
    /\ rpc[r] = "done" => before[r] \subseteq Got(r) \/ Len(rotated) > globbed[r]

\* The second inductive invariant, above IInv.
LedgerInv == Recorded /\ WrittenInOrder /\ \A r \in Readers : Reading(r)

-----------------------------------------------------------------------------
(* What an append leaves of the lines that are there *)

WasReadable(k, i) ==
    /\ k \in 1 .. Len(rotated) + 1 /\ i \in 1 .. Len(Segment(k))
    /\ Readable(Segment(k)[i]) /\ Segment(k)'[i].body = Segment(k)[i].body

\* Segments are only added, and a line becomes readable as the last one, when its
\* entry is noted as readable.
Grows ==
    /\ Len(rotated) <= Len(rotated')
    /\ \A k \in 1 .. Len(rotated) : rotated'[k] = rotated[k]
    /\ Len(rotated') = Len(rotated) /\ active # <<>> => active' # <<>>
    /\ \/ /\ order' = order
          /\ \A k \in 1 .. Len(rotated') + 1 : \A i \in 1 .. Len(Segment(k)') :
                Readable(Segment(k)'[i]) => WasReadable(k, i)
       \/ \E e \in Entries :
             /\ order' = Append(order, e)
             /\ \A k \in 1 .. Len(rotated') + 1 : \A i \in 1 .. Len(Segment(k)') :
                   Readable(Segment(k)'[i]) =>
                      \/ WasReadable(k, i)
                      \/ k = Len(rotated') + 1 /\ i = Len(Segment(k)') /\ Segment(k)'[i].body = e

\* Whole and joined lines stay as they are.
Kept ==
    \A k \in 1 .. Len(rotated) + 1 : \A i \in 1 .. Len(Segment(k)) :
        Whole(k, i) \/ Joined(k, i) =>
            /\ k <= Len(rotated') + 1
            /\ i \in 1 .. Len(Segment(k)') /\ Segment(k)'[i] = Segment(k)[i]

\* A step that changes the active file only.
LEMMA ActiveStep ==
  ASSUME TypeOK, rotated' = rotated, active # <<>> => active' # <<>>,
         \/ /\ order' = order
            /\ \A i \in 1 .. Len(active') : Readable(active'[i]) =>
                  i \in 1 .. Len(active) /\ Readable(active[i]) /\ active'[i].body = active[i].body
         \/ \E e \in Entries :
               /\ order' = Append(order, e)
               /\ \A i \in 1 .. Len(active') : Readable(active'[i]) =>
                     \/ i \in 1 .. Len(active) /\ Readable(active[i]) /\ active'[i].body = active[i].body
                     \/ i = Len(active') /\ active'[i].body = e,
         \A i \in 1 .. Len(active) : active[i].form \in {"line", "split", "joined"} =>
            i \in 1 .. Len(active') /\ active'[i] = active[i]
  PROVE  Grows /\ Kept
<1>1. Len(rotated) \in Nat
  BY LenProperties DEF TypeOK
<1>2. \A k \in 1 .. Len(rotated) + 1 :
         \/ k <= Len(rotated) /\ Segment(k) = rotated[k] /\ Segment(k)' = rotated[k]
         \/ k = Len(rotated) + 1 /\ Segment(k) = active /\ Segment(k)' = active'
  BY <1>1 DEF Segment
<1>3. Kept
  BY SMTT(60), <1>1, <1>2 DEF Kept, Whole, Joined
<1>4. CASE /\ order' = order
           /\ \A i \in 1 .. Len(active') : Readable(active'[i]) =>
                 i \in 1 .. Len(active) /\ Readable(active[i]) /\ active'[i].body = active[i].body
  <2>1. \A k \in 1 .. Len(rotated') + 1 : \A i \in 1 .. Len(Segment(k)') :
           Readable(Segment(k)'[i]) => WasReadable(k, i)
    BY <1>1, <1>2, <1>4 DEF WasReadable
  <2>2. QED
    BY <1>1, <1>3, <1>4, <2>1 DEF Grows
<1>5. ASSUME NEW e \in Entries, order' = Append(order, e),
             \A i \in 1 .. Len(active') : Readable(active'[i]) =>
                \/ i \in 1 .. Len(active) /\ Readable(active[i]) /\ active'[i].body = active[i].body
                \/ i = Len(active') /\ active'[i].body = e
      PROVE  Grows
  <2>1. \A k \in 1 .. Len(rotated') + 1 : \A i \in 1 .. Len(Segment(k)') :
           Readable(Segment(k)'[i]) =>
              \/ WasReadable(k, i)
              \/ k = Len(rotated') + 1 /\ i = Len(Segment(k)') /\ Segment(k)'[i].body = e
    BY ZenonT(60), <1>1, <1>2, <1>5 DEF WasReadable
  <2>2. QED
    BY <1>1, <1>5, <2>1 DEF Grows
<1>6. QED
  BY <1>3, <1>4, <1>5

\* A line with another form has the same entry.
LEMMA ReformLine ==
  ASSUME NEW line \in Line, NEW f \in Forms
  PROVE  /\ [line EXCEPT !.form = f] \in Line
         /\ [line EXCEPT !.form = f].form = f /\ [line EXCEPT !.form = f].body = line.body
BY DEF Line

\* Every step of an append keeps the segments before, and what is whole.
LEMMA AppendGrows ==
  ASSUME IInv, Recorded, NEW w \in Writers, AppendStep(w)
  PROVE  Grows /\ Kept
<1>t. TypeOK
  BY DEF IInv
<1>a. /\ active \in File /\ active \in Seq(Line) /\ rotated \in Seq(File)
      /\ Len(active) \in Nat /\ Len(rotated) \in Nat
      /\ active # <<>> => Len(active) \in Nat \ {0}
  BY LenProperties, EmptySeq DEF IInv, TypeOK, File
<1>1. CASE UNCHANGED <<files, order>>
  BY <1>t, <1>1, ActiveStep DEF files
<1>2. CASE rotate_global_wal_if_needed(w) /\ ~UNCHANGED files
  <2>1. rotated' = Append(rotated, active) /\ active' = <<>> /\ order' = order
    BY <1>2 DEF rotate_global_wal_if_needed, history
  <2>2. /\ Len(rotated') = Len(rotated) + 1
        /\ \A k \in 1 .. Len(rotated) : rotated'[k] = rotated[k]
        /\ rotated'[Len(rotated) + 1] = active
    BY <1>a, <2>1, AppendProperties
  <2>3. /\ \A k \in 1 .. Len(rotated) + 1 : Segment(k)' = Segment(k)
        /\ \A k \in 1 .. Len(rotated') + 1 : k = Len(rotated) + 2 => Segment(k)' = <<>>
    BY <1>a, <2>1, <2>2 DEF Segment
  <2>4. Len(<<>>) = 0
    BY EmptySeq
  <2>5. Kept
    BY <1>a, <2>2, <2>3 DEF Kept
  <2>6. \A k \in 1 .. Len(rotated') + 1 : \A i \in 1 .. Len(Segment(k)') :
           Readable(Segment(k)'[i]) => WasReadable(k, i)
    <3> SUFFICES ASSUME NEW k \in 1 .. Len(rotated') + 1, NEW i \in 1 .. Len(Segment(k)'),
                        Readable(Segment(k)'[i])
                 PROVE  WasReadable(k, i)
      OBVIOUS
    <3>1. k \in 1 .. Len(rotated) + 1
      <4>1. k # Len(rotated) + 2
        BY <2>3, <2>4
      <4>2. QED
        BY <1>a, <2>2, <4>1
    <3>2. QED
      BY <2>3, <3>1 DEF WasReadable
  <2>7. QED
    BY <1>a, <2>1, <2>2, <2>5, <2>6 DEF Grows
<1>3. CASE StartLine(w)
  <2> DEFINE e == body[w]
             part(form) == [body |-> e, prev |-> prev[w],
                            hash |-> wal_entry_hash(prev[w], e), form |-> form]
  <2>1. /\ e \in Entries /\ prev[w] \in Hashes /\ rotated' = rotated
        /\ "cut" \in Forms /\ "noeol" \in Forms /\ "joined" \in Forms
    BY <1>3 DEF StartLine, IInv, Busy, TypeOK, Forms
  <2>2. \A f \in Forms : part(f) \in Line
    BY <2>1 DEF Line, Hashes, wal_entry_hash
  <2>3. CASE /\ active # <<>> /\ active[Len(active)].form = "noeol"
             /\ active' = [active EXCEPT ![Len(active)].form = "joined"] /\ order' = order
    <3>1. /\ Len(active) \in 1 .. Len(active) /\ \A i \in 1 .. Len(active) : active[i] \in Line
          /\ [active[Len(active)] EXCEPT !.form = "joined"] \in Line
          /\ [active[Len(active)] EXCEPT !.form = "joined"].form = "joined"
      BY <1>a, <2>1, <2>3, ElementOfSeq, ReformLine
    <3>2. /\ Len(active') = Len(active) /\ active' \in Seq(Line)
          /\ \A i \in 1 .. Len(active) :
                active'[i] = IF i = Len(active) THEN [active[i] EXCEPT !.form = "joined"] ELSE active[i]
      BY <1>a, <2>3, <3>1, ExceptSeq
    <3>3. active' # <<>>
      BY <1>a, <2>3, <3>2, EmptySeq
    <3>4. \A i \in 1 .. Len(active') : Readable(active'[i]) =>
             i \in 1 .. Len(active) /\ Readable(active[i]) /\ active'[i].body = active[i].body
      BY <3>1, <3>2 DEF Readable
    <3>5. \A i \in 1 .. Len(active) : active[i].form \in {"line", "split", "joined"} =>
             i \in 1 .. Len(active') /\ active'[i] = active[i]
      BY <2>3, <3>2
    <3>6. QED
      BY <1>t, <2>1, <2>3, <3>3, <3>4, <3>5, ActiveStep
  <2>4. ASSUME NEW f \in Forms, active' = Append(active, part(f)),
               \/ f = "cut" /\ order' = order
               \/ f = "noeol" /\ order' = Append(order, e)
        PROVE  Grows /\ Kept
    <3>1. part(f) \in Line /\ part(f).form = f /\ part(f).body = e
      BY <2>2
    <3> HIDE DEF part
    <3>2. /\ Len(active') = Len(active) + 1 /\ active' # <<>>
          /\ \A i \in 1 .. Len(active) : active'[i] = active[i]
          /\ active'[Len(active) + 1] = part(f)
      BY <1>a, <2>4, <3>1, AppendProperties
    <3>3. \A i \in 1 .. Len(active') : Readable(active'[i]) =>
             \/ i \in 1 .. Len(active) /\ Readable(active[i]) /\ active'[i].body = active[i].body
             \/ i = Len(active') /\ active'[i].body = e /\ f # "cut"
      <4> SUFFICES ASSUME NEW i \in 1 .. Len(active'), Readable(active'[i])
                   PROVE  \/ i \in 1 .. Len(active) /\ Readable(active[i]) /\ active'[i].body = active[i].body
                          \/ i = Len(active') /\ active'[i].body = e /\ f # "cut"
        OBVIOUS
      <4>1. CASE i \in 1 .. Len(active)
        BY <3>2, <4>1
      <4>2. CASE i = Len(active) + 1
        BY <3>1, <3>2, <4>2 DEF Readable
      <4>3. QED
        BY <1>a, <3>2, <4>1, <4>2
    <3>4. \A i \in 1 .. Len(active) : i \in 1 .. Len(active') /\ active'[i] = active[i]
      BY <1>a, <3>2
    <3>5. CASE f = "cut" /\ order' = order
      BY <1>t, <2>1, <3>2, <3>3, <3>4, <3>5, ActiveStep
    <3>6. CASE f = "noeol" /\ order' = Append(order, e)
      BY <1>t, <2>1, <3>2, <3>3, <3>4, <3>6, ActiveStep
    <3>7. QED
      BY <2>4, <3>5, <3>6
  <2>5. QED
    <3>1. \/ /\ active # <<>> /\ active[Len(active)].form = "noeol"
             /\ active' = [active EXCEPT ![Len(active)].form = "joined"] /\ order' = order
          \/ active' = Append(active, part("cut")) /\ order' = order
          \/ active' = Append(active, part("noeol")) /\ order' = Append(order, e)
      BY <1>3 DEF StartLine
    <3> HIDE DEF part
    <3>2. QED
      BY <2>1, <2>3, <2>4, <3>1
<1>4. CASE FinishLine(w) /\ ~UNCHANGED <<active, order>>
  <2> DEFINE n == Len(active)
  <2>1. /\ active # <<>> /\ body[w] \in Entries /\ rotated' = rotated
        /\ active[n].form \in {"cut", "noeol"} /\ active[n].body = body[w]
    BY <1>4 DEF FinishLine, IInv, Busy, Recorded
  <2>2. PICK f \in {"split", "line"} :
           /\ active' = [active EXCEPT ![n].form = f]
           /\ f = "split" => order' = order
           /\ f = "line" =>
                 order' = IF active[n].form = "noeol" THEN order ELSE Append(order, body[w])
    BY <1>4, <2>1 DEF FinishLine
  <2>3. /\ n \in 1 .. n /\ active[n] \in Line /\ f \in Forms
        /\ [active[n] EXCEPT !.form = f] \in Line /\ [active[n] EXCEPT !.form = f].form = f
        /\ [active[n] EXCEPT !.form = f].body = active[n].body
    <3>1. n \in 1 .. n /\ f \in Forms
      BY <1>a, <2>1 DEF Forms
    <3>2. active[n] \in Line
      BY <1>a, <3>1, ElementOfSeq
    <3>3. QED
      BY <3>1, <3>2, ReformLine
  <2>4. /\ Len(active') = n /\ active' \in Seq(Line)
        /\ \A i \in 1 .. n :
              active'[i] = IF i = n THEN [active[i] EXCEPT !.form = f] ELSE active[i]
    <3> DEFINE line == [active[n] EXCEPT !.form = f]
    <3>1. active' = [active EXCEPT ![n] = line]
      BY <2>2
    <3>2. line \in Line
      BY <2>3
    <3>3. /\ Len(active') = n /\ active' \in Seq(Line)
          /\ \A i \in 1 .. n : active'[i] = IF i = n THEN line ELSE active[i]
      <4> HIDE DEF line
      <4>1. QED
        BY <1>a, <2>3, <3>1, <3>2, ExceptSeq
    <3>4. QED
      BY <3>3
  <2>5. active' # <<>>
    BY <1>a, <2>1, <2>4, EmptySeq
  <2>6. \A i \in 1 .. n : active'[i].body = active[i].body
    BY <2>3, <2>4
  <2>7. \A i \in 1 .. n : active[i].form \in {"line", "split", "joined"} =>
           i \in 1 .. Len(active') /\ active'[i] = active[i]
    BY <2>1, <2>4
  <2>8. \A i \in 1 .. n : i # n => active'[i] = active[i]
    BY <2>4
  <2>9. active'[n].form = f
    BY <2>3, <2>4
  <2>10. CASE f = "split" \/ active[n].form = "noeol"
    <3>1. order' = order
      BY <2>2, <2>10
    <3>2. \A i \in 1 .. n : Readable(active'[i]) => Readable(active[i])
      BY <2>8, <2>9, <2>10 DEF Readable
    <3>3. QED
      BY <1>t, <2>1, <2>4, <2>5, <2>6, <2>7, <3>1, <3>2, ActiveStep
  <2>11. CASE f = "line" /\ active[n].form = "cut"
    <3>1. order' = Append(order, body[w])
      BY <2>2, <2>11
    <3>2. \A i \in 1 .. n : Readable(active'[i]) => Readable(active[i]) \/ i = n
      BY <2>8
    <3>3. \A i \in 1 .. Len(active') : Readable(active'[i]) =>
             \/ i \in 1 .. Len(active) /\ Readable(active[i]) /\ active'[i].body = active[i].body
             \/ i = Len(active') /\ active'[i].body = body[w]
      BY <2>1, <2>4, <2>6, <3>2
    <3>4. QED
      BY <1>t, <2>1, <2>5, <2>7, <3>1, <3>3, ActiveStep
  <2>12. QED
    BY <2>1, <2>2, <2>10, <2>11
<1>5. QED
  <2>1. CASE FinishLine(w) /\ UNCHANGED <<active, order>>
    BY <1>1, <2>1 DEF FinishLine, files
  <2>2. CASE rotate_global_wal_if_needed(w) /\ UNCHANGED files
    BY <1>1, <2>2 DEF rotate_global_wal_if_needed, history
  <2>3. CASE Begin(w) \/ Lock(w) \/ HashEntry(w) \/ RefuseDamaged(w) \/ Return(w) \/ Interrupt(w)
    BY <1>1, <2>3 DEF Begin, Lock, HashEntry, RefuseDamaged, Return, Interrupt, history
  <2>4. QED
    BY <1>2, <1>3, <1>4, <2>1, <2>2, <2>3 DEF AppendStep

\* An entry that is on record stays on record.
LEMMA RecordKept ==
  ASSUME TypeOK, Kept, NEW e, OnRecord(e)
  PROVE  OnRecord(e)'
<1>1. Len(rotated) \in Nat
  BY LenProperties DEF TypeOK
<1>2. PICK k \in 1 .. Len(rotated) + 1 : \E i \in 1 .. Len(Segment(k)) :
         (Whole(k, i) /\ Segment(k)[i].body = e) \/ Joined(k, i)
  BY DEF OnRecord
<1>3. PICK i \in 1 .. Len(Segment(k)) : (Whole(k, i) /\ Segment(k)[i].body = e) \/ Joined(k, i)
  BY <1>2
<1>4. k \in 1 .. Len(rotated') + 1 /\ i \in 1 .. Len(Segment(k)') /\ Segment(k)'[i] = Segment(k)[i]
  BY <1>1, <1>2, <1>3 DEF Kept
<1>5. (Whole(k, i)' /\ Segment(k)'[i].body = e) \/ Joined(k, i)'
  BY <1>3, <1>4 DEF Whole, Joined
<1>6. QED
  BY <1>4, <1>5 DEF OnRecord

\* What an append returned for is on record, and nothing takes it off.
LEMMA RecordedStep ==
  ASSUME IInv, Recorded, NEW w \in Writers, AppendStep(w)
  PROVE  Recorded'
<1>a. /\ active \in Seq(Line) /\ Len(active) \in Nat /\ Len(rotated) \in Nat
      /\ active # <<>> => Len(active) \in Nat \ {0}
      /\ pc \in [Writers -> WriterPcs]
  BY LenProperties, EmptySeq DEF IInv, TypeOK, File
<1>t. TypeOK /\ TypeOK'
  BY AppendStepInv DEF IInv
<1>b. Kept /\ \A e : OnRecord(e) => OnRecord(e)'
  BY <1>t, AppendGrows, RecordKept
<1>c. \A v \in Writers \ {w} : pc'[v] = pc[v] /\ body'[v] = body[v]
  BY <1>t DEF TypeOK, AppendStep, Begin, Lock, rotate_global_wal_if_needed, HashEntry,
     RefuseDamaged, StartLine, FinishLine, Return, Interrupt
<1>1. \A e \in acked' : OnRecord(e)'
  <2>1. acked' = acked \/ (pc[w] = "written" /\ acked' = acked \cup {body[w]})
    BY DEF AppendStep, Begin, Lock, rotate_global_wal_if_needed, HashEntry,
       RefuseDamaged, StartLine, FinishLine, Return, Interrupt, history
  <2>2. QED
    BY <1>b, <2>1 DEF Recorded
<1>2. ASSUME NEW v \in Writers, pc'[v] = "flushing"
      PROVE  \/ active'[Len(active')].form = "joined"
             \/ /\ active'[Len(active')].form \in {"cut", "noeol"}
                /\ active'[Len(active')].body = body'[v]
  <2>1. CASE v = w
    <3>1. StartLine(w)
      BY <1>2, <1>a, <2>1 DEF AppendStep, Begin, Lock, rotate_global_wal_if_needed, HashEntry,
         RefuseDamaged, StartLine, FinishLine, Return, Interrupt, WriterPcs
    <3> DEFINE e == body[w]
               part(form) == [body |-> e, prev |-> prev[w],
                              hash |-> wal_entry_hash(prev[w], e), form |-> form]
    <3>2. /\ e \in Entries /\ prev[w] \in Hashes /\ body' = body
          /\ "cut" \in Forms /\ "noeol" \in Forms /\ "joined" \in Forms
      BY <3>1 DEF StartLine, IInv, Busy, TypeOK, Forms
    <3>3. \A f \in Forms : part(f) \in Line /\ part(f).form = f /\ part(f).body = e
      BY <3>2 DEF Line, Hashes, wal_entry_hash
    <3>4. CASE active # <<>> /\ active' = [active EXCEPT ![Len(active)].form = "joined"]
      <4> DEFINE line == [active[Len(active)] EXCEPT !.form = "joined"]
      <4>1. Len(active) \in 1 .. Len(active) /\ active[Len(active)] \in Line
        BY <1>a, <3>4, ElementOfSeq
      <4>2. line \in Line /\ line.form = "joined" /\ active' = [active EXCEPT ![Len(active)] = line]
        BY <3>2, <3>4, <4>1, ReformLine
      <4> HIDE DEF line
      <4>3. Len(active') = Len(active) /\ active'[Len(active)] = line
        BY <1>a, <4>1, <4>2, ExceptSeq
      <4>4. QED
        BY <4>2, <4>3
    <3>5. ASSUME NEW f \in {"cut", "noeol"}, active' = Append(active, part(f))
          PROVE  active'[Len(active')] = part(f)
      <4>1. part(f) \in Line
        BY <3>2, <3>3
      <4> HIDE DEF part
      <4>2. QED
        BY <1>a, <3>5, <4>1, AppendProperties
    <3>6. QED
      <4>1. \/ active # <<>> /\ active' = [active EXCEPT ![Len(active)].form = "joined"]
            \/ active' = Append(active, part("cut")) \/ active' = Append(active, part("noeol"))
        BY <3>1 DEF StartLine
      <4> HIDE DEF part
      <4>2. QED
        BY <2>1, <3>2, <3>3, <3>4, <3>5, <4>1
  <2>2. CASE v # w
    <3>1. pc[v] = "flushing" /\ pc[w] \notin Holding
      BY <1>2, <1>c, <2>2, HoldersAlone DEF IInv, Holding
    <3>2. active' = active
      BY <3>1 DEF AppendStep, Begin, Lock, rotate_global_wal_if_needed, HashEntry,
         RefuseDamaged, StartLine, FinishLine, Return, Interrupt, Holding, files
    <3>3. QED
      BY <1>c, <2>2, <3>1, <3>2 DEF Recorded
  <2>3. QED
    BY <2>1, <2>2
<1>3. ASSUME NEW v \in Writers, pc'[v] = "written" PROVE OnRecord(body[v])' /\ body'[v] = body[v]
  <2>1. CASE v = w
    <3>1. FinishLine(w)
      BY <1>3, <1>a, <2>1 DEF AppendStep, Begin, Lock, rotate_global_wal_if_needed, HashEntry,
         RefuseDamaged, StartLine, FinishLine, Return, Interrupt, WriterPcs
    <3> DEFINE n == Len(active)
    <3>2. /\ active # <<>> /\ rotated' = rotated /\ pc[w] = "flushing" /\ body' = body
          /\ n \in 1 .. n /\ active[n] \in Line
      BY <1>a, <3>1, ElementOfSeq DEF FinishLine, IInv, Busy
    <3>3. Segment(Len(rotated) + 1) = active
      BY <1>a DEF Segment
    <3>4. CASE active[n].form = "joined"
      <4>1. OnRecord(body[w])
        BY <1>a, <3>2, <3>3, <3>4 DEF OnRecord, Joined
      <4>2. QED
        BY <1>b, <2>1, <3>2, <4>1
    <3>5. CASE active[n].form # "joined"
      <4>1. active[n].body = body[w]
        BY <3>2, <3>5 DEF Recorded
      <4>2. PICK f \in {"split", "line"} : active' = [active EXCEPT ![n].form = f]
        BY <3>1, <3>5 DEF FinishLine
      <4> DEFINE line == [active[n] EXCEPT !.form = f]
      <4>3. f \in Forms
        BY DEF Forms
      <4>4. /\ line \in Line /\ line.form = f /\ line.body = body[w]
            /\ active' = [active EXCEPT ![n] = line]
        BY <3>2, <4>1, <4>2, <4>3, ReformLine
      <4> HIDE DEF line
      <4>5. Len(active') = n /\ active'[n] = line
        BY <1>a, <3>2, <4>4, ExceptSeq
      <4>6. Len(rotated) + 1 \in 1 .. Len(rotated') + 1 /\ Segment(Len(rotated) + 1)' = active'
        BY <1>a, <3>2 DEF Segment
      <4>7. OnRecord(body[w])'
        <5>1. (Whole(Len(rotated) + 1, n) /\ Segment(Len(rotated) + 1)[n].body = body[w])'
          BY <3>2, <4>4, <4>5, <4>6 DEF Whole
        <5>2. QED
          BY <3>2, <4>5, <4>6, <5>1 DEF OnRecord
      <4>8. QED
        BY <2>1, <3>2, <4>7
    <3>6. QED
      BY <3>4, <3>5
  <2>2. CASE v # w
    BY <1>3, <1>b, <1>c, <2>2 DEF Recorded
  <2>3. QED
    BY <2>1, <2>2
<1>4. QED
  BY <1>1, <1>2, <1>3 DEF Recorded

-----------------------------------------------------------------------------
(* The order in which entries become readable *)

\* What became readable before stays before.
LEMMA OrderKept ==
  ASSUME TypeOK, Grows
  PROVE  /\ \A x : Known(x) => Known(x)'
         /\ \A x, y : Precedes(x, y) => Precedes(x, y)'
<1>1. order' = order \/ \E e \in Entries : order' = Append(order, e)
  BY DEF Grows
<1>2. order \in Seq(Entries) /\ DOMAIN order = 1 .. Len(order) /\ Len(order) \in Nat
  BY LenProperties DEF TypeOK
<1>3. \A a \in DOMAIN order : a \in DOMAIN order' /\ order'[a] = order[a]
  <2>1. ASSUME NEW e \in Entries, order' = Append(order, e)
        PROVE  /\ order' \in Seq(Entries) /\ Len(order') = Len(order) + 1
               /\ \A a \in 1 .. Len(order) : order'[a] = order[a]
    BY <1>2, <2>1, AppendProperties
  <2>2. QED
    BY <1>1, <1>2, <2>1, LenProperties
<1>4. QED
  BY <1>3 DEF Known, Precedes

\* An entry that becomes readable comes after all that are known.
LEMMA NewIsLast ==
  ASSUME TypeOK, NEW e \in Entries, order' = Append(order, e)
  PROVE  Known(e)' /\ \A x : Known(x) => Precedes(x, e)'
<1>1. order \in Seq(Entries) /\ DOMAIN order = 1 .. Len(order) /\ Len(order) \in Nat
  BY LenProperties DEF TypeOK
<1>2. /\ order' \in Seq(Entries) /\ Len(order') = Len(order) + 1 /\ order'[Len(order) + 1] = e
      /\ \A a \in 1 .. Len(order) : order'[a] = order[a]
  BY <1>1, AppendProperties
<1>3. DOMAIN order' = 1 .. Len(order) + 1
  BY <1>2, LenProperties
<1>4. QED
  BY <1>1, <1>2, <1>3 DEF Known, Precedes

\* The ledger from first to last stays in the order of writing.
LEMMA OrderStep ==
  ASSUME TypeOK, TypeOK', WrittenInOrder, Grows
  PROVE  WrittenInOrder'
<1>1. Len(rotated) \in Nat /\ Len(rotated') \in Nat
      /\ \A k \in 1 .. Len(rotated') + 1 : Len(Segment(k)') \in Nat
  BY LenProperties, ElementOfSeq DEF TypeOK, File, Segment
<1> SUFFICES ASSUME NEW k \in 1 .. Len(rotated') + 1, NEW i \in 1 .. Len(Segment(k)'),
                    Readable(Segment(k)'[i])
             PROVE  /\ Known(Segment(k)[i].body)'
                    /\ \A l \in k .. Len(rotated') + 1 : \A j \in 1 .. Len(Segment(l)') :
                          Readable(Segment(l)'[j]) /\ (k < l \/ i < j) =>
                              Precedes(Segment(k)[i].body, Segment(l)[j].body)'
  BY DEF WrittenInOrder
<1>2. WasReadable(k, i) => Known(Segment(k)'[i].body)
  BY DEF WasReadable, WrittenInOrder
<1>3. ASSUME NEW l \in k .. Len(rotated') + 1, NEW j \in 1 .. Len(Segment(l)'),
             WasReadable(k, i), WasReadable(l, j), k < l \/ i < j
      PROVE  Precedes(Segment(k)'[i].body, Segment(l)'[j].body)
  <2>1. l \in k .. Len(rotated) + 1
    BY <1>1, <1>3 DEF WasReadable
  <2>2. QED
    BY <1>3, <2>1 DEF WasReadable, WrittenInOrder
<1>4. CASE /\ order' = order
           /\ \A l \in 1 .. Len(rotated') + 1 : \A j \in 1 .. Len(Segment(l)') :
                 Readable(Segment(l)'[j]) => WasReadable(l, j)
  <2>1. \A l \in k .. Len(rotated') + 1 : l \in 1 .. Len(rotated') + 1
    BY <1>1
  <2>2. QED
    BY <1>2, <1>3, <1>4, <2>1, OrderKept
<1>5. ASSUME NEW e \in Entries, order' = Append(order, e),
             \A l \in 1 .. Len(rotated') + 1 : \A j \in 1 .. Len(Segment(l)') :
                Readable(Segment(l)'[j]) =>
                   \/ WasReadable(l, j)
                   \/ l = Len(rotated') + 1 /\ j = Len(Segment(l)') /\ Segment(l)'[j].body = e
      PROVE  /\ Known(Segment(k)[i].body)'
             /\ \A l \in k .. Len(rotated') + 1 : \A j \in 1 .. Len(Segment(l)') :
                   Readable(Segment(l)'[j]) /\ (k < l \/ i < j) =>
                       Precedes(Segment(k)[i].body, Segment(l)[j].body)'
  <2>1. Known(Segment(k)[i].body)'
    BY <1>2, <1>5, OrderKept, NewIsLast
  <2>2. ASSUME NEW l \in k .. Len(rotated') + 1, NEW j \in 1 .. Len(Segment(l)'),
               Readable(Segment(l)'[j]), k < l \/ i < j
        PROVE  Precedes(Segment(k)[i].body, Segment(l)[j].body)'
    <3>1. l \in 1 .. Len(rotated') + 1
      BY <1>1
    <3>2. WasReadable(k, i)
      <4>1. CASE k < l
        BY SMTT(60), <1>1, <1>5, <4>1
      <4>2. CASE k = l /\ i < j
        BY <1>1, <1>5, <4>2
      <4>3. QED
        BY <1>1, <2>2, <4>1, <4>2
    <3>3. CASE WasReadable(l, j)
      BY <1>3, <2>2, <3>2, <3>3, OrderKept
    <3>4. CASE Segment(l)'[j].body = e
      BY <1>2, <1>5, <3>2, <3>4, NewIsLast
    <3>5. QED
      BY <1>5, <2>2, <3>1, <3>3, <3>4
  <2>3. QED
    BY <2>1, <2>2
<1>6. QED
  BY <1>4, <1>5 DEF Grows

-----------------------------------------------------------------------------
(* Reading without the lock *)

\* An append under a reader keeps what the reader has and what it can still get.
LEMMA ReadingKept ==
  ASSUME TypeOK, TypeOK', Grows, UNCHANGED readers, acked \subseteq acked',
         NEW r \in Readers, Reading(r), globbed[r] <= Len(rotated)
  PROVE  Reading(r)'
<1> USE DEF readers
<1>1. /\ Len(rotated) \in Nat /\ Len(rotated') \in Nat /\ next[r] \in Nat \ {0} /\ globbed[r] \in Nat
      /\ Len(rotated) <= Len(rotated')
      /\ \A k \in 1 .. Len(rotated) : rotated'[k] = rotated[k]
      /\ \A k \in 1 .. Len(rotated') + 1 : Len(Segment(k)') \in Nat
  BY SMTT(60), LenProperties, ElementOfSeq DEF TypeOK, File, Segment, Grows
<1>2. Got(r)' = Got(r)
  BY DEF Got
<1>3. rpc[r] # "failed" =>
         /\ \A i \in DOMAIN result[r] :
               /\ Known(result[r][i])'
               /\ \A j \in DOMAIN result[r] : i < j => Precedes(result[r][i], result[r][j])'
         /\ \A k \in 1 .. next[r] - 1 :
               /\ SegmentValid(rotated'[k])
               /\ \A i \in 1 .. Len(rotated'[k]) : rotated'[k][i].body \in Got(r)
  <2>1. \A k \in 1 .. next[r] - 1 : k \in 1 .. Len(rotated)
    BY <1>1 DEF Reading
  <2>2. QED
    BY <1>1, <2>1, OrderKept DEF Reading
<1>4. ASSUME rpc[r] \in {"rotated", "opening"}, NEW x \in Got(r),
             NEW k \in next[r] .. Len(rotated') + 1, NEW i \in 1 .. Len(Segment(k)'),
             Readable(Segment(k)'[i])
      PROVE  Precedes(x, Segment(k)[i].body)'
  <2>1. k \in 1 .. Len(rotated') + 1
    BY <1>1
  <2>2. CASE WasReadable(k, i)
    <3>1. Precedes(x, Segment(k)[i].body) /\ Segment(k)'[i].body = Segment(k)[i].body
      BY <1>1, <1>4, <2>2 DEF WasReadable, Reading
    <3>2. QED
      BY <3>1, OrderKept
  <2>3. ASSUME NEW e \in Entries, order' = Append(order, e), Segment(k)'[i].body = e
        PROVE  Precedes(x, Segment(k)[i].body)'
    <3>1. Known(x)
      BY <1>4 DEF Reading, Got
    <3>2. QED
      BY <2>3, <3>1, NewIsLast
  <2>4. QED
    BY <1>4, <2>1, <2>2, <2>3 DEF Grows
<1>5. rpc[r] = "opening" => next[r] = globbed[r] + 1 /\ (Len(rotated') = globbed[r] => active' # <<>>)
  BY <1>1 DEF Reading, Grows
<1>6. rpc[r] = "done" => before[r] \subseteq Got(r) \/ Len(rotated') > globbed[r]
  BY <1>1 DEF Reading
<1>7. /\ next[r] <= globbed[r] + 1 /\ before[r] \subseteq acked'
      /\ rpc[r] = "idle" => result[r] = <<>> /\ next[r] = 1
  BY DEF Reading
<1>8. QED
  BY <1>2, <1>3, <1>4, <1>5, <1>6, <1>7 DEF Reading

\* What reading one more segment adds to a reader's entries.
More(s, file, t) ==
    /\ t \in Seq(Entries)
    /\ Len(s) \in Nat /\ DOMAIN s = 1 .. Len(s) /\ Len(file) \in Nat /\ DOMAIN file = 1 .. Len(file)
    /\ DOMAIN t = 1 .. Len(s) + Len(file)
    /\ \A i \in 1 .. Len(s) : t[i] = s[i]
    /\ \A i \in 1 .. Len(file) : t[Len(s) + i] = file[i].body

LEMMA GotMore ==
  ASSUME NEW s \in Seq(Entries), NEW file \in File, NEW t, t = s \o Bodies(file)
  PROVE  More(s, file, t)
<1>1. Len(file) \in Nat /\ DOMAIN file = 1 .. Len(file)
  BY LenProperties DEF File
<1>2. Bodies(file) \in Seq(Entries) /\ Bodies(file) = [i \in 1 .. Len(file) |-> file[i].body]
  BY <1>1, BodiesType DEF Bodies
<1>3. Len(Bodies(file)) = Len(file)
  BY <1>1, <1>2, LenProperties
<1>4. Len(s) \in Nat /\ DOMAIN s = 1 .. Len(s)
  BY LenProperties
<1>5. /\ t \in Seq(Entries) /\ Len(t) = Len(s) + Len(file)
      /\ \A i \in 1 .. Len(s) + Len(file) :
            t[i] = IF i <= Len(s) THEN s[i] ELSE Bodies(file)[i - Len(s)]
  BY <1>2, <1>3, ConcatProperties
<1>6. DOMAIN t = 1 .. Len(s) + Len(file)
  BY <1>5, LenProperties
<1>7. \A i \in 1 .. Len(s) : t[i] = s[i]
  BY <1>1, <1>4, <1>5
<1>8. ASSUME NEW i \in 1 .. Len(file) PROVE t[Len(s) + i] = file[i].body
  <2>1. Len(s) + i \in 1 .. Len(s) + Len(file) /\ ~(Len(s) + i <= Len(s)) /\ Len(s) + i - Len(s) = i
    BY <1>1, <1>4
  <2>2. t[Len(s) + i] = Bodies(file)[i]
    BY <1>5, <2>1
  <2>3. QED
    BY <1>2, <2>2
<1>9. QED
  BY <1>1, <1>4, <1>5, <1>6, <1>7, <1>8 DEF More

\* The segment a reader reads next, valid, goes on in order where it was.
LEMMA GotInOrder ==
  ASSUME TypeOK, WrittenInOrder, NEW r \in Readers, Reading(r),
         rpc[r] \in {"rotated", "opening"},
         NEW k \in next[r] .. Len(rotated) + 1, SegmentValid(Segment(k)),
         result'[r] = result[r] \o Bodies(Segment(k))
  PROVE  /\ \A i \in DOMAIN result'[r] :
               /\ Known(result'[r][i])
               /\ \A j \in DOMAIN result'[r] : i < j => Precedes(result'[r][i], result'[r][j])
         /\ Got(r)' = Got(r) \cup {Segment(k)[i].body : i \in 1 .. Len(Segment(k))}
         /\ \A l \in k + 1 .. Len(rotated) + 1 : \A j \in 1 .. Len(Segment(l)) :
               Readable(Segment(l)[j]) => \A x \in Got(r)' : Precedes(x, Segment(l)[j].body)
<1> DEFINE n == Len(result[r])
           m == Len(Segment(k))
<1>1. Len(rotated) \in Nat /\ next[r] \in Nat \ {0} /\ k \in 1 .. Len(rotated) + 1
      /\ k \in Nat /\ Segment(k) \in File /\ result[r] \in Seq(Entries)
  BY LenProperties, ElementOfSeq DEF TypeOK, Segment
<1>2. /\ n \in Nat /\ m \in Nat /\ DOMAIN result[r] = 1 .. n /\ DOMAIN Segment(k) = 1 .. m
      /\ DOMAIN result'[r] = 1 .. n + m
      /\ \A i \in 1 .. n : result'[r][i] = result[r][i]
      /\ \A i \in 1 .. m : result'[r][n + i] = Segment(k)[i].body
  <2> DEFINE had == result[r]
             file == Segment(k)
             has == result'[r]
  <2>1. had \in Seq(Entries) /\ file \in File /\ has = had \o Bodies(file)
    BY <1>1
  <2> HIDE DEF had, file, has
  <2>2. More(had, file, has)
    BY <2>1, GotMore
  <2>3. QED
    BY <2>2 DEF More, had, file, has
<1>3. \A i \in 1 .. m : Readable(Segment(k)[i])
  BY <1>2 DEF SegmentValid
<1>4. \A i \in 1 .. m : Known(Segment(k)[i].body)
  BY <1>1, <1>3 DEF WrittenInOrder
<1>5. ASSUME NEW i \in 1 .. m, NEW j \in 1 .. m, i < j
      PROVE  Precedes(Segment(k)[i].body, Segment(k)[j].body)
  BY <1>1, <1>3, <1>5 DEF WrittenInOrder
<1>6. ASSUME NEW i \in 1 .. n, NEW j \in 1 .. m
      PROVE  Precedes(result[r][i], Segment(k)[j].body)
  BY <1>2, <1>3 DEF Reading, Got
<1>7. \A i \in 1 .. n + m : i \in 1 .. n \/ \E p \in 1 .. m : i = n + p
  <2> SUFFICES ASSUME NEW i \in 1 .. n + m, i \notin 1 .. n
               PROVE  \E p \in 1 .. m : i = n + p
    OBVIOUS
  <2>1. i - n \in 1 .. m /\ i = n + (i - n)
    BY <1>2
  <2>2. QED
    BY <2>1
<1>8. ASSUME NEW i \in DOMAIN result'[r]
      PROVE  /\ Known(result'[r][i])
             /\ \A j \in DOMAIN result'[r] : i < j => Precedes(result'[r][i], result'[r][j])
  <2>1. CASE i \in 1 .. n
    <3>1. Known(result[r][i]) /\ \A j \in 1 .. n : i < j => Precedes(result[r][i], result[r][j])
      BY <1>2, <2>1 DEF Reading
    <3>2. ASSUME NEW j \in DOMAIN result'[r], i < j
          PROVE  Precedes(result'[r][i], result'[r][j])
      <4>1. CASE j \in 1 .. n
        BY <1>2, <2>1, <3>1, <3>2, <4>1
      <4>2. ASSUME NEW q \in 1 .. m, j = n + q
            PROVE  Precedes(result'[r][i], result'[r][j])
        BY <1>2, <1>6, <2>1, <4>2
      <4>3. QED
        BY <1>2, <1>7, <4>1, <4>2
    <3>3. QED
      BY <1>2, <2>1, <3>1, <3>2
  <2>2. ASSUME NEW p \in 1 .. m, i = n + p
        PROVE  /\ Known(result'[r][i])
               /\ \A j \in DOMAIN result'[r] : i < j => Precedes(result'[r][i], result'[r][j])
    <3>1. ASSUME NEW j \in DOMAIN result'[r], i < j
          PROVE  Precedes(result'[r][i], result'[r][j])
      <4>1. PICK q \in 1 .. m : j = n + q
        BY SMTT(60), <1>2, <1>7, <2>2, <3>1
      <4>2. p < q
        BY <1>2, <2>2, <3>1, <4>1
      <4>3. QED
        BY <1>2, <1>5, <2>2, <4>1, <4>2
    <3>2. QED
      BY <1>2, <1>4, <2>2, <3>1
  <2>3. QED
    BY <1>2, <1>7, <2>1, <2>2
<1>9. Got(r)' = Got(r) \cup {Segment(k)[i].body : i \in 1 .. m}
  <2>1. ASSUME NEW i \in 1 .. m PROVE Segment(k)[i].body \in Got(r)'
    <3>1. n + i \in DOMAIN result'[r]
      BY <1>2
    <3>2. QED
      BY <1>2, <3>1 DEF Got
  <2>2. Got(r) \subseteq Got(r)'
    BY <1>2 DEF Got
  <2>3. Got(r)' \subseteq Got(r) \cup {Segment(k)[i].body : i \in 1 .. m}
    <3> SUFFICES ASSUME NEW i \in DOMAIN result'[r]
                 PROVE  result'[r][i] \in Got(r) \cup {Segment(k)[j].body : j \in 1 .. m}
      BY DEF Got
    <3>1. CASE i \in 1 .. n
      BY <1>2, <3>1 DEF Got
    <3>2. ASSUME NEW p \in 1 .. m, i = n + p
          PROVE  result'[r][i] \in {Segment(k)[j].body : j \in 1 .. m}
      BY <1>2, <3>2
    <3>3. QED
      BY <1>2, <1>7, <3>1, <3>2
  <2>4. QED
    BY <2>1, <2>2, <2>3
<1>10. ASSUME NEW l \in k + 1 .. Len(rotated) + 1, NEW j \in 1 .. Len(Segment(l)),
              Readable(Segment(l)[j]), NEW x \in Got(r)'
       PROVE  Precedes(x, Segment(l)[j].body)
  <2>1. l \in next[r] .. Len(rotated) + 1 /\ l \in k .. Len(rotated) + 1 /\ k < l
    BY <1>1
  <2>2. CASE x \in Got(r)
    BY <1>10, <2>1, <2>2 DEF Reading
  <2>3. ASSUME NEW i \in 1 .. m, x = Segment(k)[i].body
        PROVE  Precedes(x, Segment(l)[j].body)
    BY <1>1, <1>3, <1>10, <2>1, <2>3 DEF WrittenInOrder
  <2>4. QED
    BY <1>9, <2>2, <2>3
<1>11. QED
  BY <1>8, <1>9, <1>10

\* A read that went through every segment without an error has everything that was
\* acknowledged before it began.
LEMMA CompleteRead ==
  ASSUME TypeOK, Recorded, NEW r \in Readers, Reading(r), NEW got,
         \A k \in 1 .. Len(rotated) + 1 :
            SegmentValid(Segment(k)) /\ \A i \in 1 .. Len(Segment(k)) : Segment(k)[i].body \in got
  PROVE  before[r] \subseteq got
<1> SUFFICES ASSUME NEW e \in before[r]
             PROVE  e \in got
  OBVIOUS
<1>1. OnRecord(e)
  BY DEF Reading, Recorded
<1>2. PICK k \in 1 .. Len(rotated) + 1 : \E i \in 1 .. Len(Segment(k)) :
         (Whole(k, i) /\ Segment(k)[i].body = e) \/ Joined(k, i)
  BY <1>1 DEF OnRecord
<1>3. PICK i \in 1 .. Len(Segment(k)) : (Whole(k, i) /\ Segment(k)[i].body = e) \/ Joined(k, i)
  BY <1>2
<1>4. DOMAIN Segment(k) = 1 .. Len(Segment(k))
  <2>1. Segment(k) \in File
    BY LenProperties, ElementOfSeq DEF TypeOK, Segment
  <2>2. QED
    BY <2>1, LenProperties DEF File
<1>5. Readable(Segment(k)[i])
  BY <1>3, <1>4 DEF SegmentValid
<1>6. QED
  BY <1>3, <1>5 DEF Whole, Joined, Readable

\* Every step of a reader keeps what is known of the readers.
LEMMA ReadKeeps ==
  ASSUME IInv, LedgerInv, NEW r \in Readers, ReadStep(r), NEW s \in Readers
  PROVE  Reading(s)'
<1> DEFINE z == Len(rotated)
<1>1. /\ UNCHANGED <<files, writers, history>>
      /\ \A d \in Readers \ {r} :
            /\ rpc'[d] = rpc[d] /\ globbed'[d] = globbed[d] /\ next'[d] = next[d]
            /\ result'[d] = result[d] /\ before'[d] = before[d]
  BY SMTT(60) DEF ReadStep, global_wal_paths, ReadRotated, FindActive, ReadActive, IInv, TypeOK
<1>2. TypeOK /\ WrittenInOrder /\ Recorded /\ Reading(r) /\ globbed[r] <= z
  BY DEF IInv, LedgerInv, ReadersBehind
<1>3. /\ z \in Nat /\ globbed[r] \in Nat /\ next[r] \in Nat \ {0}
      /\ Segment(z + 1) = active /\ \A k \in 1 .. z : Segment(k) = rotated[k]
      /\ \A k \in 1 .. z + 1 : Segment(k) \in File /\ Len(Segment(k)) \in Nat
  BY <1>2, LenProperties, ElementOfSeq DEF TypeOK, File, Segment
<1>4. /\ UNCHANGED <<rotated, active, acked, order>> /\ \A k : Segment(k)' = Segment(k)
      /\ \A x : Known(x)' = Known(x) /\ \A y : Precedes(x, y)' = Precedes(x, y)
  BY <1>1 DEF files, history, Segment, Known, Precedes
<1>5. CASE s # r
  <2>1. Reading(s)
    BY DEF LedgerInv
  <2>2. Got(s)' = Got(s)
    BY <1>1, <1>5 DEF Got
  <2>3. QED
    BY <1>1, <1>4, <1>5, <2>1, <2>2 DEF Reading
<1>6. CASE s = r /\ global_wal_paths(r)
  <2>1. /\ rpc[r] = "idle" /\ globbed'[r] = z /\ before'[r] = acked /\ rpc'[r] = "rotated"
        /\ next' = next /\ result' = result
    BY <1>6 DEF global_wal_paths, IInv, TypeOK
  <2>2. result[r] = <<>> /\ next[r] = 1
    BY <1>2, <2>1 DEF Reading
  <2>3. DOMAIN result[r] = {} /\ Got(r)' = {}
    BY <2>1, <2>2, EmptySeq DEF Got
  <2>4. QED
    BY <1>3, <1>4, <1>6, <2>1, <2>2, <2>3 DEF Reading
<1>7. CASE s = r /\ ReadRotated(r)
  <2>1. /\ rpc[r] = "rotated" /\ next[r] <= globbed[r] /\ next[r] \in 1 .. z
        /\ globbed'[r] = globbed[r] /\ before'[r] = before[r]
    BY <1>2, <1>3, <1>7 DEF ReadRotated
  <2>2. CASE rpc'[r] = "failed"
    <3>1. result' = result /\ next' = next
      BY <1>2, <1>7, <2>1, <2>2 DEF ReadRotated
    <3>2. QED
      BY <1>2, <1>4, <1>7, <2>1, <2>2, <3>1 DEF Reading
  <2>3. CASE rpc'[r] # "failed"
    <3>1. /\ SegmentValid(rotated[next[r]]) /\ rpc'[r] = "rotated" /\ next'[r] = next[r] + 1
          /\ result'[r] = result[r] \o Bodies(rotated[next[r]])
      BY <1>2, <1>7, <2>1, <2>3 DEF ReadRotated, TypeOK
    <3> DEFINE k == next[r]
    <3>2. k \in next[r] .. z + 1 /\ Segment(k) = rotated[k]
      BY <1>3, <2>1
    <3>3. /\ \A i \in DOMAIN result'[r] :
                /\ Known(result'[r][i])
                /\ \A j \in DOMAIN result'[r] : i < j => Precedes(result'[r][i], result'[r][j])
          /\ Got(r)' = Got(r) \cup {Segment(k)[i].body : i \in 1 .. Len(Segment(k))}
          /\ \A l \in k + 1 .. z + 1 : \A j \in 1 .. Len(Segment(l)) :
                Readable(Segment(l)[j]) => \A x \in Got(r)' : Precedes(x, Segment(l)[j].body)
      BY <1>2, <2>1, <3>1, <3>2, GotInOrder
    <3>4. ASSUME NEW l \in 1 .. next'[r] - 1
          PROVE  SegmentValid(rotated[l]) /\ \A i \in 1 .. Len(rotated[l]) : rotated[l][i].body \in Got(r)'
      <4>1. CASE l = k
        BY <3>1, <3>2, <3>3, <4>1
      <4>2. CASE l # k
        <5>1. l \in 1 .. next[r] - 1
          BY <1>3, <3>1, <4>2
        <5>2. QED
          BY <1>2, <2>1, <3>3, <5>1 DEF Reading
      <4>3. QED
        BY <4>1, <4>2
    <3>5. next'[r] <= globbed[r] + 1 /\ before[r] \subseteq acked
      BY <1>2, <1>3, <2>1, <3>1 DEF Reading
    <3>6. QED
      BY ZenonT(60), <1>4, <1>7, <2>1, <3>1, <3>3, <3>4, <3>5 DEF Reading
  <2>4. QED
    BY <2>2, <2>3
<1>8. CASE s = r /\ FindActive(r)
  <2>1. /\ rpc[r] = "rotated" /\ next[r] = globbed[r] + 1
        /\ rpc'[r] = IF active = <<>> THEN "done" ELSE "opening"
        /\ UNCHANGED <<globbed, next, result, before>>
    BY <1>2, <1>3, <1>8 DEF FindActive, Reading, TypeOK
  <2>2. Got(r)' = Got(r)
    BY <2>1 DEF Got
  <2>3. ASSUME active = <<>>, z = globbed[r] PROVE before[r] \subseteq Got(r)
    <3>1. ASSUME NEW k \in 1 .. z + 1
          PROVE  SegmentValid(Segment(k)) /\ \A i \in 1 .. Len(Segment(k)) : Segment(k)[i].body \in Got(r)
      <4>1. CASE k = z + 1
        <5>1. Segment(k) = <<>> /\ Len(<<>>) = 0 /\ DOMAIN <<>> = {}
          BY <1>3, <2>3, <4>1, EmptySeq
        <5>2. QED
          BY <5>1 DEF SegmentValid
      <4>2. CASE k # z + 1
        <5>1. k \in 1 .. next[r] - 1 /\ Segment(k) = rotated[k]
          BY <1>3, <2>1, <2>3, <4>2
        <5>2. QED
          BY <1>2, <2>1, <5>1 DEF Reading
      <4>3. QED
        BY <4>1, <4>2
    <3>2. QED
      BY <1>2, <3>1, CompleteRead
  <2>4. active = <<>> => before[r] \subseteq Got(r) \/ z > globbed[r]
    BY <1>2, <1>3, <2>3
  <2>5. QED
    BY <1>2, <1>4, <1>8, <2>1, <2>2, <2>4 DEF Reading
<1>9. CASE s = r /\ ReadActive(r)
  <2>1. /\ rpc[r] = "opening" /\ UNCHANGED <<globbed, next, before>>
        /\ next[r] = globbed[r] + 1 /\ (z = globbed[r] => active # <<>>)
    BY <1>2, <1>9 DEF ReadActive, Reading
  <2>2. CASE result' = result /\ rpc'[r] = "failed"
    BY <1>2, <1>4, <1>9, <2>1, <2>2 DEF Reading
  <2>3. CASE result' = result /\ rpc'[r] = "done" /\ active = <<>>
    <3>1. z > globbed[r] /\ Got(r)' = Got(r)
      BY <1>2, <1>3, <2>1, <2>3 DEF Got
    <3>2. QED
      BY <1>2, <1>4, <1>9, <2>1, <2>3, <3>1 DEF Reading
  <2>4. CASE SegmentValid(active) /\ result'[r] = result[r] \o Bodies(active) /\ rpc'[r] = "done"
    <3>1. z + 1 \in next[r] .. z + 1
      BY <1>2, <1>3, <2>1
    <3>2. /\ \A i \in DOMAIN result'[r] :
                /\ Known(result'[r][i])
                /\ \A j \in DOMAIN result'[r] : i < j => Precedes(result'[r][i], result'[r][j])
          /\ Got(r)' = Got(r) \cup {active[i].body : i \in 1 .. Len(active)}
      <4> DEFINE k == z + 1
      <4>1. k \in next[r] .. Len(rotated) + 1 /\ Segment(k) = active
        BY <1>3, <3>1
      <4>2. SegmentValid(Segment(k)) /\ result'[r] = result[r] \o Bodies(Segment(k))
        BY <2>4, <4>1
      <4>3. rpc[r] \in {"rotated", "opening"}
        BY <2>1
      <4> HIDE DEF k
      <4>4. /\ \A i \in DOMAIN result'[r] :
                  /\ Known(result'[r][i])
                  /\ \A j \in DOMAIN result'[r] : i < j => Precedes(result'[r][i], result'[r][j])
            /\ Got(r)' = Got(r) \cup {Segment(k)[i].body : i \in 1 .. Len(Segment(k))}
        BY <1>2, <4>1, <4>2, <4>3, GotInOrder
      <4>5. QED
        BY <4>1, <4>4
    <3>3. ASSUME z = globbed[r] PROVE before[r] \subseteq Got(r)'
      <4>1. ASSUME NEW k \in 1 .. z + 1
            PROVE  /\ SegmentValid(Segment(k))
                   /\ \A i \in 1 .. Len(Segment(k)) : Segment(k)[i].body \in Got(r)'
        <5>1. CASE k = z + 1
          BY <1>3, <2>4, <3>2, <5>1
        <5>2. CASE k # z + 1
          <6>1. k \in 1 .. next[r] - 1 /\ Segment(k) = rotated[k]
            BY <1>3, <2>1, <3>3, <5>2
          <6>2. QED
            BY <1>2, <2>1, <3>2, <6>1 DEF Reading
        <5>3. QED
          BY <5>1, <5>2
      <4> DEFINE got == Got(r)'
      <4> HIDE DEF got
      <4>2. \A k \in 1 .. Len(rotated) + 1 :
               SegmentValid(Segment(k)) /\ \A i \in 1 .. Len(Segment(k)) : Segment(k)[i].body \in got
        BY <4>1 DEF got
      <4>3. before[r] \subseteq got
        BY <1>2, <4>2, CompleteRead
      <4>4. QED
        BY <4>3 DEF got
    <3>4. before[r] \subseteq Got(r)' \/ z > globbed[r]
      BY <1>2, <1>3, <3>3
    <3>5. \A k \in 1 .. next[r] - 1 :
             SegmentValid(rotated[k]) /\ \A i \in 1 .. Len(rotated[k]) : rotated[k][i].body \in Got(r)'
      BY <1>2, <2>1, <3>2 DEF Reading
    <3>6. next[r] <= globbed[r] + 1 /\ before[r] \subseteq acked
      BY <1>2 DEF Reading
    <3>7. QED
      BY ZenonT(60), <1>4, <1>9, <2>1, <2>4, <3>2, <3>4, <3>5, <3>6 DEF Reading
  <2>5. QED
    BY <1>2, <1>9, <2>2, <2>3, <2>4 DEF ReadActive, TypeOK
<1>10. QED
  BY <1>5, <1>6, <1>7, <1>8, <1>9 DEF ReadStep

-----------------------------------------------------------------------------
(* The ledger loses nothing silently, and reads are faithful *)

\* Before the first append nothing is acknowledged and nobody reads.
LEMMA InitLedger == Init => LedgerInv
<1> SUFFICES ASSUME Init PROVE LedgerInv
  OBVIOUS
<1>1. Len(<<>>) = 0 /\ DOMAIN <<>> = {}
  BY EmptySeq
<1>2. \A k \in 1 .. Len(rotated) + 1 : Segment(k) = <<>>
  BY <1>1 DEF Init, Segment
<1>3. Recorded
  BY DEF Init, Recorded
<1>4. WrittenInOrder
  BY <1>1, <1>2 DEF WrittenInOrder
<1>5. ASSUME NEW r \in Readers PROVE Reading(r)
  <2>1. rpc[r] = "idle" /\ next[r] = 1 /\ result[r] = <<>> /\ before[r] = {} /\ globbed[r] = 0
    BY DEF Init
  <2>2. QED
    BY <1>1, <2>1 DEF Reading
<1>6. QED
  BY <1>3, <1>4, <1>5 DEF LedgerInv

\* Every step keeps what is acknowledged on record and what is read in order.
LEMMA LedgerStep ==
  ASSUME IInv, IInv', LedgerInv, [Next]_vars
  PROVE  LedgerInv'
<1>1. ASSUME NEW w \in Writers, AppendStep(w) PROVE LedgerInv'
  <2>1. Grows /\ Recorded'
    BY <1>1, AppendGrows, RecordedStep DEF LedgerInv
  <2>2. WrittenInOrder'
    BY <2>1, OrderStep DEF IInv, LedgerInv
  <2>3. UNCHANGED readers /\ acked \subseteq acked'
    BY <1>1 DEF AppendStep, Begin, Lock, rotate_global_wal_if_needed, HashEntry,
       RefuseDamaged, StartLine, FinishLine, Return, Interrupt, history
  <2>4. \A r \in Readers : Reading(r)'
    BY <2>1, <2>3, ReadingKept DEF IInv, LedgerInv, ReadersBehind
  <2>5. QED
    BY <2>1, <2>2, <2>4 DEF LedgerInv
<1>2. ASSUME NEW r \in Readers, ReadStep(r) PROVE LedgerInv'
  <2>1. UNCHANGED <<files, writers, history>>
    BY <1>2 DEF ReadStep, global_wal_paths, ReadRotated, FindActive, ReadActive
  <2>2. Recorded' /\ WrittenInOrder'
    BY <2>1 DEF files, writers, history, LedgerInv, Recorded, WrittenInOrder, OnRecord, Whole,
       Joined, Segment, Known, Precedes
  <2>3. \A s \in Readers : Reading(s)'
    BY <1>2, ReadKeeps
  <2>4. QED
    BY <2>2, <2>3 DEF LedgerInv
<1>3. CASE UNCHANGED vars
  <2> USE <1>3 DEF vars, files, writers, readers, history
  <2>1. /\ \A k : Segment(k)' = Segment(k)
        /\ \A x : Known(x)' = Known(x) /\ \A y : Precedes(x, y)' = Precedes(x, y)
    BY DEF Segment, Known, Precedes
  <2>2. Recorded'
    BY SMTT(60), <2>1 DEF LedgerInv, Recorded, OnRecord, Whole, Joined
  <2>3. WrittenInOrder'
    BY SMTT(60), <2>1 DEF LedgerInv, WrittenInOrder
  <2>4. ASSUME NEW r \in Readers PROVE Reading(r)'
    <3>1. Got(r)' = Got(r)
      BY DEF Got
    <3>2. Reading(r)
      BY DEF LedgerInv
    <3>3. QED
      BY <2>1, <3>1, <3>2 DEF Reading
  <2>5. QED
    BY <2>2, <2>3, <2>4 DEF LedgerInv
<1>4. QED
  BY <1>1, <1>2, <1>3 DEF Next

\* What is acknowledged stays on record, and readers read in order, in every state.
THEOREM LedgerInvariance == Spec => []LedgerInv
<1>1. IInv /\ LedgerInv /\ [Next]_vars => LedgerInv'
  BY NextInv, LedgerStep
<1>2. QED
  BY <1>1, InitLedger, Invariance, PTL DEF Spec

\* An append that returned is on a whole line of some segment, or the damage that
\* swallowed it is there for every validated read to fail on.
THEOREM NothingIsLostSilently == Spec => []NoSilentLoss
<1>1. IInv /\ LedgerInv => NoSilentLoss
  <2> SUFFICES ASSUME IInv, LedgerInv, NEW e \in acked
               PROVE  \/ \E file \in Segments : \E i \in DOMAIN file :
                            file[i].body = e /\ file[i].form \in {"line", "split"}
                      \/ \E file \in Segments : \E i \in DOMAIN file : file[i].form = "joined"
    BY DEF NoSilentLoss
  <2>1. OnRecord(e)
    BY DEF LedgerInv, Recorded
  <2>2. PICK k \in 1 .. Len(rotated) + 1 : \E i \in 1 .. Len(Segment(k)) :
           (Whole(k, i) /\ Segment(k)[i].body = e) \/ Joined(k, i)
    BY <2>1 DEF OnRecord
  <2>3. PICK i \in 1 .. Len(Segment(k)) : (Whole(k, i) /\ Segment(k)[i].body = e) \/ Joined(k, i)
    BY <2>2
  <2>4. Segment(k) \in Segments /\ Segment(k) \in File
    BY LenProperties, ElementOfSeq DEF Segment, Segments, IInv, TypeOK
  <2>5. i \in DOMAIN Segment(k)
    BY <2>3, <2>4, LenProperties DEF File
  <2>6. QED
    BY <2>3, <2>4, <2>5 DEF Whole, Joined
<1>2. QED
  BY <1>1, Invariance, LedgerInvariance, PTL

\* A validated read returns entries in the order they were written, none twice, and
\* all that was acknowledged before it began, unless the ledger was rotated after
\* the reader listed its segments.
THEOREM ValidatedReadsAreFaithful == Spec => []ReadsAreFaithful
<1>1. IInv /\ LedgerInv => ReadsAreFaithful
  <2> SUFFICES ASSUME LedgerInv, NEW r \in Readers
               PROVE  /\ rpc[r] # "failed" =>
                            \A i, j \in DOMAIN result[r] : i < j =>
                                \E a, b \in DOMAIN order :
                                    a < b /\ order[a] = result[r][i] /\ order[b] = result[r][j]
                      /\ rpc[r] = "done" =>
                            \/ before[r] \subseteq {result[r][i] : i \in DOMAIN result[r]}
                            \/ Len(rotated) > globbed[r]
    BY DEF ReadsAreFaithful
  <2>1. QED
    BY DEF LedgerInv, Reading, Precedes, Got
<1>2. QED
  BY <1>1, Invariance, LedgerInvariance, PTL
=============================================================================
