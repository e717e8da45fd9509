------------------------- MODULE RunEvidence_proof -------------------------
(***************************************************************************)
(* Proofs about RunEvidence for any clients, scripts, processes, intents   *)
(* and faults: types, that the manifest describes the checkpoint files,    *)
(* that the copies of a result agree, and that inspection shows what a     *)
(* command returned.                                                       *)
(***************************************************************************)
EXTENDS RunEvidence, SequenceTheorems, FiniteSetTheorems, TLAPS

-----------------------------------------------------------------------------
(* The inductive invariant *)

Jobs == [n : Nat, last : Outcomes \cup {"breach", None},
         result : Results \cup {None}, guarded : BOOLEAN, ok : BOOLEAN,
         current : Results \cup {None}, fixes : Nat,
         repair : {"none", "failed", "fixed", "passed", "rejected"}]

\* Under the lock; and with a result at hand.
Inside  == {"manifest", "line", "chain", "wal"}
Closing == {"reading", "syncing", "trace", "flush", "latest", "line", "chain", "wal"}
Stages  == {"idle", "intent", "manifest", "end", "walonly"} \cup Closing

IsLight(c) == \E i \in DOMAIN Script[c] : Script[c][i] = "light"

\* What a client at stage p of its a-th operation knows.
Knows(c, p, a, j) ==
    /\ p \notin {"idle", "end"} => a \in DOMAIN Script[c]
    /\ p \in {"reading", "syncing"} => Script[c][a] \in Followers
    /\ p \in {"walonly", "flush"} => Script[c][a] = "light"
    /\ a > 1 => j.current \in Results /\ (IsLight(c) \/ j.current.mode = "full")
    /\ p \in Closing => j.result \in Results /\ j.result.mode = "full"
    /\ p = "walonly" => j.result \in Results /\ j.result.mode = "wal"
    /\ p = "manifest" => j.last \in Outcomes \cup {"breach"}
    /\ p = "flush" \/ (p = "trace" /\ Script[c][a] = "light" /\ ~j.guarded) =>
          j.last \in Outcomes
    /\ p = "manifest" /\ Script[c][a] = "light" /\ j.last # "breach" =>
          j.result \in Results /\ j.result.mode = "full"

LockHeld == \A c \in Clients : pc[c] \in Inside <=> lock = c

\* A checkpoint file is written before the manifest names it, under one lock.
Numbered ==
    /\ CheckpointsMatch
    /\ kept \subseteq {manifest.records[i] : i \in DOMAIN manifest.records}
    /\ \A c \in Clients : pc[c] = "manifest" =>
          /\ Len(manifest.records) + 1 \in DOMAIN files
          /\ files[Len(manifest.records) + 1] = Checkpoint(c, job[c].n, job[c].last)

\* A client that synchronises the manifest knows its records.
SeenIsManifest ==
    \A c \in Clients : pc[c] = "syncing" => seen[c].records = manifest.records

\* The bodies of the chain are linked, and refer to lines of ledger.jsonl.
Shows(n, result) ==
    n \in DOMAIN lines /\ (~Readable(lines[n]) \/ lines[n].body = result)
Linked ==
    \A i \in DOMAIN chain :
        /\ chain[i].body.prev =
              (IF i = 1 THEN <<>> ELSE evidence_chain_hash(chain[i - 1].body))
        /\ Shows(chain[i].body.line, chain[i].body.result)
Chained(result) ==
    \E i \in DOMAIN chain : ~Readable(chain[i]) \/ chain[i].body.result = result
Followed ==
    /\ \A c \in Clients :
          /\ pc[c] = "chain" => Shows(Len(lines), job[c].result)
          /\ pc[c] = "wal" => Chained(job[c].result)
    /\ \A r \in acked :
          /\ \E i \in DOMAIN wal : wal[i] = r
          /\ r.mode = "full" => Chained(r)

\* Undisturbed, the copies differ by what the holder of the lock has still to write.
InStep ==
    /\ \A i \in DOMAIN lines : lines[i].form = "line"
    /\ \A i \in DOMAIN chain :
          /\ chain[i].form = "line"
          /\ i \in DOMAIN lines /\ lines[i].body = chain[i].body.result
    /\ \A j \in DOMAIN wal : wal[j].mode = "full" =>
          Place(j) \in DOMAIN chain /\ wal[j] = lines[Place(j)].body
    /\ Len(lines) = IF \E c \in Clients : pc[c] = "chain" THEN Len(chain) + 1 ELSE Len(chain)
    /\ Len(chain) = IF \E c \in Clients : pc[c] = "wal" THEN Place(Len(wal)) + 1
                    ELSE Place(Len(wal))
    /\ \A c \in Clients :
          /\ pc[c] \in {"line", "chain", "wal"} => latest = job[c].result
          /\ pc[c] \in {"chain", "wal"} => lines[Len(lines)].body = job[c].result
    /\ (\A c \in Clients : pc[c] # "line") =>
          latest = IF lines = <<>> THEN None ELSE lines[Len(lines)].body

IInv ==
    /\ TypeOK
    /\ \A c \in Clients : Knows(c, pc[c], at[c], job[c])
    /\ LockHeld
    /\ Linked /\ Followed
    /\ faults = 0 => InStep

\* The same, with the manifest's records and their files.
RInv == IInv /\ SeenIsManifest /\ Numbered

-----------------------------------------------------------------------------
(* Records *)

\* A job with one field set is a job, and the other fields stay.
LEMMA SetN ==
  ASSUME NEW j \in Jobs, NEW x \in Nat, NEW k, k = [j EXCEPT !.n = x]
  PROVE  /\ k \in Jobs /\ k.n = x
         /\ k.last = j.last /\ k.result = j.result /\ k.current = j.current
         /\ k.guarded = j.guarded
BY DEF Jobs
\* The outcome of the last intent set.
LEMMA SetLast ==
  ASSUME NEW j \in Jobs, NEW x \in Outcomes \cup {"breach"}, NEW k, k = [j EXCEPT !.last = x]
  PROVE  /\ k \in Jobs /\ k.last = x
         /\ k.n = j.n /\ k.result = j.result /\ k.current = j.current
         /\ k.guarded = j.guarded
BY DEF Jobs
\* The result at hand set.
LEMMA SetResult ==
  ASSUME NEW j \in Jobs, NEW x \in Results, NEW k, k = [j EXCEPT !.result = x]
  PROVE  /\ k \in Jobs /\ k.result = x
         /\ k.n = j.n /\ k.last = j.last /\ k.current = j.current
         /\ k.guarded = j.guarded
BY DEF Jobs
\* The command's result set.
LEMMA SetCurrent ==
  ASSUME NEW j \in Jobs, NEW x \in Results \cup {None}, NEW k, k = [j EXCEPT !.current = x]
  PROVE  /\ k \in Jobs /\ k.current = x
         /\ k.n = j.n /\ k.last = j.last /\ k.result = j.result
         /\ k.guarded = j.guarded
BY DEF Jobs
\* Set: the result is that of an exception.
LEMMA SetGuarded ==
  ASSUME NEW j \in Jobs, NEW k, k = [j EXCEPT !.guarded = TRUE]
  PROVE  /\ k \in Jobs /\ k.guarded
         /\ k.n = j.n /\ k.last = j.last /\ k.result = j.result /\ k.current = j.current
BY DEF Jobs
\* Set: it is not.
LEMMA SetUnguarded ==
  ASSUME NEW j \in Jobs, NEW k, k = [j EXCEPT !.guarded = FALSE]
  PROVE  /\ k \in Jobs /\ ~k.guarded
         /\ k.n = j.n /\ k.last = j.last /\ k.result = j.result /\ k.current = j.current
BY DEF Jobs
\* Set: whether the client got on.
LEMMA SetOk ==
  ASSUME NEW j \in Jobs, NEW x \in BOOLEAN, NEW k, k = [j EXCEPT !.ok = x]
  PROVE  /\ k \in Jobs
         /\ k.n = j.n /\ k.last = j.last /\ k.result = j.result /\ k.current = j.current
         /\ k.guarded = j.guarded
BY DEF Jobs
\* The state of the repair set.
LEMMA SetRepair ==
  ASSUME NEW j \in Jobs, NEW x \in {"none", "failed", "fixed", "passed", "rejected"},
         NEW k, k = [j EXCEPT !.repair = x]
  PROVE  /\ k \in Jobs
         /\ k.n = j.n /\ k.last = j.last /\ k.result = j.result /\ k.current = j.current
         /\ k.guarded = j.guarded
BY DEF Jobs
\* The number of attempts set.
LEMMA SetFixes ==
  ASSUME NEW j \in Jobs, NEW x \in Nat, NEW k, k = [j EXCEPT !.fixes = x]
  PROVE  /\ k \in Jobs
         /\ k.n = j.n /\ k.last = j.last /\ k.result = j.result /\ k.current = j.current
         /\ k.guarded = j.guarded
BY DEF Jobs

\* A result with another status, step or count is a result.
LEMMA ResultSets ==
  ASSUME NEW r \in Results
  PROVE  /\ r.mode \in {"full", "wal"} /\ r.status \in Outcomes
         /\ \A x \in Outcomes : [r EXCEPT !.status = x] \in Results
                                /\ [r EXCEPT !.status = x].mode = r.mode
         /\ \A x \in Nat : [r EXCEPT !.step = x] \in Results
                           /\ [r EXCEPT !.step = x].mode = r.mode
         /\ \A x \in Nat : [r EXCEPT !.requested = x] \in Results
                           /\ [r EXCEPT !.requested = x].mode = r.mode
         /\ \A x \in Nat : [r EXCEPT !.resolved = x] \in Results
                           /\ [r EXCEPT !.resolved = x].mode = r.mode
         /\ [r EXCEPT !.mode = "wal"] \in Results /\ [r EXCEPT !.mode = "wal"].mode = "wal"
BY DEF Results

-----------------------------------------------------------------------------
(* Files, scripts and places *)

\* A line written to a file becomes a line of its own, or makes the last line
\* unreadable; the others stay, and an unreadable line stays unreadable.
LEMMA LineAppended ==
  ASSUME NEW B, NEW f \in File(B), NEW body \in B, NEW form \in Forms \ {"joined"},
         NEW g, g = AppendLine(f, body, form)
  PROVE  /\ g \in File(B) /\ Len(f) <= Len(g) /\ g # <<>>
         /\ \A i \in DOMAIN f : /\ i \in DOMAIN g /\ g[i].body = f[i].body
                                /\ ~Readable(f[i]) => ~Readable(g[i])
         /\ \/ Len(g) = Len(f) + 1 /\ g[Len(g)] = [body |-> body, form |-> form]
               /\ \A i \in DOMAIN f : g[i] = f[i]
            \/ Len(g) = Len(f) /\ ~Readable(g[Len(g)]) /\ f # <<>>
               /\ f[Len(f)].form \in {"noeol", "cut"}
         /\ (\A i \in DOMAIN f : f[i].form = "line") => g = Append(f, [body |-> body, form |-> form])
<1>1. /\ Len(f) \in Nat /\ DOMAIN f = 1 .. Len(f)
      /\ \A i \in 1 .. Len(f) : f[i] \in [body : B, form : Forms]
      /\ f # <<>> => Len(f) > 0
  <2> DEFINE T == [body : B, form : Forms]
  <2>1. f \in Seq(T)
    BY DEF File
  <2> HIDE DEF T
  <2>2. f # <<>> => Len(f) \in Nat \ {0}
    BY <2>1, EmptySeq
  <2>3. Len(f) \in Nat /\ DOMAIN f = 1 .. Len(f) /\ \A i \in 1 .. Len(f) : f[i] \in T
    BY <2>1
  <2>4. f # <<>> => Len(f) > 0
    BY <2>2
  <2>5. QED
    BY <2>3, <2>4 DEF T
<1>2. CASE f # <<>> /\ f[Len(f)].form \in {"noeol", "cut"}
  <2> DEFINE x == IF form = "line" THEN "joined" ELSE "cut"
  <2>1. g = [f EXCEPT ![Len(f)] = [f[Len(f)] EXCEPT !.form = x]]
    BY <1>1, <1>2 DEF AppendLine
  <2>2. x \in {"joined", "cut"}
    OBVIOUS
  <2> HIDE DEF x
  <2>3. /\ [f[Len(f)] EXCEPT !.form = x] \in [body : B, form : Forms]
        /\ [f[Len(f)] EXCEPT !.form = x].body = f[Len(f)].body
        /\ [f[Len(f)] EXCEPT !.form = x].form = x
    BY <1>1, <1>2, <2>2 DEF Forms
  <2>4. g \in File(B) /\ Len(g) = Len(f) /\ DOMAIN g = DOMAIN f
    BY <1>1, <1>2, <2>1, <2>3 DEF File
  <2>5. \A i \in DOMAIN f : g[i] = IF i = Len(f) THEN [f[Len(f)] EXCEPT !.form = x] ELSE f[i]
    BY <1>1, <2>1
  <2>6. ~Readable(g[Len(g)])
    BY <1>1, <1>2, <2>2, <2>3, <2>4, <2>5 DEF Readable
  <2>7. \A i \in DOMAIN f : /\ i \in DOMAIN g /\ g[i].body = f[i].body
                            /\ ~Readable(f[i]) => ~Readable(g[i])
    BY <1>1, <2>3, <2>4, <2>5, <2>6
  <2>8. ~(\A i \in DOMAIN f : f[i].form = "line")
    BY <1>1, <1>2
  <2>9. g # <<>>
    BY <1>1, <1>2, <2>4
  <2>10. Len(f) <= Len(g)
    BY <1>1, <2>4
  <2>11. QED
    BY <1>2, <2>4, <2>6, <2>7, <2>8, <2>9, <2>10
<1>3. CASE ~(f # <<>> /\ f[Len(f)].form \in {"noeol", "cut"})
  <2>1. g = Append(f, [body |-> body, form |-> form])
    BY <1>3 DEF AppendLine
  <2>2. [body |-> body, form |-> form] \in [body : B, form : Forms]
    OBVIOUS
  <2>3. /\ g \in File(B) /\ Len(g) = Len(f) + 1 /\ g # <<>>
        /\ g[Len(g)] = [body |-> body, form |-> form]
        /\ \A i \in DOMAIN f : i \in DOMAIN g /\ g[i] = f[i]
    BY <1>1, <2>1, <2>2 DEF File
  <2>4. Len(f) <= Len(g)
    BY <1>1, <2>3
  <2>5. \A i \in DOMAIN f : /\ i \in DOMAIN g /\ g[i].body = f[i].body
                            /\ ~Readable(f[i]) => ~Readable(g[i])
    BY <2>3
  <2>6. QED
    BY <1>1, <2>1, <2>3, <2>4, <2>5
<1>4. QED
  BY <1>2, <1>3

\* The scripts of a scenario: light runs alone, or a first operation that is no
\* follower.
LEMMA ScriptsOfScenarios ==
  ASSUME TypeOK
  PROVE  /\ scenario.intents \in Nat \ {0}
         /\ Process \in [Clients -> Clients]
         /\ \A c \in Clients :
              /\ Script[c] \in Seq(Ops)
              /\ \A i \in DOMAIN Script[c] :
                   /\ i \in Nat \ {0} /\ i <= Len(Script[c])
                   /\ Script[c][i] \in Ops
                   /\ IsLight(c) <=> Script[c][i] = "light"
                   /\ Script[c][i] \in Followers => i > 1
<1>1. /\ scenario \in Scenarios
      /\ scenario.script \in [Clients -> Scripts]
      /\ scenario.process \in [Clients -> Clients]
      /\ scenario.intents \in Nat \ {0}
  BY ScenariosAssumption DEF TypeOK
<1>2. ASSUME NEW c \in Clients
      PROVE  /\ Script[c] \in Seq(Ops)
             /\ \/ \A i \in DOMAIN Script[c] : Script[c][i] = "light"
                \/ /\ \A i \in DOMAIN Script[c] : Script[c][i] # "light"
                   /\ Script[c] # <<>> => Script[c][1] \notin Followers
  BY <1>1 DEF Scripts, Script
<1>3. ASSUME NEW c \in Clients, NEW i \in DOMAIN Script[c]
      PROVE  /\ i \in Nat \ {0} /\ i <= Len(Script[c])
             /\ Script[c][i] \in Ops
             /\ IsLight(c) <=> Script[c][i] = "light"
             /\ Script[c][i] \in Followers => i > 1
  <2>1. i \in 1 .. Len(Script[c]) /\ Len(Script[c]) \in Nat /\ Script[c][i] \in Ops
    BY <1>2, <1>3
  <2>2. IsLight(c) <=> Script[c][i] = "light"
    BY <1>2, <1>3 DEF IsLight
  <2>3. Script[c][i] \in Followers => i # 1
    <3>1. Script[c] # <<>>
      BY <2>1
    <3>2. "light" \notin Followers
      BY DEF Followers
    <3>3. QED
      BY <1>2, <1>3, <3>1, <3>2
  <2>4. QED
    BY <2>1, <2>2, <2>3
<1>4. QED
  BY <1>1, <1>2, <1>3 DEF Process

\* An entry more in the global ledger leaves the places of the others as they were.
LEMMA PlacesKept ==
  ASSUME wal \in Seq(Results), NEW r \in Results, wal' = Append(wal, r)
  PROVE  /\ \A j \in 0 .. Len(wal) : Place(j) \in Nat /\ Place(j)' = Place(j)
         /\ Place(Len(wal))' = Place(Len(wal)) + (IF r.mode = "full" THEN 1 ELSE 0)
<1> DEFINE full(n) == {k \in 1 .. n : wal[k].mode = "full"}
<1>1. Len(wal) \in Nat /\ Len(wal') = Len(wal) + 1 /\ wal'[Len(wal) + 1] = r
  OBVIOUS
<1>2. \A k \in 1 .. Len(wal) : wal'[k] = wal[k]
  OBVIOUS
<1>3. ASSUME NEW n \in 0 .. Len(wal) PROVE IsFiniteSet(full(n)) /\ Cardinality(full(n)) \in Nat
  <2>1. IsFiniteSet(1 .. n)
    BY <1>1, FS_Interval
  <2>2. full(n) \subseteq 1 .. n
    OBVIOUS
  <2>3. QED
    BY <2>1, <2>2, FS_Subset, FS_CardinalityType
<1>4. ASSUME NEW n \in 0 .. Len(wal) PROVE full(n)' = full(n)
  <2>1. \A k \in 1 .. n : wal'[k] = wal[k]
    BY <1>1, <1>2
  <2>2. QED
    BY <2>1
<1>5. \A j \in 0 .. Len(wal) : Place(j) \in Nat /\ Place(j)' = Place(j)
  BY <1>3, <1>4 DEF Place
<1>6. Place(Len(wal))' = Cardinality({k \in 1 .. Len(wal') : wal'[k].mode = "full"})
  BY DEF Place
<1> DEFINE old == full(Len(wal))
           new == {k \in 1 .. Len(wal') : wal'[k].mode = "full"}
<1>7. new = IF r.mode = "full" THEN old \cup {Len(wal) + 1} ELSE old
  BY <1>1, <1>2
<1>8. Len(wal) + 1 \notin old /\ IsFiniteSet(old) /\ Place(Len(wal)) = Cardinality(old)
  BY <1>1, <1>3 DEF Place
<1>9. Cardinality(old \cup {Len(wal) + 1}) = Cardinality(old) + 1
  <2> HIDE DEF old
  <2> QED BY <1>8, FS_AddElement
<1>10. Place(Len(wal)) \in Nat
  BY <1>1, <1>5
<1>11. QED
  <2> HIDE DEF old, new
  <2>1. Place(Len(wal))' = Cardinality(new)
    BY <1>6 DEF new
  <2>2. QED
    BY <1>5, <1>7, <1>8, <1>9, <1>10, <2>1

-----------------------------------------------------------------------------
(* What a step of one client leaves alone *)

\* The client goes to stage p of its a-th operation with the job j.
Moves(c, p, a, j) ==
    /\ scenario' = scenario
    /\ pc' = [pc EXCEPT ![c] = p]
    /\ at' = [at EXCEPT ![c] = a]
    /\ job' = [job EXCEPT ![c] = j]

\* It takes the lock when it is free, or releases it if it had it.
Locks(c, p) ==
    IF p \in Inside THEN lock \in {None, c} /\ lock' = c
    ELSE lock' = IF lock = c THEN None ELSE lock

\* The types and the jobs of a state.
LEMMA Parts ==
  ASSUME IInv
  PROVE  /\ pc \in [Clients -> Stages] /\ at \in [Clients -> Nat \ {0}]
         /\ job \in [Clients -> Jobs]
         /\ \A c \in Clients : Knows(c, pc[c], at[c], job[c])
BY DEF IInv, TypeOK, Stages, Closing, Jobs

\* A client that knows what its stage requires leaves everybody knowing.
LEMMA Moved ==
  ASSUME IInv, NEW c \in Clients, NEW p \in Stages, NEW a \in Nat \ {0}, NEW j \in Jobs,
         Moves(c, p, a, j), Knows(c, p, a, j)
  PROVE  /\ pc' \in [Clients -> Stages] /\ at' \in [Clients -> Nat \ {0}]
         /\ job' \in [Clients -> Jobs]
         /\ \A d \in Clients : Knows(d, pc[d], at[d], job[d])'
         /\ \A d \in Clients : /\ pc'[d] = IF d = c THEN p ELSE pc[d]
                               /\ job'[d] = IF d = c THEN j ELSE job[d]
<1>1. /\ pc \in [Clients -> Stages] /\ at \in [Clients -> Nat \ {0}]
      /\ job \in [Clients -> Jobs]
      /\ \A d \in Clients : Knows(d, pc[d], at[d], job[d])
  BY Parts
<1>2. /\ pc' \in [Clients -> Stages] /\ at' \in [Clients -> Nat \ {0}]
      /\ job' \in [Clients -> Jobs]
      /\ \A d \in Clients : /\ pc'[d] = IF d = c THEN p ELSE pc[d]
                            /\ at'[d] = IF d = c THEN a ELSE at[d]
                            /\ job'[d] = IF d = c THEN j ELSE job[d]
  BY <1>1 DEF Moves
<1>3. ASSUME NEW d \in Clients PROVE Knows(d, pc[d], at[d], job[d])'
  <2>1. Knows(d, pc'[d], at'[d], job'[d])
    BY <1>1, <1>2
  <2>2. scenario' = scenario
    BY DEF Moves
  <2>3. QED
    BY <2>1, <2>2 DEF Knows, IsLight, Script
<1>4. QED
  BY <1>2, <1>3

\* The lock is with whoever is inside.
LEMMA LockMoved ==
  ASSUME IInv, NEW c \in Clients, NEW p \in Stages, NEW a \in Nat \ {0}, NEW j \in Jobs,
         Moves(c, p, a, j), Locks(c, p)
  PROVE  LockHeld' /\ lock' \in Clients \cup {None}
<1>1. pc \in [Clients -> Stages] /\ lock \in Clients \cup {None} /\ None \notin Clients
  BY Parts, ClientsAssumption DEF IInv, TypeOK
<1>2. \A d \in Clients : pc'[d] = IF d = c THEN p ELSE pc[d]
  BY <1>1 DEF Moves
<1>3. \A d \in Clients : pc[d] \in Inside <=> lock = d
  BY DEF IInv, LockHeld
<1>4. lock' \in Clients \cup {None}
  BY <1>1 DEF Locks
<1>5. ASSUME NEW d \in Clients PROVE pc'[d] \in Inside <=> lock' = d
  BY <1>1, <1>2, <1>3 DEF Locks
<1>6. QED
  BY <1>4, <1>5 DEF LockHeld

Ledgering == {"line", "chain", "wal"}

\* A step that neither begins, continues nor ends a write of the ledger leaves its
\* copies as they agree.
LEMMA LedgerKept ==
  ASSUME IInv, NEW c \in Clients, NEW p \in Stages, NEW a \in Nat \ {0}, NEW j \in Jobs,
         Moves(c, p, a, j), pc[c] \notin Ledgering, p \notin Ledgering,
         UNCHANGED <<latest, lines, chain, wal, acked>>, faults' = 0 => faults = 0
  PROVE  Linked' /\ Followed' /\ (faults' = 0 => InStep')
<1>1. /\ \A d \in Clients : /\ pc'[d] = IF d = c THEN p ELSE pc[d]
                            /\ job'[d] = IF d = c THEN j ELSE job[d]
  BY Parts DEF Moves
<1>2. \A d \in Clients : /\ pc'[d] \in Ledgering \/ pc[d] \in Ledgering =>
                              pc'[d] = pc[d] /\ job'[d] = job[d]
                         /\ \A s \in Ledgering : pc'[d] = s <=> pc[d] = s
  BY <1>1
<1>3. Linked'
  BY DEF IInv, Linked, Shows, Readable
<1>4. Followed'
  BY <1>2 DEF IInv, Followed, Shows, Readable, Chained, Ledgering
<1>5. ASSUME faults' = 0 PROVE InStep'
  <2>1. InStep
    BY <1>5 DEF IInv
  <2>2. \A i : Place(i)' = Place(i)
    BY DEF Place
  <2>3. /\ (\E d \in Clients : pc'[d] = "chain") <=> (\E d \in Clients : pc[d] = "chain")
        /\ (\E d \in Clients : pc'[d] = "wal") <=> (\E d \in Clients : pc[d] = "wal")
        /\ (\A d \in Clients : pc'[d] # "line") <=> (\A d \in Clients : pc[d] # "line")
    BY <1>2 DEF Ledgering
  <2>4. \A d \in Clients :
          /\ pc'[d] \in {"line", "chain", "wal"} => latest' = job'[d].result
          /\ pc'[d] \in {"chain", "wal"} => lines'[Len(lines')].body = job'[d].result
    BY <1>2, <2>1 DEF InStep, Ledgering
  <2>5. QED
    BY <2>1, <2>2, <2>3, <2>4 DEF InStep
<1>6. QED
  BY <1>3, <1>4, <1>5

\* Such a step keeps the invariant, if it writes nothing of a wrong type.
LEMMA ElsewhereKeeps ==
  ASSUME IInv, NEW c \in Clients, NEW p \in Stages, NEW a \in Nat \ {0}, NEW j \in Jobs,
         Moves(c, p, a, j), Knows(c, p, a, j), Locks(c, p),
         pc[c] \notin Ledgering, p \notin Ledgering,
         UNCHANGED <<latest, lines, chain, wal, acked>>,
         faults' \in Nat, faults' = 0 => faults = 0,
         manifest' \in Manifests, files' \in Seq(Checkpoints), trace' \in File(Outcomes),
         seen' \in [Clients -> Manifests], kept' \in SUBSET Checkpoints
  PROVE  IInv'
<1>1. /\ pc' \in [Clients -> Stages] /\ at' \in [Clients -> Nat \ {0}]
      /\ job' \in [Clients -> Jobs]
      /\ \A d \in Clients : Knows(d, pc[d], at[d], job[d])'
  BY Moved
<1>2. LockHeld' /\ lock' \in Clients \cup {None}
  BY LockMoved
<1>3. Linked' /\ Followed' /\ (faults' = 0 => InStep')
  BY LedgerKept
<1>4. scenario' \in Scenarios
  BY DEF IInv, TypeOK, Moves
<1>5. /\ latest' \in Results \cup {None} /\ lines' \in File(Results)
      /\ chain' \in File(ChainRecords) /\ wal' \in Seq(Results) /\ acked' \in SUBSET Results
  BY DEF IInv, TypeOK
<1>6. TypeOK'
  BY ZenonT(60), <1>1, <1>2, <1>4, <1>5 DEF TypeOK, Stages, Closing, Jobs
<1>7. QED
  BY <1>1, <1>2, <1>3, <1>6 DEF IInv

-----------------------------------------------------------------------------
(* Where a step of one client arrives *)

\* The client arrives at one of the stages in P, knowing what the stage requires.
Arrives(c, P) ==
    \E p \in P, a \in Nat \ {0}, j \in Jobs : Moves(c, p, a, j) /\ Knows(c, p, a, j)

\* What is typed is typed, and who stays where it is moves nowhere.
LEMMA Here ==
  ASSUME IInv, NEW c \in Clients
  PROVE  /\ at[c] \in Nat \ {0} /\ job[c] \in Jobs /\ pc[c] \in Stages
         /\ Knows(c, pc[c], at[c], job[c])
         /\ at = [at EXCEPT ![c] = at[c]] /\ job = [job EXCEPT ![c] = job[c]]
         /\ TypeOK
BY Parts DEF IInv

\* A result that the program stores itself.
LEMMA StoredIsFull ==
  ASSUME IInv, NEW c \in Clients, NEW status \in Outcomes,
         NEW requested \in Nat, NEW resolved \in Nat
  PROVE  /\ Stored(c, status, requested, resolved) \in Results
         /\ Stored(c, status, requested, resolved).mode = "full"
<1>1. at[c] \in Nat
  BY Here
<1>2. QED
  BY <1>1 DEF Stored, Results

\* A halted result is one of them.
LEMMA HaltedIsFull ==
  ASSUME IInv, NEW c \in Clients, NEW requested \in Nat
  PROVE  /\ halted_result(c, requested) \in Results
         /\ halted_result(c, requested).mode = "full"
<1>1. "halted" \in Outcomes /\ 1 \in Nat
  BY DEF Outcomes
<1>2. QED
  BY <1>1, StoredIsFull DEF halted_result

\* A follower has a result of a full run to go on with.
LEMMA FollowersKnow ==
  ASSUME IInv, NEW c \in Clients, at[c] \in DOMAIN Script[c], Op(c) \in Followers
  PROVE  /\ at[c] > 1 /\ ~IsLight(c) /\ Op(c) # "light"
         /\ job[c].current \in Results /\ job[c].current.mode = "full"
<1>1. at[c] > 1 /\ (IsLight(c) <=> Op(c) = "light")
  BY ScriptsOfScenarios, Here DEF Op
<1>2. Op(c) # "light"
  BY DEF Followers
<1>3. QED
  BY <1>1, <1>2, Here DEF Knows

\* The operation of a client at work.
LEMMA AtWork ==
  ASSUME IInv, NEW c \in Clients, pc[c] \notin {"idle", "end"} \/ at[c] \in DOMAIN Script[c]
  PROVE  /\ at[c] \in DOMAIN Script[c] /\ Op(c) \in Ops
         /\ IsLight(c) <=> Op(c) = "light"
         /\ Intents(c) \in Nat
         /\ Op(c) \in Followers => at[c] > 1
<1>1. at[c] \in DOMAIN Script[c]
  BY Here DEF Knows
<1>2. scenario.intents \in Nat
  BY Here, ScriptsOfScenarios
<1>3. QED
  BY <1>1, <1>2, Here, ScriptsOfScenarios DEF Op, Intents

\* The handler of run_task arrives at the trace of a halted result.
LEMMA ExceptionArrives ==
  ASSUME IInv, NEW c \in Clients, NEW x \in Nat, pc[c] \notin {"idle", "end"},
         scenario' = scenario, UNCHANGED at, pc' = [pc EXCEPT ![c] = "trace"],
         job' = [job EXCEPT ![c].result = halted_result(c, x), ![c].guarded = TRUE]
  PROVE  Arrives(c, {"trace"})
<1> DEFINE j1 == [job[c] EXCEPT !.result = halted_result(c, x)]
           j2 == [j1 EXCEPT !.guarded = TRUE]
<1>1. halted_result(c, x) \in Results /\ halted_result(c, x).mode = "full"
  BY HaltedIsFull
<1>2. j1 \in Jobs /\ j1.result = halted_result(c, x) /\ j1.current = job[c].current
  BY <1>1, Here, SetResult
<1>3. job' = [job EXCEPT ![c] = j2]
  BY Parts
<1> HIDE DEF j1
<1>4. /\ j2 \in Jobs /\ j2.result = halted_result(c, x) /\ j2.current = job[c].current
      /\ j2.guarded
  BY <1>2, SetGuarded
<1> HIDE DEF j2
<1>5. Moves(c, "trace", at[c], j2)
  BY <1>3, Here DEF Moves
<1>6. Knows(c, "trace", at[c], j2)
  BY <1>1, <1>4, Here, AtWork DEF Knows, Closing
<1>7. QED
  BY <1>4, <1>5, <1>6, Here DEF Arrives

\* Who abandons its script arrives at its end.
LEMMA AbandonArrives ==
  ASSUME IInv, NEW c \in Clients, scenario' = scenario, Abandon(c)
  PROVE  Arrives(c, {"end"})
<1> DEFINE j == [job[c] EXCEPT !.ok = FALSE]
<1>1. j \in Jobs /\ j.current = job[c].current
  BY Here, SetOk
<1>2. job' = [job EXCEPT ![c] = j]
  BY Parts DEF Abandon
<1> HIDE DEF j
<1>3. Moves(c, "end", at[c], j)
  BY <1>2, Here DEF Moves, Abandon
<1>4. Knows(c, "end", at[c], j)
  BY <1>1, Here DEF Knows, Closing
<1>5. QED
  BY <1>1, <1>3, <1>4, Here DEF Arrives

\* An operation that returns leads to the next one or to the end.
LEMMA FinishArrives ==
  ASSUME IInv, NEW c \in Clients, NEW ok \in BOOLEAN, scenario' = scenario, Finish(c, ok),
         pc[c] \in Closing \cup {"walonly"}
  PROVE  Arrives(c, {"idle", "end"})
<1> DEFINE j1 == [job[c] EXCEPT !.ok = ok]
           x == IF Op(c) = "fix" THEN job[c].current ELSE job[c].result
           j2 == [j1 EXCEPT !.current = x]
           p == IF at[c] < Len(Script[c]) THEN "idle" ELSE "end"
<1>1. at[c] \in DOMAIN Script[c] /\ (IsLight(c) <=> Op(c) = "light")
      /\ pc[c] \notin {"idle", "end"}
  BY AtWork DEF Closing
<1>2. /\ job[c].result \in Results
      /\ IsLight(c) \/ job[c].result.mode = "full"
  BY <1>1, Here DEF Knows, Closing, Op
<1>3. x \in Results /\ (IsLight(c) \/ x.mode = "full")
  BY <1>1, <1>2, FollowersKnow DEF Followers
<1>4. j1 \in Jobs /\ j1.current = job[c].current
  BY Here, SetOk
<1>5. job' = [job EXCEPT ![c] = j2]
  BY Parts DEF Finish
<1> HIDE DEF j1, x
<1>6. j2 \in Jobs /\ j2.current = x
  BY <1>3, <1>4, SetCurrent
<1> HIDE DEF j2
<1>7. at[c] + 1 \in Nat \ {0} /\ p \in {"idle", "end"}
  BY Here
<1>8. Moves(c, p, at[c] + 1, j2)
  BY <1>5, Here DEF Moves, Finish
<1>9. Knows(c, p, at[c] + 1, j2)
  BY <1>3, <1>6, <1>7, Here DEF Knows, Closing
<1>10. QED
  BY <1>6, <1>7, <1>8, <1>9 DEF Arrives

\* A step elsewhere than in the ledger keeps the invariant.
LEMMA ElsewhereStep ==
  ASSUME IInv, NEW c \in Clients, NEW P \in SUBSET (Stages \ Ledgering), Arrives(c, P),
         \A p \in P : Locks(c, p), pc[c] \notin Ledgering,
         UNCHANGED <<latest, lines, chain, wal, acked>>,
         faults' \in Nat, faults' = 0 => faults = 0,
         manifest' \in Manifests, files' \in Seq(Checkpoints), trace' \in File(Outcomes),
         seen' \in [Clients -> Manifests], kept' \in SUBSET Checkpoints
  PROVE  IInv'
<1>1. PICK p \in P, a \in Nat \ {0}, j \in Jobs : Moves(c, p, a, j) /\ Knows(c, p, a, j)
  BY DEF Arrives
<1>2. p \in Stages /\ p \notin Ledgering /\ Locks(c, p)
  OBVIOUS
<1>3. QED
  BY <1>1, <1>2, ElsewhereKeeps

\* So does one that leaves the lock alone as well.
LEMMA AsideStep ==
  ASSUME IInv, NEW c \in Clients, NEW P \in SUBSET (Stages \ Inside), Arrives(c, P),
         pc[c] \notin Inside, lock' = lock \/ Release(c),
         UNCHANGED <<manifest, files, latest, lines, chain, wal, acked, kept>>,
         faults' = faults \/ Fault, trace' \in File(Outcomes),
         seen' \in [Clients -> Manifests]
  PROVE  IInv'
<1>1. P \in SUBSET (Stages \ Ledgering) /\ pc[c] \notin Ledgering
  BY DEF Ledgering, Inside
<1>2. lock # c
  BY DEF IInv, LockHeld
<1>3. \A p \in P : Locks(c, p)
  BY <1>2 DEF Locks, Release
<1>4. faults' \in Nat /\ (faults' = 0 => faults = 0)
  BY DEF IInv, TypeOK, Fault
<1>5. manifest' \in Manifests /\ files' \in Seq(Checkpoints) /\ kept' \in SUBSET Checkpoints
  BY DEF IInv, TypeOK
<1>6. QED
  BY <1>1, <1>3, <1>4, <1>5, ElsewhereStep

-----------------------------------------------------------------------------
(* The operations of a script *)

\* A call of run_task begins with its first intent.
LEMMA BeginTaskKeeps == ASSUME IInv, NEW c \in Clients, BeginTask(c) PROVE IInv'
<1> DEFINE j1 == [job[c] EXCEPT !.n = 0]
           j2 == [j1 EXCEPT !.guarded = FALSE]
<1>1. /\ pc[c] = "idle" /\ at[c] \in DOMAIN Script[c]
      /\ pc' = [pc EXCEPT ![c] = "intent"] /\ scenario' = scenario /\ at' = at
      /\ UNCHANGED <<lock, manifest, files, trace, latest, lines, chain, wal, seen, acked, kept,
                     faults>>
  BY DEF BeginTask, Begins, evidence, history
<1>2. job' = [job EXCEPT ![c] = j2]
  BY Parts DEF BeginTask
<1>3. j1 \in Jobs /\ j1.current = job[c].current
  BY Here, SetN
<1> HIDE DEF j1
<1>4. j2 \in Jobs /\ j2.current = job[c].current
  BY <1>3, SetUnguarded
<1> HIDE DEF j2
<1>5. Moves(c, "intent", at[c], j2)
  BY <1>1, <1>2, Here DEF Moves
<1>6. Knows(c, "intent", at[c], j2)
  BY <1>1, <1>4, Here DEF Knows, Closing
<1>7. Arrives(c, {"intent"})
  BY <1>4, <1>5, <1>6, Here DEF Arrives
<1>8. {"intent"} \in SUBSET (Stages \ Inside) /\ pc[c] \notin Inside
  BY <1>1 DEF Stages, Inside
<1>9. trace' \in File(Outcomes) /\ seen' \in [Clients -> Manifests]
  BY <1>1 DEF IInv, TypeOK
<1>10. QED
  BY <1>1, <1>7, <1>8, <1>9, AsideStep

\* A result of a full run to write leads to the manifest.
LEMMA WriteResultKeeps ==
  ASSUME IInv, NEW c \in Clients, pc[c] = "idle", at[c] \in DOMAIN Script[c],
         Op(c) \in Followers, NEW result \in Results, result.mode = "full",
         NEW repair \in {"none", "failed", "fixed", "passed", "rejected"},
         WriteResult(c, result, repair)
  PROVE  IInv'
<1> DEFINE r == [result EXCEPT !.step = at[c]]
           j1 == [job[c] EXCEPT !.result = r]
           j2 == [j1 EXCEPT !.repair = repair]
           j3 == [j2 EXCEPT !.guarded = FALSE]
<1>1. /\ pc' = [pc EXCEPT ![c] = "reading"] /\ scenario' = scenario /\ at' = at
      /\ UNCHANGED <<lock, manifest, files, trace, latest, lines, chain, wal, seen, acked, kept,
                     faults>>
  BY DEF WriteResult, evidence, history
<1>2. job' = [job EXCEPT ![c] = j3]
  BY Parts DEF WriteResult
<1>3. r \in Results /\ r.mode = "full"
  BY Here, ResultSets
<1> HIDE DEF r
<1>4. j1 \in Jobs /\ j1.current = job[c].current /\ j1.result = r
  BY <1>3, Here, SetResult
<1> HIDE DEF j1
<1>5. j2 \in Jobs /\ j2.current = job[c].current /\ j2.result = r
  BY <1>4, SetRepair
<1> HIDE DEF j2
<1>6. j3 \in Jobs /\ j3.current = job[c].current /\ j3.result = r
  BY <1>5, SetUnguarded
<1> HIDE DEF j3
<1>7. Moves(c, "reading", at[c], j3)
  BY <1>1, <1>2, Here DEF Moves
<1>8. Knows(c, "reading", at[c], j3)
  BY <1>3, <1>6, Here DEF Knows, Closing, Op
<1>9. Arrives(c, {"reading"})
  BY <1>6, <1>7, <1>8, Here DEF Arrives
<1>10. {"reading"} \in SUBSET (Stages \ Inside) /\ pc[c] \notin Inside
  BY DEF Stages, Inside, Closing
<1>11. trace' \in File(Outcomes) /\ seen' \in [Clients -> Manifests]
  BY <1>1 DEF IInv, TypeOK
<1>12. QED
  BY <1>1, <1>9, <1>10, <1>11, AsideStep

\* Verifiers, repairs and the resume evidence write a result changed as they say.
LEMMA FollowersKeep ==
  ASSUME IInv, NEW c \in Clients,
         \/ apply_verifier_evidence(c) \/ VerifyRepair(c)
         \/ CloseRepair(c) \/ apply_task_resume_evidence(c)
  PROVE  IInv'
<1> DEFINE r == job[c].current
           halted == [r EXCEPT !.status = "halted"]
           aligned == align_counts_with_manifest(r)
           completed == [aligned EXCEPT !.status = "completed"]
           repairs == {"none", "failed", "fixed", "passed", "rejected"}
<1>1. pc[c] = "idle" /\ at[c] \in DOMAIN Script[c] /\ Op(c) \in Followers
  BY DEF apply_verifier_evidence, VerifyRepair, CloseRepair, apply_task_resume_evidence,
         Begins, Followers
<1>2. \E repair \in repairs : \/ WriteResult(c, r, repair) \/ WriteResult(c, halted, repair)
                              \/ WriteResult(c, aligned, repair)
                              \/ WriteResult(c, completed, repair)
  <2>1. job[c].repair \in repairs
    BY Here DEF Jobs
  <2>2. CASE apply_verifier_evidence(c)
    BY <2>2 DEF apply_verifier_evidence
  <2>3. CASE VerifyRepair(c)
    BY <2>3 DEF VerifyRepair
  <2>4. CASE CloseRepair(c)
    BY <2>4 DEF CloseRepair
  <2>5. CASE apply_task_resume_evidence(c)
    BY <2>1, <2>5 DEF apply_task_resume_evidence
  <2>6. QED
    BY <2>2, <2>3, <2>4, <2>5
<1>3. r \in Results /\ r.mode = "full"
  BY <1>1, FollowersKnow
<1>4. "halted" \in Outcomes /\ "completed" \in Outcomes /\ Len(manifest.records) \in Nat
  BY DEF Outcomes, IInv, TypeOK, Manifests
<1>5. halted \in Results /\ halted.mode = "full"
  BY ZenonT(60), <1>3, <1>4, ResultSets
<1>6. aligned \in Results /\ aligned.mode = "full"
  <2> DEFINE once == [r EXCEPT !.requested = Len(manifest.records)]
  <2>1. aligned = [once EXCEPT !.resolved = Len(manifest.records)]
    BY <1>3 DEF align_counts_with_manifest, Results
  <2>2. once \in Results /\ once.mode = "full"
    BY <1>3, <1>4, ResultSets
  <2> HIDE DEF once
  <2>3. QED
    BY ZenonT(60), <2>1, <2>2, <1>4, ResultSets
<1> HIDE DEF aligned
<1>7. completed \in Results /\ completed.mode = "full"
  BY <1>4, <1>6, ResultSets
<1>8. QED
  <2> HIDE DEF r, halted, completed
  <2>1. PICK repair \in repairs : \/ WriteResult(c, r, repair) \/ WriteResult(c, halted, repair)
                                  \/ WriteResult(c, aligned, repair)
                                  \/ WriteResult(c, completed, repair)
    BY <1>2
  <2>2. QED
    BY <1>1, <1>3, <1>5, <1>6, <1>7, <2>1, WriteResultKeeps

\* An attempt runs, its plan is rejected, or the provider fails.
LEMMA RepairAttemptKeeps == ASSUME IInv, NEW c \in Clients, RepairAttempt(c) PROVE IInv'
<1>1. /\ pc[c] = "idle" /\ at[c] \in DOMAIN Script[c] /\ Op(c) \in Followers
      /\ scenario' = scenario
      /\ UNCHANGED <<lock, manifest, files, trace, latest, lines, chain, wal, seen, acked, kept>>
      /\ faults' = faults \/ Fault
  BY DEF RepairAttempt, Begins, Followers, evidence, Fault
<1>2. /\ at[c] > 1 /\ ~IsLight(c) /\ Op(c) # "light"
      /\ job[c].current \in Results /\ job[c].current.mode = "full"
  BY <1>1, FollowersKnow
<1>3. Arrives(c, {"intent", "idle", "end"})
  <2>1. CASE /\ job' = [job EXCEPT ![c].n = 0, ![c].guarded = FALSE,
                                   ![c].repair = "fixed", ![c].fixes = @ + 1]
             /\ pc' = [pc EXCEPT ![c] = "intent"] /\ at' = at
    <3> DEFINE j1 == [job[c] EXCEPT !.n = 0]
               j2 == [j1 EXCEPT !.guarded = FALSE]
               j3 == [j2 EXCEPT !.repair = "fixed"]
               j4 == [j3 EXCEPT !.fixes = job[c].fixes + 1]
    <3>1. job' = [job EXCEPT ![c] = j4]
      BY <2>1, Parts
    <3>2. job[c].fixes + 1 \in Nat
      BY Here DEF Jobs
    <3>3. j1 \in Jobs /\ j1.current = job[c].current
      BY Here, SetN
    <3> HIDE DEF j1
    <3>4. j2 \in Jobs /\ j2.current = job[c].current
      BY <3>3, SetUnguarded
    <3> HIDE DEF j2
    <3>5. j3 \in Jobs /\ j3.current = job[c].current
      BY <3>4, SetRepair
    <3> HIDE DEF j3
    <3>6. j4 \in Jobs /\ j4.current = job[c].current
      BY <3>2, <3>5, SetFixes
    <3> HIDE DEF j4
    <3>7. Moves(c, "intent", at[c], j4)
      BY <1>1, <2>1, <3>1, Here DEF Moves
    <3>8. Knows(c, "intent", at[c], j4)
      BY <1>1, <3>6, Here DEF Knows, Closing
    <3>9. QED
      BY <3>6, <3>7, <3>8, Here DEF Arrives
  <2>2. CASE /\ job' = [job EXCEPT ![c].repair = "rejected"]
             /\ at' = [at EXCEPT ![c] = @ + 1] /\ pc' = pc
    <3> DEFINE j == [job[c] EXCEPT !.repair = "rejected"]
    <3>1. job' = [job EXCEPT ![c] = j]
      BY <2>2, Parts
    <3>2. j \in Jobs /\ j.current = job[c].current
      BY Here, SetRepair
    <3> HIDE DEF j
    <3>3. pc' = [pc EXCEPT ![c] = "idle"]
      BY <1>1, <2>2, Parts
    <3>4. Moves(c, "idle", at[c] + 1, j)
      BY <1>1, <2>2, <3>1, <3>3 DEF Moves
    <3>5. Knows(c, "idle", at[c] + 1, j)
      BY <1>2, <3>2, Here DEF Knows, Closing
    <3>6. at[c] + 1 \in Nat \ {0}
      BY Here
    <3>7. QED
      BY <3>2, <3>4, <3>5, <3>6 DEF Arrives
  <2>3. CASE Abandon(c)
    <3>1. Arrives(c, {"end"})
      BY <1>1, <2>3, AbandonArrives
    <3>2. QED
      BY <3>1 DEF Arrives
  <2>4. QED
    BY <2>1, <2>2, <2>3 DEF RepairAttempt, Abandon
<1>4. {"intent", "idle", "end"} \in SUBSET (Stages \ Inside) /\ pc[c] \notin Inside
  BY <1>1 DEF Stages, Inside
<1>5. trace' \in File(Outcomes) /\ seen' \in [Clients -> Manifests]
  BY <1>1 DEF IInv, TypeOK
<1>6. QED
  BY <1>1, <1>3, <1>4, <1>5, AsideStep

\* A result of the command itself goes to the ledger at once.
LEMMA OwnResultKeeps ==
  ASSUME IInv, NEW c \in Clients, pc[c] = "idle", at[c] \in DOMAIN Script[c],
         Op(c) \in {"refuse", "aggregate"}, NEW status \in Outcomes,
         NEW requested \in Nat, NEW resolved \in Nat,
         job' = [job EXCEPT ![c].result = Stored(c, status, requested, resolved),
                            ![c].guarded = FALSE],
         pc' = [pc EXCEPT ![c] = "latest"],
         UNCHANGED <<scenario, lock, evidence, at, seen, history>>
  PROVE  IInv'
<1> DEFINE r == Stored(c, status, requested, resolved)
           j1 == [job[c] EXCEPT !.result = r]
           j2 == [j1 EXCEPT !.guarded = FALSE]
<1>1. /\ scenario' = scenario /\ at' = at
      /\ UNCHANGED <<lock, manifest, files, trace, latest, lines, chain, wal, seen, acked, kept,
                     faults>>
  BY DEF evidence, history
<1>2. job' = [job EXCEPT ![c] = j2]
  BY Parts
<1>3. r \in Results /\ r.mode = "full"
  BY StoredIsFull
<1> HIDE DEF r
<1>4. j1 \in Jobs /\ j1.current = job[c].current /\ j1.result = r
  BY <1>3, Here, SetResult
<1> HIDE DEF j1
<1>5. j2 \in Jobs /\ j2.current = job[c].current /\ j2.result = r
  BY <1>4, SetUnguarded
<1> HIDE DEF j2
<1>6. Moves(c, "latest", at[c], j2)
  BY <1>1, <1>2, Here DEF Moves
<1>7. Knows(c, "latest", at[c], j2)
  BY <1>3, <1>5, Here DEF Knows, Closing
<1>8. Arrives(c, {"latest"})
  BY <1>5, <1>6, <1>7, Here DEF Arrives
<1>9. {"latest"} \in SUBSET (Stages \ Inside) /\ pc[c] \notin Inside
  BY DEF Stages, Inside, Closing
<1>10. trace' \in File(Outcomes) /\ seen' \in [Clients -> Manifests]
  BY <1>1 DEF IInv, TypeOK
<1>11. QED
  BY <1>1, <1>8, <1>9, <1>10, AsideStep

\* A refused resume.
LEMMA RefuseKeeps == ASSUME IInv, NEW c \in Clients, halted_task_resume_result(c) PROVE IInv'
<1>1. "halted" \in Outcomes /\ 0 \in Nat /\ 1 \in Nat
  BY DEF Outcomes
<1>2. QED
  BY <1>1, OwnResultKeeps DEF halted_task_resume_result, Begins

\* The ledger of a plan.
LEMMA AggregateKeeps == ASSUME IInv, NEW c \in Clients, write_execution_plan_ledger(c) PROVE IInv'
<1> DEFINE n == Cardinality(Peers(c))
<1>1. n \in Nat
  <2>1. Peers(c) \subseteq Clients
    BY DEF Peers
  <2>2. QED
    BY <2>1, ClientsAssumption, FS_Subset, FS_CardinalityType
<1>2. PICK status \in Outcomes :
         job' = [job EXCEPT ![c].result = Stored(c, status, n, n), ![c].guarded = FALSE]
  BY DEF write_execution_plan_ledger, Outcomes
<1>3. /\ pc[c] = "idle" /\ at[c] \in DOMAIN Script[c] /\ Op(c) \in {"refuse", "aggregate"}
      /\ pc' = [pc EXCEPT ![c] = "latest"]
      /\ UNCHANGED <<scenario, lock, evidence, at, seen, history>>
  BY DEF write_execution_plan_ledger, Begins
<1> HIDE DEF n
<1>4. QED
  BY <1>1, <1>2, <1>3, OwnResultKeeps

\* An operation that is not called for.
LEMMA PassOverKeeps == ASSUME IInv, NEW c \in Clients, PassOver(c) PROVE IInv'
<1> DEFINE p == IF at[c] < Len(Script[c]) THEN "idle" ELSE "end"
<1>1. /\ pc[c] = "idle" /\ at[c] \in DOMAIN Script[c] /\ Op(c) \in Followers
      /\ scenario' = scenario /\ job' = job
      /\ at' = [at EXCEPT ![c] = at[c] + 1] /\ pc' = [pc EXCEPT ![c] = p]
      /\ UNCHANGED <<lock, manifest, files, trace, latest, lines, chain, wal, seen, acked, kept,
                     faults>>
  BY DEF PassOver, Begins, Followers, evidence, history
<1>2. p \in {"idle", "end"}
  OBVIOUS
<1> HIDE DEF p
<1>3. ~IsLight(c) /\ job[c].current \in Results /\ job[c].current.mode = "full"
  BY <1>1, FollowersKnow
<1>4. Moves(c, p, at[c] + 1, job[c])
  BY <1>1, Here DEF Moves
<1>5. Knows(c, p, at[c] + 1, job[c])
  BY <1>2, <1>3, Here DEF Knows, Closing
<1>6. Arrives(c, {"idle", "end"})
  <2>1. at[c] + 1 \in Nat \ {0} /\ job[c] \in Jobs
    BY Here
  <2>2. QED
    BY <1>2, <1>4, <1>5, <2>1 DEF Arrives
<1>7. {"idle", "end"} \in SUBSET (Stages \ Inside) /\ pc[c] \notin Inside
  BY <1>1 DEF Stages, Inside
<1>8. trace' \in File(Outcomes) /\ seen' \in [Clients -> Manifests]
  BY <1>1 DEF IInv, TypeOK
<1>9. QED
  BY <1>1, <1>6, <1>7, <1>8, AsideStep

-----------------------------------------------------------------------------
(* Light runs, the manifest and the trace *)

\* The outcome of a light run.
LEMMA LightOutcomeKeeps == ASSUME IInv, NEW c \in Clients, LightOutcome(c) PROVE IInv'
<1>1. /\ pc[c] = "intent" /\ at[c] \in DOMAIN Script[c] /\ Op(c) = "light" /\ IsLight(c)
      /\ scenario' = scenario /\ at' = at
      /\ UNCHANGED <<lock, manifest, files, trace, latest, lines, chain, wal, seen, acked, kept,
                     faults>>
  BY AtWork DEF LightOutcome, evidence, history
<1>2. PICK outcome \in Outcomes :
         /\ job' = [job EXCEPT ![c].n = 1, ![c].last = outcome,
               ![c].result = IF outcome = "completed"
                             THEN [Stored(c, outcome, 1, 1) EXCEPT !.mode = "wal"]
                             ELSE Stored(c, outcome, 1, 1)]
         /\ pc' = [pc EXCEPT ![c] = IF outcome = "completed" THEN "walonly" ELSE "trace"]
  BY DEF LightOutcome
<1> DEFINE r == IF outcome = "completed" THEN [Stored(c, outcome, 1, 1) EXCEPT !.mode = "wal"]
                ELSE Stored(c, outcome, 1, 1)
           p == IF outcome = "completed" THEN "walonly" ELSE "trace"
           j1 == [job[c] EXCEPT !.n = 1]
           j2 == [j1 EXCEPT !.last = outcome]
           j3 == [j2 EXCEPT !.result = r]
<1>3. job' = [job EXCEPT ![c] = j3] /\ pc' = [pc EXCEPT ![c] = p]
  BY <1>2, Parts
<1>4. p \in {"walonly", "trace"} /\ (p = "walonly" <=> outcome = "completed")
  OBVIOUS
<1>5. r \in Results /\ r.mode = IF p = "walonly" THEN "wal" ELSE "full"
  <2> DEFINE stored == Stored(c, outcome, 1, 1)
  <2>1. stored \in Results /\ stored.mode = "full"
    BY StoredIsFull
  <2> HIDE DEF stored
  <2>2. [stored EXCEPT !.mode = "wal"] \in Results /\ [stored EXCEPT !.mode = "wal"].mode = "wal"
    BY <2>1, ResultSets
  <2>3. r = IF outcome = "completed" THEN [stored EXCEPT !.mode = "wal"] ELSE stored
    BY DEF stored
  <2>4. QED
    BY <1>4, <2>1, <2>2, <2>3
<1> HIDE DEF p, r
<1>6. j1 \in Jobs /\ j1.current = job[c].current
  BY Here, SetN
<1> HIDE DEF j1
<1>7. j2 \in Jobs /\ j2.current = job[c].current /\ j2.last = outcome
  BY <1>6, SetLast
<1> HIDE DEF j2
<1>8. j3 \in Jobs /\ j3.current = job[c].current /\ j3.last = outcome /\ j3.result = r
  BY <1>5, <1>7, SetResult
<1> HIDE DEF j3
<1>9. Moves(c, p, at[c], j3)
  BY <1>1, <1>3, Here DEF Moves
<1>10. Knows(c, p, at[c], j3)
  BY <1>1, <1>4, <1>5, <1>8, Here DEF Knows, Closing, Op
<1>11. Arrives(c, {"walonly", "trace"})
  BY <1>4, <1>8, <1>9, <1>10, Here DEF Arrives
<1>12. {"walonly", "trace"} \in SUBSET (Stages \ Inside) /\ pc[c] \notin Inside
  BY <1>1 DEF Stages, Inside, Closing
<1>13. trace' \in File(Outcomes) /\ seen' \in [Clients -> Manifests]
  BY <1>1 DEF IInv, TypeOK
<1>14. QED
  BY <1>1, <1>11, <1>12, <1>13, AsideStep

\* A client that goes on with the job it has.
LEMMA GoesOn ==
  ASSUME IInv, NEW c \in Clients, NEW p \in Stages, scenario' = scenario,
         at' = at, job' = job, pc' = [pc EXCEPT ![c] = p], Knows(c, p, at[c], job[c])
  PROVE  Arrives(c, {p})
<1>1. Moves(c, p, at[c], job[c])
  BY Here DEF Moves
<1>2. QED
  BY <1>1, Here DEF Arrives

\* The manifest is read, and written back with the status of the result.
LEMMA ManifestKeeps ==
  ASSUME IInv, NEW c \in Clients, ReadManifest(c) \/ SyncManifest(c) PROVE IInv'
<1>1. CASE ReadManifest(c)
  <2>1. /\ pc[c] = "reading" /\ pc' = [pc EXCEPT ![c] = "syncing"]
        /\ scenario' = scenario /\ at' = at /\ job' = job
        /\ UNCHANGED <<lock, manifest, files, trace, latest, lines, chain, wal, acked, kept,
                       faults>>
        /\ seen' = [seen EXCEPT ![c] = manifest]
    BY <1>1 DEF ReadManifest, evidence, history
  <2>2. Knows(c, "syncing", at[c], job[c])
    BY <2>1, Here DEF Knows, Closing
  <2>3. "syncing" \in Stages /\ {"syncing"} \in SUBSET (Stages \ Inside) /\ pc[c] \notin Inside
    BY <2>1 DEF Stages, Inside, Closing
  <2>4. Arrives(c, {"syncing"})
    BY <2>1, <2>2, <2>3, GoesOn
  <2>5. trace' \in File(Outcomes) /\ seen' \in [Clients -> Manifests]
    BY <2>1 DEF IInv, TypeOK
  <2>6. QED
    BY <2>1, <2>3, <2>4, <2>5, AsideStep
<1>2. CASE SyncManifest(c)
  <2>1. /\ pc[c] = "syncing" /\ pc' = [pc EXCEPT ![c] = "trace"]
        /\ scenario' = scenario /\ at' = at /\ job' = job /\ lock = None
        /\ UNCHANGED <<lock, files, trace, latest, lines, chain, wal, seen, acked, kept, faults>>
        /\ manifest' = IF seen[c].records = <<>> THEN manifest
                       ELSE [seen[c] EXCEPT !.status = job[c].result.status]
    BY <1>2 DEF SyncManifest, history
  <2>2. Op(c) \in Followers
    BY <2>1, Here DEF Knows, Op
  <2>3. Knows(c, "trace", at[c], job[c])
    BY <2>1, <2>2, Here DEF Knows, Closing, Followers, Op
  <2>4. "trace" \in Stages /\ {"trace"} \in SUBSET (Stages \ Ledgering) /\ pc[c] \notin Ledgering
        /\ "trace" \notin Inside
    BY <2>1 DEF Stages, Inside, Closing, Ledgering
  <2>5. Arrives(c, {"trace"})
    BY <2>1, <2>3, <2>4, GoesOn
  <2>6. \A p \in {"trace"} : Locks(c, p)
    BY <2>1, <2>4 DEF Locks
  <2>7. manifest' \in Manifests
    <3>1. manifest \in Manifests /\ seen[c] \in Manifests
      BY DEF IInv, TypeOK
    <3>2. job[c].result.status \in Outcomes
      BY <2>1, Here, ResultSets DEF Knows, Closing
    <3>3. [seen[c] EXCEPT !.status = job[c].result.status] \in Manifests
      BY <3>1, <3>2 DEF Manifests
    <3>4. QED
      BY <2>1, <3>1, <3>3
  <2>8. /\ files' \in Seq(Checkpoints) /\ trace' \in File(Outcomes)
        /\ seen' \in [Clients -> Manifests] /\ kept' \in SUBSET Checkpoints
        /\ faults' \in Nat /\ (faults' = 0 => faults = 0)
    BY <2>1 DEF IInv, TypeOK
  <2>9. QED
    BY <2>1, <2>4, <2>5, <2>6, <2>7, <2>8, ElsewhereStep
<1>3. QED
  BY <1>1, <1>2

\* After the trace come the pending checkpoint or the ledger.
LEMMA TraceArrives ==
  ASSUME IInv, NEW c \in Clients, pc[c] = "trace", AfterTrace(c),
         scenario' = scenario, at' = at, job' = job
  PROVE  Arrives(c, {"flush", "latest"})
<1> DEFINE p == IF Op(c) = "light" /\ ~job[c].guarded THEN "flush" ELSE "latest"
<1>1. at[c] \in DOMAIN Script[c] /\ (IsLight(c) <=> Op(c) = "light")
  BY AtWork
<1>2. Knows(c, p, at[c], job[c])
  <2>1. CASE Op(c) = "light" /\ ~job[c].guarded
    BY <1>1, <2>1, Here DEF Knows, Closing, Op
  <2>2. CASE ~(Op(c) = "light" /\ ~job[c].guarded)
    BY <1>1, <2>2, Here DEF Knows, Closing, Op
  <2>3. QED
    BY <2>1, <2>2
<1>3. p \in {"flush", "latest"} /\ p \in Stages
  BY DEF Stages, Closing
<1>4. pc' = [pc EXCEPT ![c] = p]
  BY DEF AfterTrace
<1> HIDE DEF p
<1>5. Arrives(c, {p})
  BY <1>2, <1>3, <1>4, GoesOn
<1>6. QED
  BY <1>3, <1>5 DEF Arrives

\* A line of the trace.
LEMMA TraceKeeps ==
  ASSUME IInv, NEW c \in Clients, AppendTrace(c) \/ append_final_trace_status(c) PROVE IInv'
<1>1. /\ pc[c] = "trace" /\ AfterTrace(c) /\ scenario' = scenario /\ at' = at /\ job' = job
      /\ UNCHANGED <<lock, manifest, files, latest, lines, chain, wal, seen, acked, kept, faults>>
  BY DEF AppendTrace, append_final_trace_status, history
<1>2. Arrives(c, {"flush", "latest"})
  BY <1>1, TraceArrives
<1>3. job[c].result.status \in Outcomes
  BY <1>1, Here, ResultSets DEF Knows, Closing
<1>4. trace' \in File(Outcomes)
  <2>1. trace \in File(Outcomes) /\ <<>> \in File(Outcomes)
    BY DEF IInv, TypeOK, File
  <2>2. "line" \in Forms \ {"joined"}
    BY DEF Forms
  <2>3. /\ AppendLine(trace, job[c].result.status, "line") \in File(Outcomes)
        /\ AppendLine(<<>>, job[c].result.status, "line") \in File(Outcomes)
    BY <1>3, <2>1, <2>2, LineAppended
  <2>4. QED
    BY <2>1, <2>3 DEF AppendTrace, append_final_trace_status
<1>5. {"flush", "latest"} \in SUBSET (Stages \ Inside) /\ pc[c] \notin Inside
  BY <1>1 DEF Stages, Inside, Closing
<1>6. seen' \in [Clients -> Manifests]
  BY <1>1 DEF IInv, TypeOK
<1>7. QED
  BY <1>1, <1>2, <1>4, <1>5, <1>6, AsideStep

-----------------------------------------------------------------------------
(* Lines of the ledger and records of the chain *)

\* The chain is a sequence of records.
LEMMA ChainTyped ==
  ASSUME NEW f \in File(ChainRecords)
  PROVE  /\ DOMAIN f = 1 .. Len(f) /\ Len(f) \in Nat
         /\ f # <<>> => Len(f) \in DOMAIN f
         /\ \A i \in DOMAIN f : /\ f[i].body \in ChainRecords
                                /\ f[i].body.line \in Nat /\ f[i].body.result \in Results
<1> DEFINE T == [body : ChainRecords, form : Forms]
<1>1. f \in Seq(T)
  BY DEF File
<1>2. \A x \in T : /\ x.body \in ChainRecords
                   /\ x.body.line \in Nat /\ x.body.result \in Results
  BY DEF ChainRecords
<1> HIDE DEF T
<1>3. /\ DOMAIN f = 1 .. Len(f) /\ Len(f) \in Nat
      /\ \A i \in DOMAIN f : f[i] \in T
  BY <1>1
<1>4. f # <<>> => Len(f) \in DOMAIN f
  <2>1. f # <<>> => Len(f) \in Nat \ {0}
    BY <1>1, EmptySeq
  <2>2. QED
    BY <1>3, <2>1
<1>5. QED
  BY <1>2, <1>3, <1>4

\* A line more, whole or torn, leaves the chain sound, and the line can be referred to.
LEMMA LinesGrow ==
  ASSUME IInv, NEW result \in Results, NEW form \in Forms \ {"joined"},
         lines' = AppendLine(lines, result, form), chain' = chain
  PROVE  /\ lines' \in File(Results) /\ Linked' /\ Shows(Len(lines), result)'
         /\ \A n \in Nat : \A r : Shows(n, r) => Shows(n, r)'
         /\ \A r : Chained(r) => Chained(r)'
<1>1. lines \in File(Results)
  BY DEF IInv, TypeOK
<1>2. /\ lines' \in File(Results) /\ Len(lines) <= Len(lines') /\ lines' # <<>>
      /\ \A i \in DOMAIN lines : /\ i \in DOMAIN lines' /\ lines'[i].body = lines[i].body
                                 /\ ~Readable(lines[i]) => ~Readable(lines'[i])
      /\ \/ lines'[Len(lines')] = [body |-> result, form |-> form]
         \/ ~Readable(lines'[Len(lines')])
  BY <1>1, LineAppended
<1>3. ASSUME NEW n \in Nat, NEW r, Shows(n, r) PROVE Shows(n, r)'
  BY <1>2, <1>3 DEF Shows, Readable
<1>4. Shows(Len(lines), result)'
  <2>1. Len(lines') \in DOMAIN lines'
    <3> DEFINE T == [body : Results, form : Forms]
    <3>1. lines' \in Seq(T)
      BY <1>2 DEF File
    <3> HIDE DEF T
    <3>2. Len(lines') \in Nat \ {0}
      BY <1>2, <3>1, EmptySeq
    <3>3. QED
      BY <3>1, <3>2
  <2>2. QED
    BY <1>2, <2>1 DEF Shows, Readable
<1>5. Linked'
  <2> SUFFICES ASSUME NEW i \in DOMAIN chain
               PROVE  /\ chain[i].body.prev =
                            (IF i = 1 THEN <<>> ELSE evidence_chain_hash(chain[i - 1].body))
                      /\ Shows(chain[i].body.line, chain[i].body.result)'
    BY DEF Linked, Shows, Readable, evidence_chain_hash
  <2>1. /\ chain[i].body.prev =
             (IF i = 1 THEN <<>> ELSE evidence_chain_hash(chain[i - 1].body))
        /\ Shows(chain[i].body.line, chain[i].body.result)
    BY DEF IInv, Linked
  <2>2. chain[i].body.line \in Nat
    <3>1. chain \in File(ChainRecords)
      BY Here DEF IInv, TypeOK
    <3>2. QED
      BY <3>1, ChainTyped
  <2>3. QED
    BY <1>3, <2>1, <2>2
<1>6. \A r : Chained(r) => Chained(r)'
  BY DEF Chained, Readable
<1>7. QED
  BY <1>2, <1>3, <1>4, <1>5, <1>6

\* What append_evidence_chain_record writes.
ChainRecord(result) == [prev |-> LastChainHash, line |-> Len(lines), result |-> result]

\* It is a record.
LEMMA RecordTyped ==
  ASSUME IInv, NEW result \in Results PROVE ChainRecord(result) \in ChainRecords
<1> DEFINE L == [line : Nat, result : Results]
<1>1. /\ chain \in File(ChainRecords) /\ Len(lines) \in Nat
      /\ \A i \in DOMAIN chain : chain[i].body \in ChainRecords
      /\ chain # <<>> => Len(chain) \in DOMAIN chain
  <2>1. chain \in File(ChainRecords) /\ lines \in File(Results)
    BY DEF IInv, TypeOK
  <2>2. Len(lines) \in Nat
    BY <2>1 DEF File
  <2>3. QED
    BY <2>1, <2>2, ChainTyped
<1>2. ASSUME NEW record \in ChainRecords PROVE evidence_chain_hash(record) \in Seq(L)
  <2>1. record.prev \in Seq(L) /\ [line |-> record.line, result |-> record.result] \in L
    BY DEF ChainRecords
  <2> HIDE DEF L
  <2>2. QED
    BY <2>1 DEF evidence_chain_hash
<1>3. <<>> \in Seq(L)
  OBVIOUS
<1>4. LastChainHash \in Seq(L)
  <2> HIDE DEF L
  <2> QED BY <1>1, <1>2, <1>3 DEF LastChainHash
<1>5. QED
  BY <1>1, <1>4 DEF ChainRecord, ChainRecords

\* A record more, whole or torn, leaves the chain sound, and its result chained, if
\* ledger.jsonl ends with the result.
LEMMA ChainGrows ==
  ASSUME IInv, NEW result \in Results, NEW form \in Forms \ {"joined"},
         lines' = lines, Shows(Len(lines), result),
         chain' = AppendLine(chain, ChainRecord(result), form)
  PROVE  /\ chain' \in File(ChainRecords) /\ Linked' /\ Chained(result)'
         /\ \A n \in Nat : \A r : Shows(n, r) => Shows(n, r)'
         /\ \A r : Chained(r) => Chained(r)'
<1>1. /\ chain \in File(ChainRecords) /\ lines \in File(Results)
      /\ \A i \in DOMAIN chain : chain[i].body \in ChainRecords
      /\ DOMAIN chain = 1 .. Len(chain) /\ Len(chain) \in Nat /\ Len(lines) \in Nat
      /\ chain # <<>> => Len(chain) \in DOMAIN chain
  <2>1. chain \in File(ChainRecords) /\ lines \in File(Results)
    BY DEF IInv, TypeOK
  <2>2. Len(lines) \in Nat
    BY <2>1 DEF File
  <2>3. QED
    BY <2>1, <2>2, ChainTyped
<1>2. ChainRecord(result) \in ChainRecords
  BY RecordTyped
<1>3. /\ chain' \in File(ChainRecords) /\ chain' # <<>>
      /\ \A i \in DOMAIN chain : /\ i \in DOMAIN chain' /\ chain'[i].body = chain[i].body
                                 /\ ~Readable(chain[i]) => ~Readable(chain'[i])
      /\ \/ /\ Len(chain') = Len(chain) + 1
            /\ chain'[Len(chain')] = [body |-> ChainRecord(result), form |-> form]
         \/ /\ Len(chain') = Len(chain) /\ ~Readable(chain'[Len(chain')]) /\ chain # <<>>
  BY SMTT(60), <1>1, <1>2, LineAppended
<1>4. /\ DOMAIN chain' = 1 .. Len(chain') /\ Len(chain') \in Nat
      /\ Len(chain') \in DOMAIN chain'
  BY <1>3, ChainTyped
<1>5. \A n \in Nat : \A r : Shows(n, r) => Shows(n, r)'
  BY DEF Shows, Readable
<1>6. \A r : Chained(r) => Chained(r)'
  BY <1>3 DEF Chained, Readable
<1>7. Chained(result)'
  <2>0. Len(chain) \in Nat
    BY <1>1
  <2>1. CASE Len(chain') = Len(chain) + 1
    <3>0. Len(chain') # Len(chain)
      BY <2>0, <2>1
    <3>1. /\ Len(chain') \in DOMAIN chain'
          /\ chain'[Len(chain')] = [body |-> ChainRecord(result), form |-> form]
      BY <1>3, <1>4, <3>0
    <3>2. chain'[Len(chain')].body.result = result
      BY <3>1 DEF ChainRecord
    <3>3. QED
      BY <3>1, <3>2 DEF Chained
  <2>2. CASE Len(chain') = Len(chain)
    <3>0. Len(chain') # Len(chain) + 1
      BY <2>0, <2>2
    <3>1. Len(chain') \in DOMAIN chain' /\ ~Readable(chain'[Len(chain')])
      BY <1>3, <1>4, <3>0
    <3>2. QED
      BY <3>1 DEF Chained, Readable
  <2>3. QED
    BY <1>3, <2>1, <2>2
<1>8. Linked'
  <2> SUFFICES ASSUME NEW i \in DOMAIN chain'
               PROVE  /\ chain'[i].body.prev =
                           (IF i = 1 THEN <<>> ELSE evidence_chain_hash(chain'[i - 1].body))
                      /\ Shows(chain'[i].body.line, chain'[i].body.result)
    BY DEF Linked, Shows, Readable, evidence_chain_hash
  <2>1. CASE i \in DOMAIN chain
    <3>1. /\ chain[i].body.prev =
               (IF i = 1 THEN <<>> ELSE evidence_chain_hash(chain[i - 1].body))
          /\ Shows(chain[i].body.line, chain[i].body.result)
      BY <2>1 DEF IInv, Linked
    <3>2. i # 1 => i - 1 \in DOMAIN chain
      BY <1>1, <2>1
    <3>3. QED
      BY <1>3, <2>1, <3>1, <3>2
  <2>2. CASE i \notin DOMAIN chain
    <3>0. i \in 1 .. Len(chain') /\ i \notin 1 .. Len(chain) /\ Len(chain) \in Nat
      BY <1>1, <1>4, <2>2
    <3>a. Len(chain') = Len(chain) + 1 \/ Len(chain') = Len(chain)
      BY <1>3
    <3>b. Len(chain') # Len(chain) /\ i = Len(chain) + 1
      BY <3>0, <3>a
    <3>1. i = Len(chain) + 1 /\ chain'[i] = [body |-> ChainRecord(result), form |-> form]
      BY <1>3, <3>a, <3>b
    <3>2. chain'[i].body = ChainRecord(result)
      BY <3>1
    <3>3. i # 1 => chain # <<>> /\ chain'[i - 1].body = chain[Len(chain)].body
      BY <1>1, <1>3, <3>1
    <3>4. i = 1 => chain = <<>>
      BY <1>1, <3>1
    <3>5. LastChainHash = IF i = 1 THEN <<>> ELSE evidence_chain_hash(chain'[i - 1].body)
      BY <3>3, <3>4 DEF LastChainHash
    <3>6. /\ chain'[i].body.prev = LastChainHash /\ chain'[i].body.line = Len(lines)
          /\ chain'[i].body.result = result
      BY <3>2 DEF ChainRecord
    <3>7. QED
      BY <3>5, <3>6
  <2>3. QED
    BY <2>1, <2>2
<1>9. QED
  BY <1>3, <1>5, <1>6, <1>7, <1>8

\* A torn write leaves the files typed and the chain sound; it reaches the ledger
\* only under the lock.
LEMMA TornKeeps ==
  ASSUME IInv, NEW c \in Clients, pc[c] \notin {"idle", "end"}, TornWrite(c)
  PROVE  /\ trace' \in File(Outcomes) /\ lines' \in File(Results)
         /\ chain' \in File(ChainRecords) /\ Linked'
         /\ \A n \in Nat : \A r : Shows(n, r) => Shows(n, r)'
         /\ \A r : Chained(r) => Chained(r)'
         /\ pc[c] \notin Ledgering => UNCHANGED <<lines, chain>>
<1>1. trace \in File(Outcomes) /\ lines \in File(Results) /\ chain \in File(ChainRecords)
  <2>1. TypeOK
    BY Here
  <2>2. QED
    BY <2>1 DEF TypeOK
<1>2. Linked
  BY DEF IInv
<1>3. CASE lines' = lines /\ chain' = chain /\ trace' \in File(Outcomes)
  BY <1>1, <1>2, <1>3 DEF Linked, Shows, Readable, Chained, evidence_chain_hash
<1>4. CASE UNCHANGED <<trace, lines, chain>>
  BY <1>1, <1>3, <1>4
<1>5. CASE \E form \in {"cut", "noeol"} :
             \/ /\ pc[c] = "trace" /\ lock = None
                /\ trace' = AppendLine(trace, job[c].result.status, form)
                /\ UNCHANGED <<lines, chain>>
             \/ /\ pc[c] = "line"
                /\ lines' = AppendLine(lines, job[c].result, form)
                /\ UNCHANGED <<trace, chain>>
             \/ /\ pc[c] = "chain"
                /\ ChainTailParses
                /\ chain' = AppendLine(chain, ChainRecord(job[c].result), form)
                /\ UNCHANGED <<trace, lines>>
  <2>1. PICK form \in {"cut", "noeol"} :
             \/ /\ pc[c] = "trace" /\ lock = None
                /\ trace' = AppendLine(trace, job[c].result.status, form)
                /\ UNCHANGED <<lines, chain>>
             \/ /\ pc[c] = "line"
                /\ lines' = AppendLine(lines, job[c].result, form)
                /\ UNCHANGED <<trace, chain>>
             \/ /\ pc[c] = "chain"
                /\ ChainTailParses
                /\ chain' = AppendLine(chain, ChainRecord(job[c].result), form)
                /\ UNCHANGED <<trace, lines>>
    BY <1>5
  <2>2. form \in Forms \ {"joined"}
    BY DEF Forms
  <2>3. pc[c] \in {"trace", "line", "chain"} =>
           job[c].result \in Results /\ job[c].result.status \in Outcomes
    BY Here, ResultSets DEF Knows, Closing
  <2>4. CASE /\ pc[c] = "trace"
             /\ trace' = AppendLine(trace, job[c].result.status, form)
             /\ UNCHANGED <<lines, chain>>
    <3>1. trace' \in File(Outcomes)
      BY <1>1, <2>2, <2>3, <2>4, LineAppended
    <3>2. QED
      BY <1>3, <2>4, <3>1
  <2>5. CASE /\ pc[c] = "line"
             /\ lines' = AppendLine(lines, job[c].result, form)
             /\ UNCHANGED <<trace, chain>>
    <3>1. /\ lines' \in File(Results) /\ Linked'
          /\ \A n \in Nat : \A r : Shows(n, r) => Shows(n, r)'
          /\ \A r : Chained(r) => Chained(r)'
      BY <2>2, <2>3, <2>5, LinesGrow
    <3>2. QED
      BY <1>1, <2>5, <3>1 DEF Ledgering
  <2>6. CASE /\ pc[c] = "chain"
             /\ chain' = AppendLine(chain, ChainRecord(job[c].result), form)
             /\ UNCHANGED <<trace, lines>>
    <3>1. Shows(Len(lines), job[c].result)
      BY <2>6 DEF IInv, Followed
    <3>2. /\ chain' \in File(ChainRecords) /\ Linked'
          /\ \A n \in Nat : \A r : Shows(n, r) => Shows(n, r)'
          /\ \A r : Chained(r) => Chained(r)'
      BY <2>2, <2>3, <2>6, <3>1, ChainGrows
    <3>3. QED
      BY <1>1, <2>6, <3>2 DEF Ledgering
  <2>7. QED
    BY <2>1, <2>4, <2>5, <2>6
<1>6. QED
  BY <1>4, <1>5 DEF TornWrite, ChainRecord

-----------------------------------------------------------------------------
(* Checkpoints *)

\* A checkpoint of a client's operation, typed.
LEMMA CheckpointTyped ==
  ASSUME IInv, NEW c \in Clients, NEW n \in Nat, NEW outcome \in Outcomes \cup {"breach"}
  PROVE  Checkpoint(c, n, outcome) \in Checkpoints
<1>1. at[c] \in Nat
  BY Here
<1>2. (IF outcome = "breach" THEN "halted" ELSE outcome) \in Outcomes
  BY DEF Outcomes
<1>3. QED
  BY <1>1, <1>2 DEF Checkpoint, Checkpoints

\* A file put in its place leaves the others.
LEMMA FilePut ==
  ASSUME NEW turn, NEW checkpoint \in Checkpoints, files \in Seq(Checkpoints)
  PROVE  PutFile(turn, checkpoint) \in Seq(Checkpoints)
BY DEF PutFile

\* Under the lock, a checkpoint file is written.
LEMMA CheckpointFileKeeps ==
  ASSUME IInv, NEW c \in Clients, WriteCheckpointFile(c) \/ FlushCheckpointFile(c) PROVE IInv'
<1>1. /\ pc[c] \in {"intent", "flush"} /\ lock = None /\ lock' = c /\ at' = at
      /\ pc' = [pc EXCEPT ![c] = "manifest"] /\ scenario' = scenario
      /\ UNCHANGED <<manifest, trace, latest, lines, chain, wal, seen, acked, kept, faults>>
  BY DEF WriteCheckpointFile, FlushCheckpointFile, history
<1>2. Arrives(c, {"manifest"}) /\ files' \in Seq(Checkpoints)
  <2>1. CASE WriteCheckpointFile(c)
    <3>1. PICK outcome \in Outcomes \cup {"breach"} :
             /\ Op(c) = "light" => outcome = "breach"
             /\ job' = [job EXCEPT ![c].n = @ + 1, ![c].last = outcome]
             /\ files' = PutFile(Len(manifest.records) + 1,
                                 Checkpoint(c, job[c].n + 1, outcome))
      BY <2>1 DEF WriteCheckpointFile
    <3> DEFINE j1 == [job[c] EXCEPT !.n = job[c].n + 1]
               j2 == [j1 EXCEPT !.last = outcome]
    <3>2. job' = [job EXCEPT ![c] = j2]
      BY <3>1, Parts
    <3>3. job[c].n + 1 \in Nat
      BY Here DEF Jobs
    <3>4. j1 \in Jobs /\ j1.current = job[c].current
      BY <3>3, Here, SetN
    <3> HIDE DEF j1
    <3>5. j2 \in Jobs /\ j2.current = job[c].current /\ j2.last = outcome
      BY <3>4, SetLast
    <3> HIDE DEF j2
    <3>6. Moves(c, "manifest", at[c], j2)
      BY <1>1, <3>2, Here DEF Moves
    <3>7. Knows(c, "manifest", at[c], j2)
      BY <1>1, <3>1, <3>5, Here DEF Knows, Closing, Op
    <3>8. Arrives(c, {"manifest"})
      BY <3>5, <3>6, <3>7, Here DEF Arrives
    <3>9. Checkpoint(c, job[c].n + 1, outcome) \in Checkpoints
      BY <3>3, CheckpointTyped
    <3>10. QED
      BY <3>1, <3>8, <3>9, Here, FilePut DEF TypeOK
  <2>2. CASE FlushCheckpointFile(c)
    <3>1. /\ pc[c] = "flush" /\ job' = job
          /\ files' = PutFile(Len(manifest.records) + 1, Checkpoint(c, job[c].n, job[c].last))
      BY <2>2 DEF FlushCheckpointFile
    <3>2. job[c].last \in Outcomes
      BY <3>1, Here DEF Knows
    <3>3. Knows(c, "manifest", at[c], job[c])
      BY <3>1, <3>2, Here DEF Knows, Closing
    <3>4. Arrives(c, {"manifest"})
      BY <1>1, <3>1, <3>3, GoesOn DEF Stages
    <3>5. job[c].n \in Nat
      BY Here DEF Jobs
    <3>6. Checkpoint(c, job[c].n, job[c].last) \in Checkpoints
      BY <3>2, <3>5, CheckpointTyped
    <3>7. QED
      BY <3>1, <3>4, <3>6, Here, FilePut DEF TypeOK
  <2>3. QED
    BY <2>1, <2>2
<1>3. {"manifest"} \in SUBSET (Stages \ Ledgering) /\ pc[c] \notin Ledgering
  BY <1>1 DEF Stages, Ledgering
<1>4. \A p \in {"manifest"} : Locks(c, p)
  BY <1>1 DEF Locks, Inside
<1>5. /\ manifest' \in Manifests /\ trace' \in File(Outcomes)
      /\ seen' \in [Clients -> Manifests] /\ kept' \in SUBSET Checkpoints
      /\ faults' \in Nat /\ (faults' = 0 => faults = 0)
  BY <1>1 DEF IInv, TypeOK
<1>6. QED
  BY <1>1, <1>2, <1>3, <1>4, <1>5, ElsewhereStep

\* The manifest names the checkpoint, and the lock is released.
LEMMA ManifestWritten ==
  ASSUME IInv, NEW c \in Clients, NEW P \in SUBSET (Stages \ Inside), pc[c] = "manifest",
         WriteManifestFile(c), Arrives(c, P),
         UNCHANGED <<files, trace, latest, lines, chain, wal, seen, acked, faults>>
  PROVE  IInv'
<1>1. Checkpoint(c, job[c].n, job[c].last) \in Checkpoints
  <2>1. job[c].last \in Outcomes \cup {"breach"} /\ job[c].n \in Nat
    BY Here DEF Knows, Jobs
  <2>2. QED
    BY <2>1, CheckpointTyped
<1>2. manifest' \in Manifests /\ kept' \in SUBSET Checkpoints /\ lock' = None
  <2> DEFINE checkpoint == Checkpoint(c, job[c].n, job[c].last)
  <2>1. /\ manifest' = [records |-> Append(manifest.records, checkpoint),
                        status |-> checkpoint.status]
        /\ kept' = kept \cup {checkpoint} /\ lock' = None
    BY DEF WriteManifestFile
  <2>2. checkpoint \in Checkpoints
    BY <1>1
  <2> HIDE DEF checkpoint
  <2>3. manifest \in Manifests /\ kept \in SUBSET Checkpoints
    BY DEF IInv, TypeOK
  <2>4. checkpoint.status \in Outcomes /\ manifest.records \in Seq(Checkpoints)
    BY <2>2, <2>3 DEF Checkpoints, Manifests
  <2>5. Append(manifest.records, checkpoint) \in Seq(Checkpoints)
    BY <2>2, <2>4
  <2>6. QED
    BY <2>1, <2>2, <2>3, <2>4, <2>5 DEF Manifests
<1>3. lock = c
  BY DEF IInv, LockHeld, Inside
<1>4. \A p \in P : Locks(c, p)
  BY <1>2, <1>3 DEF Locks
<1>5. P \in SUBSET (Stages \ Ledgering) /\ pc[c] \notin Ledgering
  BY DEF Ledgering, Inside
<1>6. /\ files' \in Seq(Checkpoints) /\ trace' \in File(Outcomes)
      /\ seen' \in [Clients -> Manifests] /\ faults' \in Nat /\ (faults' = 0 => faults = 0)
  BY DEF IInv, TypeOK
<1>7. QED
  BY <1>2, <1>4, <1>5, <1>6, ElsewhereStep

\* A result at the end of a checkpoint leads to the trace.
LEMMA ResultArrives ==
  ASSUME IInv, NEW c \in Clients, pc[c] \notin {"idle", "end"}, NEW r \in Results,
         r.mode = "full", Op(c) # "light",
         scenario' = scenario, at' = at, pc' = [pc EXCEPT ![c] = "trace"],
         job' = [job EXCEPT ![c].result = r]
  PROVE  Arrives(c, {"trace"})
<1> DEFINE j == [job[c] EXCEPT !.result = r]
<1>1. j \in Jobs /\ j.result = r /\ j.current = job[c].current
  BY Here, SetResult
<1>2. job' = [job EXCEPT ![c] = j]
  BY Parts
<1> HIDE DEF j
<1>3. Moves(c, "trace", at[c], j)
  BY <1>2, Here DEF Moves
<1>4. Knows(c, "trace", at[c], j)
  BY <1>1, Here, AtWork DEF Knows, Closing, Op
<1>5. QED
  BY <1>1, <1>3, <1>4, Here DEF Arrives

\* A checkpoint of the manifest, after which the run goes on, ends or was halted.
LEMMA ManifestFileKeeps ==
  ASSUME IInv, NEW c \in Clients,
         NextIntent(c) \/ LastIntent(c) \/ BudgetBreach(c) \/ FlushManifestFile(c)
  PROVE  IInv'
<1>1. /\ pc[c] = "manifest" /\ scenario' = scenario /\ at' = at /\ WriteManifestFile(c)
      /\ UNCHANGED <<files, trace, latest, lines, chain, wal, seen, acked, faults>>
  BY DEF NextIntent, LastIntent, BudgetBreach, FlushManifestFile
<1>2. Arrives(c, {"intent", "trace", "latest"})
  <2>1. CASE NextIntent(c)
    <3>1. pc' = [pc EXCEPT ![c] = "intent"] /\ job' = job
      BY <2>1 DEF NextIntent
    <3>2. Knows(c, "intent", at[c], job[c])
      BY <1>1, Here DEF Knows, Closing
    <3>3. "intent" \in Stages
      BY DEF Stages
    <3>4. Arrives(c, {"intent"})
      BY <1>1, <3>1, <3>2, <3>3, GoesOn
    <3>5. QED
      BY <3>4 DEF Arrives
  <2>2. CASE LastIntent(c)
    <3>1. PICK status \in Outcomes :
             job' = [job EXCEPT ![c].result =
                       Stored(c, status, IF status = "halted" THEN Intents(c) ELSE job[c].n,
                              job[c].n)]
      BY <2>2 DEF LastIntent
    <3> DEFINE x == IF status = "halted" THEN Intents(c) ELSE job[c].n
    <3>2. x \in Nat /\ job[c].n \in Nat
      BY <1>1, Here, AtWork DEF Jobs
    <3> HIDE DEF x
    <3>3. /\ Stored(c, status, x, job[c].n) \in Results
          /\ Stored(c, status, x, job[c].n).mode = "full"
      BY <3>2, StoredIsFull
    <3>4. Op(c) # "light" /\ pc' = [pc EXCEPT ![c] = "trace"]
      BY <2>2 DEF LastIntent
    <3>5. job' = [job EXCEPT ![c].result = Stored(c, status, x, job[c].n)]
      BY <3>1 DEF x
    <3>6. Arrives(c, {"trace"})
      BY <1>1, <3>3, <3>4, <3>5, ResultArrives
    <3>7. QED
      BY <3>6 DEF Arrives
  <2>3. CASE BudgetBreach(c)
    <3>1. Arrives(c, {"trace"})
      BY <1>1, <2>3, ExceptionArrives DEF BudgetBreach
    <3>2. QED
      BY <3>1 DEF Arrives
  <2>4. CASE FlushManifestFile(c)
    <3>1. /\ pc' = [pc EXCEPT ![c] = "latest"] /\ job' = job
          /\ Op(c) = "light" /\ job[c].last # "breach"
      BY <2>4 DEF FlushManifestFile
    <3>2. Knows(c, "latest", at[c], job[c])
      BY <1>1, <3>1, Here DEF Knows, Closing, Op
    <3>3. "latest" \in Stages
      BY DEF Stages, Closing
    <3>4. Arrives(c, {"latest"})
      BY <1>1, <3>1, <3>2, <3>3, GoesOn
    <3>5. QED
      BY <3>4 DEF Arrives
  <2>5. QED
    BY <2>1, <2>2, <2>3, <2>4
<1>3. {"intent", "trace", "latest"} \in SUBSET (Stages \ Inside)
  BY DEF Stages, Inside, Closing
<1>4. QED
  BY <1>1, <1>2, <1>3, ManifestWritten

\* A checkpoint that could not be written.
LEMMA CheckpointFailsKeeps == ASSUME IInv, NEW c \in Clients, CheckpointFails(c) PROVE IInv'
<1>1. /\ pc[c] \in {"intent", "flush", "manifest"} /\ scenario' = scenario /\ Release(c) /\ Fault
      /\ UNCHANGED at /\ pc' = [pc EXCEPT ![c] = "trace"]
      /\ UNCHANGED <<manifest, files, trace, latest, lines, chain, wal, seen, acked, kept>>
  BY DEF CheckpointFails, RunException, evidence
<1>2. \/ job' = [job EXCEPT ![c].result = halted_result(c, 0), ![c].guarded = TRUE]
      \/ job' = [job EXCEPT ![c].result = halted_result(c, 1), ![c].guarded = TRUE]
  BY DEF CheckpointFails, RunException
<1>3. Arrives(c, {"trace"})
  <2>1. 0 \in Nat /\ 1 \in Nat
    OBVIOUS
  <2>2. QED
    BY <1>1, <1>2, <2>1, ExceptionArrives
<1>4. {"trace"} \in SUBSET (Stages \ Ledgering) /\ pc[c] \notin Ledgering /\ "trace" \notin Inside
  BY <1>1 DEF Stages, Ledgering, Closing, Inside
<1>5. \A p \in {"trace"} : Locks(c, p)
  BY <1>1, <1>4 DEF Locks, Release
<1>6. /\ manifest' \in Manifests /\ files' \in Seq(Checkpoints) /\ trace' \in File(Outcomes)
      /\ seen' \in [Clients -> Manifests] /\ kept' \in SUBSET Checkpoints
      /\ faults' \in Nat /\ (faults' = 0 => faults = 0)
  BY <1>1 DEF IInv, TypeOK, Fault
<1>7. QED
  BY <1>1, <1>3, <1>4, <1>5, <1>6, ElsewhereStep

-----------------------------------------------------------------------------
(* The ledger *)

\* While a client is inside, or the lock is free, nobody else is inside.
LEMMA NobodyElseInside ==
  ASSUME IInv, NEW c \in Clients, pc[c] \in Inside \/ lock = None
  PROVE  \A d \in Clients \ {c} : pc[d] \notin Inside
BY ClientsAssumption DEF IInv, LockHeld

\* A step with the parts of the invariant about the ledger keeps the whole.
LEMMA LedgerStep ==
  ASSUME IInv, NEW c \in Clients, NEW p \in Stages, NEW a \in Nat \ {0}, NEW j \in Jobs,
         Moves(c, p, a, j), Knows(c, p, a, j), Locks(c, p),
         UNCHANGED <<manifest, files, seen, kept>>, faults' \in Nat,
         trace' \in File(Outcomes), latest' \in Results \cup {None},
         lines' \in File(Results), chain' \in File(ChainRecords),
         wal' \in Seq(Results), acked' \in SUBSET Results,
         Linked', Followed', faults' = 0 => InStep'
  PROVE  IInv'
<1>1. /\ pc' \in [Clients -> Stages] /\ at' \in [Clients -> Nat \ {0}]
      /\ job' \in [Clients -> Jobs]
      /\ \A d \in Clients : Knows(d, pc[d], at[d], job[d])'
  BY Moved
<1>2. LockHeld' /\ lock' \in Clients \cup {None}
  BY LockMoved
<1>3. scenario' \in Scenarios
  BY DEF IInv, TypeOK, Moves
<1>4. /\ manifest' \in Manifests /\ files' \in Seq(Checkpoints)
      /\ seen' \in [Clients -> Manifests] /\ kept' \in SUBSET Checkpoints
  BY DEF IInv, TypeOK
<1>5. TypeOK'
  BY ZenonT(60), <1>1, <1>2, <1>3, <1>4 DEF TypeOK, Stages, Closing, Jobs
<1>6. QED
  BY <1>1, <1>2, <1>5 DEF IInv

\* ledger.json is replaced under the lock.
LEMMA LatestKeeps == ASSUME IInv, NEW c \in Clients, WriteLatest(c) PROVE IInv'
<1>1. /\ pc[c] = "latest" /\ lock = None /\ lock' = c /\ latest' = job[c].result
      /\ pc' = [pc EXCEPT ![c] = "line"] /\ scenario' = scenario /\ at' = at /\ job' = job
      /\ UNCHANGED <<manifest, files, trace, lines, chain, wal, seen, acked, kept, faults>>
  BY DEF WriteLatest, history
<1>2. Moves(c, "line", at[c], job[c]) /\ "line" \in Stages
  BY <1>1, Here DEF Moves, Stages, Closing
<1>3. Knows(c, "line", at[c], job[c]) /\ job[c].result \in Results
  BY <1>1, Here DEF Knows, Closing
<1>4. Locks(c, "line")
  BY <1>1 DEF Locks, Inside
<1>5. \A d \in Clients : pc[d] \notin Inside
  BY <1>1, NobodyElseInside DEF Inside
<1>6. \A d \in Clients : /\ pc'[d] # "chain" /\ pc'[d] # "wal"
                         /\ pc[d] \notin {"line", "chain", "wal"}
                         /\ job'[d] = job[d] /\ (pc'[d] = "line" => d = c)
  BY <1>1, <1>5, Parts DEF Inside
<1>7. Linked' /\ Followed'
  BY <1>1, <1>6 DEF IInv, Linked, Followed, Shows, Readable, Chained
<1>8. faults' = 0 => InStep'
  <2> SUFFICES ASSUME faults' = 0 PROVE InStep'
    OBVIOUS
  <2>1. InStep
    BY <1>1 DEF IInv
  <2>2. \A i : Place(i)' = Place(i)
    BY <1>1 DEF Place
  <2>3. pc'[c] = "line"
    BY <1>1, Parts
  <2>4. QED
    BY <1>1, <1>6, <2>1, <2>2, <2>3 DEF InStep
<1>9. /\ faults' \in Nat /\ trace' \in File(Outcomes) /\ latest' \in Results \cup {None}
      /\ lines' \in File(Results) /\ chain' \in File(ChainRecords)
      /\ wal' \in Seq(Results) /\ acked' \in SUBSET Results
  BY <1>1, <1>3 DEF IInv, TypeOK
<1>10. QED
  BY <1>1, <1>2, <1>3, <1>4, <1>7, <1>8, <1>9, Here, LedgerStep

\* The lengths of the files in a typed state.
LEMMA Lengths ==
  ASSUME TypeOK
  PROVE  /\ Len(lines) \in Nat /\ DOMAIN lines = 1 .. Len(lines)
         /\ Len(chain) \in Nat /\ DOMAIN chain = 1 .. Len(chain)
         /\ Len(wal) \in Nat /\ DOMAIN wal = 1 .. Len(wal)
BY DEF TypeOK, File

\* A line of ledger.jsonl follows ledger.json.
LEMMA HistoryKeeps == ASSUME IInv, NEW c \in Clients, AppendHistory(c) PROVE IInv'
<1> DEFINE result == job[c].result
<1>1. /\ pc[c] = "line" /\ lines' = AppendLine(lines, result, "line")
      /\ pc' = [pc EXCEPT ![c] = "chain"] /\ scenario' = scenario /\ at' = at /\ job' = job
      /\ UNCHANGED <<lock, manifest, files, trace, latest, chain, wal, seen, acked, kept, faults>>
  BY DEF AppendHistory, history
<1>2. Moves(c, "chain", at[c], job[c]) /\ "chain" \in Stages
  BY <1>1, Here DEF Moves, Stages, Closing
<1>3. Knows(c, "chain", at[c], job[c]) /\ result \in Results
  BY <1>1, Here DEF Knows, Closing
<1>4. Locks(c, "chain")
  BY <1>1 DEF Locks, Inside, IInv, LockHeld
<1>5. \A d \in Clients \ {c} : pc[d] \notin Inside
  BY <1>1, NobodyElseInside DEF Inside
<1>6. \A d \in Clients : /\ pc'[d] = "chain" <=> d = c
                         /\ pc[d] # "chain" /\ pc[d] # "wal" /\ pc'[d] # "wal"
                         /\ pc'[d] # "line" /\ job'[d] = job[d]
  BY <1>1, <1>5, Parts DEF Inside
<1>7. "line" \in Forms \ {"joined"}
  BY DEF Forms
<1>8. /\ lines' \in File(Results) /\ Linked' /\ Shows(Len(lines), result)'
      /\ \A r : Chained(r) => Chained(r)'
  BY <1>1, <1>3, <1>7, LinesGrow
<1>9. Followed'
  BY <1>1, <1>6, <1>8 DEF IInv, Followed
<1>10. faults' = 0 => InStep'
  <2> SUFFICES ASSUME faults' = 0 PROVE InStep'
    OBVIOUS
  <2>1. InStep
    BY <1>1 DEF IInv
  <2>2. \A i : Place(i)' = Place(i)
    BY <1>1 DEF Place
  <2>3. /\ Len(lines) \in Nat /\ DOMAIN lines = 1 .. Len(lines)
        /\ Len(chain) \in Nat /\ DOMAIN chain = 1 .. Len(chain)
    BY Here, Lengths
  <2>4. lines' = Append(lines, [body |-> result, form |-> "line"])
    <3>1. lines \in File(Results) /\ \A i \in DOMAIN lines : lines[i].form = "line"
      BY <2>1, Here DEF InStep, TypeOK
    <3>2. QED
      BY <1>1, <1>3, <1>7, <3>1, LineAppended
  <2>5. /\ Len(lines') = Len(lines) + 1 /\ DOMAIN lines' = 1 .. Len(lines) + 1
        /\ \A i \in DOMAIN lines : lines'[i] = lines[i]
        /\ lines'[Len(lines')] = [body |-> result, form |-> "line"]
        /\ lines' # <<>>
    <3>1. lines \in Seq([body : Results, form : Forms])
      BY Here DEF TypeOK, File
    <3>2. QED
      BY <2>3, <2>4, <3>1
  <2>6. Len(lines) = Len(chain) /\ latest = result
    BY <1>1, <1>6, <2>1 DEF InStep
  <2>7. \A i \in DOMAIN lines' : lines'[i].form = "line"
    BY SMTT(60), <2>1, <2>3, <2>5 DEF InStep
  <2>8. \A i \in DOMAIN chain' : /\ chain'[i].form = "line"
                                 /\ i \in DOMAIN lines' /\ lines'[i].body = chain'[i].body.result
    BY SMTT(60), <1>1, <2>1, <2>3, <2>5 DEF InStep
  <2>9. \A k \in DOMAIN wal' : wal'[k].mode = "full" =>
           Place(k)' \in DOMAIN chain' /\ wal'[k] = lines'[Place(k)'].body
    BY SMTT(60), <1>1, <2>1, <2>2, <2>5, <2>6, <2>3 DEF InStep
  <2>10. Len(lines') = Len(chain') + 1 /\ (\E d \in Clients : pc'[d] = "chain")
    BY <1>1, <1>6, <2>5, <2>6
  <2>11. Len(chain') = Place(Len(wal))' /\ ~(\E d \in Clients : pc'[d] = "wal")
    BY <1>1, <1>6, <2>1, <2>2 DEF InStep
  <2>12. latest' = result /\ lines'[Len(lines')].body = result
    BY <1>1, <2>5, <2>6
  <2>13. \A d \in Clients :
           /\ pc'[d] \in {"line", "chain", "wal"} => latest' = job'[d].result
           /\ pc'[d] \in {"chain", "wal"} => lines'[Len(lines')].body = job'[d].result
    BY <1>6, <2>12
  <2> HIDE DEF result
  <2>14. QED
    BY <2>2, <2>5, <2>7, <2>8, <2>9, <2>10, <2>11, <2>12, <2>13 DEF InStep
<1>11. /\ faults' \in Nat /\ trace' \in File(Outcomes) /\ latest' \in Results \cup {None}
       /\ chain' \in File(ChainRecords) /\ wal' \in Seq(Results) /\ acked' \in SUBSET Results
  BY <1>1 DEF IInv, TypeOK
<1>12. QED
  BY <1>1, <1>2, <1>3, <1>4, <1>8, <1>9, <1>10, <1>11, Here, LedgerStep

\* A record of the chain follows the line.
LEMMA ChainKeeps == ASSUME IInv, NEW c \in Clients, append_evidence_chain_record(c) PROVE IInv'
<1> DEFINE result == job[c].result
<1>1. /\ pc[c] = "chain" /\ chain' = AppendLine(chain, ChainRecord(result), "line")
      /\ pc' = [pc EXCEPT ![c] = "wal"] /\ scenario' = scenario /\ at' = at /\ job' = job
      /\ UNCHANGED <<lock, manifest, files, trace, latest, lines, wal, seen, acked, kept, faults>>
  BY DEF append_evidence_chain_record, history, ChainRecord
<1>2. Moves(c, "wal", at[c], job[c]) /\ "wal" \in Stages
  BY <1>1, Here DEF Moves, Stages, Closing
<1>3. Knows(c, "wal", at[c], job[c]) /\ result \in Results
  BY <1>1, Here DEF Knows, Closing
<1>4. Locks(c, "wal")
  BY <1>1 DEF Locks, Inside, IInv, LockHeld
<1>5. \A d \in Clients \ {c} : pc[d] \notin Inside
  BY <1>1, NobodyElseInside DEF Inside
<1>6. \A d \in Clients : /\ pc'[d] = "wal" <=> d = c
                         /\ pc[d] # "wal" /\ pc[d] # "line" /\ pc'[d] # "chain"
                         /\ pc'[d] # "line" /\ job'[d] = job[d]
  BY <1>1, <1>5, Parts DEF Inside
<1>7. "line" \in Forms \ {"joined"} /\ Shows(Len(lines), result)
  BY <1>1 DEF Forms, IInv, Followed
<1>8. /\ chain' \in File(ChainRecords) /\ Linked' /\ Chained(result)'
      /\ \A r : Chained(r) => Chained(r)'
  BY <1>1, <1>3, <1>7, ChainGrows
<1>9. Followed'
  BY <1>1, <1>6, <1>8 DEF IInv, Followed
<1>10. faults' = 0 => InStep'
  <2> SUFFICES ASSUME faults' = 0 PROVE InStep'
    OBVIOUS
  <2>1. InStep
    BY <1>1 DEF IInv
  <2>2. \A i : Place(i)' = Place(i)
    BY <1>1 DEF Place
  <2>3. /\ Len(lines) \in Nat /\ DOMAIN lines = 1 .. Len(lines)
        /\ Len(chain) \in Nat /\ DOMAIN chain = 1 .. Len(chain)
    BY Here, Lengths
  <2>4. chain' = Append(chain, [body |-> ChainRecord(result), form |-> "line"])
    <3>1. chain \in File(ChainRecords) /\ \A i \in DOMAIN chain : chain[i].form = "line"
      BY <2>1, Here DEF InStep, TypeOK
    <3>2. ChainRecord(result) \in ChainRecords
      BY <1>3, RecordTyped
    <3>3. QED
      BY <1>1, <1>7, <3>1, <3>2, LineAppended
  <2>5. /\ Len(chain') = Len(chain) + 1 /\ DOMAIN chain' = 1 .. Len(chain) + 1
        /\ \A i \in DOMAIN chain : chain'[i] = chain[i]
        /\ chain'[Len(chain) + 1] = [body |-> ChainRecord(result), form |-> "line"]
    <3> DEFINE T == [body : ChainRecords, form : Forms]
               x == [body |-> ChainRecord(result), form |-> "line"]
    <3>1. chain \in Seq(T)
      BY Here DEF TypeOK, File
    <3>2. chain' = Append(chain, x)
      BY <2>4
    <3> HIDE DEF T, x
    <3>3. /\ Len(chain') = Len(chain) + 1 /\ DOMAIN chain' = 1 .. Len(chain) + 1
          /\ \A i \in DOMAIN chain : chain'[i] = chain[i]
          /\ chain'[Len(chain) + 1] = x
      BY <2>3, <3>1, <3>2
    <3>4. QED
      BY <3>3 DEF x
  <2>6. Len(lines) = Len(chain) + 1 /\ latest = result /\ lines[Len(lines)].body = result
    BY <1>1, <2>1 DEF InStep
  <2>7. \A i \in DOMAIN lines' : lines'[i].form = "line"
    BY <1>1, <2>1 DEF InStep
  <2>8. ASSUME NEW i \in DOMAIN chain'
        PROVE  /\ chain'[i].form = "line"
               /\ i \in DOMAIN lines' /\ lines'[i].body = chain'[i].body.result
    <3>1. CASE i \in DOMAIN chain
      BY SMTT(60), <1>1, <2>1, <2>5, <3>1 DEF InStep
    <3>2. CASE i \notin DOMAIN chain
      <4>1. i = Len(chain) + 1
        BY <2>3, <2>5, <2>8, <3>2
      <4>2. /\ chain'[i].form = "line" /\ chain'[i].body.result = result
        BY <2>5, <4>1 DEF ChainRecord
      <4>3. i \in DOMAIN lines /\ lines[i].body = result
        BY <2>3, <2>6, <4>1
      <4>4. QED
        BY <1>1, <4>2, <4>3
    <3>3. QED
      BY <3>1, <3>2
  <2>9. \A k \in DOMAIN wal' : wal'[k].mode = "full" =>
           Place(k)' \in DOMAIN chain' /\ wal'[k] = lines'[Place(k)'].body
    BY ZenonT(60), <1>1, <2>1, <2>2, <2>3, <2>5 DEF InStep
  <2>10. Len(lines') = Len(chain') /\ ~(\E d \in Clients : pc'[d] = "chain")
    BY <1>1, <1>6, <2>5, <2>6
  <2>11. Len(chain') = Place(Len(wal))' + 1 /\ (\E d \in Clients : pc'[d] = "wal")
    BY <1>1, <1>6, <2>1, <2>2, <2>5 DEF InStep
  <2>12. latest' = result /\ lines'[Len(lines')].body = result /\ lines' # <<>>
    <3>1. lines # <<>>
      BY <2>3, <2>6
    <3>2. QED
      BY <1>1, <2>6, <3>1
  <2>13. \A d \in Clients :
           /\ pc'[d] \in {"line", "chain", "wal"} => latest' = job'[d].result
           /\ pc'[d] \in {"chain", "wal"} => lines'[Len(lines')].body = job'[d].result
    BY <1>6, <2>12
  <2> HIDE DEF result
  <2>14. QED
    BY <1>1, <2>2, <2>7, <2>8, <2>9, <2>10, <2>11, <2>12, <2>13 DEF InStep
<1>11. /\ faults' \in Nat /\ trace' \in File(Outcomes) /\ latest' \in Results \cup {None}
       /\ lines' \in File(Results) /\ wal' \in Seq(Results) /\ acked' \in SUBSET Results
  BY <1>1 DEF IInv, TypeOK
<1>12. QED
  BY <1>1, <1>2, <1>3, <1>4, <1>8, <1>9, <1>10, <1>11, Here, LedgerStep

\* An entry more in the global ledger keeps what was true of it: those that wrote
\* before are still there, and one that has just written is.
LEMMA WalGrows ==
  ASSUME IInv, NEW c \in Clients, NEW p \in {"idle", "end"}, NEW a \in Nat \ {0}, NEW j \in Jobs,
         Moves(c, p, a, j), NEW r \in Results, r.mode = "full" => Chained(r),
         wal' = Append(wal, r), acked' = acked \cup {r},
         UNCHANGED <<lines, chain>>
  PROVE  Followed'
<1>1. /\ wal \in Seq(Results) /\ Len(wal) \in Nat /\ DOMAIN wal = 1 .. Len(wal)
  BY Here, Lengths DEF IInv, TypeOK
<1>2. /\ \A i \in DOMAIN wal : i \in DOMAIN wal' /\ wal'[i] = wal[i]
      /\ Len(wal) + 1 \in DOMAIN wal' /\ wal'[Len(wal) + 1] = r
  BY <1>1
<1>3. \A d \in Clients : pc'[d] \in {"chain", "wal"} => pc'[d] = pc[d] /\ job'[d] = job[d]
  BY Parts DEF Moves
<1>4. \A s : Chained(s) => Chained(s)'
  BY DEF Chained, Readable
<1>5. \A s \in acked' : /\ \E i \in DOMAIN wal' : wal'[i] = s
                        /\ s.mode = "full" => Chained(s)'
  <2> SUFFICES ASSUME NEW s \in acked'
               PROVE  /\ \E i \in DOMAIN wal' : wal'[i] = s
                      /\ s.mode = "full" => Chained(s)'
    OBVIOUS
  <2>1. CASE s = r
    BY <1>2, <1>4, <2>1
  <2>2. CASE s \in acked
    BY <1>2, <1>4, <2>2 DEF IInv, Followed
  <2>3. QED
    BY <2>1, <2>2
<1>6. \A d \in Clients : /\ pc'[d] = "chain" => Shows(Len(lines), job[d].result)'
                         /\ pc'[d] = "wal" => Chained(job[d].result)'
  BY <1>3 DEF IInv, Followed, Shows, Readable, Chained
<1>7. QED
  BY <1>5, <1>6 DEF Followed

\* The entry of the global ledger and the return of write_ledger.
LEMMA WalKeeps == ASSUME IInv, NEW c \in Clients, AppendWal(c) PROVE IInv'
<1> DEFINE result == job[c].result
<1>1. /\ pc[c] = "wal" /\ wal' = Append(wal, result) /\ acked' = acked \cup {result}
      /\ lock' = None /\ Finish(c, result.status \in Success) /\ scenario' = scenario
      /\ UNCHANGED <<manifest, files, trace, latest, lines, chain, seen, kept, faults>>
  BY DEF AppendWal
<1>2. result \in Results /\ result.mode = "full"
  BY <1>1, Here DEF Knows, Closing
<1>3. Arrives(c, {"idle", "end"})
  <2>1. (result.status \in Success) \in BOOLEAN /\ pc[c] \in Closing
    BY <1>1 DEF Closing
  <2>2. QED
    BY <1>1, <2>1, FinishArrives
<1>4. PICK p \in {"idle", "end"}, a \in Nat \ {0}, j \in Jobs :
         Moves(c, p, a, j) /\ Knows(c, p, a, j)
  BY <1>3 DEF Arrives
<1>5. Locks(c, p) /\ p \in Stages
  BY <1>1 DEF Locks, Inside, IInv, LockHeld, Stages
<1>6. \A d \in Clients \ {c} : pc[d] \notin Inside
  BY <1>1, NobodyElseInside DEF Inside
<1>7. \A d \in Clients : pc'[d] \notin {"line", "chain", "wal"}
                         /\ (d # c => job'[d] = job[d])
  BY <1>4, <1>6, Parts DEF Moves, Inside
<1>8. Chained(result)
  BY <1>1 DEF IInv, Followed
<1>9. Followed'
  BY <1>1, <1>2, <1>4, <1>8, WalGrows
<1>10. Linked'
  BY <1>1 DEF IInv, Linked, Shows, Readable
<1>11. wal' \in Seq(Results)
  BY <1>1, <1>2 DEF IInv, TypeOK
<1>12. faults' = 0 => InStep'
  <2> SUFFICES ASSUME faults' = 0 PROVE InStep'
    OBVIOUS
  <2>1. InStep
    BY <1>1 DEF IInv
  <2>2. wal \in Seq(Results) /\ Len(wal) \in Nat /\ DOMAIN wal = 1 .. Len(wal)
        /\ Len(chain) \in Nat /\ DOMAIN chain = 1 .. Len(chain)
    BY Here, Lengths DEF TypeOK
  <2>3. /\ \A k \in 0 .. Len(wal) : Place(k) \in Nat /\ Place(k)' = Place(k)
        /\ Place(Len(wal))' = Place(Len(wal)) + 1
    BY <1>1, <1>2, <2>2, PlacesKept
  <2>4. Len(lines) = Len(chain) /\ Len(chain) = Place(Len(wal)) + 1
    BY <1>1, <1>6, <2>1 DEF InStep, Inside
  <2>5. /\ Len(wal') = Len(wal) + 1 /\ DOMAIN wal' = 1 .. Len(wal) + 1
        /\ \A k \in DOMAIN wal : wal'[k] = wal[k]
        /\ wal'[Len(wal) + 1] = result
    BY <1>1, <2>2
  <2>6. latest = result /\ lines[Len(lines)].body = result
    BY <1>1, <2>1 DEF InStep
  <2>7. ASSUME NEW k \in Nat, k = Len(wal) + 1 PROVE Place(k)' = Len(chain)
    <3>1. k = Len(wal')
      BY <2>5, <2>7
    <3>2. Place(k)' = Place(Len(wal))'
      BY <3>1 DEF Place
    <3>3. QED
      BY <2>3, <2>4, <3>2
  <2>8. ASSUME NEW k \in DOMAIN wal', wal'[k].mode = "full"
        PROVE  Place(k)' \in DOMAIN chain' /\ wal'[k] = lines'[Place(k)'].body
    <3>1. CASE k \in DOMAIN wal
      <4>1. wal[k].mode = "full" /\ wal'[k] = wal[k] /\ Place(k)' = Place(k)
        BY <2>2, <2>3, <2>5, <2>8, <3>1
      <4>2. QED
        BY <1>1, <2>1, <3>1, <4>1 DEF InStep
    <3>2. CASE k = Len(wal) + 1
      <4>1. Place(k)' = Len(chain) /\ wal'[k] = result
        <5>1. k \in Nat
          BY <2>2, <3>2
        <5>2. Place(k)' = Len(chain)
          BY <2>7, <3>2, <5>1
        <5>3. wal'[Len(wal) + 1] = result
          BY <2>5
        <5>4. wal'[k] = result
          BY <3>2, <5>3, Zenon
        <5>5. QED
          BY <5>2, <5>4
      <4>2. Len(chain) \in DOMAIN chain
        <5>1. Place(Len(wal)) \in Nat
          BY <2>2, <2>3
        <5>2. QED
          BY <2>2, <2>4, <5>1
      <4>3. QED
        BY <1>1, <2>4, <2>6, <4>1, <4>2
    <3>3. QED
      BY <2>2, <2>5, <2>8, <3>1, <3>2
  <2>9. /\ ~(\E d \in Clients : pc'[d] = "chain") /\ ~(\E d \in Clients : pc'[d] = "wal")
        /\ Len(lines') = Len(chain') /\ Len(chain') = Place(Len(wal))'
    BY <1>1, <1>7, <2>3, <2>4
  <2>10. lines # <<>>
    <3>1. lines = <<>> => Len(lines) = 0
      OBVIOUS
    <3>2. Place(Len(wal)) \in Nat
      BY <2>2, <2>3
    <3>3. QED
      BY <2>4, <3>1, <3>2
  <2>11. /\ \A i \in DOMAIN lines' : lines'[i].form = "line"
         /\ \A i \in DOMAIN chain' : /\ chain'[i].form = "line"
                                     /\ i \in DOMAIN lines'
                                     /\ lines'[i].body = chain'[i].body.result
    BY <1>1, <2>1 DEF InStep
  <2>12. latest' = lines'[Len(lines')].body /\ lines' # <<>>
    BY <1>1, <2>6, <2>10
  <2> HIDE DEF result
  <2>13. QED
    BY <1>7, <2>8, <2>9, <2>11, <2>12 DEF InStep
<1>13. /\ faults' \in Nat /\ trace' \in File(Outcomes) /\ latest' \in Results \cup {None}
       /\ lines' \in File(Results) /\ chain' \in File(ChainRecords) /\ acked' \in SUBSET Results
  BY <1>1, <1>2 DEF IInv, TypeOK
<1>14. QED
  BY <1>1, <1>4, <1>5, <1>9, <1>10, <1>11, <1>12, <1>13, LedgerStep

\* An entry of a light run touches none of the copies.
LEMMA LightWalKeeps == ASSUME IInv, NEW c \in Clients, write_global_wal(c) PROVE IInv'
<1> DEFINE result == job[c].result
<1>1. /\ pc[c] = "walonly" /\ wal' = Append(wal, result) /\ acked' = acked \cup {result}
      /\ Finish(c, TRUE) /\ scenario' = scenario
      /\ UNCHANGED <<lock, manifest, files, trace, latest, lines, chain, seen, kept, faults>>
  BY DEF write_global_wal
<1>2. result \in Results /\ result.mode = "wal"
  BY <1>1, Here DEF Knows
<1>3. Arrives(c, {"idle", "end"})
  BY <1>1, FinishArrives
<1>4. PICK p \in {"idle", "end"}, a \in Nat \ {0}, j \in Jobs :
         Moves(c, p, a, j) /\ Knows(c, p, a, j)
  BY <1>3 DEF Arrives
<1>5. Locks(c, p) /\ p \in Stages
  BY <1>1 DEF Locks, Inside, IInv, LockHeld, Stages
<1>6. \A d \in Clients : /\ pc'[d] \in Ledgering \/ pc[d] \in Ledgering =>
                              pc'[d] = pc[d] /\ job'[d] = job[d]
                         /\ \A s \in Ledgering : pc'[d] = s <=> pc[d] = s
  BY <1>1, <1>4, Parts DEF Moves, Ledgering
<1>7. Followed'
  BY <1>1, <1>2, <1>4, WalGrows
<1>8. Linked'
  BY <1>1 DEF IInv, Linked, Shows, Readable
<1>9. wal' \in Seq(Results)
  BY <1>1, <1>2 DEF IInv, TypeOK
<1>10. faults' = 0 => InStep'
  <2> SUFFICES ASSUME faults' = 0 PROVE InStep'
    OBVIOUS
  <2>1. InStep
    BY <1>1 DEF IInv
  <2>2. wal \in Seq(Results) /\ Len(wal) \in Nat /\ DOMAIN wal = 1 .. Len(wal)
    BY Here, Lengths DEF TypeOK
  <2>3. /\ \A k \in 0 .. Len(wal) : Place(k) \in Nat /\ Place(k)' = Place(k)
        /\ Place(Len(wal))' = Place(Len(wal))
    <3>1. Place(Len(wal)) \in Nat /\ Place(Len(wal))' = Place(Len(wal)) + 0
      BY <1>1, <1>2, <2>2, PlacesKept
    <3>2. QED
      BY <1>1, <1>2, <2>2, <3>1, PlacesKept
  <2>4. /\ Len(wal') = Len(wal) + 1 /\ DOMAIN wal' = 1 .. Len(wal) + 1
        /\ \A k \in DOMAIN wal : wal'[k] = wal[k]
        /\ wal'[Len(wal) + 1] = result
    BY <1>1, <2>2
  <2>5. ASSUME NEW k \in DOMAIN wal', wal'[k].mode = "full"
        PROVE  Place(k)' \in DOMAIN chain' /\ wal'[k] = lines'[Place(k)'].body
    <3>1. k \in DOMAIN wal
      <4>1. ASSUME k = Len(wal) + 1 PROVE FALSE
        <5>1. wal'[Len(wal) + 1] = result
          BY <2>4
        <5>2. wal'[k] = result
          BY <4>1, <5>1, Zenon
        <5>3. QED
          BY <1>2, <2>5, <5>2
      <4>2. QED
        BY <2>2, <2>4, <4>1
    <3>2. wal[k].mode = "full" /\ wal'[k] = wal[k] /\ Place(k)' = Place(k)
      BY <2>2, <2>3, <2>4, <2>5, <3>1
    <3>3. QED
      BY <1>1, <2>1, <3>1, <3>2 DEF InStep
  <2>6. /\ (\E d \in Clients : pc'[d] = "chain") <=> (\E d \in Clients : pc[d] = "chain")
        /\ (\E d \in Clients : pc'[d] = "wal") <=> (\E d \in Clients : pc[d] = "wal")
        /\ (\A d \in Clients : pc'[d] # "line") <=> (\A d \in Clients : pc[d] # "line")
    BY <1>6 DEF Ledgering
  <2>7. \A d \in Clients :
          /\ pc'[d] \in {"line", "chain", "wal"} => latest' = job'[d].result
          /\ pc'[d] \in {"chain", "wal"} => lines'[Len(lines')].body = job'[d].result
    BY <1>1, <1>6, <2>1 DEF InStep, Ledgering
  <2> HIDE DEF result
  <2>8. QED
    BY <1>1, <2>1, <2>3, <2>5, <2>6, <2>7 DEF InStep
<1>11. /\ faults' \in Nat /\ trace' \in File(Outcomes) /\ latest' \in Results \cup {None}
       /\ lines' \in File(Results) /\ chain' \in File(ChainRecords) /\ acked' \in SUBSET Results
  BY <1>1, <1>2 DEF IInv, TypeOK
<1>12. QED
  BY <1>1, <1>4, <1>5, <1>7, <1>8, <1>9, <1>10, <1>11, LedgerStep

-----------------------------------------------------------------------------
(* Failures *)

\* After a fault in a file, or a refusal, the client is where the invariant lets it be.
LEMMA FaultKeeps ==
  ASSUME IInv, NEW c \in Clients, pc[c] \notin {"idle", "end"}, scenario' = scenario,
         NEW P \in SUBSET (Stages \ Inside), Arrives(c, P), lock' = lock \/ Release(c),
         lock' = lock => pc[c] \notin Inside,
         TornWrite(c), faults' \in Nat \ {0},
         UNCHANGED <<manifest, files, latest, wal, seen, acked, kept>>
  PROVE  IInv'
<1>1. PICK p \in P, a \in Nat \ {0}, j \in Jobs : Moves(c, p, a, j) /\ Knows(c, p, a, j)
  BY DEF Arrives
<1>2. p \in Stages /\ p \notin Inside
  OBVIOUS
<1>3. Locks(c, p)
  BY <1>2 DEF Locks, Release, IInv, LockHeld
<1>4. /\ trace' \in File(Outcomes) /\ lines' \in File(Results)
      /\ chain' \in File(ChainRecords) /\ Linked'
      /\ \A n \in Nat : \A r : Shows(n, r) => Shows(n, r)'
      /\ \A r : Chained(r) => Chained(r)'
      /\ pc[c] \notin Ledgering => UNCHANGED <<lines, chain>>
  BY TornKeeps
<1>5. Followed'
  <2>1. \A d \in Clients : pc'[d] \in {"chain", "wal"} =>
           d # c /\ pc'[d] = pc[d] /\ job'[d] = job[d]
    BY <1>1, <1>2, Parts DEF Moves, Inside
  <2>2. ASSUME NEW d \in Clients, pc'[d] = "chain" PROVE Shows(Len(lines), job[d].result)'
    <3>1. pc[d] = "chain" /\ d # c /\ job'[d] = job[d]
      BY <2>1, <2>2
    <3>2. pc[c] \notin Ledgering
      BY <3>1, NobodyElseInside DEF Ledgering, Inside
    <3>3. Shows(Len(lines), job[d].result) /\ lines' = lines
      BY <1>4, <3>1, <3>2 DEF IInv, Followed
    <3>4. QED
      BY <3>1, <3>3 DEF Shows, Readable
  <2>3. ASSUME NEW d \in Clients, pc'[d] = "wal" PROVE Chained(job[d].result)'
    <3>1. pc[d] = "wal" /\ job'[d] = job[d]
      BY <2>1, <2>3
    <3>2. Chained(job[d].result)
      BY <3>1 DEF IInv, Followed
    <3>3. PICK r : r = job[d].result
      OBVIOUS
    <3>4. Chained(r)'
      BY <1>4, <3>2, <3>3
    <3>5. QED
      BY <3>1, <3>3, <3>4 DEF Chained
  <2>4. \A r \in acked' : /\ \E i \in DOMAIN wal' : wal'[i] = r
                          /\ r.mode = "full" => Chained(r)'
    BY <1>4 DEF IInv, Followed
  <2>5. QED
    BY <2>2, <2>3, <2>4 DEF Followed
<1>6. latest' \in Results \cup {None} /\ wal' \in Seq(Results) /\ acked' \in SUBSET Results
  BY DEF IInv, TypeOK
<1>7. QED
  BY <1>1, <1>2, <1>3, <1>4, <1>5, <1>6, LedgerStep

\* A fault is one more.
LEMMA FaultCounts == ASSUME IInv, Fault PROVE faults' \in Nat \ {0}
BY DEF IInv, TypeOK, Fault

\* A trace event that could not be written.
LEMMA TraceFailsKeeps == ASSUME IInv, NEW c \in Clients, TraceFails(c) PROVE IInv'
<1>1. /\ pc[c] = "trace" /\ scenario' = scenario /\ lock' = lock /\ Fault /\ TornWrite(c)
      /\ UNCHANGED <<manifest, files, latest, wal, seen, acked, kept>>
  BY DEF TraceFails
<1>2. Arrives(c, {"latest", "trace", "end"})
  <2>1. CASE pc' = [pc EXCEPT ![c] = "latest"] /\ UNCHANGED <<job, at>>
    <3>1. Knows(c, "latest", at[c], job[c]) /\ "latest" \in Stages
      BY <1>1, Here DEF Knows, Closing, Stages
    <3>2. Arrives(c, {"latest"})
      BY <1>1, <2>1, <3>1, GoesOn
    <3>3. QED
      BY <3>2 DEF Arrives
  <2>2. CASE RunException(c)
    <3>1. Arrives(c, {"trace"})
      BY <1>1, <2>2, ExceptionArrives DEF RunException
    <3>2. QED
      BY <3>1 DEF Arrives
  <2>3. CASE Abandon(c)
    <3>1. Arrives(c, {"end"})
      BY <1>1, <2>3, AbandonArrives
    <3>2. QED
      BY <3>1 DEF Arrives
  <2>4. QED
    BY <2>1, <2>2, <2>3 DEF TraceFails
<1>3. {"latest", "trace", "end"} \in SUBSET (Stages \ Inside)
  BY DEF Stages, Inside, Closing
<1>4. pc[c] \notin Inside /\ faults' \in Nat \ {0}
  BY <1>1, FaultCounts DEF Inside
<1>5. QED
  BY <1>1, <1>2, <1>3, <1>4, FaultKeeps

\* A ledger that could not be written.
LEMMA LedgerFailsKeeps == ASSUME IInv, NEW c \in Clients, LedgerFails(c) PROVE IInv'
<1>1. /\ pc[c] \in {"latest", "line", "chain", "wal", "walonly"} /\ scenario' = scenario
      /\ Release(c) /\ Fault /\ TornWrite(c)
      /\ UNCHANGED <<manifest, files, latest, wal, seen, acked, kept>>
  BY DEF LedgerFails
<1>2. Arrives(c, {"idle", "trace", "end"})
  <2>1. CASE Finish(c, FALSE)
    <3>1. pc[c] \in Closing \cup {"walonly"}
      BY <1>1 DEF Closing
    <3>2. Arrives(c, {"idle", "end"})
      BY <1>1, <2>1, <3>1, FinishArrives
    <3>3. QED
      BY <3>2 DEF Arrives
  <2>2. CASE RunException(c)
    <3>1. Arrives(c, {"trace"})
      BY <1>1, <2>2, ExceptionArrives DEF RunException
    <3>2. QED
      BY <3>1 DEF Arrives
  <2>3. CASE Abandon(c)
    <3>1. Arrives(c, {"end"})
      BY <1>1, <2>3, AbandonArrives
    <3>2. QED
      BY <3>1 DEF Arrives
  <2>4. QED
    BY <2>1, <2>2, <2>3 DEF LedgerFails
<1>3. {"idle", "trace", "end"} \in SUBSET (Stages \ Inside)
  BY DEF Stages, Inside, Closing
<1>4. faults' \in Nat \ {0} /\ (lock' = lock => pc[c] \notin Inside)
  <2>1. pc[c] \in Inside => lock = c
    BY DEF IInv, LockHeld
  <2>2. QED
    BY <1>1, <2>1, FaultCounts, ClientsAssumption DEF Release
<1>5. QED
  BY <1>1, <1>2, <1>3, <1>4, FaultKeeps

\* A write of the ledger that is refused: undisturbed, the chain always parses.
LEMMA LedgerRefusesKeeps == ASSUME IInv, NEW c \in Clients, LedgerRefuses(c) PROVE IInv'
<1>1. /\ pc[c] \in {"chain", "wal", "walonly"} /\ scenario' = scenario /\ Release(c) /\ Abandon(c)
      /\ UNCHANGED <<manifest, files, trace, latest, lines, chain, wal, seen, acked, kept>>
  BY DEF LedgerRefuses, evidence
<1>2. faults' \in Nat \ {0}
  <2>1. CASE Fault
    BY <2>1, FaultCounts
  <2>2. CASE ~ChainTailParses /\ UNCHANGED faults
    <3>1. faults \in Nat /\ faults' = faults
      BY <2>2, Here DEF TypeOK
    <3>2. faults # 0
      <4>1. SUFFICES ASSUME faults = 0 PROVE ChainTailParses
        BY <2>2
      <4>2. \A i \in DOMAIN chain : chain[i].form = "line"
        BY <4>1 DEF IInv, InStep
      <4>3. chain # <<>> => Len(chain) \in DOMAIN chain
        BY Here, ChainTyped DEF TypeOK
      <4>4. QED
        BY <4>2, <4>3 DEF ChainTailParses, Readable
    <3>3. QED
      BY <3>1, <3>2
  <2>3. QED
    BY <2>1, <2>2 DEF LedgerRefuses
<1>3. Arrives(c, {"end"})
  BY <1>1, AbandonArrives
<1>4. TornWrite(c) /\ (lock' = lock => pc[c] \notin Inside)
  <2>1. pc[c] \in Inside => lock = c
    BY DEF IInv, LockHeld
  <2>2. QED
    BY <1>1, <2>1, ClientsAssumption DEF Release, TornWrite
<1>5. {"end"} \in SUBSET (Stages \ Inside) /\ pc[c] \notin {"idle", "end"}
  BY <1>1 DEF Stages, Inside, Closing
<1>6. QED
  BY <1>1, <1>2, <1>3, <1>4, <1>5, FaultKeeps

\* The death of a process ends its threads and frees the lock.
LEMMA CrashKeeps == ASSUME IInv, NEW q \in Clients, Crash(q) PROVE IInv'
<1> DEFINE dead == {c \in Clients : Process[c] = q /\ pc[c] # "end"}
<1>1. PICK c \in dead : pc[c] # "idle" /\ TornWrite(c)
  BY DEF Crash
<1>2. /\ Fault /\ lock' = (IF lock \in dead THEN None ELSE lock)
      /\ pc' = [d \in Clients |-> IF d \in dead THEN "end" ELSE pc[d]]
      /\ job' = [d \in Clients |-> IF d \in dead THEN [job[d] EXCEPT !.ok = FALSE] ELSE job[d]]
      /\ scenario' = scenario /\ at' = at
      /\ UNCHANGED <<manifest, files, latest, wal, seen, acked, kept>>
  BY DEF Crash
<1>3. c \in Clients /\ c \in dead /\ pc[c] \notin {"idle", "end"}
  BY <1>1
<1> HIDE DEF dead
<1>4. ASSUME NEW d \in Clients
      PROVE  /\ pc'[d] \in Stages /\ job'[d] \in Jobs /\ Knows(d, pc[d], at[d], job[d])'
             /\ pc'[d] # "end" => d \notin dead /\ pc'[d] = pc[d] /\ job'[d] = job[d]
  <2>1. CASE d \in dead
    <3>1. pc'[d] = "end" /\ job'[d] = [job[d] EXCEPT !.ok = FALSE]
      BY <1>2, <2>1
    <3>2. job'[d] \in Jobs /\ job'[d].current = job[d].current
      BY ZenonT(60), <3>1, Here, SetOk
    <3>3. Knows(d, pc'[d], at[d], job'[d])
      BY <3>1, <3>2, Here DEF Knows, Closing
    <3>4. Knows(d, pc[d], at[d], job[d])'
      BY <1>2, <3>3 DEF Knows, IsLight, Script
    <3>5. QED
      BY <3>1, <3>2, <3>4 DEF Stages
  <2>2. CASE d \notin dead
    <3>1. pc'[d] = pc[d] /\ job'[d] = job[d]
      BY <1>2, <2>2
    <3>2. Knows(d, pc'[d], at[d], job'[d])
      BY <3>1, Here
    <3>3. Knows(d, pc[d], at[d], job[d])'
      BY <1>2, <3>2 DEF Knows, IsLight, Script
    <3>4. QED
      BY <2>2, <3>1, <3>3, Here
  <2>3. QED
    BY <2>1, <2>2
<1>5. pc' \in [Clients -> Stages] /\ job' \in [Clients -> Jobs]
  BY <1>2, <1>4
<1>6. LockHeld' /\ lock' \in Clients \cup {None}
  <2>1. /\ lock \in Clients \cup {None} /\ None \notin Clients
        /\ \A d \in Clients : pc[d] \in Inside <=> lock = d
    BY Here, ClientsAssumption DEF TypeOK, IInv, LockHeld
  <2>2. "end" \notin Inside
    BY DEF Inside
  <2>3. \A d \in Clients : pc'[d] = IF d \in dead THEN "end" ELSE pc[d]
    BY <1>2
  <2>4. QED
    BY <1>2, <2>1, <2>2, <2>3 DEF LockHeld
<1>7. /\ trace' \in File(Outcomes) /\ lines' \in File(Results)
      /\ chain' \in File(ChainRecords) /\ Linked'
      /\ \A r : Chained(r) => Chained(r)'
      /\ pc[c] \notin Ledgering => UNCHANGED <<lines, chain>>
  BY <1>1, <1>3, TornKeeps
<1>8. Followed'
  <2>1. ASSUME NEW d \in Clients, pc'[d] = "chain" PROVE Shows(Len(lines), job[d].result)'
    <3>1. pc[d] = "chain" /\ d # c /\ job'[d] = job[d]
      BY <1>3, <1>4, <2>1
    <3>2. pc[c] \notin Ledgering
      BY <1>3, <3>1, NobodyElseInside DEF Ledgering, Inside
    <3>3. Shows(Len(lines), job[d].result) /\ lines' = lines
      BY <1>7, <3>1, <3>2 DEF IInv, Followed
    <3>4. QED
      BY <3>1, <3>3 DEF Shows, Readable
  <2>2. ASSUME NEW d \in Clients, pc'[d] = "wal" PROVE Chained(job[d].result)'
    <3>1. pc[d] = "wal" /\ job'[d] = job[d]
      BY <1>4, <2>2
    <3>2. Chained(job[d].result)
      BY <3>1 DEF IInv, Followed
    <3>3. PICK r : r = job[d].result
      OBVIOUS
    <3>4. Chained(r)'
      BY <1>7, <3>2, <3>3
    <3>5. QED
      BY <3>1, <3>3, <3>4 DEF Chained
  <2>3. \A r \in acked' : /\ \E i \in DOMAIN wal' : wal'[i] = r
                          /\ r.mode = "full" => Chained(r)'
    BY <1>2, <1>7 DEF IInv, Followed
  <2>4. QED
    BY <2>1, <2>2, <2>3 DEF Followed
<1>9. faults' \in Nat \ {0}
  BY <1>2, FaultCounts
<1>10. /\ scenario' \in Scenarios /\ manifest' \in Manifests /\ files' \in Seq(Checkpoints)
       /\ latest' \in Results \cup {None} /\ wal' \in Seq(Results)
       /\ at' \in [Clients -> Nat \ {0}] /\ seen' \in [Clients -> Manifests]
       /\ acked' \in SUBSET Results /\ kept' \in SUBSET Checkpoints
  BY <1>2 DEF IInv, TypeOK
<1>11. TypeOK'
  BY <1>5, <1>6, <1>7, <1>9, <1>10 DEF TypeOK, Stages, Closing, Jobs
<1>12. QED
  BY <1>4, <1>6, <1>7, <1>8, <1>9, <1>11 DEF IInv

-----------------------------------------------------------------------------
(* Every step *)

\* A step of one client keeps the invariant, whichever it is.
LEMMA ClientKeeps ==
  ASSUME IInv, NEW c \in Clients,
         \/ BeginTask(c) \/ apply_verifier_evidence(c) \/ RepairAttempt(c)
         \/ VerifyRepair(c) \/ CloseRepair(c) \/ apply_task_resume_evidence(c)
         \/ halted_task_resume_result(c) \/ PassOver(c)
         \/ write_execution_plan_ledger(c)
         \/ Progress(c)
         \/ CheckpointFails(c) \/ TraceFails(c) \/ LedgerFails(c)
  PROVE  IInv'
<1>1. CASE \/ BeginTask(c) \/ apply_verifier_evidence(c) \/ RepairAttempt(c)
           \/ VerifyRepair(c) \/ CloseRepair(c) \/ apply_task_resume_evidence(c)
           \/ halted_task_resume_result(c) \/ PassOver(c) \/ write_execution_plan_ledger(c)
  BY <1>1, BeginTaskKeeps, FollowersKeep, RepairAttemptKeeps, RefuseKeeps, PassOverKeeps,
     AggregateKeeps
<1>2. CASE \/ WriteCheckpointFile(c) \/ FlushCheckpointFile(c)
           \/ NextIntent(c) \/ LastIntent(c) \/ BudgetBreach(c) \/ FlushManifestFile(c)
           \/ LightOutcome(c) \/ ReadManifest(c) \/ SyncManifest(c)
           \/ AppendTrace(c) \/ append_final_trace_status(c)
  BY <1>2, CheckpointFileKeeps, ManifestFileKeeps, LightOutcomeKeeps, ManifestKeeps, TraceKeeps
<1>3. CASE \/ WriteLatest(c) \/ AppendHistory(c) \/ append_evidence_chain_record(c)
           \/ AppendWal(c) \/ write_global_wal(c) \/ LedgerRefuses(c)
  BY <1>3, LatestKeeps, HistoryKeeps, ChainKeeps, WalKeeps, LightWalKeeps, LedgerRefusesKeeps
<1>4. CASE CheckpointFails(c) \/ TraceFails(c) \/ LedgerFails(c)
  BY <1>4, CheckpointFailsKeeps, TraceFailsKeeps, LedgerFailsKeeps
<1>5. QED
  BY <1>1, <1>2, <1>3, <1>4 DEF Progress

\* The invariant says nothing of a later state that the state does not.
LEMMA StutterKeeps == ASSUME IInv, UNCHANGED vars PROVE IInv'
<1>1. /\ UNCHANGED <<scenario, lock, manifest, files, trace, latest, lines, chain, wal>>
      /\ UNCHANGED <<pc, at, job, seen, acked, kept, faults>>
  BY DEF vars, evidence, clients, history
<1>2. TypeOK'
  BY <1>1 DEF IInv, TypeOK
<1>3. ASSUME NEW c \in Clients PROVE Knows(c, pc[c], at[c], job[c])'
  BY <1>1, Here DEF Knows, IsLight, Script
<1>4. LockHeld'
  BY <1>1 DEF IInv, LockHeld
<1>5. Linked' /\ Followed'
  BY <1>1 DEF IInv, Linked, Followed, Shows, Readable, Chained
<1>6. faults' = 0 => InStep'
  <2>1. \A i : Place(i)' = Place(i)
    BY <1>1 DEF Place
  <2>2. QED
    BY <1>1, <2>1 DEF IInv, InStep
<1>7. QED
  BY <1>2, <1>3, <1>4, <1>5, <1>6 DEF IInv

\* A run's directory is empty at first.
LEMMA InitHolds == ASSUME Init PROVE IInv
<1>1. /\ scenario \in Scenarios /\ lock = None /\ files = <<>> /\ trace = <<>>
      /\ manifest = [records |-> <<>>, status |-> None]
      /\ latest = None /\ lines = <<>> /\ chain = <<>> /\ wal = <<>>
      /\ pc = [c \in Clients |-> "idle"] /\ at = [c \in Clients |-> 1]
      /\ seen = [c \in Clients |-> manifest] /\ acked = {} /\ kept = {} /\ faults = 0
  BY DEF Init
<1>2. job \in [Clients -> Jobs]
  <2> DEFINE j == [n |-> 0, last |-> None, result |-> None, guarded |-> FALSE, ok |-> TRUE,
                   current |-> None, repair |-> "none", fixes |-> 0]
  <2>1. j \in Jobs
    BY DEF Jobs
  <2>2. job = [c \in Clients |-> j]
    BY DEF Init
  <2> HIDE DEF j
  <2>3. QED
    BY <2>1, <2>2
<1>3. manifest \in Manifests
  BY <1>1 DEF Manifests
<1>4. TypeOK
  <2>1. /\ files \in Seq(Checkpoints) /\ trace \in File(Outcomes) /\ lines \in File(Results)
        /\ chain \in File(ChainRecords) /\ wal \in Seq(Results)
    BY <1>1 DEF File
  <2>2. QED
    BY <1>1, <1>2, <1>3, <2>1 DEF TypeOK, Jobs
<1>5. \A c \in Clients : Knows(c, pc[c], at[c], job[c])
  BY <1>1 DEF Knows, Closing
<1>6. LockHeld
  BY <1>1, ClientsAssumption DEF LockHeld, Inside
<1>7. Linked /\ Followed
  BY <1>1 DEF Linked, Followed
<1>8. InStep
  <2>1. Place(Len(wal)) = 0
    <3>1. {k \in 1 .. Len(wal) : wal[k].mode = "full"} = {}
      BY <1>1
    <3>2. QED
      BY <3>1, FS_EmptySet DEF Place
  <2>2. Len(lines) = 0 /\ Len(chain) = 0
    BY <1>1
  <2>3. ~(\E c \in Clients : pc[c] = "chain") /\ ~(\E c \in Clients : pc[c] = "wal")
    BY <1>1
  <2>4. DOMAIN lines = {} /\ DOMAIN chain = {} /\ DOMAIN wal = {}
    BY <1>1
  <2>5. \A c \in Clients : pc[c] = "idle"
    BY <1>1
  <2>6. QED
    BY <1>1, <2>1, <2>2, <2>3, <2>4, <2>5 DEF InStep
<1>9. QED
  BY <1>4, <1>5, <1>6, <1>7, <1>8 DEF IInv

\* The copies of a result agree, because they differ by what the holder of the lock
\* has still to write, and the chain is linked whatever failed.
LEMMA CopiesFollow == ASSUME IInv PROVE LedgersAgree
<1>1. ASSUME lock = None, faults = 0
      PROVE  /\ Len(lines) = Len(chain) /\ Len(chain) = Place(Len(wal))
             /\ \A i \in DOMAIN lines : lines[i].body = chain[i].body.result
             /\ \A j \in DOMAIN wal : wal[j].mode = "full" => wal[j] = lines[Place(j)].body
             /\ latest = IF lines = <<>> THEN None ELSE lines[Len(lines)].body
  <2>1. InStep
    BY <1>1 DEF IInv
  <2>2. \A c \in Clients : pc[c] \notin {"line", "chain", "wal"}
    BY <1>1, ClientsAssumption DEF IInv, LockHeld, Inside
  <2>3. Len(lines) = Len(chain) /\ Len(chain) = Place(Len(wal))
    BY <2>1, <2>2 DEF InStep
  <2>4. DOMAIN lines = 1 .. Len(lines) /\ DOMAIN chain = 1 .. Len(chain)
    BY Lengths DEF IInv
  <2>5. \A i \in DOMAIN lines : lines[i].body = chain[i].body.result
    BY <2>1, <2>3, <2>4 DEF InStep
  <2>6. \A j \in DOMAIN wal : wal[j].mode = "full" => wal[j] = lines[Place(j)].body
    BY <2>1 DEF InStep
  <2>7. latest = IF lines = <<>> THEN None ELSE lines[Len(lines)].body
    BY <2>1, <2>2 DEF InStep
  <2>8. QED
    BY <2>3, <2>5, <2>6, <2>7
<1>2. validate_evidence_chain \/ Torn
  <2> SUFFICES ASSUME ~Torn, NEW i \in DOMAIN chain
               PROVE  /\ Readable(chain[i])
                      /\ chain[i].body.prev =
                           (IF i = 1 THEN <<>> ELSE evidence_chain_hash(chain[i - 1].body))
                      /\ chain[i].body.line \in DOMAIN lines
                      /\ Readable(lines[chain[i].body.line])
                      /\ lines[chain[i].body.line].body = chain[i].body.result
    BY DEF validate_evidence_chain
  <2>1. Readable(chain[i]) /\ \A n \in DOMAIN lines : Readable(lines[n])
    BY DEF Torn
  <2>2. /\ chain[i].body.prev =
             (IF i = 1 THEN <<>> ELSE evidence_chain_hash(chain[i - 1].body))
        /\ Shows(chain[i].body.line, chain[i].body.result)
    BY DEF IInv, Linked
  <2>3. QED
    BY <2>1, <2>2 DEF Shows
<1>3. ASSUME NEW r \in acked
      PROVE  /\ \E i \in DOMAIN wal : wal[i] = r
             /\ r.mode = "full" =>
                  (\E i \in DOMAIN chain : chain[i].body.result = r) \/ ~validate_evidence_chain
  <2>1. /\ \E i \in DOMAIN wal : wal[i] = r
        /\ r.mode = "full" => Chained(r)
    BY DEF IInv, Followed
  <2>2. QED
    BY <2>1 DEF Chained, validate_evidence_chain
<1>4. QED
  BY <1>1, <1>2, <1>3 DEF LedgersAgree

\* Whatever the scenario, the writers and the faults: the stages know what they
\* need, the lock is with who is inside write_checkpoint or write_ledger, and the
\* copies of a result differ by what its holder has still to write.
THEOREM RunsInvariant == Spec => []IInv
<1>1. Init => IInv
  BY InitHolds
<1>2. IInv /\ [Next]_vars => IInv'
  BY ClientKeeps, CrashKeeps, StutterKeeps DEF Next
<1>3. QED
  BY <1>1, <1>2, PTL DEF Spec

\* Types.
THEOREM RunTypes == Spec => []TypeOK
<1>1. IInv => TypeOK
  BY DEF IInv
<1>2. QED
  BY <1>1, RunsInvariant, PTL

\* ledger.json, ledger.jsonl, the chain and the global ledger hold the same results
\* between two undisturbed writes; disturbed ones leave a chain that verifies or was
\* torn, and no result that write_ledger has returned is missing from it unnoticed.
THEOREM CopiesAgree == Spec => []LedgersAgree
<1>1. IInv => LedgersAgree
  BY CopiesFollow
<1>2. QED
  BY <1>1, RunsInvariant, PTL

-----------------------------------------------------------------------------
(* The manifest and its files, when a command that synchronises it is alone *)

\* While a command is about to synchronise the manifest, nobody else is at work.
LEMMA SyncingAlone ==
  ASSUME CommandsAlone, IInv, NEW c \in Clients, pc[c] = "syncing"
  PROVE  \A d \in Clients \ {c} : pc[d] \in {"idle", "end"}
<1>1. at[c] \in DOMAIN Script[c] /\ Script[c][at[c]] \in Followers
  BY Here DEF Knows
<1>2. scenario \in Scenarios
  BY DEF IInv, TypeOK
<1>3. ASSUME NEW d \in Clients \ {c} PROVE Script[d] = <<>>
  BY <1>1, <1>2 DEF CommandsAlone, Script
<1>4. ASSUME NEW d \in Clients \ {c} PROVE pc[d] \in {"idle", "end"}
  <2>1. pc[d] \notin {"idle", "end"} => at[d] \in DOMAIN Script[d]
    BY Here DEF Knows
  <2>2. DOMAIN Script[d] = {}
    BY <1>3
  <2>3. QED
    BY <2>1, <2>2
<1>5. QED
  BY <1>4

\* A step that touches neither the manifest nor its files, nor begins to write them.
LEMMA RecordsKept ==
  ASSUME RInv, UNCHANGED <<manifest, files, seen, kept>>,
         \A d \in Clients : pc'[d] \in {"manifest", "syncing"} =>
            pc'[d] = pc[d] /\ at'[d] = at[d] /\ job'[d] = job[d]
  PROVE  SeenIsManifest' /\ Numbered'
<1>1. SeenIsManifest'
  BY DEF RInv, SeenIsManifest
<1>2. Numbered'
  BY DEF RInv, Numbered, CheckpointsMatch, Checkpoint
<1>3. QED
  BY <1>1, <1>2

\* A step of the client that leads elsewhere than to either stage is one of them.
LEMMA ElsewhereRecords ==
  ASSUME RInv, NEW c \in Clients, UNCHANGED <<manifest, files, seen, kept>>,
         \A d \in Clients \ {c} : pc'[d] = pc[d] /\ at'[d] = at[d] /\ job'[d] = job[d],
         pc'[c] \notin {"manifest", "syncing"}
  PROVE  SeenIsManifest' /\ Numbered'
BY RecordsKept

\* Steps of the kind.
LEMMA OthersKeepRecords ==
  ASSUME RInv, NEW c \in Clients,
         \/ BeginTask(c) \/ apply_verifier_evidence(c) \/ RepairAttempt(c)
         \/ VerifyRepair(c) \/ CloseRepair(c) \/ apply_task_resume_evidence(c)
         \/ halted_task_resume_result(c) \/ PassOver(c)
         \/ write_execution_plan_ledger(c)
         \/ LightOutcome(c) \/ write_global_wal(c)
         \/ AppendTrace(c) \/ append_final_trace_status(c) \/ WriteLatest(c) \/ AppendHistory(c)
         \/ append_evidence_chain_record(c) \/ AppendWal(c) \/ LedgerRefuses(c)
         \/ CheckpointFails(c) \/ TraceFails(c) \/ LedgerFails(c)
  PROVE  SeenIsManifest' /\ Numbered'
<1>1. /\ pc \in [Clients -> Stages] /\ at \in [Clients -> Nat \ {0}] /\ job \in [Clients -> Jobs]
  BY Parts DEF RInv
<1>2. CASE BeginTask(c) \/ halted_task_resume_result(c) \/ write_execution_plan_ledger(c)
  BY <1>1, <1>2, ElsewhereRecords
     DEF BeginTask, halted_task_resume_result, write_execution_plan_ledger, evidence, history
<1>3. CASE \/ apply_verifier_evidence(c) \/ VerifyRepair(c) \/ CloseRepair(c)
           \/ apply_task_resume_evidence(c)
  <2>1. \E result, repair : WriteResult(c, result, repair)
    BY <1>3 DEF apply_verifier_evidence, VerifyRepair, CloseRepair, apply_task_resume_evidence
  <2>2. QED
    BY <1>1, <2>1, ElsewhereRecords DEF WriteResult, evidence, history
<1>4. CASE RepairAttempt(c)
  <2>1. /\ UNCHANGED <<manifest, files, seen, kept>>
        /\ \A d \in Clients \ {c} : pc'[d] = pc[d] /\ at'[d] = at[d] /\ job'[d] = job[d]
    BY <1>1, <1>4 DEF RepairAttempt, evidence
  <2>2. pc'[c] \notin {"manifest", "syncing"}
    BY <1>1, <1>4 DEF RepairAttempt, Begins
  <2>3. QED
    BY <2>1, <2>2, ElsewhereRecords
<1>5. CASE PassOver(c)
  BY <1>1, <1>5, ElsewhereRecords DEF PassOver, evidence, history
<1>6. CASE LightOutcome(c)
  <2>1. /\ UNCHANGED <<manifest, files, seen, kept>>
        /\ \A d \in Clients \ {c} : pc'[d] = pc[d] /\ at'[d] = at[d] /\ job'[d] = job[d]
    BY <1>1, <1>6 DEF LightOutcome, evidence, history
  <2>2. pc'[c] \notin {"manifest", "syncing"}
    BY <1>1, <1>6 DEF LightOutcome
  <2>3. QED
    BY <2>1, <2>2, ElsewhereRecords
<1>7. CASE write_global_wal(c) \/ AppendWal(c)
  <2>1. /\ UNCHANGED <<manifest, files, seen, kept>> /\ (\E ok : Finish(c, ok))
    BY <1>7 DEF write_global_wal, AppendWal
  <2>2. QED
    BY <1>1, <2>1, ElsewhereRecords DEF Finish
<1>8. CASE \/ AppendTrace(c) \/ append_final_trace_status(c) \/ WriteLatest(c)
           \/ AppendHistory(c) \/ append_evidence_chain_record(c)
  BY <1>1, <1>8, ElsewhereRecords
     DEF AppendTrace, append_final_trace_status, AfterTrace, WriteLatest, AppendHistory,
         append_evidence_chain_record, history
<1>9. CASE LedgerRefuses(c)
  BY <1>1, <1>9, ElsewhereRecords DEF LedgerRefuses, Abandon, evidence
<1>10. CASE CheckpointFails(c) \/ TraceFails(c) \/ LedgerFails(c)
  <2>1. UNCHANGED <<manifest, files, seen, kept>>
    BY <1>10 DEF CheckpointFails, TraceFails, LedgerFails, evidence
  <2>2. \/ \E ok : Finish(c, ok)
        \/ Abandon(c)
        \/ /\ UNCHANGED at
           /\ pc' = [pc EXCEPT ![c] = "trace"]
           /\ \E r : job' = [job EXCEPT ![c].result = r, ![c].guarded = TRUE]
        \/ pc' = [pc EXCEPT ![c] = "latest"] /\ UNCHANGED <<job, at>>
    BY <1>10 DEF CheckpointFails, TraceFails, LedgerFails, RunException
  <2>3. /\ \A d \in Clients \ {c} : pc'[d] = pc[d] /\ at'[d] = at[d] /\ job'[d] = job[d]
        /\ pc'[c] \notin {"manifest", "syncing"}
    BY <1>1, <2>2 DEF Finish, Abandon
  <2>4. QED
    BY <2>1, <2>3, ElsewhereRecords
<1>11. QED
  BY <1>2, <1>3, <1>4, <1>5, <1>6, <1>7, <1>8, <1>9, <1>10

\* A file is written in the place that the manifest will name next.
LEMMA FileIsNumbered ==
  ASSUME CommandsAlone, RInv, NEW c \in Clients, WriteCheckpointFile(c) \/ FlushCheckpointFile(c)
  PROVE  SeenIsManifest' /\ Numbered'
<1>1. /\ lock = None /\ at' = at /\ pc' = [pc EXCEPT ![c] = "manifest"]
      /\ files' = PutFile(Len(manifest.records) + 1, Checkpoint(c, job'[c].n, job'[c].last))
      /\ UNCHANGED <<manifest, seen, kept>>
  <2>1. job \in [Clients -> Jobs]
    BY Parts DEF RInv
  <2>2. CASE WriteCheckpointFile(c)
    <3>1. PICK outcome \in Outcomes \cup {"breach"} :
             /\ job' = [job EXCEPT ![c].n = @ + 1, ![c].last = outcome]
             /\ files' = PutFile(Len(manifest.records) + 1,
                                 Checkpoint(c, job[c].n + 1, outcome))
      BY <2>2 DEF WriteCheckpointFile
    <3>2. job[c] \in Jobs
      BY <2>1
    <3>3. job'[c] = [job[c] EXCEPT !.n = job[c].n + 1, !.last = outcome]
      BY <2>1, <3>1
    <3>4. job'[c].n = job[c].n + 1 /\ job'[c].last = outcome
      BY <3>2, <3>3 DEF Jobs
    <3>5. QED
      BY <2>2, <3>1, <3>4 DEF WriteCheckpointFile, history
  <2>3. CASE FlushCheckpointFile(c)
    BY <2>3 DEF FlushCheckpointFile, history
  <2>4. QED
    BY <2>2, <2>3
<1> DEFINE n == Len(manifest.records)
           checkpoint == Checkpoint(c, job'[c].n, job'[c].last)
<1>2. /\ n \in Nat /\ DOMAIN manifest.records = 1 .. n
      /\ files \in Seq(Checkpoints) /\ Len(files) \in Nat /\ DOMAIN files = 1 .. Len(files)
      /\ \A i \in 1 .. n : i \in DOMAIN files /\ files[i] = manifest.records[i]
  BY SMTT(60) DEF RInv, IInv, TypeOK, Manifests, Numbered, CheckpointsMatch
<1>3. n <= Len(files)
  <2>1. n # 0 => n \in 1 .. n
    BY <1>2
  <2>2. n # 0 => n \in 1 .. Len(files)
    BY <1>2, <2>1
  <2>3. QED
    BY <1>2, <2>2
<1> HIDE DEF checkpoint
<1>4. /\ n + 1 \in DOMAIN files' /\ files'[n + 1] = checkpoint
      /\ \A i \in 1 .. n : i \in DOMAIN files' /\ files'[i] = files[i]
  <2>1. files' = PutFile(n + 1, checkpoint)
    BY <1>1 DEF checkpoint
  <2>2. CASE n + 1 \in DOMAIN files
    <3>1. files' = [files EXCEPT ![n + 1] = checkpoint]
      BY <2>1, <2>2 DEF PutFile
    <3>2. \A i \in 1 .. n : i \in DOMAIN files /\ i # n + 1
      BY <1>2
    <3>3. DOMAIN files' = DOMAIN files
      BY <3>1
    <3>4. QED
      BY <2>2, <3>1, <3>2, <3>3
  <2>3. CASE n + 1 \notin DOMAIN files
    <3>1. n = Len(files)
      BY <1>2, <1>3, <2>3
    <3>2. files' = Append(files, checkpoint)
      BY <2>1, <2>3 DEF PutFile
    <3>3. /\ DOMAIN files' = 1 .. Len(files) + 1
          /\ files'[Len(files) + 1] = checkpoint
          /\ \A i \in 1 .. Len(files) : files'[i] = files[i]
      BY <1>2, <3>2
    <3>4. QED
      BY <1>2, <3>1, <3>3
  <2>4. QED
    BY <2>2, <2>3
<1>5. \A d \in Clients : /\ pc'[d] = "manifest" => d = c
                         /\ pc'[d] = "syncing" => pc[d] = "syncing" /\ d # c
  <2>1. \A d \in Clients : pc[d] \notin Inside
    BY <1>1, ClientsAssumption DEF RInv, IInv, LockHeld
  <2>2. QED
    BY <1>1, <2>1, Parts DEF RInv, Inside
<1>6. SeenIsManifest'
  BY <1>1, <1>5 DEF RInv, SeenIsManifest
<1>7. CheckpointsMatch'
  BY <1>1, <1>2, <1>4 DEF CheckpointsMatch
<1>8. \A d \in Clients : pc'[d] = "manifest" =>
        /\ Len(manifest'.records) + 1 \in DOMAIN files'
        /\ files'[Len(manifest'.records) + 1] = Checkpoint(d, job[d].n, job[d].last)'
  <2>1. Checkpoint(c, job[c].n, job[c].last)' = checkpoint
    BY <1>1 DEF checkpoint, Checkpoint
  <2>2. QED
    BY <1>1, <1>4, <1>5, <2>1
<1>9. kept' \subseteq {manifest'.records[i] : i \in DOMAIN manifest'.records}
  BY <1>1 DEF RInv, Numbered
<1>10. QED
  BY <1>6, <1>7, <1>8, <1>9 DEF Numbered

\* The manifest names it under the same lock.
LEMMA ManifestNamesFile ==
  ASSUME CommandsAlone, RInv, NEW c \in Clients,
         NextIntent(c) \/ LastIntent(c) \/ BudgetBreach(c) \/ FlushManifestFile(c)
  PROVE  SeenIsManifest' /\ Numbered'
<1> DEFINE n == Len(manifest.records)
           checkpoint == Checkpoint(c, job[c].n, job[c].last)
<1>1. /\ pc[c] = "manifest" /\ WriteManifestFile(c) /\ UNCHANGED <<files, seen>>
      /\ \E p \in {"intent", "trace", "latest"} : pc' = [pc EXCEPT ![c] = p]
  BY DEF NextIntent, LastIntent, BudgetBreach, FlushManifestFile
<1>2. /\ manifest'.records = Append(manifest.records, checkpoint)
      /\ kept' = kept \cup {checkpoint}
  BY <1>1 DEF WriteManifestFile
<1>3. n + 1 \in DOMAIN files /\ files[n + 1] = checkpoint
  BY <1>1 DEF RInv, Numbered
<1>4. /\ n \in Nat /\ DOMAIN manifest.records = 1 .. n
      /\ manifest.records \in Seq(Checkpoints)
      /\ \A i \in 1 .. n : i \in DOMAIN files /\ files[i] = manifest.records[i]
      /\ kept \subseteq {manifest.records[i] : i \in DOMAIN manifest.records}
  BY SMTT(60) DEF RInv, IInv, TypeOK, Manifests, Numbered, CheckpointsMatch
<1> HIDE DEF checkpoint
<1>5. /\ DOMAIN manifest'.records = 1 .. n + 1
      /\ manifest'.records[n + 1] = checkpoint
      /\ \A i \in 1 .. n : manifest'.records[i] = manifest.records[i]
  BY <1>2, <1>4
<1>6. \A d \in Clients : pc'[d] # "manifest" /\ pc'[d] # "syncing"
  <2>1. \A d \in Clients \ {c} : pc[d] \notin Inside /\ pc[d] # "syncing"
    BY <1>1, NobodyElseInside, SyncingAlone DEF RInv, Inside
  <2>2. QED
    BY <1>1, <2>1, Parts DEF RInv, Inside
<1>7. CheckpointsMatch'
  <2>1. ASSUME NEW i \in 1 .. n + 1 PROVE i \in DOMAIN files' /\ files'[i] = manifest'.records[i]
    <3>1. i \in 1 .. n \/ i = n + 1
      BY <1>4
    <3>2. QED
      BY <1>1, <1>3, <1>4, <1>5, <3>1
  <2>2. QED
    BY <1>5, <2>1 DEF CheckpointsMatch
<1>8. kept' \subseteq {manifest'.records[i] : i \in DOMAIN manifest'.records}
  BY <1>2, <1>4, <1>5
<1>9. QED
  BY <1>6, <1>7, <1>8 DEF SeenIsManifest, Numbered

\* Read and written back while nobody else is at work, the manifest keeps its records.
LEMMA SyncKeepsRecords ==
  ASSUME CommandsAlone, RInv, NEW c \in Clients, ReadManifest(c) \/ SyncManifest(c)
  PROVE  SeenIsManifest' /\ Numbered'
<1>1. /\ pc \in [Clients -> Stages] /\ seen \in [Clients -> Manifests]
      /\ job' = job /\ at' = at /\ files' = files /\ kept' = kept
  BY Parts DEF RInv, IInv, TypeOK, ReadManifest, SyncManifest, history, evidence
<1>2. CASE ReadManifest(c)
  <2>1. pc' = [pc EXCEPT ![c] = "syncing"] /\ seen' = [seen EXCEPT ![c] = manifest]
        /\ manifest' = manifest
    BY <1>2 DEF ReadManifest, evidence
  <2>2. SeenIsManifest'
    BY <1>1, <2>1 DEF RInv, SeenIsManifest
  <2>3. \A d \in Clients : pc'[d] = "manifest" => pc[d] = "manifest"
    BY <1>1, <2>1
  <2>4. Numbered'
    BY <1>1, <2>1, <2>3 DEF RInv, Numbered, CheckpointsMatch, Checkpoint
  <2>5. QED
    BY <2>2, <2>4
<1>3. CASE SyncManifest(c)
  <2>1. /\ pc[c] = "syncing" /\ pc' = [pc EXCEPT ![c] = "trace"] /\ seen' = seen
        /\ manifest' = IF seen[c].records = <<>> THEN manifest
                       ELSE [seen[c] EXCEPT !.status = job[c].result.status]
    BY <1>3 DEF SyncManifest
  <2>2. manifest'.records = manifest.records
    <3>1. seen[c].records = manifest.records
      BY <2>1 DEF RInv, SeenIsManifest
    <3>2. seen[c] \in Manifests
      BY <1>1
    <3>3. [seen[c] EXCEPT !.status = job[c].result.status].records = seen[c].records
      BY <3>2 DEF Manifests
    <3>4. QED
      BY <2>1, <3>1, <3>3
  <2>3. \A d \in Clients : /\ pc'[d] = "manifest" => pc[d] = "manifest"
                           /\ pc'[d] = "syncing" => pc[d] = "syncing"
    BY <1>1, <2>1
  <2>4. SeenIsManifest'
    BY <2>1, <2>2, <2>3 DEF RInv, SeenIsManifest
  <2>5. Numbered'
    BY <1>1, <2>2, <2>3 DEF RInv, Numbered, CheckpointsMatch, Checkpoint
  <2>6. QED
    BY <2>4, <2>5
<1>4. QED
  BY <1>2, <1>3

\* A death leaves them to the living.
LEMMA CrashKeepsRecords ==
  ASSUME RInv, NEW q \in Clients, Crash(q) PROVE SeenIsManifest' /\ Numbered'
<1> DEFINE dead == {c \in Clients : Process[c] = q /\ pc[c] # "end"}
<1>1. /\ pc' = [d \in Clients |-> IF d \in dead THEN "end" ELSE pc[d]]
      /\ job' = [d \in Clients |-> IF d \in dead THEN [job[d] EXCEPT !.ok = FALSE] ELSE job[d]]
      /\ at' = at /\ UNCHANGED <<manifest, files, seen, kept>>
  BY DEF Crash
<1> HIDE DEF dead
<1>2. \A d \in Clients : pc'[d] \in {"manifest", "syncing"} =>
         pc'[d] = pc[d] /\ at'[d] = at[d] /\ job'[d] = job[d]
  BY <1>1
<1>3. QED
  BY <1>1, <1>2, RecordsKept

\* At first there are no records; every step keeps them.
LEMMA RecordsInit == ASSUME Init PROVE RInv
<1>1. IInv
  BY InitHolds
<1>2. SeenIsManifest /\ Numbered
  BY DEF Init, SeenIsManifest, Numbered, CheckpointsMatch
<1>3. QED
  BY <1>1, <1>2 DEF RInv

\* Every step keeps what the manifest says of the checkpoint files (write_checkpoint).
LEMMA RecordsKeep == ASSUME CommandsAlone, RInv, [Next]_vars PROVE RInv'
<1>1. IInv'
  BY ClientKeeps, CrashKeeps, StutterKeeps DEF Next, RInv
<1>2. ASSUME UNCHANGED vars PROVE SeenIsManifest' /\ Numbered'
  <2>1. UNCHANGED <<manifest, files, seen, kept, pc, at, job>>
    BY <1>2 DEF vars, evidence, clients, history
  <2>2. QED
    BY <2>1, RecordsKept
<1>3. ASSUME NEW c \in Clients,
             \/ BeginTask(c) \/ apply_verifier_evidence(c) \/ RepairAttempt(c)
             \/ VerifyRepair(c) \/ CloseRepair(c) \/ apply_task_resume_evidence(c)
             \/ halted_task_resume_result(c) \/ PassOver(c)
             \/ write_execution_plan_ledger(c)
             \/ Progress(c)
             \/ CheckpointFails(c) \/ TraceFails(c) \/ LedgerFails(c)
      PROVE  SeenIsManifest' /\ Numbered'
  BY <1>3, OthersKeepRecords, FileIsNumbered, ManifestNamesFile, SyncKeepsRecords DEF Progress
<1>4. ASSUME NEW q \in Clients, Crash(q) PROVE SeenIsManifest' /\ Numbered'
  BY <1>4, CrashKeepsRecords
<1>5. SeenIsManifest' /\ Numbered'
  BY <1>2, <1>3, <1>4 DEF Next
<1>6. QED
  BY <1>1, <1>5 DEF RInv

\* For scenarios in which a command with verifiers, repairs or resume evidence is
\* the run's only client, whatever fails: a manifest record names the file that it
\* describes, and no checkpoint that was acknowledged is missing.  Elsewhere the
\* manifest a command synchronises may have grown since it was read.
THEOREM CheckpointsOnRecord == ASSUME CommandsAlone PROVE Spec => []CheckpointsAreOnRecord
<1>1. Init => RInv
  BY RecordsInit
<1>2. RInv /\ [Next]_vars => RInv'
  BY RecordsKeep
<1>3. RInv => CheckpointsAreOnRecord
  BY DEF RInv, Numbered, CheckpointsAreOnRecord
<1>4. QED
  BY <1>1, <1>2, <1>3, PTL DEF Spec

-----------------------------------------------------------------------------
(* What inspect_run shows of a command, undisturbed *)

\* Stages: those of write_ledger, those that write a result, and those of no operation.
Ledgered == {"latest", "line", "chain", "wal"}
Writing  == {"reading", "syncing", "trace"} \cup Ledgered
Outside  == {"idle", "end"}
Turns    == Len(manifest.records)

Whole(file) == \A i \in DOMAIN file : file[i].form = "line"
Ends(file, status) == file # <<>> /\ file[Len(file)].body = status

\* A breach before any repair stores one action, whatever the manifest records; the
\* counts of any other result are the manifest's.
Breached(j) == j.fixes = 0 /\ j.last = "breach"
Counted(j, r) ==
    /\ r.resolved <= r.requested
    /\ IF Breached(j) THEN r.resolved = 1 /\ Turns = j.n ELSE r.resolved = Turns
\* The result of a run that was only completed as a whole.
Overridden(j, r) == j.last = "skipped" /\ r.status = "completed"

\* The repairs are over by the a-th operation.
Settled(c, a) == \E i \in DOMAIN Script[c] : i <= a /\ Script[c][i] = "close"

\* Where a run-plan is in its script, and what it knows of its repairs.
PlanStage(c) ==
    LET p == pc[c] a == at[c] j == job[c] IN
    /\ p = "end" <=> a = Len(Script[c]) + 1
    /\ p # "end" => a \in DOMAIN Script[c]
    /\ p \in {"intent", "manifest"} => Script[c][a] \in {"task", "fix"}
    /\ a = 1 => j.repair = "none"
    /\ a <= 2 => j.fixes = 0
    /\ j.fixes > 0 => j.repair # "none" /\ \E i \in DOMAIN Script[c] : Script[c][i] = "fix"
    /\ Breached(j) => /\ j.repair = "none"
                      /\ a > 1 => j.current.status # "completed"
                      /\ p \in Writing => j.result.status # "completed"
    /\ p \notin Outside /\ Script[c][a] = "fix" => j.repair = "fixed" /\ j.fixes > 0
    /\ j.repair = "fixed" =>
          /\ p # "end"
          /\ Script[c][a] = IF p = "idle" THEN "reverdict" ELSE "fix"

\* The counts of the result it is about to write, or has returned.
PlanCounts(c) ==
    LET p == pc[c] a == at[c] j == job[c] IN
    /\ a = 1 /\ p = "idle" => Turns = 0
    /\ a = 1 /\ p = "intent" => Turns = j.n /\ j.n < Intents(c)
    /\ a = 1 /\ p = "manifest" => j.n = Turns + 1 /\ j.n <= Intents(c)
    /\ p \in Writing \/ a > 1 => Turns > 0
    /\ p \in Writing /\ (j.fixes = 0 \/ (Settled(c, a) /\ j.repair # "rejected")) =>
          Counted(j, j.result)
    /\ p \in Outside /\ a > 1 /\ (j.fixes = 0 \/ (Settled(c, a - 1) /\ j.repair # "rejected")) =>
          Counted(j, j.current)

\* A repair that ran has left records which the result does not count, until the close.
PlanShort(c) ==
    LET p == pc[c] a == at[c] j == job[c] IN
    /\ p \in {"intent", "manifest"} /\ a > 1 => j.current.resolved <= Turns
    /\ p \in Writing /\ Script[c][a] = "fix" => j.current.resolved < Turns
    /\ /\ p \in Writing /\ Script[c][a] # "fix" /\ j.fixes > 0
       /\ ~(Settled(c, a) /\ j.repair # "rejected")
       => j.result.resolved < Turns
    /\ /\ p \in Outside /\ a > 1 /\ j.fixes > 0
       /\ ~(Settled(c, a - 1) /\ j.repair # "rejected")
       => j.current.resolved < Turns

\* Its status in the ledger, the trace and the manifest: the manifest of a task still has
\* the status of the last intent, until the verdict.
PlanAgrees(c) ==
    LET p == pc[c] a == at[c] j == job[c] IN
    /\ a > 1 => trace # <<>>
    /\ p \in Outside /\ a > 1 /\ j.repair # "fixed" =>
          /\ latest = j.current /\ Ends(trace, j.current.status)
          /\ manifest.status = IF a = 2 /\ Overridden(j, j.current) THEN "skipped"
                               ELSE j.current.status
    /\ p \in Ledgered => Ends(trace, j.result.status)
    /\ p \in {"trace"} \cup Ledgered /\ Script[c][a] # "fix" =>
          manifest.status = IF a = 1 /\ Overridden(j, j.result) THEN "skipped"
                            ELSE j.result.status

PlanInv(c) == PlanStage(c) /\ PlanCounts(c) /\ PlanShort(c) /\ PlanAgrees(c)

\* Types, for the steps of an undisturbed run-plan.
LEMMA PlanTypes ==
  ASSUME IInv, NEW c \in Clients, IsRunPlan(Script[c])
  PROVE  /\ at[c] \in Nat \ {0} /\ job[c] \in Jobs /\ pc[c] \in Stages
         /\ Len(Script[c]) \in Nat /\ DOMAIN Script[c] = 1 .. Len(Script[c])
         /\ Turns \in Nat /\ Intents(c) \in Nat \ {0}
         /\ \A i \in DOMAIN Script[c] : Script[c][i] \in {"task"} \cup Followers
                                        /\ (Script[c][i] = "task" <=> i = 1)
         /\ pc[c] \notin {"walonly", "flush"}
         /\ pc[c] \in Closing => job[c].result \in Results
         /\ at[c] > 1 => job[c].current \in Results /\ job[c].current.resolved \in Nat
<1>1. /\ at[c] \in Nat \ {0} /\ job[c] \in Jobs /\ pc[c] \in Stages /\ TypeOK
      /\ Knows(c, pc[c], at[c], job[c])
  BY Here
<1>2. Script[c] \in Seq(Ops) /\ scenario.intents \in Nat \ {0}
  BY <1>1, ScriptsOfScenarios
<1>3. Len(Script[c]) \in Nat /\ DOMAIN Script[c] = 1 .. Len(Script[c])
  BY <1>2
<1>4. \A i \in DOMAIN Script[c] : Script[c][i] \in {"task"} \cup Followers
                                  /\ (Script[c][i] = "task" <=> i = 1)
  BY <1>3 DEF IsRunPlan, Followers
<1>5. manifest.records \in Seq(Checkpoints)
  BY <1>1 DEF TypeOK, Manifests
<1>6. Turns \in Nat
  BY <1>5 DEF Turns
<1>7. pc[c] \notin {"walonly", "flush"}
  BY <1>1, <1>4 DEF Knows, Followers
<1>8. at[c] > 1 => job[c].current \in Results /\ job[c].current.resolved \in Nat
  BY <1>1 DEF Knows, Results
<1>9. QED
  BY <1>1, <1>2, <1>3, <1>4, <1>6, <1>7, <1>8 DEF Knows, Intents

\* Until the close nothing is settled; at the end everything is.
LEMMA NotSettled ==
  ASSUME NEW c \in Clients, Script[c] \in Seq(Ops), IsRunPlan(Script[c])
  PROVE  /\ \A a \in DOMAIN Script[c] :
              /\ Script[c][a] \notin {"close", "resume"} => ~Settled(c, a)
              /\ Script[c][a] = "resume" /\ Settled(c, a) => Settled(c, a - 1)
         /\ (\E i \in DOMAIN Script[c] : Script[c][i] = "fix") => Settled(c, Len(Script[c]))
<1>1. Len(Script[c]) \in Nat /\ DOMAIN Script[c] = 1 .. Len(Script[c])
  OBVIOUS
<1>2. ASSUME NEW a \in DOMAIN Script[c]
      PROVE  /\ Script[c][a] \notin {"close", "resume"} => ~Settled(c, a)
             /\ Script[c][a] = "resume" /\ Settled(c, a) => Settled(c, a - 1)
  BY <1>1 DEF IsRunPlan, Settled
<1>3. (\E i \in DOMAIN Script[c] : Script[c][i] = "fix") => Settled(c, Len(Script[c]))
  BY <1>1 DEF IsRunPlan, Settled
<1>4. QED
  BY <1>2, <1>3

\* What is settled is a matter of the script, which no step changes.
LEMMA SettledStays ==
  ASSUME Script' = Script PROVE \A c, a : Settled(c, a)' <=> Settled(c, a)
BY DEF Settled

\* A run-plan begins with its task.
LEMMA PlanBegins ==
  ASSUME IInv, NEW c \in Clients, IsRunPlan(Script[c]), PlanInv(c), BeginTask(c)
  PROVE  PlanInv(c)'
<1> DEFINE j == job'[c]
<1>1. /\ pc[c] = "idle" /\ at[c] \in DOMAIN Script[c] /\ Op(c) \in {"task", "light"}
      /\ pc'[c] = "intent" /\ at'[c] = at[c]
      /\ scenario' = scenario /\ manifest' = manifest /\ trace' = trace /\ latest' = latest
  BY Parts DEF BeginTask, Begins, evidence
<1>2. j = [job[c] EXCEPT !.n = 0, !.guarded = FALSE]
  BY Parts DEF BeginTask
<1>3. /\ j.n = 0 /\ j.repair = job[c].repair /\ j.fixes = job[c].fixes
  BY <1>2, PlanTypes DEF Jobs
<1>4. at[c] = 1 /\ Script[c][at[c]] = "task" /\ Turns' = Turns /\ Script' = Script
      /\ Intents(c)' = Intents(c)
  BY <1>1, PlanTypes DEF Op, Followers, Turns, Script, Intents
<1> HIDE DEF j
<1>5. PlanStage(c)'
  BY <1>1, <1>3, <1>4, PlanTypes DEF PlanInv, PlanStage, Outside, Writing, Ledgered, j
<1>6. PlanCounts(c)'
  BY <1>1, <1>3, <1>4, PlanTypes, SettledStays DEF PlanInv, PlanCounts, Outside, Writing, Ledgered, j
<1>7. PlanAgrees(c)'
  BY <1>1, <1>3, <1>4, PlanTypes DEF PlanInv, PlanAgrees, Outside, Ledgered, j
<1>8. PlanShort(c)'
  BY <1>1, <1>4, PlanTypes DEF PlanShort, Outside, Writing, Ledgered
<1>9. QED
  BY <1>5, <1>6, <1>7, <1>8 DEF PlanInv

\* A result to be written, with the counts it is to have.
LEMMA PlanWrites ==
  ASSUME IInv, NEW c \in Clients, IsRunPlan(Script[c]), PlanInv(c),
         Begins(c, Op(c)), Op(c) \in Followers \ {"fix"}, NEW result \in Results,
         NEW repair \in {"none", "failed", "passed", "rejected"},
         job[c].fixes > 0 => repair # "none",
         job[c].fixes = 0 \/ (Settled(c, at[c]) /\ repair # "rejected") => Counted(job[c], result),
         Breached(job[c]) => repair = "none" /\ result.status # "completed",
         job[c].fixes > 0 /\ ~(Settled(c, at[c]) /\ repair # "rejected") =>
            result.resolved < Turns,
         WriteResult(c, result, repair)
  PROVE  PlanInv(c)'
<1> DEFINE j == job'[c]
           r == [result EXCEPT !.step = at[c]]
<1>1. /\ pc[c] = "idle" /\ at[c] \in DOMAIN Script[c]
      /\ pc'[c] = "reading" /\ at'[c] = at[c]
      /\ scenario' = scenario /\ manifest' = manifest /\ trace' = trace /\ latest' = latest
  BY Parts DEF WriteResult, Begins, evidence
<1>2. j = [job[c] EXCEPT !.result = r, !.repair = repair, !.guarded = FALSE]
  BY Parts DEF WriteResult
<1>3. r.resolved = result.resolved /\ r.requested = result.requested /\ r.status = result.status
  BY DEF Results
<1> HIDE DEF r
<1>4. /\ j.n = job[c].n /\ j.last = job[c].last /\ j.result = r /\ j.repair = repair
      /\ j.fixes = job[c].fixes /\ j.current = job[c].current
  BY <1>2, PlanTypes DEF Jobs
<1>5. at[c] > 1 /\ Turns' = Turns /\ Script' = Script
  BY <1>1, PlanTypes DEF Op, Followers, Turns, Script
<1> HIDE DEF j
<1>6. Counted(job[c], result) => Counted(job[c], job[c].result)'
  BY <1>3, <1>4, <1>5 DEF Counted, Breached, j
<1>7. PlanStage(c)'
  BY <1>1, <1>3, <1>4, <1>5, PlanTypes DEF PlanInv, PlanStage, Breached, Outside, Writing, Op, j
<1>8. PlanCounts(c)'
  <2>1. Turns > 0
    BY <1>5 DEF PlanInv, PlanCounts
  <2>2. j.fixes = 0 \/ (Settled(c, at[c])' /\ j.repair # "rejected") =>
           Counted(job[c], job[c].result)'
    BY <1>1, <1>4, <1>5, <1>6, SettledStays
  <2>3. QED
    BY <1>1, <1>4, <1>5, <2>1, <2>2, PlanTypes, SettledStays DEF PlanCounts, Outside, Writing, Ledgered, j
<1>9. PlanAgrees(c)'
  BY <1>1, <1>4, <1>5, PlanTypes DEF PlanInv, PlanAgrees, Outside, Ledgered, j
<1>10. PlanShort(c)'
  BY <1>1, <1>3, <1>4, <1>5, PlanTypes, SettledStays
     DEF PlanShort, Outside, Writing, Ledgered, Op, j
<1>11. QED
  BY <1>7, <1>8, <1>9, <1>10 DEF PlanInv

\* The verdicts, the end of the repairs and the resume evidence write a result.
LEMMA PlanFollows ==
  ASSUME IInv, NEW c \in Clients, IsRunPlan(Script[c]), PlanInv(c),
         \/ apply_verifier_evidence(c) \/ VerifyRepair(c)
         \/ CloseRepair(c) \/ apply_task_resume_evidence(c)
  PROVE  PlanInv(c)'
<1> DEFINE r == job[c].current
           n == Turns
<1>1. /\ Begins(c, Op(c)) /\ pc[c] = "idle" /\ at[c] \in DOMAIN Script[c]
      /\ Op(c) \in Followers \ {"fix"}
  BY DEF apply_verifier_evidence, VerifyRepair, CloseRepair, apply_task_resume_evidence,
         Begins, Followers
<1>2. at[c] > 1 /\ r \in Results /\ n \in Nat /\ job[c] \in Jobs
  BY <1>1, PlanTypes DEF Op, Followers
<1>3. job[c].fixes = 0 => Counted(job[c], r)
  BY <1>1, <1>2 DEF PlanInv, PlanCounts, Outside
<1>4. Script[c] \in Seq(Ops)
  BY ScriptsOfScenarios, Here
<1>5. Breached(job[c]) => job[c].repair = "none" /\ r.status # "completed"
  BY <1>2 DEF PlanInv, PlanStage
<1>6. job[c].fixes > 0 /\ ~(Settled(c, at[c] - 1) /\ job[c].repair # "rejected") =>
          r.resolved < Turns
  BY <1>1, <1>2 DEF PlanInv, PlanShort, Outside
<1>7. Settled(c, at[c] - 1) => Settled(c, at[c])
  BY <1>1, <1>4, PlanTypes DEF Settled
<1>8. CASE apply_verifier_evidence(c)
  <2>1. at[c] = 2 /\ job[c].fixes = 0
    BY <1>1, <1>8, PlanTypes DEF apply_verifier_evidence, Begins, Op, IsRunPlan, PlanInv, PlanStage
  <2> DEFINE halted == [r EXCEPT !.status = "halted"]
  <2>2. halted \in Results /\ halted.resolved = r.resolved /\ halted.requested = r.requested
    BY <1>2 DEF Results, Outcomes
  <2> HIDE DEF halted
  <2>3. Counted(job[c], halted)
    BY <1>3, <2>1, <2>2 DEF Counted, Breached
  <2>4. WriteResult(c, r, "none") \/ WriteResult(c, halted, "failed")
    BY <1>8 DEF apply_verifier_evidence, halted
  <2>5. Op(c) = "verdict" /\ ~Breached(job[c]) /\ ~(job[c].fixes > 0)
    BY <1>8, <1>5, <2>1 DEF apply_verifier_evidence, Begins
  <2>6. CASE WriteResult(c, r, "none")
    BY <1>1, <1>2, <1>3, <2>1, <2>5, <2>6, PlanWrites
  <2>7. CASE WriteResult(c, halted, "failed")
    BY <1>1, <2>1, <2>2, <2>3, <2>5, <2>7, PlanWrites
  <2>8. QED
    BY <2>4, <2>6, <2>7
<1>9. CASE VerifyRepair(c)
  <2>1. Op(c) = "reverdict" /\ \E repair \in {"passed", "failed"} : WriteResult(c, r, repair)
    BY <1>9 DEF VerifyRepair, Begins
  <2>2. ~Settled(c, at[c])
    BY <1>1, <1>4, <2>1, NotSettled DEF Op
  <2>3. ~Breached(job[c]) /\ (job[c].fixes > 0 => r.resolved < Turns)
    BY <1>9, <1>5, <1>6, <1>7, <2>2 DEF VerifyRepair
  <2>4. QED
    BY <1>1, <1>2, <1>3, <2>1, <2>2, <2>3, PlanWrites
<1>10. CASE apply_task_resume_evidence(c)
  <2>1. Op(c) = "resume" /\ WriteResult(c, r, job[c].repair)
    BY <1>10 DEF apply_task_resume_evidence, Begins
  <2>2. job[c].repair \in {"none", "failed", "passed", "rejected"}
    <3>1. job[c].repair # "fixed"
      BY <1>1, <2>1 DEF PlanInv, PlanStage, Op
    <3>2. QED
      BY <1>2, <3>1 DEF Jobs
  <2>3. job[c].fixes > 0 => job[c].repair # "none"
    BY DEF PlanInv, PlanStage
  <2>4. Settled(c, at[c]) => Settled(c, at[c] - 1)
    BY <1>1, <1>4, <2>1, NotSettled DEF Op
  <2>5. Settled(c, at[c]) /\ job[c].repair # "rejected" => Counted(job[c], r)
    BY <1>1, <1>2, <2>4 DEF PlanInv, PlanCounts, Outside
  <2>6. QED
    BY <1>1, <1>2, <1>3, <1>5, <1>6, <1>7, <2>1, <2>2, <2>3, <2>5, PlanWrites
<1>11. CASE CloseRepair(c)
  <2> DEFINE aligned == align_counts_with_manifest(r)
             passed == [aligned EXCEPT !.status = "completed"]
  <2>1. aligned \in Results /\ aligned.resolved = n /\ aligned.requested = n
    BY <1>2 DEF Results, align_counts_with_manifest, Turns
  <2> HIDE DEF aligned
  <2>2. passed \in Results /\ passed.resolved = n /\ passed.requested = n
    BY <2>1 DEF Results, Outcomes
  <2>3. \/ WriteResult(c, passed, "passed") \/ WriteResult(c, aligned, "failed")
        \/ job[c].repair = "rejected" /\ WriteResult(c, r, "rejected")
    BY <1>11 DEF CloseRepair, aligned
  <2> HIDE DEF passed
  <2>4. ~Breached(job[c])
    BY <1>11, <1>5 DEF CloseRepair
  <2>5. Settled(c, at[c])
    BY <1>1, <1>11, <1>4 DEF CloseRepair, Begins, Op, Settled
  <2>6. Counted(job[c], passed) /\ Counted(job[c], aligned)
    BY <1>2, <2>1, <2>2, <2>4 DEF Counted
  <2>7. CASE WriteResult(c, passed, "passed")
    BY <1>1, <2>2, <2>6, <2>7, <2>4, <2>5, PlanWrites
  <2>8. CASE WriteResult(c, aligned, "failed")
    BY <1>1, <2>1, <2>6, <2>8, <2>4, <2>5, PlanWrites
  <2>9. CASE job[c].repair = "rejected" /\ WriteResult(c, r, "rejected")
    BY <1>1, <1>2, <1>3, <1>6, <2>9, <2>4, PlanWrites
  <2>10. QED
    BY <2>3, <2>7, <2>8, <2>9
<1>12. QED
  BY <1>8, <1>9, <1>10, <1>11

\* A repair is attempted, or its plan is rejected.
LEMMA PlanRepairs ==
  ASSUME IInv, NEW c \in Clients, IsRunPlan(Script[c]), PlanInv(c),
         RepairAttempt(c), faults' = faults
  PROVE  PlanInv(c)'
<1> DEFINE j == job'[c]
<1>1. /\ pc[c] = "idle" /\ at[c] \in DOMAIN Script[c] /\ Op(c) = "fix" /\ Script[c][at[c]] = "fix"
      /\ job[c].repair = "failed" /\ faults \in Nat
      /\ scenario' = scenario /\ manifest' = manifest /\ trace' = trace /\ latest' = latest
  BY DEF RepairAttempt, Begins, evidence, Op, IInv, TypeOK
<1>2. at[c] > 2 /\ Turns' = Turns /\ Script' = Script /\ Turns > 0 /\ trace # <<>>
  BY <1>1, PlanTypes DEF IsRunPlan, Turns, Script, PlanInv, PlanCounts, PlanAgrees
<1>3. Script[c] \in Seq(Ops) /\ ~Settled(c, at[c]) /\ ~Settled(c, at[c] - 1)
  <2>1. Script[c] \in Seq(Ops)
    BY ScriptsOfScenarios, Here
  <2>2. ~Settled(c, at[c])
    BY <1>1, <2>1, NotSettled
  <2>3. QED
    BY <1>1, <2>1, <2>2, PlanTypes DEF Settled
<1>4. ~Breached(job[c])
  BY <1>1 DEF PlanInv, PlanStage
<1>5. /\ job[c].fixes = 0 => job[c].current.resolved = Turns
      /\ job[c].fixes > 0 => job[c].current.resolved < Turns
  BY <1>1, <1>2, <1>3, <1>4 DEF PlanInv, PlanCounts, PlanShort, Counted, Outside
<1>6. CASE job' = [job EXCEPT ![c].n = 0, ![c].guarded = FALSE,
                              ![c].repair = "fixed", ![c].fixes = @ + 1]
           /\ pc' = [pc EXCEPT ![c] = "intent"] /\ UNCHANGED at
  <2>1. j = [job[c] EXCEPT !.n = 0, !.guarded = FALSE, !.repair = "fixed", !.fixes = @ + 1]
    BY <1>6, Parts
  <2>2. /\ j.n = 0 /\ j.repair = "fixed" /\ j.fixes = job[c].fixes + 1 /\ job[c].fixes \in Nat
        /\ j.current = job[c].current
    BY <2>1, PlanTypes DEF Jobs
  <2>3. pc'[c] = "intent" /\ at'[c] = at[c]
    BY <1>6, Parts
  <2> HIDE DEF j
  <2>4. PlanStage(c)'
    BY SMTT(60), <1>1, <1>2, <2>2, <2>3, PlanTypes DEF PlanInv, PlanStage, Breached, Outside, j
  <2>5. PlanCounts(c)'
    BY <1>1, <1>2, <2>2, <2>3, PlanTypes, SettledStays DEF PlanCounts, Outside, Writing, Ledgered, j
  <2>6. PlanAgrees(c)'
    BY <1>1, <1>2, <2>2, <2>3, PlanTypes DEF PlanAgrees, Outside, Ledgered, j
  <2>7. PlanShort(c)'
    <3>1. job[c].current.resolved <= Turns
      BY <1>2, <1>5, <2>2, PlanTypes
    <3>2. QED
      BY <1>2, <2>2, <2>3, <3>1 DEF PlanShort, Outside, Writing, Ledgered, j
  <2>8. QED
    BY <2>4, <2>5, <2>6, <2>7 DEF PlanInv
<1>7. CASE job' = [job EXCEPT ![c].repair = "rejected"]
           /\ at' = [at EXCEPT ![c] = @ + 1] /\ UNCHANGED pc
  <2>1. j = [job[c] EXCEPT !.repair = "rejected"]
    BY <1>7, Parts
  <2>2. /\ j.n = job[c].n /\ j.last = job[c].last /\ j.fixes = job[c].fixes
        /\ j.current = job[c].current /\ j.repair = "rejected"
    BY <2>1, PlanTypes DEF Jobs
  <2>3. pc'[c] = "idle" /\ at'[c] = at[c] + 1
    BY <1>1, <1>7, Parts
  <2>4. at[c] + 1 \in DOMAIN Script[c] /\ at[c] # Len(Script[c])
    BY <1>1, PlanTypes DEF IsRunPlan
  <2> HIDE DEF j
  <2>5. PlanStage(c)'
    BY SMTT(60), <1>1, <1>2, <1>4, <2>2, <2>3, <2>4, PlanTypes
       DEF PlanInv, PlanStage, Breached, Outside, Writing, Ledgered, j
  <2>6. PlanCounts(c)'
    <3>1. job[c].fixes = 0 => Counted(job[c], job[c].current)'
      BY <1>1, <1>2, <2>2, PlanTypes DEF PlanInv, PlanCounts, Outside, Counted, Breached, j
    <3>2. QED
      BY <1>1, <1>2, <2>2, <2>3, <2>4, <3>1, PlanTypes, SettledStays
         DEF PlanCounts, Outside, Writing, Ledgered, j
  <2>7. PlanAgrees(c)'
    BY <1>1, <1>2, <2>2, <2>3, PlanTypes DEF PlanInv, PlanAgrees, Overridden, Outside, Ledgered, j
  <2>8. PlanShort(c)'
    BY <1>2, <1>5, <2>2, <2>3 DEF PlanShort, Outside, Writing, Ledgered, j
  <2>9. QED
    BY <2>5, <2>6, <2>7, <2>8 DEF PlanInv
<1>8. QED
  BY <1>1, <1>6, <1>7 DEF RepairAttempt

\* An operation is not called for.
LEMMA PlanPassesOver ==
  ASSUME IInv, NEW c \in Clients, IsRunPlan(Script[c]), PlanInv(c), PassOver(c)
  PROVE  PlanInv(c)'
<1>1. /\ pc[c] = "idle" /\ at[c] \in DOMAIN Script[c]
      /\ scenario' = scenario /\ manifest' = manifest /\ trace' = trace /\ latest' = latest
      /\ job' = job /\ at'[c] = at[c] + 1
      /\ pc'[c] = IF at[c] < Len(Script[c]) THEN "idle" ELSE "end"
  BY Parts DEF PassOver, Begins, evidence
<1>2. \/ Script[c][at[c]] = "verdict" /\ job[c].current.status # "completed"
      \/ Script[c][at[c]] = "fix" /\ job[c].repair # "failed"
      \/ Script[c][at[c]] = "reverdict" /\ job[c].repair # "fixed"
      \/ Script[c][at[c]] = "close" /\ job[c].repair \notin {"passed", "failed", "rejected"}
  BY DEF PassOver, Begins, Op
<1>3. at[c] > 1 /\ Turns' = Turns /\ Script' = Script /\ Turns > 0 /\ trace # <<>>
  BY <1>1, <1>2, PlanTypes DEF Turns, Script, PlanInv, PlanCounts, PlanAgrees, Followers
<1>4. job[c].repair # "fixed"
  BY <1>1, <1>2 DEF PlanInv, PlanStage
<1>5. job[c].repair \in {"none", "failed", "fixed", "passed", "rejected"} /\ job[c].fixes \in Nat
  BY PlanTypes DEF Jobs
<1>6. job[c].fixes = 0 => Counted(job[c], job[c].current)'
  BY <1>1, <1>3 DEF PlanInv, PlanCounts, Outside, Counted, Breached
<1>7. Settled(c, at[c]) => job[c].fixes = 0
  <2>1. Script[c] \in Seq(Ops)
    BY ScriptsOfScenarios, Here
  <2>2. Settled(c, at[c]) => Script[c][at[c]] = "close"
    BY <1>1, <1>2, <2>1, NotSettled
  <2>3. job[c].fixes > 0 => job[c].repair # "none"
    BY DEF PlanInv, PlanStage
  <2>4. QED
    BY <1>2, <1>4, <1>5, <2>2, <2>3
<1>8. PlanStage(c)'
  BY SMTT(60), <1>1, <1>3, <1>4, PlanTypes DEF PlanInv, PlanStage, Breached, Outside, Writing, Ledgered
<1>9. PlanCounts(c)'
  BY SMTT(60), <1>1, <1>3, <1>6, <1>7, PlanTypes, SettledStays DEF PlanCounts, Outside, Writing,
     Ledgered
<1>10. PlanAgrees(c)'
  <2>1. manifest.status = job[c].current.status
    <3>1. at[c] = 2 => Script[c][at[c]] \in {"verdict", "resume"}
      BY <1>1, PlanTypes DEF IsRunPlan
    <3>2. QED
      BY <1>1, <1>2, <1>3, <1>4, <3>1 DEF PlanInv, PlanAgrees, Overridden, Outside
  <2>2. latest = job[c].current /\ Ends(trace, job[c].current.status)
    BY <1>1, <1>3, <1>4 DEF PlanInv, PlanAgrees, Outside
  <2>3. Ends(trace, job[c].current.status)'
    BY <1>1, <2>2 DEF Ends
  <2>4. QED
    BY <1>1, <1>3, <2>1, <2>2, <2>3, PlanTypes DEF PlanAgrees, Outside, Ledgered
<1>11. PlanShort(c)'
  <2>1. Settled(c, at[c] - 1) => Settled(c, at[c])
    BY <1>1, PlanTypes DEF Settled
  <2>2. at'[c] - 1 = at[c]
    BY <1>1, PlanTypes
  <2>3. pc'[c] \in Outside /\ job'[c] = job[c] /\ Turns' = Turns
    BY <1>1, <1>3 DEF Outside
  <2>4. /\ job[c].fixes > 0 /\ ~(Settled(c, at[c]) /\ job[c].repair # "rejected")
           => job[c].current.resolved < Turns
    BY <1>1, <1>3, <2>1 DEF PlanInv, PlanShort, Outside
  <2>5. QED
    BY <1>3, <2>2, <2>3, <2>4, SettledStays DEF PlanShort, Outside, Writing, Ledgered
<1>12. QED
  BY <1>8, <1>9, <1>10, <1>11 DEF PlanInv

\* An intent has run: its checkpoint file is written.
LEMMA PlanActs ==
  ASSUME IInv, NEW c \in Clients, IsRunPlan(Script[c]), PlanInv(c), WriteCheckpointFile(c)
  PROVE  PlanInv(c)'
<1> DEFINE j == job'[c]
<1>1. /\ pc[c] = "intent" /\ pc'[c] = "manifest" /\ at'[c] = at[c] /\ at[c] \in DOMAIN Script[c]
      /\ scenario' = scenario /\ manifest' = manifest /\ trace' = trace /\ latest' = latest
  BY Parts, AtWork DEF WriteCheckpointFile
<1>2. PICK outcome \in Outcomes \cup {"breach"} :
         job' = [job EXCEPT ![c].n = @ + 1, ![c].last = outcome]
  BY DEF WriteCheckpointFile
<1>3. j = [job[c] EXCEPT !.n = @ + 1, !.last = outcome]
  BY <1>2, Parts
<1>4. /\ j.n = job[c].n + 1 /\ j.repair = job[c].repair /\ j.fixes = job[c].fixes
      /\ job[c].n \in Nat /\ j.current = job[c].current
  BY <1>3, PlanTypes DEF Jobs
<1>5. Turns' = Turns /\ Script' = Script /\ Intents(c)' = Intents(c)
  BY <1>1 DEF Turns, Script, Intents, Op
<1> HIDE DEF j
<1>6. PlanStage(c)'
  BY <1>1, <1>4, <1>5, PlanTypes
     DEF PlanInv, PlanStage, Breached, Outside, Writing, Ledgered, j
<1>7. PlanCounts(c)'
  BY <1>1, <1>4, <1>5, PlanTypes, SettledStays DEF PlanInv, PlanCounts, Outside, Writing, Ledgered, j
<1>8. PlanAgrees(c)'
  BY <1>1, <1>4, <1>5, PlanTypes DEF PlanInv, PlanAgrees, Outside, Ledgered, j
<1>9. PlanShort(c)'
  BY <1>1, <1>4, <1>5 DEF PlanInv, PlanShort, Outside, Writing, Ledgered, j
<1>10. QED
  BY <1>6, <1>7, <1>8, <1>9 DEF PlanInv

\* The manifest names it, with its status.
LEMMA RecordAppended ==
  ASSUME IInv, NEW c \in Clients, WriteManifestFile(c)
  PROVE  /\ manifest'.records = Append(manifest.records, Checkpoint(c, job[c].n, job[c].last))
         /\ manifest'.status = IF job[c].last = "breach" THEN "halted" ELSE job[c].last
         /\ Turns \in Nat /\ Turns' = Turns + 1
<1>1. manifest.records \in Seq(Checkpoints)
  BY DEF IInv, TypeOK, Manifests
<1>2. /\ manifest'.records = Append(manifest.records, Checkpoint(c, job[c].n, job[c].last))
      /\ manifest'.status = IF job[c].last = "breach" THEN "halted" ELSE job[c].last
  BY DEF WriteManifestFile, Checkpoint
<1>3. QED
  BY <1>1, <1>2 DEF Turns

\* A record that comes with its intent keeps the counts of a run-plan.
LEMMA PlanRecords ==
  ASSUME IInv, NEW c \in Clients, IsRunPlan(Script[c]), PlanInv(c),
         NextIntent(c) \/ LastIntent(c) \/ BudgetBreach(c)
  PROVE  PlanInv(c)'
<1>1. /\ pc[c] = "manifest" /\ at'[c] = at[c] /\ at[c] \in DOMAIN Script[c]
      /\ WriteManifestFile(c)
      /\ scenario' = scenario /\ trace' = trace /\ latest' = latest
  BY AtWork DEF NextIntent, LastIntent, BudgetBreach
<1>2. Script' = Script /\ Intents(c)' = Intents(c) /\ Turns' = Turns + 1 /\ Turns \in Nat
  BY <1>1, RecordAppended DEF Script, Intents, Op
<1>3. /\ Script[c][at[c]] \in {"task", "fix"}
      /\ Script[c][at[c]] = "fix" => job[c].fixes > 0
      /\ Script[c][at[c]] = "task" <=> at[c] = 1
      /\ job[c].n \in Nat /\ job[c].fixes \in Nat
      /\ at[c] = 1 => job[c].n = Turns + 1 /\ job[c].n <= Intents(c) /\ job[c].fixes = 0
                       /\ job[c].repair = "none"
  BY SMTT(60), <1>1, PlanTypes DEF PlanInv, PlanStage, PlanCounts, Outside, Jobs
<1>4. CASE NextIntent(c)
  <2>1. pc'[c] = "intent" /\ job' = job /\ job[c].n < Intents(c)
    BY <1>4, Parts DEF NextIntent
  <2>2. PlanStage(c)'
    BY <1>1, <1>2, <1>3, <2>1, PlanTypes DEF PlanInv, PlanStage, Breached, Outside, Writing, Ledgered
  <2>3. PlanCounts(c)'
    BY <1>1, <1>2, <1>3, <2>1, PlanTypes, SettledStays DEF PlanInv, PlanCounts, Outside, Writing, Ledgered
  <2>4. PlanAgrees(c)'
    BY <1>1, <1>2, <1>3, <2>1, PlanTypes DEF PlanInv, PlanAgrees, Outside, Ledgered
  <2>5. PlanShort(c)'
    <3>1. at[c] > 1 => job[c].current.resolved \in Nat /\ job[c].current.resolved <= Turns
      BY <1>1, PlanTypes DEF PlanInv, PlanShort
    <3>2. at[c] > 1 => job[c].current.resolved <= Turns + 1
      BY <1>2, <3>1
    <3>3. QED
      BY <1>1, <1>2, <2>1, <3>2 DEF PlanShort, Outside, Writing, Ledgered
  <2>6. QED
    BY <2>2, <2>3, <2>4, <2>5 DEF PlanInv
<1>5. ASSUME LastIntent(c) \/ BudgetBreach(c)
      PROVE  /\ pc'[c] = "trace"
             /\ job'[c].n = job[c].n /\ job'[c].last = job[c].last
             /\ job'[c].repair = job[c].repair /\ job'[c].fixes = job[c].fixes
             /\ job'[c].current = job[c].current
             /\ at[c] = 1 =>
                  /\ Counted(job[c], job[c].result)'
                  /\ manifest'.status = IF Overridden(job'[c], job'[c].result) THEN "skipped"
                                        ELSE job'[c].result.status
             /\ job[c].last = "breach" => job'[c].result.status = "halted"
  <2>1. CASE LastIntent(c)
    <3>1. PICK status \in Outcomes :
             /\ \/ status = "completed" /\ job[c].last \in Success
                \/ status = job[c].last /\ (status = "halted" \/ job[c].n = 1)
             /\ job' = [job EXCEPT ![c].result =
                          Stored(c, status, IF status = "halted" THEN Intents(c) ELSE job[c].n,
                                 job[c].n)]
      BY <2>1 DEF LastIntent
    <3> DEFINE r == Stored(c, status, IF status = "halted" THEN Intents(c) ELSE job[c].n,
                           job[c].n)
    <3>2. job'[c] = [job[c] EXCEPT !.result = r]
      BY <3>1, Parts
    <3>3. /\ r.status = status /\ r.resolved = job[c].n
          /\ r.requested = IF status = "halted" THEN Intents(c) ELSE job[c].n
      BY DEF Stored
    <3> HIDE DEF r
    <3>4. /\ job'[c].n = job[c].n /\ job'[c].last = job[c].last /\ job'[c].result = r
          /\ job'[c].repair = job[c].repair /\ job'[c].fixes = job[c].fixes
          /\ job'[c].current = job[c].current
      BY <3>2, PlanTypes DEF Jobs
    <3>5. job[c].last # "breach" /\ pc'[c] = "trace"
      BY <2>1, Parts DEF LastIntent
    <3>6. manifest'.status = job[c].last
      BY <1>1, <3>5, RecordAppended
    <3>7. at[c] = 1 => r.resolved = Turns' /\ r.resolved <= r.requested
      BY <1>2, <1>3, <3>3
    <3>8. at[c] = 1 => Counted(job[c], job[c].result)'
      BY <3>4, <3>5, <3>7 DEF Counted, Breached
    <3>9. manifest'.status = IF Overridden(job'[c], job'[c].result) THEN "skipped"
                             ELSE job'[c].result.status
      BY <3>1, <3>3, <3>4, <3>6 DEF Overridden, Success
    <3>10. QED
      BY <3>4, <3>5, <3>8, <3>9
  <2>2. CASE BudgetBreach(c)
    <3> DEFINE r == halted_result(c, 1)
    <3>1. job'[c] = [job[c] EXCEPT !.result = r, !.guarded = TRUE]
      BY <2>2, Parts DEF BudgetBreach
    <3>2. r.status = "halted" /\ r.resolved = 1 /\ r.requested = 1
      BY DEF halted_result, Stored
    <3> HIDE DEF r
    <3>3. /\ job'[c].n = job[c].n /\ job'[c].last = job[c].last /\ job'[c].result = r
          /\ job'[c].repair = job[c].repair /\ job'[c].fixes = job[c].fixes
          /\ job'[c].current = job[c].current
      BY <3>1, PlanTypes DEF Jobs
    <3>4. job[c].last = "breach" /\ pc'[c] = "trace"
      BY <2>2, Parts DEF BudgetBreach
    <3>5. manifest'.status = "halted"
      BY <1>1, <3>4, RecordAppended
    <3>6. at[c] = 1 => Counted(job[c], job[c].result)'
      BY <1>2, <1>3, <3>2, <3>3, <3>4 DEF Counted, Breached
    <3>7. QED
      BY <3>2, <3>3, <3>4, <3>5, <3>6 DEF Overridden
  <2>3. QED
    BY <1>5, <2>1, <2>2
<1>6. CASE LastIntent(c) \/ BudgetBreach(c)
  <2>1. PlanStage(c)'
    BY SMTT(60), <1>1, <1>2, <1>3, <1>5, <1>6, PlanTypes
       DEF PlanInv, PlanStage, Breached, Outside, Writing, Ledgered
  <2>2. PlanCounts(c)'
    <3>1. Script[c] \in Seq(Ops)
      BY ScriptsOfScenarios, Here
    <3>2. ~Settled(c, at[c])
      BY <1>1, <1>3, <3>1, NotSettled
    <3>3. QED
      BY <1>1, <1>2, <1>3, <1>5, <1>6, <3>2, PlanTypes, SettledStays
         DEF PlanCounts, Outside, Writing, Ledgered
  <2>3. PlanAgrees(c)'
    BY <1>1, <1>2, <1>3, <1>5, <1>6, PlanTypes DEF PlanInv, PlanAgrees, Outside, Ledgered
  <2>4. PlanShort(c)'
    <3>1. at[c] > 1 => job[c].current.resolved \in Nat /\ job[c].current.resolved <= Turns
      BY <1>1, PlanTypes DEF PlanInv, PlanShort
    <3>2. at[c] > 1 => job[c].current.resolved < Turns + 1
      BY <1>2, <3>1
    <3>3. Script[c][at[c]] # "fix" => ~(job[c].fixes > 0)
      BY <1>3
    <3>4. Script[c][at[c]] = "fix" => at[c] > 1
      BY <1>3, PlanTypes
    <3>5. QED
      BY <1>1, <1>2, <1>5, <1>6, <3>2, <3>3, <3>4 DEF PlanShort, Outside, Writing, Ledgered
  <2>5. QED
    BY <2>1, <2>2, <2>3, <2>4 DEF PlanInv
<1>7. QED
  BY <1>4, <1>6

\* The manifest is synchronised with the result.
LEMMA PlanSyncs ==
  ASSUME RInv, NEW c \in Clients, IsRunPlan(Script[c]), PlanInv(c),
         ReadManifest(c) \/ SyncManifest(c)
  PROVE  PlanInv(c)'
<1>1. /\ at' = at /\ job' = job /\ at[c] \in DOMAIN Script[c] /\ pc[c] \in {"reading", "syncing"}
      /\ scenario' = scenario /\ trace' = trace /\ latest' = latest /\ IInv
  BY AtWork DEF ReadManifest, SyncManifest, evidence, history, RInv
<1>2. Turns > 0
  BY <1>1 DEF PlanInv, PlanCounts, Writing
<1>3. /\ manifest'.records = manifest.records
      /\ \/ pc[c] = "reading" /\ pc'[c] = "syncing"
         \/ /\ pc[c] = "syncing" /\ pc'[c] = "trace"
            /\ manifest'.status = job[c].result.status
  <2>1. CASE ReadManifest(c)
    BY <1>1, <2>1, Parts DEF ReadManifest, evidence
  <2>2. CASE SyncManifest(c)
    <3>1. pc[c] = "syncing" /\ pc'[c] = "trace"
      BY <1>1, <2>2, Parts DEF SyncManifest
    <3>2. seen[c].records = manifest.records /\ seen[c] \in Manifests
      BY <3>1 DEF RInv, SeenIsManifest, IInv, TypeOK
    <3>3. seen[c].records # <<>>
      BY <1>2, <3>2 DEF Turns
    <3>4. manifest' = [seen[c] EXCEPT !.status = job[c].result.status]
      BY <2>2, <3>3 DEF SyncManifest
    <3>5. manifest'.records = seen[c].records /\ manifest'.status = job[c].result.status
      BY <3>2, <3>4 DEF Manifests
    <3>6. QED
      BY <3>1, <3>2, <3>5
  <2>3. QED
    BY <2>1, <2>2
<1>4. Script' = Script /\ Turns' = Turns
  BY <1>1, <1>3 DEF Script, Turns
<1>5. PlanStage(c)'
  BY <1>1, <1>3, <1>4, PlanTypes DEF PlanInv, PlanStage, Outside, Writing, Ledgered
<1>6. PlanCounts(c)'
  BY <1>1, <1>2, <1>3, <1>4, PlanTypes, SettledStays DEF PlanInv, PlanCounts, Outside, Writing, Ledgered, Counted, Breached
<1>7. at[c] > 1
  BY <1>1, PlanTypes, Here DEF Knows, Followers
<1>8. PlanAgrees(c)'
  BY <1>1, <1>3, <1>4, <1>7, PlanTypes DEF PlanInv, PlanAgrees, Overridden, Outside, Ledgered
<1>9. PlanShort(c)'
  BY <1>1, <1>3, <1>4, SettledStays DEF PlanInv, PlanShort, Outside, Writing, Ledgered
<1>10. QED
  BY <1>5, <1>6, <1>8, <1>9 DEF PlanInv

\* Undisturbed, the run_completed line is the last of a trace of whole lines.
LEMMA TraceAppended ==
  ASSUME IInv, NEW c \in Clients, Whole(trace), AppendTrace(c)
  PROVE  Whole(trace)' /\ Ends(trace, job[c].result.status)'
<1>1. /\ trace' = AppendLine(trace, job[c].result.status, "line") /\ job' = job
      /\ pc[c] = "trace"
  BY DEF AppendTrace
<1>2. trace \in File(Outcomes) /\ job[c].result.status \in Outcomes
  BY <1>1, Here, ResultSets DEF IInv, TypeOK, Knows, Closing
<1> DEFINE x == [body |-> job[c].result.status, form |-> "line"]
<1>3. "line" \in Forms \ {"joined"}
  BY DEF Forms
<1>4. trace' = Append(trace, x)
  BY <1>1, <1>2, <1>3, LineAppended DEF Whole
<1> DEFINE T == [body : Outcomes, form : Forms]
<1>5. x \in T /\ trace \in Seq(T) /\ x.form = "line" /\ x.body = job[c].result.status
  BY <1>2, <1>3 DEF File
<1> HIDE DEF x, T
<1>6. /\ Len(trace) \in Nat /\ Len(trace') = Len(trace) + 1 /\ trace'[Len(trace) + 1] = x
      /\ trace' # <<>> /\ DOMAIN trace' = 1 .. Len(trace) + 1 /\ DOMAIN trace = 1 .. Len(trace)
      /\ \A i \in 1 .. Len(trace) : trace'[i] = trace[i]
  BY <1>4, <1>5
<1>7. Whole(trace)'
  <2>1. \A i \in 1 .. Len(trace) + 1 : i = Len(trace) + 1 \/ i \in 1 .. Len(trace)
    BY <1>6
  <2>2. \A i \in DOMAIN trace' : trace'[i].form = "line"
    BY <1>5, <1>6, <2>1 DEF Whole
  <2>3. QED
    BY <2>2 DEF Whole
<1>8. Ends(trace, job[c].result.status)'
  BY <1>1, <1>5, <1>6 DEF Ends
<1>9. QED
  BY <1>7, <1>8

\* The trace is written, then the ledger.
LEMMA PlanTraces ==
  ASSUME IInv, NEW c \in Clients, IsRunPlan(Script[c]), PlanInv(c), Whole(trace), AppendTrace(c)
  PROVE  PlanInv(c)'
<1>1. /\ at' = at /\ job' = job /\ at[c] \in DOMAIN Script[c] /\ pc[c] = "trace"
      /\ scenario' = scenario /\ manifest' = manifest /\ latest' = latest
      /\ Ends(trace, job[c].result.status)'
  BY AtWork, TraceAppended DEF AppendTrace, history
<1>2. pc'[c] = "latest"
  <2>1. Op(c) # "light"
    BY <1>1, PlanTypes DEF Op, Followers
  <2>2. QED
    BY <2>1, Parts DEF AppendTrace, AfterTrace
<1>3. Script' = Script /\ Turns' = Turns /\ trace' # <<>>
  BY <1>1 DEF Script, Turns, Ends
<1>4. PlanStage(c)'
  BY <1>1, <1>2, <1>3, PlanTypes DEF PlanInv, PlanStage, Outside, Writing, Ledgered
<1>5. PlanCounts(c)'
  BY <1>1, <1>2, <1>3, PlanTypes, SettledStays DEF PlanInv, PlanCounts, Outside, Writing, Ledgered, Counted, Breached
<1>6. PlanAgrees(c)'
  BY <1>1, <1>2, <1>3, PlanTypes DEF PlanInv, PlanAgrees, Overridden, Outside, Ledgered
<1>7. PlanShort(c)'
  BY <1>1, <1>2, <1>3, SettledStays DEF PlanInv, PlanShort, Outside, Writing, Ledgered
<1>8. QED
  BY <1>4, <1>5, <1>6, <1>7 DEF PlanInv

\* There is a trace by then.
LEMMA PlanHasTrace ==
  ASSUME IInv, NEW c \in Clients, IsRunPlan(Script[c]), PlanInv(c), append_final_trace_status(c)
  PROVE  FALSE
<1>1. pc[c] = "trace" /\ Op(c) \notin {"task", "fix", "light"} /\ trace = <<>>
  BY DEF append_final_trace_status, IsRun
<1>2. at[c] \in DOMAIN Script[c]
  BY <1>1, AtWork
<1>3. at[c] > 1
  BY <1>1, <1>2, PlanTypes DEF Op
<1>4. QED
  BY <1>1, <1>3 DEF PlanInv, PlanAgrees

\* The copies of the ledger are written.
LEMMA PlanLedgers ==
  ASSUME IInv, NEW c \in Clients, IsRunPlan(Script[c]), PlanInv(c),
         WriteLatest(c) \/ AppendHistory(c) \/ append_evidence_chain_record(c)
  PROVE  PlanInv(c)'
<1>1. /\ at' = at /\ job' = job /\ at[c] \in DOMAIN Script[c]
      /\ pc[c] \in Ledgered /\ pc'[c] \in Ledgered
      /\ scenario' = scenario /\ manifest' = manifest /\ trace' = trace
  <2>1. pc \in [Clients -> Stages]
    BY Parts
  <2>2. QED
    BY <2>1, AtWork DEF WriteLatest, AppendHistory, append_evidence_chain_record, history, Ledgered
<1>2. Script' = Script /\ Turns' = Turns
  BY <1>1 DEF Script, Turns
<1>3. PlanStage(c)'
  BY <1>1, <1>2, PlanTypes DEF PlanInv, PlanStage, Outside, Writing, Ledgered
<1>4. PlanCounts(c)'
  BY <1>1, <1>2, PlanTypes, SettledStays DEF PlanInv, PlanCounts, Outside, Writing, Ledgered, Counted, Breached
<1>5. PlanAgrees(c)'
  BY <1>1, <1>2, PlanTypes DEF PlanInv, PlanAgrees, Overridden, Outside, Ledgered, Ends
<1>6. PlanShort(c)'
  BY <1>1, <1>2, SettledStays DEF PlanInv, PlanShort, Outside, Writing, Ledgered
<1>7. QED
  BY <1>3, <1>4, <1>5, <1>6 DEF PlanInv

\* The result is returned, and it is the ledger's.
LEMMA PlanReturns ==
  ASSUME IInv, NEW c \in Clients, IsRunPlan(Script[c]), PlanInv(c), faults = 0, AppendWal(c)
  PROVE  PlanInv(c)'
<1>1. /\ pc[c] = "wal" /\ at[c] \in DOMAIN Script[c] /\ at'[c] = at[c] + 1
      /\ pc'[c] = IF at[c] < Len(Script[c]) THEN "idle" ELSE "end"
      /\ scenario' = scenario /\ manifest' = manifest /\ trace' = trace /\ latest' = latest
  BY Parts, AtWork DEF AppendWal, Finish
<1>2. job'[c] = [job[c] EXCEPT !.ok = job[c].result.status \in Success,
                   !.current = IF Op(c) = "fix" THEN @ ELSE job[c].result]
  BY Parts DEF AppendWal, Finish
<1>3. /\ job'[c].n = job[c].n /\ job'[c].last = job[c].last
      /\ job'[c].repair = job[c].repair /\ job'[c].fixes = job[c].fixes
      /\ job'[c].current = IF Op(c) = "fix" THEN job[c].current ELSE job[c].result
  BY <1>2, PlanTypes DEF Jobs
<1>4. Script' = Script /\ Turns' = Turns
  BY <1>1 DEF Script, Turns
<1>5. latest = job[c].result
  BY <1>1 DEF IInv, InStep
<1>6. /\ job[c].repair = "fixed" <=> Script[c][at[c]] = "fix"
      /\ Script[c][at[c]] = "fix" => /\ job[c].fixes > 0 /\ at[c] + 1 \in DOMAIN Script[c]
                                     /\ Script[c][at[c] + 1] = "reverdict"
                                     /\ at[c] # Len(Script[c])
  BY <1>1, PlanTypes DEF PlanInv, PlanStage, Outside, IsRunPlan
<1>7. job[c].fixes \in Nat
  BY PlanTypes DEF Jobs
<1>8. PlanStage(c)'
  <2>1. Breached(job[c]) => /\ job[c].repair = "none" /\ job[c].result.status # "completed"
                            /\ job'[c].current = job[c].result
    BY <1>1, <1>3, <1>6 DEF PlanInv, PlanStage, Breached, Writing, Ledgered, Op
  <2>2. Breached(job[c])' <=> Breached(job[c])
    BY <1>3 DEF Breached
  <2>3. QED
    BY SMTT(60), <1>1, <1>3, <1>4, <1>6, <2>1, <2>2, PlanTypes
       DEF PlanInv, PlanStage, Outside, Writing, Ledgered
<1>9. PlanCounts(c)'
  <2>1. Turns > 0
    BY <1>1 DEF PlanInv, PlanCounts, Writing, Ledgered
  <2>2. Script[c][at[c]] = "fix" => ~Settled(c, at[c]) /\ job[c].fixes > 0
    <3>1. Script[c] \in Seq(Ops)
      BY ScriptsOfScenarios, Here
    <3>2. QED
      BY <1>1, <1>6, <3>1, NotSettled
  <2>3. job[c].fixes = 0 \/ (Settled(c, at[c]) /\ job[c].repair # "rejected") =>
           Counted(job[c], job[c].result) /\ Script[c][at[c]] # "fix"
    BY <1>1, <1>7, <2>2 DEF PlanInv, PlanCounts, Writing, Ledgered
  <2>4. Counted(job[c], job[c].result) /\ Script[c][at[c]] # "fix" =>
           Counted(job[c], job[c].current)'
    BY <1>3, <1>4 DEF Counted, Breached, Op
  <2>5. QED
    <3>1. at'[c] - 1 = at[c]
      BY <1>1, PlanTypes
    <3>2. QED
      BY <1>1, <1>3, <1>4, <2>1, <2>3, <2>4, <3>1, PlanTypes, SettledStays
         DEF PlanCounts, Outside, Writing, Ledgered
<1>10. PlanAgrees(c)'
  <2>1. Ends(trace, job[c].result.status)
    BY <1>1 DEF PlanInv, PlanAgrees, Ledgered
  <2>2. job[c].repair # "fixed" =>
          /\ job'[c].current = job[c].result
          /\ manifest.status = IF at[c] = 1 /\ Overridden(job[c], job[c].result) THEN "skipped"
                               ELSE job[c].result.status
    BY <1>1, <1>3, <1>6 DEF PlanInv, PlanAgrees, Ledgered, Op
  <2>3. QED
    BY <1>1, <1>3, <1>4, <1>5, <2>1, <2>2, PlanTypes
       DEF PlanAgrees, Overridden, Outside, Ledgered, Ends
<1>11. PlanShort(c)'
  <2>1. at'[c] - 1 = at[c] /\ pc'[c] \in Outside
    BY <1>1, PlanTypes DEF Outside
  <2>2. ASSUME job[c].fixes > 0, ~(Settled(c, at[c]) /\ job[c].repair # "rejected")
        PROVE  job'[c].current.resolved < Turns
    BY <1>1, <1>3, <2>2 DEF PlanInv, PlanShort, Writing, Ledgered, Op
  <2>3. QED
    BY <1>1, <1>3, <1>4, <2>1, <2>2, SettledStays DEF PlanShort, Outside, Writing, Ledgered
<1>12. QED
  BY <1>8, <1>9, <1>10, <1>11 DEF PlanInv

\* Undisturbed, no write fails and none is refused.
LEMMA NoWriteFails ==
  ASSUME IInv, NEW c \in Clients, faults = 0, faults' = 0,
         LedgerRefuses(c) \/ CheckpointFails(c) \/ TraceFails(c) \/ LedgerFails(c)
  PROVE  FALSE
<1>1. ~Fault
  BY DEF Fault, IInv, TypeOK
<1>2. ChainTailParses
  <2>1. chain \in Seq([body : ChainRecords, form : Forms]) /\ InStep
    BY DEF IInv, TypeOK, File
  <2>2. chain # <<>> => Len(chain) \in DOMAIN chain
    BY <2>1
  <2>3. QED
    BY <2>1, <2>2 DEF InStep, ChainTailParses, Readable
<1>3. QED
  BY <1>1, <1>2 DEF LedgerRefuses, CheckpointFails, TraceFails, LedgerFails

\* No other step of a run-plan is without a fault.
LEMMA PlanElse ==
  ASSUME IInv, NEW c \in Clients, IsRunPlan(Script[c]), PlanInv(c), faults = 0, faults' = 0,
         \/ halted_task_resume_result(c) \/ write_execution_plan_ledger(c)
         \/ LightOutcome(c) \/ write_global_wal(c)
         \/ FlushCheckpointFile(c) \/ FlushManifestFile(c) \/ LedgerRefuses(c)
         \/ CheckpointFails(c) \/ TraceFails(c) \/ LedgerFails(c)
  PROVE  FALSE
<1>1. CASE halted_task_resume_result(c) \/ write_execution_plan_ledger(c)
  <2>1. at[c] \in DOMAIN Script[c] /\ Op(c) \in {"refuse", "aggregate"}
    BY <1>1 DEF halted_task_resume_result, write_execution_plan_ledger, Begins
  <2>2. QED
    BY <2>1, PlanTypes DEF Op, Followers
<1>2. CASE LightOutcome(c) \/ FlushManifestFile(c)
  <2>1. Op(c) = "light" /\ pc[c] \in {"intent", "manifest"}
    BY <1>2 DEF LightOutcome, FlushManifestFile
  <2>2. at[c] \in DOMAIN Script[c]
    BY <2>1, AtWork
  <2>3. QED
    BY <2>1, <2>2, PlanTypes DEF Op, Followers
<1>3. CASE write_global_wal(c) \/ FlushCheckpointFile(c)
  BY <1>3, PlanTypes DEF write_global_wal, FlushCheckpointFile
<1>4. QED
  BY <1>1, <1>2, <1>3, NoWriteFails

-----------------------------------------------------------------------------
(* Light runs under one id, and a refused resume *)

\* The records are of earlier operations; or the last is of this one, alone.
Earlier(a) == \A i \in DOMAIN manifest.records : manifest.records[i].step < a
Closed(a) ==
    /\ Turns > 0 /\ manifest.records[Turns].step = a
    /\ \A i \in 1 .. Turns - 1 : manifest.records[i].step < a

\* What a light run has flushed of its evidence.
LightStage(c) ==
    LET p == pc[c] a == at[c] j == job[c]
        pending == p = "trace" /\ ~j.guarded
        flushed == p = "manifest" /\ j.last # "breach"
    IN
    /\ p = "end" => a > 1
    /\ j.n <= 1 /\ j.fixes = 0 /\ (p = "intent" => j.n = 0 /\ ~j.guarded)
    /\ p \in {"manifest", "flush"} \/ pending => j.n > 0
    /\ p \in Outside \cup {"intent", "walonly", "flush", "manifest"} \/ pending => Earlier(a)
    /\ p \in Ledgered \/ (p = "trace" /\ j.guarded) =>
          Closed(a) /\ manifest.status = j.result.status
    /\ p \in {"flush"} \cup Ledgered \/ flushed => Ends(trace, j.result.status)
    /\ p \in {"trace", "flush", "walonly"} \cup Ledgered \/ flushed =>
          j.result.requested = 1 /\ j.result.resolved = 1 /\ j.result.step = a
    /\ p = "flush" \/ pending \/ flushed => j.result.status = j.last

\* The last result is the newest entry of the global ledger, or has evidence.
LightAgrees(c) ==
    LET r == job[c].current IN
    pc[c] \in Outside /\ at[c] > 1 =>
        /\ r.step \in DOMAIN Script[c]
        /\ \/ wal # <<>> /\ wal[Len(wal)] = r /\ r.mode = "wal" /\ Earlier(r.step)
           \/ /\ latest = r /\ Ends(trace, r.status) /\ Closed(r.step)
              /\ manifest.status = r.status /\ r.requested = 1 /\ r.resolved = 1

LightInv(c) == LightStage(c) /\ LightAgrees(c)

\* What the types and the script of a light run say of its client.
LEMMA LightTypes ==
  ASSUME IInv, NEW c \in Clients, IsLight(c)
  PROVE  /\ at[c] \in Nat \ {0} /\ job[c] \in Jobs /\ pc[c] \in Stages
         /\ Len(Script[c]) \in Nat /\ DOMAIN Script[c] = 1 .. Len(Script[c])
         /\ Turns \in Nat /\ DOMAIN manifest.records = 1 .. Turns
         /\ manifest.records \in Seq(Checkpoints)
         /\ \A i \in 1 .. Turns : manifest.records[i].step \in Nat
         /\ \A i \in DOMAIN Script[c] : Script[c][i] = "light"
         /\ pc[c] \notin {"idle", "end"} => at[c] \in DOMAIN Script[c] /\ Op(c) = "light"
         /\ pc[c] \notin {"reading", "syncing"}
         /\ pc[c] \in Closing => job[c].result \in Results
<1>1. /\ at[c] \in Nat \ {0} /\ job[c] \in Jobs /\ pc[c] \in Stages /\ TypeOK
      /\ Knows(c, pc[c], at[c], job[c])
  BY Here
<1>2. Script[c] \in Seq(Ops) /\ \A i \in DOMAIN Script[c] : Script[c][i] = "light"
  BY <1>1, ScriptsOfScenarios
<1>3. manifest.records \in Seq(Checkpoints)
  BY <1>1 DEF TypeOK, Manifests
<1>4. /\ Turns \in Nat /\ DOMAIN manifest.records = 1 .. Turns
      /\ \A i \in 1 .. Turns : manifest.records[i] \in Checkpoints
  BY <1>3 DEF Turns
<1>5. \A i \in 1 .. Turns : manifest.records[i].step \in Nat
  BY <1>4 DEF Checkpoints
<1>6. pc[c] \notin {"reading", "syncing"}
  BY <1>1, <1>2 DEF Knows, Followers
<1>7. QED
  BY <1>1, <1>2, <1>3, <1>4, <1>5, <1>6 DEF Knows, Op

\* A checkpoint more, of this operation: the records before it are of earlier ones.
LEMMA RecordCloses ==
  ASSUME IInv, NEW c \in Clients, IsLight(c), WriteManifestFile(c), Earlier(at[c]), at' = at
  PROVE  Closed(at[c])'
<1>1. /\ manifest'.records = Append(manifest.records, Checkpoint(c, job[c].n, job[c].last))
      /\ Turns \in Nat /\ Turns' = Turns + 1
  BY RecordAppended
<1>2. Checkpoint(c, job[c].n, job[c].last).step = at[c]
  BY DEF Checkpoint
<1>3. /\ manifest.records \in Seq(Checkpoints) /\ DOMAIN manifest.records = 1 .. Turns
  BY LightTypes
<1>4. /\ manifest'.records[Turns + 1] = Checkpoint(c, job[c].n, job[c].last)
      /\ \A i \in 1 .. Turns : manifest'.records[i] = manifest.records[i]
  BY <1>1, <1>3 DEF Turns
<1>5. \A i \in 1 .. Turns : manifest'.records[i].step < at[c]
  BY <1>3, <1>4 DEF Earlier
<1>6. Turns' > 0 /\ 1 .. Turns' - 1 = 1 .. Turns
  BY <1>1
<1>7. QED
  BY <1>1, <1>2, <1>4, <1>5, <1>6 DEF Closed

\* A light run begins; a breach writes its checkpoint at once; another outcome is
\* known; a pending checkpoint is written.
LEMMA LightActs ==
  ASSUME IInv, NEW c \in Clients, IsLight(c), LightInv(c),
         \/ BeginTask(c) \/ WriteCheckpointFile(c) \/ LightOutcome(c) \/ FlushCheckpointFile(c)
  PROVE  LightInv(c)'
<1> DEFINE j == job'[c]
<1>1. /\ at' = at /\ scenario' = scenario /\ manifest' = manifest /\ trace' = trace
  BY DEF BeginTask, WriteCheckpointFile, LightOutcome, FlushCheckpointFile, evidence
<1>2. Script' = Script /\ Turns' = Turns /\ (Earlier(at[c])' <=> Earlier(at[c]))
  BY <1>1 DEF Script, Turns, Earlier
<1>3. Earlier(at[c])
  BY DEF LightInv, LightStage, Outside, BeginTask, Begins, WriteCheckpointFile, LightOutcome,
         FlushCheckpointFile
<1>4. CASE BeginTask(c)
  <2>1. pc'[c] = "intent" /\ j = [job[c] EXCEPT !.n = 0, !.guarded = FALSE]
    BY <1>4, Parts DEF BeginTask
  <2>2. ~j.guarded /\ j.n = 0 /\ j.fixes = job[c].fixes
    BY <2>1, LightTypes DEF Jobs
  <2>3. QED
    BY <1>1, <1>2, <1>3, <2>1, <2>2 DEF LightInv, LightStage, LightAgrees, Outside, Ledgered
<1>5. CASE WriteCheckpointFile(c)
  <2>1. pc[c] = "intent" /\ pc'[c] = "manifest"
    BY <1>5, Parts DEF WriteCheckpointFile
  <2>2. job' = [job EXCEPT ![c].n = @ + 1, ![c].last = "breach"]
    BY <1>5, <2>1, LightTypes DEF WriteCheckpointFile
  <2>3. j = [job[c] EXCEPT !.n = @ + 1, !.last = "breach"]
    BY <2>2, Parts
  <2>4. /\ j.n = job[c].n + 1 /\ j.last = "breach" /\ job[c].n \in Nat
        /\ j.fixes = job[c].fixes
    BY <2>3, LightTypes DEF Jobs
  <2>5. QED
    BY <1>1, <1>2, <1>3, <2>1, <2>4 DEF LightInv, LightStage, LightAgrees, Outside, Ledgered
<1>6. CASE LightOutcome(c)
  <2>1. PICK outcome \in Outcomes :
          LET result == Stored(c, outcome, 1, 1) IN
          /\ job' = [job EXCEPT ![c].n = 1, ![c].last = outcome,
                   ![c].result = IF outcome = "completed" THEN [result EXCEPT !.mode = "wal"]
                                 ELSE result]
          /\ pc' = [pc EXCEPT ![c] = IF outcome = "completed" THEN "walonly" ELSE "trace"]
    BY <1>6 DEF LightOutcome
  <2> DEFINE stored == Stored(c, outcome, 1, 1)
             r == IF outcome = "completed" THEN [stored EXCEPT !.mode = "wal"] ELSE stored
  <2>2. r.requested = 1 /\ r.resolved = 1 /\ r.step = at[c] /\ r.status = outcome
    BY DEF Stored
  <2>3. j = [job[c] EXCEPT !.n = 1, !.last = outcome, !.result = r]
    BY <2>1, Parts
  <2>4. pc'[c] \in {"walonly", "trace"}
    BY <2>1, Parts
  <2> HIDE DEF r, stored
  <2>5. /\ j.n = 1 /\ j.last = outcome /\ j.result = r /\ j.guarded = job[c].guarded
        /\ j.fixes = job[c].fixes
    BY <2>3, LightTypes DEF Jobs
  <2>6. ~j.guarded
    BY <1>6, <2>5 DEF LightOutcome, LightInv, LightStage
  <2>7. QED
    BY <1>1, <1>2, <1>3, <2>2, <2>4, <2>5, <2>6
       DEF LightInv, LightStage, LightAgrees, Outside, Ledgered
<1>7. CASE FlushCheckpointFile(c)
  <2>1. pc[c] = "flush" /\ pc'[c] = "manifest" /\ job' = job
    BY <1>7, Parts DEF FlushCheckpointFile
  <2>2. QED
    BY <1>1, <1>2, <1>3, <2>1 DEF LightInv, LightStage, LightAgrees, Outside, Ledgered, Ends
<1>8. QED
  BY <1>4, <1>5, <1>6, <1>7

\* The manifest names a breach's checkpoint before the trace, another after it.
LEMMA LightRecords ==
  ASSUME IInv, NEW c \in Clients, IsLight(c), LightInv(c),
         BudgetBreach(c) \/ FlushManifestFile(c)
  PROVE  LightInv(c)'
<1>1. /\ pc[c] = "manifest" /\ at' = at /\ WriteManifestFile(c)
      /\ scenario' = scenario /\ trace' = trace
  BY DEF BudgetBreach, FlushManifestFile
<1>2. Earlier(at[c])
  BY <1>1 DEF LightInv, LightStage
<1>3. Closed(at[c])' /\ Script' = Script
  BY <1>1, <1>2, RecordCloses DEF Script
<1>4. manifest'.status = IF job[c].last = "breach" THEN "halted" ELSE job[c].last
  BY <1>1, RecordAppended
<1>5. CASE BudgetBreach(c)
  <2> DEFINE r == halted_result(c, 1)
  <2>1. job'[c] = [job[c] EXCEPT !.result = r, !.guarded = TRUE] /\ pc'[c] = "trace"
    BY <1>5, Parts DEF BudgetBreach
  <2>2. r.status = "halted" /\ r.resolved = 1 /\ r.requested = 1 /\ r.step = at[c]
    BY DEF halted_result, Stored
  <2> HIDE DEF r
  <2>3. /\ job'[c].result = r /\ job'[c].guarded
        /\ job'[c].n = job[c].n /\ job'[c].fixes = job[c].fixes
    BY <2>1, LightTypes DEF Jobs
  <2>4. job[c].last = "breach"
    BY <1>5 DEF BudgetBreach
  <2>5. QED
    BY <1>1, <1>3, <1>4, <2>1, <2>2, <2>3, <2>4
       DEF LightInv, LightStage, LightAgrees, Outside, Ledgered
<1>6. CASE FlushManifestFile(c)
  <2>1. job' = job /\ pc'[c] = "latest" /\ job[c].last # "breach"
    BY <1>6, Parts DEF FlushManifestFile
  <2>2. job[c].result.status = job[c].last /\ Ends(trace, job[c].result.status)
    BY <1>1, <2>1 DEF LightInv, LightStage
  <2>3. QED
    BY <1>1, <1>3, <1>4, <2>1, <2>2
       DEF LightInv, LightStage, LightAgrees, Outside, Ledgered, Ends
<1>7. QED
  BY <1>5, <1>6

\* The trace is written, before the pending checkpoint or after a breach's.
LEMMA LightTraces ==
  ASSUME IInv, NEW c \in Clients, IsLight(c), LightInv(c), Whole(trace), AppendTrace(c)
  PROVE  LightInv(c)'
<1>1. /\ at' = at /\ job' = job /\ pc[c] = "trace"
      /\ scenario' = scenario /\ manifest' = manifest
      /\ Ends(trace, job[c].result.status)'
  BY TraceAppended DEF AppendTrace, history
<1>2. Op(c) = "light"
  BY <1>1, LightTypes
<1>3. pc'[c] = IF ~job[c].guarded THEN "flush" ELSE "latest"
  BY <1>2, Parts DEF AppendTrace, AfterTrace
<1>4. /\ Script' = Script /\ Turns' = Turns
      /\ Earlier(at[c])' <=> Earlier(at[c])
      /\ Closed(at[c])' <=> Closed(at[c])
  BY <1>1 DEF Script, Turns, Earlier, Closed
<1>5. QED
  BY <1>1, <1>3, <1>4 DEF LightInv, LightStage, LightAgrees, Outside, Ledgered

\* The copies of the ledger are written.
LEMMA LightLedgers ==
  ASSUME IInv, NEW c \in Clients, IsLight(c), LightInv(c),
         WriteLatest(c) \/ AppendHistory(c) \/ append_evidence_chain_record(c)
  PROVE  LightInv(c)'
<1>1. /\ at' = at /\ job' = job
      /\ pc[c] \in Ledgered /\ pc'[c] \in Ledgered
      /\ scenario' = scenario /\ manifest' = manifest /\ trace' = trace
  <2>1. pc \in [Clients -> Stages]
    BY Parts
  <2>2. QED
    BY <2>1 DEF WriteLatest, AppendHistory, append_evidence_chain_record, history, Ledgered
<1>2. /\ Script' = Script /\ Turns' = Turns
      /\ Closed(at[c])' <=> Closed(at[c])
  BY <1>1 DEF Script, Turns, Closed
<1>3. QED
  BY <1>1, <1>2 DEF LightInv, LightStage, LightAgrees, Outside, Ledgered, Ends

\* The result is returned: the newest entry of the global ledger, or the ledger's.
LEMMA LightReturns ==
  ASSUME IInv, NEW c \in Clients, IsLight(c), LightInv(c), faults = 0,
         AppendWal(c) \/ write_global_wal(c)
  PROVE  LightInv(c)'
<1> DEFINE r == job[c].result
<1>1. /\ pc[c] \in {"wal", "walonly"} /\ at[c] \in DOMAIN Script[c] /\ at'[c] = at[c] + 1
      /\ pc'[c] \in Outside /\ wal' = Append(wal, r)
      /\ scenario' = scenario /\ manifest' = manifest /\ trace' = trace /\ latest' = latest
  BY Parts, AtWork DEF AppendWal, write_global_wal, Finish, Outside
<1>2. Op(c) = "light" /\ at[c] \in Nat \ {0} /\ r \in Results
  BY ZenonT(60), <1>1, LightTypes, Here DEF Knows, Closing
<1>3. \E ok \in BOOLEAN : job'[c] = [job[c] EXCEPT !.ok = ok, !.current = r]
  <2>1. Op(c) # "fix" /\ (r.status \in Success) \in BOOLEAN /\ TRUE \in BOOLEAN
    BY <1>2
  <2>2. CASE AppendWal(c)
    <3>1. job'[c] = [job[c] EXCEPT !.ok = r.status \in Success, !.current = r]
      BY <2>1, <2>2, Parts DEF AppendWal, Finish
    <3>2. QED
      BY <2>1, <3>1
  <2>3. CASE write_global_wal(c)
    <3>1. job'[c] = [job[c] EXCEPT !.ok = TRUE, !.current = r]
      BY <2>1, <2>3, Parts DEF write_global_wal, Finish
    <3>2. QED
      BY <2>1, <3>1
  <2>4. QED
    BY <2>2, <2>3
<1>4. job'[c].current = r /\ job'[c].n = job[c].n /\ job'[c].fixes = job[c].fixes
  BY <1>3, LightTypes DEF Jobs
<1>5. r.step = at[c] /\ r.requested = 1 /\ r.resolved = 1
  BY <1>1 DEF LightInv, LightStage, Ledgered
<1>6. /\ Script' = Script /\ Turns' = Turns
      /\ \A a : Earlier(a)' <=> Earlier(a)
      /\ \A a : Closed(a)' <=> Closed(a)
  BY <1>1 DEF Script, Turns, Earlier, Closed
<1>7. wal' # <<>> /\ wal'[Len(wal')] = r
  <2>1. wal \in Seq(Results)
    BY DEF IInv, TypeOK
  <2>2. QED
    BY <1>1, <1>2, <2>1
<1>8. Earlier(at[c] + 1)
  <2>1. \A i \in DOMAIN manifest.records : manifest.records[i].step \in Nat
    BY LightTypes
  <2>2. CASE pc[c] = "walonly"
    BY <1>2, <2>1, <2>2 DEF LightInv, LightStage, Earlier
  <2>3. CASE pc[c] = "wal"
    <3>1. Closed(at[c]) /\ DOMAIN manifest.records = 1 .. Turns /\ Turns \in Nat
      BY <2>3, LightTypes DEF LightInv, LightStage, Ledgered
    <3>2. \A i \in 1 .. Turns : i = Turns \/ i \in 1 .. Turns - 1
      BY <3>1
    <3>3. \A i \in 1 .. Turns : manifest.records[i].step <= at[c]
      BY <1>2, <2>1, <3>1, <3>2 DEF Closed
    <3>4. QED
      BY <1>2, <2>1, <3>1, <3>3 DEF Earlier
  <2>4. QED
    BY <1>1, <2>2, <2>3
<1>9. LightStage(c)'
  BY <1>1, <1>2, <1>4, <1>6, <1>8 DEF LightInv, LightStage, Outside, Ledgered
<1>10. LightAgrees(c)'
  <2>1. r.step \in DOMAIN Script[c]
    BY <1>1, <1>5
  <2>2. CASE pc[c] = "walonly"
    <3>1. r.mode = "wal" /\ Earlier(r.step)
      BY <1>5, <2>2, Here DEF Knows, LightInv, LightStage
    <3>2. Earlier(job[c].current.step)'
      BY <1>1, <1>4, <3>1 DEF Earlier
    <3>3. QED
      BY <1>4, <1>6, <1>7, <2>1, <3>1, <3>2 DEF LightAgrees
  <2>3. CASE pc[c] = "wal"
    <3>1. latest = r
      BY <2>3 DEF IInv, InStep
    <3>2. Closed(r.step) /\ manifest.status = r.status /\ Ends(trace, r.status)
      BY <1>5, <2>3 DEF LightInv, LightStage, Ledgered
    <3>3. Closed(job[c].current.step)' /\ Ends(trace, job[c].current.status)'
      BY <1>1, <1>4, <3>2 DEF Ends, Closed, Turns
    <3>4. QED
      BY <1>1, <1>4, <1>5, <1>6, <2>1, <3>1, <3>2, <3>3 DEF LightAgrees
  <2>4. QED
    BY <1>1, <2>2, <2>3
<1>11. QED
  BY <1>9, <1>10 DEF LightInv

\* No other step of a light run is without a fault.
LEMMA LightElse ==
  ASSUME IInv, NEW c \in Clients, IsLight(c), LightInv(c), faults = 0, faults' = 0,
         \/ apply_verifier_evidence(c) \/ RepairAttempt(c) \/ VerifyRepair(c)
         \/ CloseRepair(c) \/ apply_task_resume_evidence(c)
         \/ halted_task_resume_result(c) \/ PassOver(c) \/ write_execution_plan_ledger(c)
         \/ NextIntent(c) \/ LastIntent(c) \/ ReadManifest(c) \/ SyncManifest(c)
         \/ append_final_trace_status(c) \/ LedgerRefuses(c)
         \/ CheckpointFails(c) \/ TraceFails(c) \/ LedgerFails(c)
  PROVE  FALSE
<1>1. CASE \/ apply_verifier_evidence(c) \/ RepairAttempt(c) \/ VerifyRepair(c)
           \/ CloseRepair(c) \/ apply_task_resume_evidence(c)
           \/ halted_task_resume_result(c) \/ PassOver(c) \/ write_execution_plan_ledger(c)
  <2>1. at[c] \in DOMAIN Script[c] /\ Op(c) # "light"
    BY <1>1 DEF apply_verifier_evidence, RepairAttempt, VerifyRepair, CloseRepair,
       apply_task_resume_evidence, halted_task_resume_result, PassOver,
       write_execution_plan_ledger, Begins
  <2>2. QED
    BY <2>1, LightTypes DEF Op
<1>2. CASE NextIntent(c) \/ LastIntent(c)
  <2>1. pc[c] = "manifest" /\ Op(c) = "light" /\ job[c].n > 0 /\ job[c].n \in Nat
    BY <1>2, LightTypes DEF NextIntent, LastIntent, LightInv, LightStage, Jobs
  <2>2. QED
    BY <1>2, <2>1 DEF NextIntent, LastIntent, Intents
<1>3. CASE ReadManifest(c) \/ SyncManifest(c)
  BY <1>3, LightTypes DEF ReadManifest, SyncManifest
<1>4. CASE append_final_trace_status(c)
  BY <1>4, LightTypes DEF append_final_trace_status, IsRun
<1>5. QED
  BY <1>1, <1>2, <1>3, <1>4, NoWriteFails

\* A refused resume writes a ledger, and no manifest.
RefuseInv(c) ==
    /\ pc[c] \in Outside \cup Ledgered
    /\ manifest.records = <<>>
    /\ \A i \in DOMAIN wal : wal[i].mode = "full"

\* Every step of a refused resume, undisturbed, leaves the manifest without records.
LEMMA RefuseKeepsOut ==
  ASSUME IInv, NEW c \in Clients, Script[c] = <<"refuse">>, RefuseInv(c),
         faults = 0, faults' = 0,
         \/ BeginTask(c) \/ apply_verifier_evidence(c) \/ RepairAttempt(c)
         \/ VerifyRepair(c) \/ CloseRepair(c) \/ apply_task_resume_evidence(c)
         \/ halted_task_resume_result(c) \/ PassOver(c)
         \/ write_execution_plan_ledger(c)
         \/ Progress(c)
         \/ CheckpointFails(c) \/ TraceFails(c) \/ LedgerFails(c)
  PROVE  RefuseInv(c)'
<1>1. at[c] \in DOMAIN Script[c] => Op(c) = "refuse"
  BY DEF Op
<1>2. pc \in [Clients -> Stages]
  BY Parts
<1>3. CASE \/ BeginTask(c) \/ apply_verifier_evidence(c) \/ RepairAttempt(c)
           \/ VerifyRepair(c) \/ CloseRepair(c) \/ apply_task_resume_evidence(c)
           \/ PassOver(c) \/ write_execution_plan_ledger(c)
  BY <1>1, <1>3 DEF BeginTask, apply_verifier_evidence, RepairAttempt, VerifyRepair,
     CloseRepair, apply_task_resume_evidence, PassOver, write_execution_plan_ledger, Begins
<1>4. CASE \/ halted_task_resume_result(c) \/ WriteLatest(c) \/ AppendHistory(c)
           \/ append_evidence_chain_record(c)
  <2>1. pc'[c] \in Ledgered /\ manifest' = manifest /\ wal' = wal
    BY <1>2, <1>4 DEF halted_task_resume_result, WriteLatest, AppendHistory,
       append_evidence_chain_record, Ledgered, evidence
  <2>2. QED
    BY <2>1 DEF RefuseInv
<1>5. CASE AppendWal(c)
  <2>1. /\ pc'[c] \in Outside /\ manifest' = manifest /\ wal' = Append(wal, job[c].result)
        /\ pc[c] = "wal"
    BY <1>2, <1>5 DEF AppendWal, Finish, Outside
  <2>2. job[c].result \in Results /\ job[c].result.mode = "full"
    BY <2>1, Here DEF Knows, Closing
  <2>3. wal \in Seq(Results)
    BY DEF IInv, TypeOK
  <2>4. /\ DOMAIN wal' = 1 .. Len(wal) + 1 /\ wal'[Len(wal) + 1] = job[c].result
        /\ \A i \in 1 .. Len(wal) : wal'[i] = wal[i] /\ i \in DOMAIN wal
        /\ Len(wal) \in Nat
    BY <2>1, <2>2, <2>3
  <2>5. \A i \in 1 .. Len(wal) + 1 : i = Len(wal) + 1 \/ i \in 1 .. Len(wal)
    BY <2>4
  <2>6. \A i \in DOMAIN wal' : wal'[i].mode = "full"
    BY <2>2, <2>4, <2>5 DEF RefuseInv
  <2>7. QED
    BY <2>1, <2>6 DEF RefuseInv
<1>6. CASE \/ WriteCheckpointFile(c) \/ NextIntent(c) \/ LastIntent(c) \/ BudgetBreach(c)
           \/ LightOutcome(c) \/ write_global_wal(c)
           \/ FlushCheckpointFile(c) \/ FlushManifestFile(c)
           \/ ReadManifest(c) \/ SyncManifest(c)
           \/ AppendTrace(c) \/ append_final_trace_status(c)
  BY <1>6 DEF RefuseInv, Outside, Ledgered, WriteCheckpointFile, NextIntent, LastIntent,
     BudgetBreach, LightOutcome, write_global_wal, FlushCheckpointFile, FlushManifestFile,
     ReadManifest, SyncManifest, AppendTrace, append_final_trace_status
<1>7. QED
  BY <1>3, <1>4, <1>5, <1>6, NoWriteFails DEF Progress

-----------------------------------------------------------------------------
(* Every step of a command *)

\* What a command has written and knows, when nothing has disturbed it.
VInv ==
    faults = 0 =>
        /\ Whole(trace)
        /\ \A c \in Commands :
              /\ IsRunPlan(Script[c]) => PlanInv(c)
              /\ IsLight(c) => LightInv(c)
              /\ Script[c] = <<"refuse">> => RefuseInv(c)

\* A step of one client, whichever.
Step(c) ==
    \/ BeginTask(c) \/ apply_verifier_evidence(c) \/ RepairAttempt(c)
    \/ VerifyRepair(c) \/ CloseRepair(c) \/ apply_task_resume_evidence(c)
    \/ halted_task_resume_result(c) \/ PassOver(c)
    \/ write_execution_plan_ledger(c)
    \/ Progress(c)
    \/ CheckpointFails(c) \/ TraceFails(c) \/ LedgerFails(c)

\* A client that takes one has an operation to perform, and faults are counted.
LEMMA StepsWork ==
  ASSUME IInv, NEW c \in Clients, Step(c)
  PROVE  /\ at[c] \in DOMAIN Script[c] /\ scenario' = scenario
         /\ faults' = 0 => faults = 0
<1>1. pc[c] \notin {"idle", "end"} \/ at[c] \in DOMAIN Script[c]
  BY DEF Step, Progress, BeginTask, apply_verifier_evidence, RepairAttempt, VerifyRepair,
     CloseRepair, apply_task_resume_evidence, halted_task_resume_result, PassOver,
     write_execution_plan_ledger, Begins, WriteCheckpointFile, NextIntent, LastIntent,
     BudgetBreach, LightOutcome, write_global_wal, FlushCheckpointFile, FlushManifestFile,
     ReadManifest, SyncManifest, AppendTrace, append_final_trace_status, WriteLatest,
     AppendHistory, append_evidence_chain_record, AppendWal, LedgerRefuses,
     CheckpointFails, TraceFails, LedgerFails
<1>2. at[c] \in DOMAIN Script[c]
  BY <1>1, AtWork
<1>3. faults \in Nat
  BY DEF IInv, TypeOK
<1>4. CASE \/ BeginTask(c) \/ apply_verifier_evidence(c) \/ RepairAttempt(c)
           \/ VerifyRepair(c) \/ CloseRepair(c) \/ apply_task_resume_evidence(c)
           \/ halted_task_resume_result(c) \/ PassOver(c)
           \/ write_execution_plan_ledger(c)
  <2>1. CASE \/ apply_verifier_evidence(c) \/ VerifyRepair(c) \/ CloseRepair(c)
             \/ apply_task_resume_evidence(c)
    <3>1. \E result, repair : WriteResult(c, result, repair)
      BY <2>1 DEF apply_verifier_evidence, VerifyRepair, CloseRepair, apply_task_resume_evidence
    <3>2. UNCHANGED <<scenario, faults>>
      BY <3>1 DEF WriteResult, history
    <3>3. QED
      BY <1>2, <3>2
  <2>2. CASE RepairAttempt(c)
    <3>1. scenario' = scenario /\ (faults' = faults \/ faults' = faults + 1)
      BY <2>2 DEF RepairAttempt, history
    <3>2. QED
      BY <1>2, <1>3, <3>1
  <2>3. CASE \/ BeginTask(c) \/ halted_task_resume_result(c) \/ PassOver(c)
             \/ write_execution_plan_ledger(c)
    <3>1. UNCHANGED <<scenario, faults>>
      BY <2>3 DEF BeginTask, halted_task_resume_result, PassOver, write_execution_plan_ledger,
         history
    <3>2. QED
      BY <1>2, <3>1
  <2>4. QED
    BY <1>4, <2>1, <2>2, <2>3
<1>5. CASE \/ WriteCheckpointFile(c) \/ NextIntent(c) \/ LastIntent(c) \/ BudgetBreach(c)
           \/ LightOutcome(c) \/ write_global_wal(c)
           \/ FlushCheckpointFile(c) \/ FlushManifestFile(c)
           \/ ReadManifest(c) \/ SyncManifest(c)
           \/ AppendTrace(c) \/ append_final_trace_status(c) \/ WriteLatest(c)
           \/ AppendHistory(c) \/ append_evidence_chain_record(c) \/ AppendWal(c)
  BY <1>2, <1>3, <1>5 DEF WriteCheckpointFile, NextIntent, LastIntent,
     BudgetBreach, LightOutcome, write_global_wal, FlushCheckpointFile, FlushManifestFile,
     ReadManifest, SyncManifest, AppendTrace, append_final_trace_status, WriteLatest,
     AppendHistory, append_evidence_chain_record, AppendWal, history
<1>6. CASE LedgerRefuses(c) \/ CheckpointFails(c) \/ TraceFails(c) \/ LedgerFails(c)
  <2>1. scenario' = scenario
    BY <1>6 DEF LedgerRefuses, CheckpointFails, TraceFails, LedgerFails
  <2>2. Fault \/ faults' = faults
    BY <1>6 DEF LedgerRefuses, CheckpointFails, TraceFails, LedgerFails
  <2>3. QED
    BY <1>2, <1>3, <2>1, <2>2 DEF Fault
<1>7. QED
  BY <1>4, <1>5, <1>6 DEF Step, Progress

\* A trace of whole lines stays one.
LEMMA StaysWhole ==
  ASSUME IInv, NEW c \in Clients, Step(c), Whole(trace), faults = 0, faults' = 0
  PROVE  Whole(trace)'
<1>1. CASE AppendTrace(c)
  BY <1>1, TraceAppended
<1>2. CASE append_final_trace_status(c)
  <2>1. \/ trace' = <<>>
        \/ trace' = AppendLine(<<>>, job[c].result.status, "line")
    BY <1>2 DEF append_final_trace_status
  <2>2. AppendLine(<<>>, job[c].result.status, "line") =
           <<[body |-> job[c].result.status, form |-> "line"]>>
    BY DEF AppendLine
  <2>3. QED
    BY <2>1, <2>2 DEF Whole
<1>3. CASE \/ BeginTask(c) \/ apply_verifier_evidence(c) \/ RepairAttempt(c)
           \/ VerifyRepair(c) \/ CloseRepair(c) \/ apply_task_resume_evidence(c)
           \/ halted_task_resume_result(c) \/ PassOver(c)
           \/ write_execution_plan_ledger(c)
           \/ WriteCheckpointFile(c) \/ NextIntent(c) \/ LastIntent(c) \/ BudgetBreach(c)
           \/ LightOutcome(c) \/ write_global_wal(c)
           \/ FlushCheckpointFile(c) \/ FlushManifestFile(c)
           \/ ReadManifest(c) \/ SyncManifest(c) \/ WriteLatest(c) \/ AppendHistory(c)
           \/ append_evidence_chain_record(c) \/ AppendWal(c)
  <2>1. trace' = trace
    BY <1>3 DEF BeginTask, apply_verifier_evidence, RepairAttempt, VerifyRepair, WriteResult,
       CloseRepair, apply_task_resume_evidence, halted_task_resume_result, PassOver,
       write_execution_plan_ledger, WriteCheckpointFile, NextIntent, LastIntent,
       BudgetBreach, LightOutcome, write_global_wal, FlushCheckpointFile, FlushManifestFile,
       ReadManifest, SyncManifest, WriteLatest,
       AppendHistory, append_evidence_chain_record, AppendWal, evidence
  <2>2. QED
    BY <2>1 DEF Whole
<1>4. QED
  BY <1>1, <1>2, <1>3, NoWriteFails DEF Step, Progress

\* A run-plan's own step.
LEMMA PlanSteps ==
  ASSUME RInv, NEW c \in Clients, IsRunPlan(Script[c]), PlanInv(c), Whole(trace), Step(c),
         faults = 0, faults' = 0
  PROVE  PlanInv(c)'
BY PlanBegins, PlanFollows, PlanRepairs, PlanPassesOver, PlanActs, PlanRecords, PlanSyncs,
   PlanTraces, PlanHasTrace, PlanLedgers, PlanReturns, PlanElse DEF Step, Progress, RInv

\* A light run's own step.
LEMMA LightSteps ==
  ASSUME RInv, NEW c \in Clients, IsLight(c), LightInv(c), Whole(trace), Step(c),
         faults = 0, faults' = 0
  PROVE  LightInv(c)'
BY LightActs, LightRecords, LightTraces, LightLedgers, LightReturns, LightElse
   DEF Step, Progress, RInv

\* A command is alone: the step is its own.
LEMMA CommandSteps ==
  ASSUME RInv, VInv, NEW d \in Clients, Step(d)
  PROVE  VInv'
<1> SUFFICES ASSUME faults' = 0
             PROVE  /\ Whole(trace)'
                    /\ \A c \in Commands' :
                         /\ IsRunPlan(Script'[c]) => PlanInv(c)'
                         /\ IsLight(c)' => LightInv(c)'
                         /\ Script'[c] = <<"refuse">> => RefuseInv(c)'
  BY DEF VInv
<1>1. /\ IInv /\ faults = 0 /\ scenario' = scenario /\ at[d] \in DOMAIN Script[d]
      /\ Whole(trace)
  BY StepsWork DEF RInv, VInv
<1>2. Script' = Script /\ Commands' = Commands /\ \A c \in Clients : IsLight(c)' <=> IsLight(c)
  BY <1>1 DEF Script, Commands, IsAlone, IsLight
<1>3. ASSUME NEW c \in Commands PROVE c \in Clients /\ c = d
  <2>1. c \in Clients /\ \A e \in Clients \ {c} : Script[e] = <<>>
    BY DEF Commands, IsAlone
  <2>2. Script[d] # <<>>
    BY <1>1
  <2>3. QED
    BY <2>1, <2>2
<1>4. Whole(trace)'
  BY <1>1, StaysWhole
<1>5. ASSUME NEW c \in Commands
      PROVE  /\ IsRunPlan(Script[c]) => PlanInv(c)'
             /\ IsLight(c) => LightInv(c)'
             /\ Script[c] = <<"refuse">> => RefuseInv(c)'
  <2>1. /\ c = d /\ c \in Clients
        /\ IsRunPlan(Script[c]) => PlanInv(c)
        /\ IsLight(c) => LightInv(c)
        /\ Script[c] = <<"refuse">> => RefuseInv(c)
    BY <1>1, <1>3 DEF VInv
  <2>2. IsRunPlan(Script[c]) => PlanInv(c)'
    BY <1>1, <2>1, PlanSteps
  <2>3. IsLight(c) => LightInv(c)'
    BY <1>1, <2>1, LightSteps
  <2>4. Script[c] = <<"refuse">> => RefuseInv(c)'
    BY <1>1, <2>1, RefuseKeepsOut DEF Step
  <2>5. QED
    BY <2>2, <2>3, <2>4
<1>6. QED
  BY <1>2, <1>3, <1>4, <1>5

\* Nothing is written at first.
LEMMA VInvInit == ASSUME Init PROVE VInv
<1>1. /\ manifest.records = <<>> /\ trace = <<>> /\ wal = <<>> /\ Turns = 0
      /\ \A c \in Clients : /\ pc[c] = "idle" /\ at[c] = 1
                            /\ job[c].repair = "none" /\ job[c].fixes = 0
                            /\ job[c].n = 0
  BY DEF Init, Turns
<1>2. ASSUME NEW c \in Commands
      PROVE  /\ IsRunPlan(Script[c]) => PlanInv(c)
             /\ LightInv(c) /\ RefuseInv(c)
  <2>1. c \in Clients /\ Script[c] \in Seq(Ops)
    BY InitHolds, ScriptsOfScenarios DEF Commands, IInv
  <2>2. IsRunPlan(Script[c]) => Len(Script[c]) \in Nat /\ 1 \in DOMAIN Script[c]
    BY <2>1 DEF IsRunPlan
  <2>3. IsRunPlan(Script[c]) => PlanInv(c)
    BY <1>1, <2>1, <2>2
       DEF IsRunPlan, PlanInv, PlanStage, PlanCounts, PlanShort, PlanAgrees, Breached, Outside,
           Writing, Ledgered
  <2>4. LightInv(c)
    BY <1>1, <2>1 DEF LightInv, LightStage, LightAgrees, Outside, Ledgered, Earlier
  <2>5. RefuseInv(c)
    BY <1>1, <2>1 DEF RefuseInv, Outside
  <2>6. QED
    BY <2>3, <2>4, <2>5
<1>3. QED
  BY <1>1, <1>2 DEF VInv, Whole

\* And nothing by a step that changes nothing.
LEMMA VInvStutters == ASSUME VInv, UNCHANGED vars PROVE VInv'
<1>1. /\ UNCHANGED <<scenario, manifest, trace, latest, wal, pc, at, job, faults>>
  BY DEF vars, evidence, clients, history
<1>2. \A c : /\ PlanInv(c)' <=> PlanInv(c)
             /\ LightInv(c)' <=> LightInv(c)
             /\ RefuseInv(c)' <=> RefuseInv(c)
             /\ IsLight(c)' <=> IsLight(c)
  <2> TAKE c
  <2>1. PlanInv(c)' <=> PlanInv(c)
    BY <1>1 DEF PlanInv, PlanStage, PlanCounts, PlanShort, PlanAgrees, Counted, Breached, Overridden, Settled,
               Ends, Turns, Script, Intents, Op
  <2>2. LightInv(c)' <=> LightInv(c)
    BY <1>1 DEF LightInv, LightStage, LightAgrees, Earlier, Closed, Ends, Turns, Script
  <2>3. (RefuseInv(c)' <=> RefuseInv(c)) /\ (IsLight(c)' <=> IsLight(c))
    BY <1>1 DEF RefuseInv, IsLight, Script
  <2>4. QED
    BY <2>1, <2>2, <2>3
<1>3. Script' = Script /\ Commands' = Commands
  BY <1>1 DEF Script, Commands, IsAlone
<1>4. Whole(trace)' <=> Whole(trace)
  BY <1>1 DEF Whole
<1>5. QED
  BY <1>1, <1>2, <1>3, <1>4 DEF VInv

\* With every copy of the ledger in step, and no line torn, the chain verifies.
LEMMA ChainVerifies == ASSUME IInv, faults = 0 PROVE validate_evidence_chain
<1>1. InStep
  BY DEF IInv
<1>2. ~Torn
  BY <1>1 DEF InStep, Torn, Readable
<1>3. QED
  BY <1>2, CopiesFollow DEF LedgersAgree

\* What inspect_run makes of documents that agree.
LEMMA DocumentsInspected ==
  ASSUME IInv, Numbered, faults = 0, Whole(trace), Turns > 0, NEW r \in Results, latest = r,
         Ends(trace, r.status), manifest.status = r.status,
         r.resolved <= r.requested, r.resolved = Turns
  PROVE  inspect_run = run_inspection_summary(r)
<1>1. manifest.records # <<>> /\ latest # None
  BY NoneIsNoResult DEF Turns
<1>2. validate_run_documents
  BY DEF validate_run_documents, validate_ledger_counts, Numbered, Turns
<1>3. trace_metrics_for_ledger
  BY DEF trace_metrics_for_ledger, TraceMatches, Whole, Ends, Readable
<1>4. QED
  BY <1>1, <1>2, <1>3, ChainVerifies DEF inspect_run

\* And of documents that do not.
LEMMA DocumentsRefused ==
  ASSUME Turns > 0, NEW r \in Results, latest = r,
         manifest.status # r.status \/ r.resolved # Turns
  PROVE  inspect_run = Corrupt
<1>1. manifest.records # <<>> /\ latest # None
  BY NoneIsNoResult DEF Turns
<1>2. ~validate_run_documents
  BY DEF validate_run_documents, Turns
<1>3. QED
  BY <1>1, <1>2 DEF inspect_run

\* The end of an undisturbed command.
LEMMA CommandInspected ==
  ASSUME CommandsOfCli, RInv, VInv PROVE VerdictInspects
<1> SUFFICES ASSUME NEW c \in Commands, pc[c] = "end", faults = 0, ~Gap(c)
             PROVE  inspect_run = IF Script[c] = <<"refuse">> THEN Missing
                                  ELSE IF Mismatch(c) THEN Corrupt
                                  ELSE run_inspection_summary(job[c].current)
  BY DEF VerdictInspects
<1> DEFINE r == job[c].current
<1>1. /\ IInv /\ Numbered /\ Whole(trace) /\ c \in Clients
      /\ IsRunPlan(Script[c]) => PlanInv(c)
      /\ IsLight(c) => LightInv(c)
      /\ Script[c] = <<"refuse">> => RefuseInv(c)
  BY DEF RInv, VInv, Commands
<1>2. /\ Script[c] # <<>>
      /\ \/ Script[c] = <<"refuse">>
         \/ \A i \in DOMAIN Script[c] : Script[c][i] = "light"
         \/ IsRunPlan(Script[c])
  BY <1>1 DEF CommandsOfCli, Commands, IsAlone, Script, IInv, TypeOK
<1>3. Script[c] \in Seq(Ops)
  BY <1>1, ScriptsOfScenarios DEF IInv
<1>4. CASE Script[c] = <<"refuse">>
  <2>1. manifest.records = <<>> /\ wal \in Seq(Results) /\ \A i \in DOMAIN wal : wal[i].mode = "full"
    BY <1>1, <1>4 DEF RefuseInv, IInv, TypeOK
  <2>2. wal # <<>> => wal[Len(wal)].mode # "wal"
    BY <2>1
  <2>3. QED
    BY <1>4, <2>1, <2>2 DEF inspect_run, inspect_global_wal_run
<1>5. CASE \A i \in DOMAIN Script[c] : Script[c][i] = "light"
  <2>1. 1 \in DOMAIN Script[c]
    BY <1>2, <1>3
  <2>2. IsLight(c) /\ Script[c] # <<"refuse">>
    BY <1>5, <2>1 DEF IsLight
  <2>3. ~Mismatch(c)
    BY <1>1, <1>5, <2>1, <2>2, LightTypes DEF LightInv, LightStage, Mismatch, Jobs
  <2>4. /\ at[c] > 1 /\ pc[c] \in Outside
        /\ Turns \in Nat /\ DOMAIN manifest.records = 1 .. Turns
        /\ manifest.records \in Seq(Checkpoints) /\ r \in Results
    BY <1>1, <2>2, LightTypes, Here DEF LightInv, LightStage, Outside, Knows
  <2>5. /\ r.step \in DOMAIN Script[c]
        /\ \/ wal # <<>> /\ wal[Len(wal)] = r /\ r.mode = "wal" /\ Earlier(r.step)
           \/ /\ latest = r /\ Ends(trace, r.status) /\ Closed(r.step)
              /\ manifest.status = r.status /\ r.requested = 1 /\ r.resolved = 1
    BY <1>1, <2>2, <2>4 DEF LightInv, LightAgrees
  <2>6. ~(\E i \in 1 .. Turns : manifest.records[i].step < r.step)
    BY <1>5, <2>4, <2>5 DEF Gap
  <2>7. CASE wal # <<>> /\ wal[Len(wal)] = r /\ r.mode = "wal" /\ Earlier(r.step)
    <3>1. manifest.records = <<>>
      BY <2>4, <2>6, <2>7 DEF Earlier, Turns
    <3>2. QED
      BY <2>2, <2>7, <2>3, <3>1 DEF inspect_run, inspect_global_wal_run
  <2>8. CASE /\ latest = r /\ Ends(trace, r.status) /\ Closed(r.step)
             /\ manifest.status = r.status /\ r.requested = 1 /\ r.resolved = 1
    <3>1. Turns = 1
      <4>1. Turns > 0 /\ (Turns > 1 => 1 \in 1 .. Turns - 1 /\ 1 \in 1 .. Turns)
        BY <2>4, <2>8 DEF Closed
      <4>2. QED
        BY <2>4, <2>6, <2>8, <4>1 DEF Closed
    <3>2. inspect_run = run_inspection_summary(r)
      BY <1>1, <2>4, <2>8, <3>1, DocumentsInspected
    <3>3. QED
      BY <2>2, <2>3, <3>2
  <2>9. QED
    BY <2>5, <2>7, <2>8
<1>6. CASE IsRunPlan(Script[c])
  <2>1. /\ Len(Script[c]) \in Nat /\ Len(Script[c]) > 0 /\ Script[c] # <<"refuse">>
        /\ at[c] = Len(Script[c]) + 1 /\ pc[c] \in Outside /\ at[c] > 1
    BY <1>1, <1>2, <1>6, PlanTypes DEF IsRunPlan, PlanInv, PlanStage, Outside
  <2>2. r \in Results /\ Turns \in Nat /\ job[c] \in Jobs
    BY <1>1, <1>6, <2>1, PlanTypes
  <2>3. job[c].repair # "fixed" /\ job[c].fixes \in Nat
    BY <1>1, <1>6, <2>2 DEF PlanInv, PlanStage, Jobs
  <2>4. /\ latest = r /\ Ends(trace, r.status) /\ Turns > 0
        /\ manifest.status = IF at[c] = 2 /\ Overridden(job[c], r) THEN "skipped" ELSE r.status
    BY <1>1, <1>6, <2>1, <2>3 DEF PlanInv, PlanAgrees, PlanCounts
  <2>5. at[c] = 2 <=> Script[c] = <<"task">>
    BY <1>3, <1>6, <2>1 DEF IsRunPlan
  <2>6. manifest.status = r.status <=>
           ~(Script[c] = <<"task">> /\ job[c].last = "skipped" /\ r.status = "completed")
    BY <2>4, <2>5 DEF Overridden
  <2>7. /\ job[c].repair = "rejected" /\ job[c].fixes > 0 => r.resolved # Turns
        /\ ~(job[c].repair = "rejected" /\ job[c].fixes > 0) => Counted(job[c], r)
    <3>1. job[c].fixes > 0 => Settled(c, Len(Script[c]))
      BY <1>1, <1>3, <1>6, NotSettled DEF PlanInv, PlanStage
    <3>2. at[c] - 1 = Len(Script[c]) /\ r.resolved \in Nat
      BY <2>1, <2>2 DEF Results
    <3>3. job[c].repair = "rejected" /\ job[c].fixes > 0 => r.resolved < Turns
      BY <1>1, <1>6, <2>1 DEF PlanInv, PlanShort
    <3>4. ~(job[c].repair = "rejected" /\ job[c].fixes > 0) => Counted(job[c], r)
      BY <1>1, <1>6, <2>1, <2>3, <3>1, <3>2 DEF PlanInv, PlanCounts
    <3>5. QED
      BY <2>2, <3>2, <3>3, <3>4
  <2>8. CASE Mismatch(c)
    <3>1. manifest.status # r.status \/ r.resolved # Turns
      <4>1. CASE ~(job[c].repair = "rejected" /\ job[c].fixes > 0)
                 /\ Breached(job[c]) /\ job[c].n > 1
        BY <2>7, <4>1 DEF Counted
      <4>2. QED
        BY <2>6, <2>7, <2>8, <4>1 DEF Mismatch, Breached
    <3>2. QED
      BY <2>1, <2>2, <2>4, <2>8, <3>1, DocumentsRefused
  <2>9. CASE ~Mismatch(c)
    <3>1. manifest.status = r.status /\ Counted(job[c], r)
      BY <2>6, <2>7, <2>9 DEF Mismatch
    <3>2. r.resolved <= r.requested /\ r.resolved = Turns
      <4>1. CASE Breached(job[c])
        <5>1. ~(job[c].n > 1) /\ job[c].n \in Nat /\ r.resolved = 1 /\ Turns = job[c].n
          BY <2>2, <2>9, <3>1, <4>1 DEF Mismatch, Breached, Counted, Jobs
        <5>2. QED
          BY <2>4, <3>1, <5>1 DEF Counted
      <4>2. CASE ~Breached(job[c])
        BY <3>1, <4>2 DEF Counted
      <4>3. QED
        BY <4>1, <4>2
    <3>3. inspect_run = run_inspection_summary(r)
      BY <1>1, <2>2, <2>4, <3>1, <3>2, DocumentsInspected
    <3>4. QED
      BY <2>1, <2>9, <3>3
  <2>10. QED
    BY <2>8, <2>9
<1>7. QED
  BY <1>2, <1>4, <1>5, <1>6

\* For the commands of cli.py, of any number of intents, repairs and light runs, a plain
\* run among them: when one that nothing disturbed is over, inspect_run shows what it
\* returned, and calls the run corrupt in the cases of Mismatch only.
\* A command's own writes are then all there are, so that at each of its stages the
\* manifest, the trace, the ledger and its copies are what it has written so far.
THEOREM CommandsAreInspected ==
  ASSUME CommandsAlone, CommandsOfCli PROVE Spec => []VerdictInspects
<1>1. Init => RInv /\ VInv
  BY RecordsInit, VInvInit
<1>2. RInv /\ VInv /\ [Next]_vars => (RInv /\ VInv)'
  <2> SUFFICES ASSUME RInv, VInv, [Next]_vars PROVE RInv' /\ VInv'
    OBVIOUS
  <2>1. RInv'
    BY RecordsKeep
  <2>2. ASSUME NEW c \in Clients, Step(c) PROVE VInv'
    BY <2>2, CommandSteps
  <2>3. ASSUME NEW q \in Clients, Crash(q) PROVE VInv'
    <3>1. faults' # 0
      BY <2>3 DEF Crash, Fault, RInv, IInv, TypeOK
    <3>2. QED
      BY <3>1 DEF VInv
  <2>4. VInv'
    BY <2>2, <2>3, VInvStutters DEF Next, Step
  <2>5. QED
    BY <2>1, <2>4
<1>3. RInv /\ VInv => VerdictInspects
  BY CommandInspected
<1>4. QED
  BY <1>1, <1>2, <1>3, PTL DEF Spec
=============================================================================
