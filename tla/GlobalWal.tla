----------------------------- MODULE GlobalWal -----------------------------
(***************************************************************************)
(* The global write-ahead ledger .onecode/global-ledger.jsonl: processes   *)
(* that append a hash-chained entry under a file lock, rotating the active *)
(* file when it is large, and readers that validate every segment without  *)
(* taking the lock (kernel/checkpoint.py, kernel/wal.py,                   *)
(* kernel/evidence_io.py).                                                 *)
(*                                                                         *)
(* A file is the sequence of its lines.  The keyed hash is ideal: the hash *)
(* of an entry is the sequence of the entries it commits to, so two hashes *)
(* are equal exactly when their entries and their whole pasts are, and     *)
(* <<>> is the null that stands before the first entry of a segment.       *)
(***************************************************************************)
EXTENDS Integers, Sequences, FiniteSets

CONSTANTS
    Writers,        \* processes that finish runs, each appending entries
    Readers,        \* unlocked validated reads
    Entries,        \* the results there are to record
    LineBreakers,   \* entries whose JSON holds a separator splitlines() cuts at
    RotateLimit,    \* ONECODE_WAL_ROTATE_BYTES, in lines
    MaxInterrupts,  \* bound on processes killed, or failing, during an append
    None

ASSUME SetsAssumption ==
    /\ LineBreakers \subseteq Entries
    /\ None \notin Writers
    /\ None \notin Entries
ASSUME LimitAssumption == RotateLimit \in Nat \ {0}
ASSUME InterruptsAssumption == MaxInterrupts \in Nat

VARIABLES
    rotated,        \* global-ledger.1.jsonl, .2.jsonl, ... in index order
    active,         \* global-ledger.jsonl; <<>> when the file is missing
    lock,           \* who holds the flock on global-ledger.lock
    pc,             \* where each writer is in append_global_wal_entry
    body,           \* the entry each writer appends
    prev,           \* its "prev" field, once the writer has computed it
    rpc,            \* where each reader is in read_validated_global_wal_entries
    globbed,        \* how many rotated files the reader's glob returned
    next,           \* the rotated file the reader opens next
    result,         \* the entries the reader has collected

    tried,          \* history: entries some process has started to append
    acked,          \* history: entries whose append returned
    order,          \* history: entries in the order they became readable
    before,         \* history: what was acknowledged when a read began
    interrupts      \* bound: interruptions so far

files   == <<rotated, active>>
writers == <<lock, pc, body, prev>>
readers == <<rpc, globbed, next, result, before>>
history == <<tried, acked, order, interrupts>>
vars    == <<files, writers, readers, history>>

\* "line": a whole line; "noeol": whole JSON that lacks its newline; "cut": the
\* start of an entry; "joined": two entries on one line; "split": a whole line
\* that splitlines() takes for several.
Forms == {"line", "noeol", "cut", "joined", "split"}
Hashes == Seq(Entries)
Line  == [body : Entries, prev : Hashes, hash : Hashes, form : Forms]
File  == Seq(Line)

WriterPcs == {"idle", "locking", "locked", "hashing", "writing", "flushing", "written"}
Holding   == {"locked", "hashing", "writing", "flushing", "written"}
ReaderPcs == {"idle", "rotated", "opening", "done", "failed"}

wal_entry_hash(previous, e) == Append(previous, e)

\* json.loads accepts the line.
Readable(line) == line.form \in {"line", "noeol"}
Damaged(file)  == \E i \in DOMAIN file : ~Readable(file[i])

last_global_wal_hash(file) ==
    IF file = <<>> THEN <<>> ELSE file[Len(file)].hash

\* read_validated_global_wal_segment returns instead of raising.
SegmentValid(file) ==
    \A i \in DOMAIN file :
        /\ Readable(file[i])
        /\ file[i].prev = (IF i = 1 THEN <<>> ELSE file[i - 1].hash)
        /\ file[i].hash = wal_entry_hash(file[i].prev, file[i].body)

Bodies(file) == [i \in DOMAIN file |-> file[i].body]

Init ==
    /\ rotated = <<>>
    /\ active = <<>>
    /\ lock = None
    /\ pc = [w \in Writers |-> "idle"]
    /\ body = [w \in Writers |-> None]
    /\ prev = [w \in Writers |-> <<>>]
    /\ rpc = [r \in Readers |-> "idle"]
    /\ globbed = [r \in Readers |-> 0]
    /\ next = [r \in Readers |-> 1]
    /\ result = [r \in Readers |-> <<>>]
    /\ before = [r \in Readers |-> {}]
    /\ tried = {}
    /\ acked = {}
    /\ order = <<>>
    /\ interrupts = 0

-----------------------------------------------------------------------------
(* append_global_wal_entry *)

Begin(w) ==
    /\ pc[w] = "idle"
    /\ \E e \in Entries \ tried :
        /\ body' = [body EXCEPT ![w] = e]
        /\ tried' = tried \cup {e}
    /\ pc' = [pc EXCEPT ![w] = "locking"]
    /\ UNCHANGED <<files, lock, prev, readers, acked, order, interrupts>>

\* Mutant: the lock is not exclusive.
Lock_Shared(w) ==
    /\ pc[w] = "locking"
    /\ lock' = w
    /\ pc' = [pc EXCEPT ![w] = "locked"]
    /\ UNCHANGED <<files, body, prev, readers, history>>

Lock(w) ==
    /\ pc[w] = "locking"
    /\ lock = None
    /\ lock' = w
    /\ pc' = [pc EXCEPT ![w] = "locked"]
    /\ UNCHANGED <<files, body, prev, readers, history>>

\* Mutant: the rotation does not look for a free index.
rotate_global_wal_if_needed_Overwrite(w) ==
    /\ pc[w] = "locked"
    /\ IF Len(active) >= RotateLimit
       THEN /\ rotated' = <<active>>
            /\ active' = <<>>
       ELSE UNCHANGED files
    /\ pc' = [pc EXCEPT ![w] = "hashing"]
    /\ UNCHANGED <<lock, body, prev, readers, history>>

\* The size test comes before the last hash is read, so a file whose tail is
\* damaged is rotated away like any other.
rotate_global_wal_if_needed(w) ==
    /\ pc[w] = "locked"
    /\ IF Len(active) >= RotateLimit
       THEN /\ rotated' = Append(rotated, active)
            /\ active' = <<>>
       ELSE UNCHANGED files
    /\ pc' = [pc EXCEPT ![w] = "hashing"]
    /\ UNCHANGED <<lock, body, prev, readers, history>>

HashEntry(w) ==
    /\ pc[w] = "hashing"
    /\ ~Damaged(active)
    /\ prev' = [prev EXCEPT ![w] = last_global_wal_hash(active)]
    /\ pc' = [pc EXCEPT ![w] = "writing"]
    /\ UNCHANGED <<files, lock, body, readers, history>>

\* Mutant: the exception leaves the lock held.
RefuseDamaged_KeepLock(w) ==
    /\ pc[w] = "hashing"
    /\ Damaged(active)
    /\ pc' = [pc EXCEPT ![w] = "idle"]
    /\ UNCHANGED <<files, lock, body, prev, readers, history>>

\* json.loads raises on the damaged line: the append fails, the lock is released.
RefuseDamaged(w) ==
    /\ pc[w] = "hashing"
    /\ Damaged(active)
    /\ lock' = None
    /\ pc' = [pc EXCEPT ![w] = "idle"]
    /\ UNCHANGED <<files, body, prev, readers, history>>

\* Part of the line has reached the file.  Text written after a line that lacks
\* its newline lands on that line.
StartLine(w) ==
    LET e == body[w]
        part(form) == [body |-> e, prev |-> prev[w],
                       hash |-> wal_entry_hash(prev[w], e), form |-> form]
    IN
    /\ pc[w] = "writing"
    /\ \/ /\ active # <<>>
          /\ active[Len(active)].form = "noeol"
          /\ active' = [active EXCEPT ![Len(active)].form = "joined"]
          /\ UNCHANGED order
       \/ /\ active # <<>> => active[Len(active)].form # "noeol"
          /\ active' = Append(active, part("cut"))
          /\ UNCHANGED order
       \/ /\ active # <<>> => active[Len(active)].form # "noeol"
          /\ e \notin LineBreakers
          /\ active' = Append(active, part("noeol"))
          /\ order' = Append(order, e)
    /\ pc' = [pc EXCEPT ![w] = "flushing"]
    /\ UNCHANGED <<rotated, lock, body, prev, readers, tried, acked, interrupts>>

\* The rest of the line, its newline and the fsync.
FinishLine(w) ==
    LET last == active[Len(active)] IN
    /\ pc[w] = "flushing"
    /\ \/ /\ last.form = "joined"
          /\ UNCHANGED <<active, order>>
       \/ /\ last.form # "joined"
          /\ body[w] \in LineBreakers
          /\ active' = [active EXCEPT ![Len(active)].form = "split"]
          /\ UNCHANGED order
       \/ /\ last.form # "joined"
          /\ body[w] \notin LineBreakers
          /\ active' = [active EXCEPT ![Len(active)].form = "line"]
          /\ order' = IF last.form = "noeol" THEN order ELSE Append(order, body[w])
    /\ pc' = [pc EXCEPT ![w] = "written"]
    /\ UNCHANGED <<rotated, lock, body, prev, readers, tried, acked, interrupts>>

Return(w) ==
    /\ pc[w] = "written"
    /\ lock' = None
    /\ acked' = acked \cup {body[w]}
    /\ pc' = [pc EXCEPT ![w] = "idle"]
    /\ UNCHANGED <<files, body, prev, readers, tried, order, interrupts>>

\* The process dies, or a full disk raises out of write(): the kernel or the
\* finally clause releases the lock, and the file keeps what had reached it.
Interrupt(w) ==
    /\ pc[w] # "idle"
    /\ interrupts < MaxInterrupts
    /\ interrupts' = interrupts + 1
    /\ lock' = IF lock = w THEN None ELSE lock
    /\ pc' = [pc EXCEPT ![w] = "idle"]
    /\ UNCHANGED <<files, body, prev, readers, tried, acked, order>>

-----------------------------------------------------------------------------
(* read_validated_global_wal_entries: no lock is taken *)

global_wal_paths(r) ==
    /\ rpc[r] = "idle"
    /\ globbed' = [globbed EXCEPT ![r] = Len(rotated)]
    /\ before' = [before EXCEPT ![r] = acked]
    /\ rpc' = [rpc EXCEPT ![r] = "rotated"]
    /\ UNCHANGED <<files, writers, next, result, history>>

ReadRotated(r) ==
    /\ rpc[r] = "rotated"
    /\ next[r] <= globbed[r]
    /\ \/ /\ SegmentValid(rotated[next[r]])
          /\ result' = [result EXCEPT ![r] = @ \o Bodies(rotated[next[r]])]
          /\ next' = [next EXCEPT ![r] = @ + 1]
          /\ UNCHANGED rpc
       \/ /\ ~SegmentValid(rotated[next[r]])
          /\ rpc' = [rpc EXCEPT ![r] = "failed"]
          /\ UNCHANGED <<result, next>>
    /\ UNCHANGED <<files, writers, globbed, before, history>>

\* path.exists() on the active file.
FindActive(r) ==
    /\ rpc[r] = "rotated"
    /\ next[r] > globbed[r]
    /\ rpc' = [rpc EXCEPT ![r] = IF active = <<>> THEN "done" ELSE "opening"]
    /\ UNCHANGED <<files, writers, globbed, next, result, before, history>>

\* Mutant: a segment that fails validation is skipped.
ReadActive_Skip(r) ==
    /\ rpc[r] = "opening"
    /\ result' = IF SegmentValid(active)
                 THEN [result EXCEPT ![r] = @ \o Bodies(active)]
                 ELSE result
    /\ rpc' = [rpc EXCEPT ![r] = "done"]
    /\ UNCHANGED <<files, writers, globbed, next, before, history>>

\* path.read_text() and the validation of what it returned.  The file may have
\* been rotated away since exists(): read_text raises, unless a writer has just
\* created it anew and it is still empty.
ReadActive(r) ==
    /\ rpc[r] = "opening"
    /\ \/ /\ active # <<>>
          /\ SegmentValid(active)
          /\ result' = [result EXCEPT ![r] = @ \o Bodies(active)]
          /\ rpc' = [rpc EXCEPT ![r] = "done"]
       \/ /\ active # <<>> => ~SegmentValid(active)
          /\ rpc' = [rpc EXCEPT ![r] = "failed"]
          /\ UNCHANGED result
       \/ /\ active = <<>>
          /\ \E w \in Writers : pc[w] = "writing"
          /\ rpc' = [rpc EXCEPT ![r] = "done"]
          /\ UNCHANGED result
    /\ UNCHANGED <<files, writers, globbed, next, before, history>>

-----------------------------------------------------------------------------
AppendStep(w) ==
    \/ Begin(w)
    \/ Lock(w)
    \/ rotate_global_wal_if_needed(w)
    \/ HashEntry(w)
    \/ RefuseDamaged(w)
    \/ StartLine(w)
    \/ FinishLine(w)
    \/ Return(w)
    \/ Interrupt(w)

ReadStep(r) ==
    \/ global_wal_paths(r)
    \/ ReadRotated(r)
    \/ FindActive(r)
    \/ ReadActive(r)

Next ==
    \/ \E w \in Writers : AppendStep(w)
    \/ \E r \in Readers : ReadStep(r)

Spec == Init /\ [][Next]_vars

\* A process that holds the lock runs on, and flock wakes a waiter when the lock
\* is free.  No process is obliged to start an append or to be interrupted.
Progress(w) ==
    Lock(w) \/ rotate_global_wal_if_needed(w) \/ HashEntry(w) \/ RefuseDamaged(w)
    \/ StartLine(w) \/ FinishLine(w) \/ Return(w)

FairSpec == Spec /\ \A w \in Writers : WF_vars(Progress(w))

-----------------------------------------------------------------------------
(* Properties *)

Segments == {rotated[i] : i \in DOMAIN rotated} \cup {active}

TypeOK ==
    /\ rotated \in Seq(File)
    /\ active \in File
    /\ lock \in Writers \cup {None}
    /\ pc \in [Writers -> WriterPcs]
    /\ body \in [Writers -> Entries \cup {None}]
    /\ prev \in [Writers -> Hashes]
    /\ rpc \in [Readers -> ReaderPcs]
    /\ globbed \in [Readers -> Nat]
    /\ next \in [Readers -> Nat \ {0}]
    /\ result \in [Readers -> Seq(Entries)]
    /\ before \in [Readers -> SUBSET Entries]
    /\ tried \in SUBSET Entries
    /\ acked \in SUBSET Entries
    /\ order \in Seq(Entries)
    /\ interrupts \in Nat

\* The part of a file before a damaged last line.
Sound(file) ==
    IF file # <<>> /\ ~Readable(file[Len(file)])
    THEN SubSeq(file, 1, Len(file) - 1)
    ELSE file

\* However appends, rotations and interruptions interleave, the hash chain of
\* every segment is one the validated reader accepts, up to a damaged last line:
\* no two appends share a predecessor, and nothing is ever appended after damage
\* (append_global_wal_entry holds the lock from reading the last hash to the write).
OnlyATailIsDamaged == \A file \in Segments : SegmentValid(Sound(file))

\* An append that returned is on a whole line of some segment, or the damage that
\* swallowed it is there for every validated read to fail on: the ledger never
\* loses an acknowledged entry without a trace.
NoSilentLoss ==
    \A e \in acked :
        \/ \E file \in Segments : \E i \in DOMAIN file :
              file[i].body = e /\ file[i].form \in {"line", "split"}
        \/ \E file \in Segments : \E i \in DOMAIN file : file[i].form = "joined"

\* A validated read returns entries in the order they entered the ledger, none
\* of them twice, although segments may be renamed under it; and it holds
\* everything acknowledged before it began, unless the active file was rotated
\* between its glob and its end: the one way the unlocked reader
\* (read_validated_wal_entries) misses entries without an error.
ReadsAreFaithful ==
    \A r \in Readers :
        /\ rpc[r] # "failed" =>
              \A i, j \in DOMAIN result[r] : i < j =>
                  \E a, b \in DOMAIN order :
                      a < b /\ order[a] = result[r][i] /\ order[b] = result[r][j]
        /\ rpc[r] = "done" =>
              \/ before[r] \subseteq {result[r][i] : i \in DOMAIN result[r]}
              \/ Len(rotated) > globbed[r]

\* A process that asks for the lock gets it and leaves append_global_wal_entry:
\* no failure, refusal or death keeps the others out.
AppendsEnd == \A w \in Writers : pc[w] = "locking" ~> pc[w] = "idle"
=============================================================================
