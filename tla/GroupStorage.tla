---------------------------- MODULE GroupStorage ----------------------------
(***************************************************************************)
(* The write path of one storage group (core/storage/session.py): versions *)
(* in LOGS and TAGS, and the digest cells that META keeps for them, one per *)
(* (partition, time bucket) and one root per partition; with the retention *)
(* rule evaluated inside the transaction (core/storage/retention.py).      *)
(*                                                                         *)
(* LMDB admits one write transaction per group at a time, and readers see  *)
(* the last commit, so `stored' and `cells' are what every reader sees.    *)
(* A step is one awaited call on the session. A version is its key: LOGS,  *)
(* TAGS and the value are written and removed together, and every kind the *)
(* callers write (LIVE, TOMBSTONE) is owned. The digest of a cell is the   *)
(* set of keys folded into it, where the code keeps the xor of their       *)
(* hashes: folding a key twice takes it out again.                         *)
(***************************************************************************)
EXTENDS Integers, FiniteSets

CONSTANTS
    Pids,          \* partitions of the group
    Addrs,         \* addresses
    Pid,           \* the partition of an address
    MaxTs,         \* timestamps are 1..MaxTs, in the order of HLCTimestamp
    Encoded,       \* the position of a timestamp in the order of its bytes
    Bucket,        \* the time bucket of a timestamp: wall_ms >> bucket_shift
    Versions,      \* X of the retention policy
    MaxOps         \* bound: calls per transaction

Keys == [addr : Addrs, ts : 1..MaxTs]

ASSUME StorageAssumption ==
    /\ IsFiniteSet(Addrs)
    /\ Pid \in [Addrs -> Pids]
    /\ MaxTs \in Nat
    /\ Encoded \in [1..MaxTs -> Nat]
    /\ \A s, t \in 1..MaxTs : Encoded[s] = Encoded[t] => s = t
    /\ Bucket \in [1..MaxTs -> Nat]
    /\ Versions \in Nat \ {0}
    /\ MaxOps \in Nat

VARIABLES
    stored,        \* committed: the keys in LOGS and TAGS
    cells,         \* committed: the digest cells in META, empty when absent
    open,          \* a write transaction is open
    tags, meta,    \* LOGS/TAGS and META as the transaction sees them
    known, before, \* _stored: the cells read so far, and their first value
    touched,       \* the cells _deltas has an entry for
    deltas,        \* _deltas: what the transaction adds to them
    ops,           \* bound
    asked,         \* history: the versions the transaction was asked to store
    offered        \* history: those that a commit covered

txn  == <<tags, meta, known, before, touched, deltas, ops, asked>>
vars == <<stored, cells, open, txn, offered>>

----------------------------------------------------------------------------
(* DigestCell *)

Root == -1
Buckets == {Bucket[t] : t \in 1..MaxTs}
Refs == Pids \X (Buckets \union {Root})

\* _cell_keys: the root and the bucket that cover a key.
CellKeys(k) == {<<Pid[k.addr], Root>>, <<Pid[k.addr], Bucket[k.ts]>>}

Covered(S, ref) == {k \in S : ref \in CellKeys(k)}

EmptyCell == [count |-> 0, digest |-> {}]
SymDiff(A, B) == (A \ B) \union (B \ A)

\* __add__ and __sub__ of a cell and the cells of the keys of S.
Plus(cell, S) ==
    [count |-> cell.count + Cardinality(S), digest |-> SymDiff(cell.digest, S)]
Minus(cell, S) ==
    [count |-> cell.count - Cardinality(S), digest |-> SymDiff(cell.digest, S)]

\* __add__ of two cells.
Combined(c, d) ==
    [count |-> c.count + d.count, digest |-> SymDiff(c.digest, d.digest)]

\* The cell of a set of versions.
CellOf(S) == [count |-> Cardinality(S), digest |-> S]

----------------------------------------------------------------------------
(* GroupSession *)

\* The cells of keys not read yet are read with the call that needs them.
Preload(S) ==
    LET unknown == {ref \in Refs : Covered(S, ref) # {}} \ known IN
    /\ known' = known \union unknown
    /\ before' = [ref \in Refs |-> IF ref \in unknown THEN meta[ref] ELSE before[ref]]

\* put_many: insert what is absent, fold what was inserted.
put_many(S) ==
    LET written == S \ tags IN
    /\ Preload(S)
    /\ tags' = tags \union written
    /\ touched' = touched \union {ref \in Refs : Covered(written, ref) # {}}
    /\ deltas' = [ref \in Refs |-> Plus(deltas[ref], Covered(written, ref))]

\* remove: delete what is present, take it out of its cells.
remove(S) ==
    LET candidates == S \intersect tags IN
    /\ Preload(candidates)
    /\ tags' = tags \ candidates
    /\ touched' = touched \union {ref \in Refs : Covered(candidates, ref) # {}}
    /\ deltas' = [ref \in Refs |-> Minus(deltas[ref], Covered(candidates, ref))]

\* Mutant: the current value plus the total delta.
FlushedTwice ==
    [ref \in Refs |-> IF ref \in touched THEN Combined(meta[ref], deltas[ref])
                                         ELSE meta[ref]]

\* _flush: the first value of a touched cell plus its total delta.
Flushed ==
    [ref \in Refs |-> IF ref \in touched THEN Combined(before[ref], deltas[ref])
                                         ELSE meta[ref]]

----------------------------------------------------------------------------
(* RetentionPolicy *)

Newer(S, k) == {j \in S : j.addr = k.addr /\ j.ts > k.ts}

\* latest_identities_many: the last keys of an address in LOGS, by their bytes.
Following(S, k) == {j \in S : j.addr = k.addr /\ Encoded[j.ts] > Encoded[k.ts]}
Newest(a) == {k \in tags : k.addr = a /\ Cardinality(Following(tags, k)) < Versions}

\* Mutant: a version counts against itself.
OutsideOrEqual(k) ==
    Cardinality({j \in Newest(k.addr) : j.ts >= k.ts}) >= Versions

\* _outside: all of them are newer than k.
Outside(k) == Cardinality(Newer(Newest(k.addr), k)) >= Versions

----------------------------------------------------------------------------
(* Transactions *)

Begin ==
    /\ ~open
    /\ open' = TRUE
    /\ UNCHANGED <<stored, cells, txn, offered>>

Call ==
    /\ open
    /\ ops < MaxOps
    /\ ops' = ops + 1
    /\ UNCHANGED <<stored, cells, open, meta, offered>>

\* put, by the store's write path: no retention check.
Put(S) ==
    /\ Call
    /\ put_many(S)
    /\ asked' = asked \union S

\* RetentionPolicy.apply, by anti-entropy: what is outside is ignored.
Apply(S) ==
    /\ Call
    /\ put_many({k \in S : ~Outside(k)})
    /\ asked' = asked \union S

\* RetentionPolicy.collect, by garbage collection.
Collect(S) ==
    /\ Call
    /\ remove({k \in S : Outside(k)})
    /\ UNCHANGED asked

\* flush, before the commit or on its own.
Flush ==
    /\ open
    /\ meta' = Flushed
    /\ UNCHANGED <<stored, cells, open, tags, known, before, touched, deltas, ops,
                   asked, offered>>

\* A transaction that begins finds nothing read and nothing folded.
Reset(S, M) ==
    /\ open' = FALSE
    /\ tags' = S /\ meta' = M
    /\ known' = {} /\ touched' = {}
    /\ before' = [ref \in Refs |-> EmptyCell]
    /\ deltas' = [ref \in Refs |-> EmptyCell]
    /\ ops' = 0 /\ asked' = {}

\* The end of GroupSessionManager.session: flush, then commit.
Commit ==
    /\ open
    /\ stored' = tags
    /\ cells' = Flushed
    /\ offered' = offered \union asked
    /\ Reset(tags, Flushed)

\* An error, a cancellation or a crash before the commit: nothing happened.
Abort ==
    /\ open
    /\ Reset(stored, cells)
    /\ UNCHANGED <<stored, cells, offered>>

----------------------------------------------------------------------------

Init ==
    /\ stored = {} /\ cells = [ref \in Refs |-> EmptyCell]
    /\ open = FALSE
    /\ tags = {} /\ meta = [ref \in Refs |-> EmptyCell]
    /\ known = {} /\ touched = {}
    /\ before = [ref \in Refs |-> EmptyCell]
    /\ deltas = [ref \in Refs |-> EmptyCell]
    /\ ops = 0 /\ asked = {} /\ offered = {}

Next ==
    \/ Begin \/ Flush \/ Commit \/ Abort
    \/ \E S \in SUBSET Keys : Put(S) \/ Apply(S) \/ Collect(S)

Spec == Init /\ [][Next]_vars

----------------------------------------------------------------------------
(* Properties *)

\* The count of a cell is written in unsigned bytes; that of a delta is signed.
Cells  == [count : Nat, digest : SUBSET Keys]
Deltas == [count : Int, digest : SUBSET Keys]

\* Type correctness; in particular no cell is written with a negative count,
\* which DigestCell.to_bytes could not encode.
TypeOK ==
    /\ stored \subseteq Keys /\ tags \subseteq Keys
    /\ cells \in [Refs -> Cells] /\ meta \in [Refs -> Cells]
    /\ open \in BOOLEAN
    /\ known \subseteq Refs /\ touched \subseteq Refs
    /\ before \in [Refs -> Cells] /\ deltas \in [Refs -> Deltas]
    /\ ops \in 0..MaxOps
    /\ asked \subseteq Keys /\ offered \subseteq Keys

\* get: the last version of an address in LOGS.
get(a) == {k \in stored : k.addr = a /\ Following(stored, k) = {}}

\* A read of an address returns its greatest version (stated for the index by
\* HLCTimestamp: its ordering is preserved in the bytes).
ReadsNewest == \A k \in stored : k \in get(k.addr) => Newer(stored, k) = {}

\* What a reader of META compares with a peer is what TAGS holds: after any
\* mixture of inserts, replays, removals, repeated flushes and rollbacks, every
\* bucket and every root counts and folds exactly the versions it covers.
DigestExact == \A ref \in Refs : cells[ref] = CellOf(Covered(stored, ref))

\* The X newest of all the versions that were ever offered for an address are
\* stored, in whatever order they came and however collection ran in between:
\* what is refused or collected is never among them.
NewestRetained ==
    \A k \in offered : Cardinality(Newer(offered, k)) < Versions => k \in stored

=============================================================================
