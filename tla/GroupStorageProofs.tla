------------------------- MODULE GroupStorageProofs -------------------------
(***************************************************************************)
(* The digest cells are exact and retention keeps the newest versions, for *)
(* every set of addresses, every number of timestamps, every bucketing and *)
(* every order of the encodings.                                           *)
(*                                                                         *)
(* Neither is inductive. Exactness needs what an open transaction knows:   *)
(* its deltas are the difference between what it sees and what is          *)
(* committed, and a cell it has read is still the committed one. Retention *)
(* needs the same statement for what the open transaction was asked and    *)
(* sees.                                                                   *)
(***************************************************************************)
EXTENDS GroupStorage, FiniteSetTheorems, TLAPS

----------------------------------------------------------------------------
(* Sets of keys *)

\* There are finitely many keys.
LEMMA KeysFinite == IsFiniteSet(Keys)
  <1> DEFINE P == Addrs \X (1..MaxTs)
             f == [p \in P |-> [addr |-> p[1], ts |-> p[2]]]
  <1>1. IsFiniteSet(P)
    <2>1. IsFiniteSet(1..MaxTs)
      BY StorageAssumption, FS_Interval
    <2> QED
      BY Zenon, <2>1, StorageAssumption, FS_Product
  <1>2. f \in Surjection(P, Keys)
    <2>1. f \in [P -> Keys]
      BY DEF Keys
    <2>2. ASSUME NEW k \in Keys
          PROVE  \E p \in P : f[p] = k
      <3>1. <<k.addr, k.ts>> \in P
        BY DEF Keys
      <3>2. f[<<k.addr, k.ts>>] = k
        BY <3>1 DEF Keys
      <3> QED
        BY <3>1, <3>2
    <2> HIDE DEF f
    <2> QED
      BY <2>1, <2>2 DEF Surjection
  <1> HIDE DEF P, f
  <1> QED
    BY <1>1, <1>2, FS_Surjection

\* Every set of keys is finite, and so is the part that a cell covers.
LEMMA SubsetFinite ==
    ASSUME NEW S \in SUBSET Keys
    PROVE  /\ IsFiniteSet(S) /\ Cardinality(S) \in Nat
           /\ \A ref : /\ Covered(S, ref) \subseteq Keys
                       /\ IsFiniteSet(Covered(S, ref))
                       /\ Cardinality(Covered(S, ref)) \in Nat
  <1>1. \A T \in SUBSET Keys : IsFiniteSet(T) /\ Cardinality(T) \in Nat
    BY KeysFinite, FS_Subset, FS_CardinalityType
  <1>2. \A ref : Covered(S, ref) \in SUBSET Keys
    BY DEF Covered
  <1> QED
    BY <1>1, <1>2

----------------------------------------------------------------------------
(* Cells *)

\* What must be added to the cell of S to obtain the cell of T.
DeltaOf(T, S) ==
    [count |-> Cardinality(T) - Cardinality(S), digest |-> SymDiff(T, S)]

\* Adding the difference to the cell of S gives the cell of T.
LEMMA CombinedExact ==
    ASSUME NEW S \in SUBSET Keys, NEW T \in SUBSET Keys
    PROVE  Combined(CellOf(S), DeltaOf(T, S)) = CellOf(T)
  <1>1. SymDiff(S, SymDiff(T, S)) = T
    BY DEF SymDiff
  <1>2. Cardinality(S) \in Nat /\ Cardinality(T) \in Nat
    BY SubsetFinite
  <1>3. Cardinality(S) + (Cardinality(T) - Cardinality(S)) = Cardinality(T)
    BY <1>2
  <1> QED
    BY <1>1, <1>3 DEF Combined, CellOf, DeltaOf

\* Folding new keys W keeps the difference.
LEMMA PlusExact ==
    ASSUME NEW S \in SUBSET Keys, NEW T \in SUBSET Keys, NEW W \in SUBSET Keys,
           W \intersect T = {}
    PROVE  Plus(DeltaOf(T, S), W) = DeltaOf(T \union W, S)
  <1>1. SymDiff(SymDiff(T, S), W) = SymDiff(T \union W, S)
    BY DEF SymDiff
  <1>2. Cardinality(T \union W) = Cardinality(T) + Cardinality(W)
    <2>1. IsFiniteSet(T) /\ IsFiniteSet(W)
      BY SubsetFinite
    <2>2. T \intersect W = {} /\ Cardinality({}) = 0
      BY FS_EmptySet
    <2>3. Cardinality(T) \in Nat /\ Cardinality(W) \in Nat
      BY SubsetFinite
    <2>4. Cardinality(T \union W)
              = Cardinality(T) + Cardinality(W) - Cardinality(T \intersect W)
      BY Zenon, <2>1, FS_Union
    <2>5. Cardinality(T \intersect W) = 0
      BY Zenon, <2>2
    <2> QED
      BY <2>3, <2>4, <2>5
  <1>3. Cardinality(S) \in Nat /\ Cardinality(T) \in Nat /\ Cardinality(W) \in Nat
    BY SubsetFinite
  <1>4. Cardinality(T \union W) - Cardinality(S)
            = Cardinality(T) - Cardinality(S) + Cardinality(W)
    BY <1>2, <1>3
  <1> QED
    BY <1>1, <1>4 DEF Plus, DeltaOf

\* Taking present keys C out keeps the difference.
LEMMA MinusExact ==
    ASSUME NEW S \in SUBSET Keys, NEW T \in SUBSET Keys, NEW C \in SUBSET T
    PROVE  Minus(DeltaOf(T, S), C) = DeltaOf(T \ C, S)
  <1>1. SymDiff(SymDiff(T, S), C) = SymDiff(T \ C, S)
    BY DEF SymDiff
  <1>2. Cardinality(T \ C) = Cardinality(T) - Cardinality(C)
    <2>1. IsFiniteSet(T)
      BY SubsetFinite
    <2>2. T \intersect C = C
      OBVIOUS
    <2> QED
      BY <2>1, <2>2, FS_Difference
  <1>3. Cardinality(S) \in Nat /\ Cardinality(T) \in Nat /\ Cardinality(C) \in Nat
    BY SubsetFinite
  <1>4. Cardinality(T \ C) - Cardinality(S)
            = Cardinality(T) - Cardinality(S) - Cardinality(C)
    BY <1>2, <1>3
  <1> QED
    BY <1>1, <1>4 DEF Minus, DeltaOf

\* The cell of a set of keys is a cell.
LEMMA CellTyped ==
    ASSUME NEW S \in SUBSET Keys, NEW ref
    PROVE  CellOf(Covered(S, ref)) \in Cells
  BY SubsetFinite DEF CellOf, Cells

----------------------------------------------------------------------------
(* The inductive invariant *)

\* Types, without the sign of a count.
Typed ==
    /\ stored \in SUBSET Keys /\ tags \in SUBSET Keys
    /\ asked \in SUBSET Keys /\ offered \in SUBSET Keys
    /\ open \in BOOLEAN
    /\ ops \in 0..MaxOps
    /\ known \in SUBSET Refs /\ touched \in SUBSET Refs
    /\ cells \in [Refs -> Cells] /\ meta \in [Refs -> Cells]
    /\ before \in [Refs -> Cells]
    /\ deltas \in [Refs -> Deltas]

\* Between transactions the next one's view is the last commit.
Closed ==
    ~open => /\ tags = stored /\ meta = cells
             /\ known = {} /\ touched = {} /\ asked = {}

\* What a transaction knows of a cell.
Tracked(ref) ==
    /\ cells[ref] = CellOf(Covered(stored, ref))
    /\ ref \in touched => ref \in known
    /\ ref \in known => before[ref] = cells[ref]
    /\ ref \notin touched => meta[ref] = cells[ref]
    /\ ref \notin touched => Covered(tags, ref) = Covered(stored, ref)
    /\ deltas[ref] = DeltaOf(Covered(tags, ref), Covered(stored, ref))

AllTracked == \A ref \in Refs : Tracked(ref)

\* Of the versions in `all', those not in S are outside the X newest.
Retains(all, S) ==
    /\ S \subseteq all
    /\ \A k \in all : k \notin S => Cardinality(Newer(all, k)) >= Versions

StorageInv ==
    /\ Typed
    /\ Closed
    /\ AllTracked
    /\ Retains(offered, stored)
    /\ Retains(offered \union asked, tags)

----------------------------------------------------------------------------
(* Retention *)

\* More versions have more newer ones.
LEMMA NewerMonotone ==
    ASSUME NEW A \in SUBSET Keys, NEW B \in SUBSET Keys, A \subseteq B, NEW k,
           Cardinality(Newer(A, k)) >= Versions
    PROVE  Cardinality(Newer(B, k)) >= Versions
  <1>1. Newer(A, k) \subseteq Newer(B, k) /\ Newer(B, k) \subseteq Keys
    BY DEF Newer
  <1>2. IsFiniteSet(Newer(B, k))
    BY <1>1, SubsetFinite
  <1>3. /\ Cardinality(Newer(A, k)) <= Cardinality(Newer(B, k))
        /\ Cardinality(Newer(A, k)) \in Nat /\ Cardinality(Newer(B, k)) \in Nat
    BY <1>1, <1>2, FS_Subset, FS_CardinalityType
  <1> QED
    BY <1>3, StorageAssumption

\* A version that _outside refuses has X newer ones among those stored, even
\* when the order of the bytes is not the order of the timestamps.
LEMMA OutsideIsOld ==
    ASSUME Typed, NEW k \in Keys, Outside(k)
    PROVE  Cardinality(Newer(tags, k)) >= Versions
  <1>1. Newest(k.addr) \in SUBSET Keys /\ Newest(k.addr) \subseteq tags
        /\ tags \in SUBSET Keys
    BY DEF Newest, Typed
  <1>2. Cardinality(Newer(Newest(k.addr), k)) >= Versions
    BY DEF Outside
  <1> QED
    BY <1>1, <1>2, NewerMonotone

\* Offering N and storing of it all but what is outside keeps the X newest.
LEMMA RetainsGrown ==
    ASSUME NEW A \in SUBSET Keys, NEW S \in SUBSET Keys, Retains(A, S),
           NEW N \in SUBSET Keys, NEW M \in SUBSET N,
           \A k \in N \ M : Cardinality(Newer(S, k)) >= Versions
    PROVE  Retains(A \union N, S \union M)
  <1>1. S \union M \subseteq A \union N
    BY DEF Retains
  <1>2. ASSUME NEW k \in A \union N, k \notin S \union M
        PROVE  Cardinality(Newer(A \union N, k)) >= Versions
    <2>1. CASE k \in A
      <3>1. Cardinality(Newer(A, k)) >= Versions
        BY <1>2, <2>1 DEF Retains
      <3> QED
        BY <3>1, NewerMonotone
    <2>2. CASE k \in N
      <3>1. Cardinality(Newer(S, k)) >= Versions
        BY <1>2, <2>2
      <3>2. S \subseteq A \union N
        BY DEF Retains
      <3> QED
        BY <3>1, <3>2, NewerMonotone
    <2> QED
      BY <1>2, <2>1, <2>2
  <1> QED
    BY <1>1, <1>2 DEF Retains

\* Taking out versions that are outside keeps the X newest.
LEMMA RetainsShrunk ==
    ASSUME NEW A \in SUBSET Keys, NEW S \in SUBSET Keys, Retains(A, S),
           NEW C \in SUBSET Keys,
           \A k \in C : Cardinality(Newer(S, k)) >= Versions
    PROVE  Retains(A, S \ C)
  <1>1. S \ C \subseteq A /\ S \subseteq A
    BY DEF Retains
  <1>2. ASSUME NEW k \in A, k \notin S \ C
        PROVE  Cardinality(Newer(A, k)) >= Versions
    <2>1. CASE k \notin S
      BY <2>1 DEF Retains
    <2>2. CASE k \in C
      BY <1>1, <2>2, NewerMonotone
    <2> QED
      BY <1>2, <2>1, <2>2
  <1> QED
    BY <1>1, <1>2 DEF Retains

----------------------------------------------------------------------------
(* Calls keep track of the cells *)

\* Deltas have their type.
LEMMA DeltaTyped ==
    ASSUME NEW T \in SUBSET Keys, NEW S \in SUBSET Keys, NEW ref
    PROVE  DeltaOf(Covered(T, ref), Covered(S, ref)) \in Deltas
  <1>1. Cardinality(Covered(T, ref)) \in Nat /\ Cardinality(Covered(S, ref)) \in Nat
    BY SubsetFinite
  <1>2. SymDiff(Covered(T, ref), Covered(S, ref)) \in SUBSET Keys
    BY DEF SymDiff, Covered
  <1> QED
    BY <1>1, <1>2 DEF DeltaOf, Deltas

\* The cells a call reads first are the committed ones.
LEMMA PreloadTracked ==
    ASSUME Typed, AllTracked, NEW S \in SUBSET Keys, Preload(S), UNCHANGED cells
    PROVE  /\ known' \in SUBSET Refs /\ before' \in [Refs -> Cells]
           /\ known \subseteq known'
           /\ \A ref \in Refs : Covered(S, ref) # {} => ref \in known'
           /\ \A ref \in Refs : ref \in known' => before'[ref] = cells'[ref]
  <1>1. /\ known' = known \union ({ref \in Refs : Covered(S, ref) # {}} \ known)
        /\ before' = [ref \in Refs |->
                         IF ref \in {r \in Refs : Covered(S, r) # {}} \ known
                         THEN meta[ref] ELSE before[ref]]
    BY DEF Preload
  <1>2. ASSUME NEW ref \in Refs, ref \in known'
        PROVE  before'[ref] = cells'[ref]
    <2>1. CASE ref \in known
      BY <1>1, <2>1 DEF AllTracked, Tracked
    <2>2. CASE ref \notin known
      <3>1. before'[ref] = meta[ref]
        BY <1>1, <1>2, <2>2
      <3>2. meta[ref] = cells[ref]
        BY <2>2 DEF AllTracked, Tracked
      <3> QED
        BY <3>1, <3>2
    <2> QED
      BY <2>1, <2>2
  <1>3. known' \in SUBSET Refs /\ before' \in [Refs -> Cells]
    BY <1>1 DEF Typed
  <1>4. known \subseteq known' /\ \A ref \in Refs : Covered(S, ref) # {} => ref \in known'
    BY <1>1
  <1> QED
    BY <1>2, <1>3, <1>4

\* Inserting keeps the deltas exact.
LEMMA PutTracked ==
    ASSUME Typed, AllTracked, NEW S \in SUBSET Keys, put_many(S),
           UNCHANGED <<stored, cells, meta>>
    PROVE  /\ tags' = tags \union S
           /\ known' \in SUBSET Refs /\ touched' \in SUBSET Refs
           /\ before' \in [Refs -> Cells] /\ deltas' \in [Refs -> Deltas]
           /\ AllTracked'
  <1> DEFINE W == S \ tags
  <1>1. /\ Preload(S)
        /\ tags' = tags \union W
        /\ touched' = touched \union {ref \in Refs : Covered(W, ref) # {}}
        /\ deltas' = [ref \in Refs |-> Plus(deltas[ref], Covered(W, ref))]
    BY DEF put_many
  <1>2. /\ W \in SUBSET Keys /\ tags \in SUBSET Keys /\ stored \in SUBSET Keys
        /\ W \intersect tags = {} /\ W \subseteq S
    BY DEF Typed
  <1> HIDE DEF W
  <1>3. ASSUME NEW ref \in Refs
        PROVE  Tracked(ref)' /\ deltas'[ref] \in Deltas
    <2> DEFINE CS == Covered(stored, ref)
               CT == Covered(tags, ref)
               CW == Covered(W, ref)
    <2>1. /\ CS \in SUBSET Keys /\ CT \in SUBSET Keys /\ CW \in SUBSET Keys
          /\ CW \intersect CT = {} /\ Covered(tags', ref) = CT \union CW
          /\ CW \subseteq Covered(S, ref)
      BY <1>1, <1>2 DEF Covered
    <2>2. deltas'[ref] = DeltaOf(CT \union CW, CS)
      <3>1. deltas[ref] = DeltaOf(CT, CS)
        BY DEF AllTracked, Tracked
      <3>2. deltas'[ref] = Plus(deltas[ref], CW)
        BY <1>1
      <3> HIDE DEF CS, CT, CW
      <3> QED
        BY <2>1, <3>1, <3>2, PlusExact
    <2>3. ref \in touched' => ref \in known'
      BY <1>1, <2>1, PreloadTracked DEF AllTracked, Tracked
    <2>4. ref \in known' => before'[ref] = cells'[ref]
      BY <1>1, PreloadTracked
    <2>5. ref \notin touched' =>
            meta'[ref] = cells'[ref] /\ Covered(tags', ref) = Covered(stored', ref)
      BY <1>1, <2>1 DEF AllTracked, Tracked
    <2>6. cells'[ref] = CellOf(Covered(stored', ref))
      BY DEF AllTracked, Tracked
    <2>7. deltas'[ref] \in Deltas
      <3>1. tags' \in SUBSET Keys
        BY <1>1, <1>2
      <3> QED
        BY <2>1, <2>2, <3>1, <1>2, DeltaTyped
    <2>8. deltas'[ref] = DeltaOf(Covered(tags', ref), Covered(stored', ref))
      BY <2>1, <2>2
    <2> QED
      BY <2>3, <2>4, <2>5, <2>6, <2>7, <2>8 DEF Tracked
  <1>4. AllTracked'
    BY <1>3 DEF AllTracked
  <1>5. deltas' \in [Refs -> Deltas]
    BY <1>1, <1>3
  <1>6. touched' \in SUBSET Refs /\ tags' = tags \union S
    BY <1>1 DEF Typed, W
  <1> QED
    BY <1>1, <1>4, <1>5, <1>6, PreloadTracked

\* Removing keeps the deltas exact.
LEMMA RemoveTracked ==
    ASSUME Typed, AllTracked, NEW S \in SUBSET Keys, remove(S),
           UNCHANGED <<stored, cells, meta>>
    PROVE  /\ tags' = tags \ S
           /\ known' \in SUBSET Refs /\ touched' \in SUBSET Refs
           /\ before' \in [Refs -> Cells] /\ deltas' \in [Refs -> Deltas]
           /\ AllTracked'
  <1> DEFINE C == S \intersect tags
  <1>1. /\ Preload(C)
        /\ tags' = tags \ C
        /\ touched' = touched \union {ref \in Refs : Covered(C, ref) # {}}
        /\ deltas' = [ref \in Refs |-> Minus(deltas[ref], Covered(C, ref))]
    BY DEF remove
  <1>2. /\ C \in SUBSET Keys /\ tags \in SUBSET Keys /\ stored \in SUBSET Keys
        /\ C \subseteq tags
    BY DEF Typed
  <1>a. tags' = tags \ S
    BY <1>1
  <1> HIDE DEF C
  <1>3. ASSUME NEW ref \in Refs
        PROVE  Tracked(ref)' /\ deltas'[ref] \in Deltas
    <2> DEFINE CS == Covered(stored, ref)
               CT == Covered(tags, ref)
               CC == Covered(C, ref)
    <2>1. /\ CS \in SUBSET Keys /\ CT \in SUBSET Keys /\ CC \in SUBSET CT
          /\ Covered(tags', ref) = CT \ CC
      BY <1>1, <1>2 DEF Covered
    <2>2. deltas'[ref] = DeltaOf(CT \ CC, CS)
      <3>1. deltas[ref] = DeltaOf(CT, CS)
        BY DEF AllTracked, Tracked
      <3>2. deltas'[ref] = Minus(deltas[ref], CC)
        BY <1>1
      <3> HIDE DEF CS, CT, CC
      <3> QED
        BY <2>1, <3>1, <3>2, MinusExact
    <2>3. ref \in touched' => ref \in known'
      BY <1>1, <1>2, <2>1, PreloadTracked DEF AllTracked, Tracked
    <2>4. ref \in known' => before'[ref] = cells'[ref]
      BY <1>1, <1>2, PreloadTracked
    <2>5. ref \notin touched' =>
            meta'[ref] = cells'[ref] /\ Covered(tags', ref) = Covered(stored', ref)
      BY <1>1, <2>1 DEF AllTracked, Tracked
    <2>6. cells'[ref] = CellOf(Covered(stored', ref))
      BY DEF AllTracked, Tracked
    <2>7. deltas'[ref] \in Deltas
      <3>1. tags' \in SUBSET Keys
        BY <1>1, <1>2
      <3> QED
        BY <2>1, <2>2, <3>1, <1>2, DeltaTyped
    <2>8. deltas'[ref] = DeltaOf(Covered(tags', ref), Covered(stored', ref))
      BY <2>1, <2>2
    <2> QED
      BY <2>3, <2>4, <2>5, <2>6, <2>7, <2>8 DEF Tracked
  <1>4. AllTracked'
    BY <1>3 DEF AllTracked
  <1>5. deltas' \in [Refs -> Deltas]
    BY <1>1, <1>3
  <1>6. touched' \in SUBSET Refs
    BY <1>1 DEF Typed
  <1> QED
    BY <1>1, <1>2, <1>a, <1>4, <1>5, <1>6, PreloadTracked

\* A flush writes the exact cells of what the transaction sees.
LEMMA FlushedExact ==
    ASSUME Typed, AllTracked
    PROVE  /\ \A ref \in Refs : Flushed[ref] = CellOf(Covered(tags, ref))
           /\ Flushed \in [Refs -> Cells]
  <1>1. ASSUME NEW ref \in Refs
        PROVE  Flushed[ref] = CellOf(Covered(tags, ref)) /\ Flushed[ref] \in Cells
    <2>1. CASE ref \in touched
      <3>1. Flushed[ref] = Combined(before[ref], deltas[ref])
        BY <2>1 DEF Flushed
      <3>2. /\ before[ref] = CellOf(Covered(stored, ref))
            /\ deltas[ref] = DeltaOf(Covered(tags, ref), Covered(stored, ref))
        BY <2>1 DEF AllTracked, Tracked
      <3>3. Covered(tags, ref) \in SUBSET Keys /\ Covered(stored, ref) \in SUBSET Keys
        BY DEF Covered, Typed
      <3> QED
        BY <3>1, <3>2, <3>3, CombinedExact, CellTyped DEF Typed
    <2>2. CASE ref \notin touched
      <3>1. Flushed[ref] = meta[ref]
        BY <2>2 DEF Flushed
      <3>2. meta[ref] = CellOf(Covered(tags, ref)) /\ meta[ref] \in Cells
        BY <2>2 DEF AllTracked, Tracked, Typed
      <3> QED
        BY <3>1, <3>2
    <2> QED
      BY <2>1, <2>2
  <1>2. Flushed = [ref \in Refs |-> Flushed[ref]]
    BY DEF Flushed
  <1> HIDE DEF Flushed
  <1> QED
    BY <1>1, <1>2

\* An empty difference is the empty cell.
LEMMA NoDelta ==
    ASSUME NEW S
    PROVE  S \in SUBSET Keys => DeltaOf(S, S) = EmptyCell
  <1>1. SymDiff(S, S) = {}
    BY DEF SymDiff
  <1> QED
    BY <1>1, SubsetFinite DEF DeltaOf, EmptyCell

\* A closed transaction with exact cells is tracked.
LEMMA ResetTracked ==
    ASSUME NEW S \in SUBSET Keys, NEW M \in [Refs -> Cells], Reset(S, M),
           stored' = S, cells' = M,
           \A ref \in Refs : M[ref] = CellOf(Covered(S, ref)),
           offered' \in SUBSET Keys, Retains(offered', S)
    PROVE  StorageInv'
  <1>1. EmptyCell \in Cells /\ EmptyCell \in Deltas
    BY DEF EmptyCell, Cells, Deltas
  <1>2. /\ open' = FALSE /\ tags' = S /\ meta' = M /\ known' = {} /\ touched' = {}
        /\ before' = [ref \in Refs |-> EmptyCell]
        /\ deltas' = [ref \in Refs |-> EmptyCell]
        /\ ops' = 0 /\ asked' = {}
    BY DEF Reset
  <1>3. Typed'
    <2>1. ops' \in 0..MaxOps
      BY <1>2, StorageAssumption
    <2>2. before' \in [Refs -> Cells] /\ deltas' \in [Refs -> Deltas]
      BY <1>1, <1>2
    <2> QED
      BY <1>2, <2>1, <2>2, Zenon DEF Typed
  <1>4. Closed'
    BY <1>2 DEF Closed
  <1>5. ASSUME NEW ref \in Refs
        PROVE  Tracked(ref)'
    <2>1. Covered(S, ref) \in SUBSET Keys
      BY DEF Covered
    <2>2. deltas'[ref] = DeltaOf(Covered(S, ref), Covered(S, ref))
      BY <1>2, <2>1, NoDelta
    <2> QED
      BY <1>2, <2>2 DEF Tracked
  <1>6. AllTracked'
    BY <1>5 DEF AllTracked
  <1>7. Retains(offered, stored)' /\ Retains(offered \union asked, tags)'
    BY <1>2 DEF Retains
  <1> QED
    BY <1>3, <1>4, <1>6, <1>7 DEF StorageInv

----------------------------------------------------------------------------
(* The invariant holds *)

\* It holds initially.
LEMMA InitStorageInv == Init => StorageInv
  <1> SUFFICES ASSUME Init PROVE StorageInv
    OBVIOUS
  <1>1. EmptyCell \in Cells /\ EmptyCell \in Deltas
    BY DEF EmptyCell, Cells, Deltas
  <1>2. Typed
    <2>1. ops \in 0..MaxOps
      BY StorageAssumption DEF Init
    <2>2. /\ cells \in [Refs -> Cells] /\ meta \in [Refs -> Cells]
          /\ before \in [Refs -> Cells] /\ deltas \in [Refs -> Deltas]
      BY <1>1 DEF Init
    <2> QED
      BY <2>1, <2>2, Zenon DEF Init, Typed
  <1>3. AllTracked
    <2>1. ASSUME NEW ref \in Refs PROVE Tracked(ref)
      <3>1. Covered({}, ref) = {} /\ {} \in SUBSET Keys
        BY DEF Covered
      <3>2. CellOf({}) = EmptyCell
        BY FS_EmptySet DEF CellOf, EmptyCell
      <3>3. DeltaOf({}, {}) = EmptyCell
        BY <3>1, NoDelta
      <3> QED
        BY <3>1, <3>2, <3>3 DEF Init, Tracked
    <2> QED
      BY <2>1 DEF AllTracked
  <1>4. Closed /\ Retains(offered, stored) /\ Retains(offered \union asked, tags)
    BY DEF Init, Closed, Retains
  <1> QED
    BY <1>2, <1>3, <1>4 DEF StorageInv

\* Every step keeps it.
LEMMA StorageInvInductive == StorageInv /\ [Next]_vars => StorageInv'
  <1> SUFFICES ASSUME StorageInv, [Next]_vars PROVE StorageInv'
    OBVIOUS
  <1> USE DEF StorageInv
  <1>0. offered \union asked \in SUBSET Keys /\ stored \in SUBSET Keys /\ tags \in SUBSET Keys
    BY DEF Typed
  <1>1. CASE Begin
    <2>1. Typed' /\ Closed'
      BY <1>1 DEF Begin, txn, Typed, Closed
    <2>2. AllTracked'
      BY <1>1 DEF Begin, txn, AllTracked, Tracked
    <2>3. Retains(offered, stored)' /\ Retains(offered \union asked, tags)'
      BY <1>1 DEF Begin, txn
    <2> QED
      BY <2>1, <2>2, <2>3
  <1>2. ASSUME NEW S \in SUBSET Keys, Put(S)
        PROVE  StorageInv'
    <2>1. /\ put_many(S) /\ open /\ ops' \in 0..MaxOps
          /\ UNCHANGED <<stored, cells, open, meta, offered>>
          /\ asked' = asked \union S
      BY <1>2, StorageAssumption DEF Put, Call, Typed
    <2>2. /\ tags' = tags \union S /\ AllTracked'
          /\ known' \in SUBSET Refs /\ touched' \in SUBSET Refs
          /\ before' \in [Refs -> Cells] /\ deltas' \in [Refs -> Deltas]
      BY <2>1, PutTracked
    <2>3. Retains(offered \union asked, tags)'
      <3>1. Retains((offered \union asked) \union S, tags \union S)
        BY <1>0, RetainsGrown
      <3> QED
        BY <2>1, <2>2, <3>1, Zenon
    <2>4. Typed' /\ Closed'
      BY <2>1, <2>2 DEF Typed, Closed
    <2> QED
      BY <2>1, <2>2, <2>3, <2>4
  <1>3. ASSUME NEW S \in SUBSET Keys, Apply(S)
        PROVE  StorageInv'
    <2> DEFINE M == {k \in S : ~Outside(k)}
    <2>1. /\ put_many(M) /\ open /\ ops' \in 0..MaxOps
          /\ UNCHANGED <<stored, cells, open, meta, offered>>
          /\ asked' = asked \union S
      BY <1>3, StorageAssumption DEF Apply, Call, Typed
    <2>2. /\ tags' = tags \union M /\ AllTracked'
          /\ known' \in SUBSET Refs /\ touched' \in SUBSET Refs
          /\ before' \in [Refs -> Cells] /\ deltas' \in [Refs -> Deltas]
      BY <2>1, PutTracked
    <2>3. Retains(offered \union asked, tags)'
      <3>1. \A k \in S \ M : Cardinality(Newer(tags, k)) >= Versions
        BY OutsideIsOld
      <3>2. M \in SUBSET S
        OBVIOUS
      <3> HIDE DEF M
      <3>3. Retains((offered \union asked) \union S, tags \union M)
        BY <1>0, <3>1, <3>2, RetainsGrown
      <3>4. (offered \union asked)' = (offered \union asked) \union S
        BY <2>1
      <3> QED
        BY <2>2, <3>3, <3>4, Zenon
    <2>4. Typed' /\ Closed'
      BY <2>1, <2>2 DEF Typed, Closed
    <2> QED
      BY <2>1, <2>2, <2>3, <2>4
  <1>4. ASSUME NEW S \in SUBSET Keys, Collect(S)
        PROVE  StorageInv'
    <2> DEFINE C == {k \in S : Outside(k)}
    <2>1. /\ remove(C) /\ open /\ ops' \in 0..MaxOps
          /\ UNCHANGED <<stored, cells, open, meta, offered, asked>>
      BY <1>4, StorageAssumption DEF Collect, Call, Typed
    <2>2. /\ tags' = tags \ C /\ AllTracked'
          /\ known' \in SUBSET Refs /\ touched' \in SUBSET Refs
          /\ before' \in [Refs -> Cells] /\ deltas' \in [Refs -> Deltas]
      BY <2>1, RemoveTracked
    <2>3. Retains(offered \union asked, tags)'
      <3>1. \A k \in C : Cardinality(Newer(tags, k)) >= Versions
        BY OutsideIsOld
      <3>2. C \in SUBSET Keys
        OBVIOUS
      <3> HIDE DEF C
      <3>3. Retains(offered \union asked, tags \ C)
        BY <1>0, <3>1, <3>2, RetainsShrunk
      <3> QED
        BY <2>1, <2>2, <3>3, Zenon
    <2>4. Typed' /\ Closed'
      BY <2>1, <2>2 DEF Typed, Closed
    <2> QED
      BY <2>1, <2>2, <2>3, <2>4
  <1>5. CASE Flush
    <2>1. /\ open /\ meta' = Flushed
          /\ UNCHANGED <<stored, cells, open, tags, known, before, touched, deltas, ops,
                         asked, offered>>
      BY <1>5 DEF Flush
    <2>2. Typed' /\ Closed'
      BY <2>1, FlushedExact DEF Typed, Closed
    <2>3. AllTracked'
      <3>1. ASSUME NEW ref \in Refs PROVE Tracked(ref)'
        <4>1. ref \notin touched => meta'[ref] = meta[ref]
          BY <2>1 DEF Flushed
        <4> QED
          BY <2>1, <4>1 DEF AllTracked, Tracked
      <3> QED
        BY <3>1 DEF AllTracked
    <2>4. Retains(offered, stored)' /\ Retains(offered \union asked, tags)'
      BY <2>1
    <2> QED
      BY <2>2, <2>3, <2>4
  <1>6. CASE Commit
    <2>1. /\ stored' = tags /\ cells' = Flushed /\ Reset(tags, Flushed)
          /\ offered' = offered \union asked
      BY <1>6 DEF Commit
    <2> QED
      BY <1>0, <2>1, FlushedExact, ResetTracked
  <1>7. CASE Abort
    <2>1. Reset(stored, cells) /\ UNCHANGED <<stored, cells, offered>>
      BY <1>7 DEF Abort
    <2>2. /\ cells \in [Refs -> Cells] /\ offered \in SUBSET Keys
          /\ \A ref \in Refs : cells[ref] = CellOf(Covered(stored, ref))
      BY DEF Typed, AllTracked, Tracked
    <2> QED
      BY <1>0, <2>1, <2>2, ResetTracked
  <1>8. CASE UNCHANGED vars
    <2>1. Typed' /\ Closed'
      BY <1>8 DEF vars, txn, Typed, Closed
    <2>2. AllTracked'
      BY <1>8 DEF vars, txn, AllTracked, Tracked
    <2>3. Retains(offered, stored)' /\ Retains(offered \union asked, tags)'
      BY <1>8 DEF vars, txn
    <2> QED
      BY <2>1, <2>2, <2>3
  <1> QED
    BY <1>1, <1>2, <1>3, <1>4, <1>5, <1>6, <1>7, <1>8 DEF Next

\* It holds in every reachable state.
THEOREM StorageInvariant == Spec => []StorageInv
  BY InitStorageInv, StorageInvInductive, PTL DEF Spec

\* Type correctness; no cell that a flush writes has a negative count, so
\* DigestCell.to_bytes can always encode it.
THEOREM StorageTypeCorrect == Spec => []TypeOK
  <1>1. StorageInv => TypeOK
    BY DEF StorageInv, Typed, TypeOK
  <1> QED
    BY <1>1, StorageInvariant, PTL

\* The digest cells of META are exact after every mixture of puts, replays,
\* removals, flushes, commits and rollbacks.
THEOREM DigestsExact == Spec => []DigestExact
  <1>1. StorageInv => DigestExact
    BY DEF StorageInv, AllTracked, Tracked, DigestExact
  <1> QED
    BY <1>1, StorageInvariant, PTL

\* Retention and collection never lose one of the X newest versions offered for
\* an address, whether or not the bytes of timestamps sort as timestamps do.
THEOREM NewestVersionsRetained == Spec => []NewestRetained
  <1>1. StorageInv => NewestRetained
    <2> SUFFICES ASSUME StorageInv, NEW k \in offered, k \notin stored
                 PROVE  ~(Cardinality(Newer(offered, k)) < Versions)
      BY DEF NewestRetained
    <2>1. Cardinality(Newer(offered, k)) >= Versions
      BY DEF StorageInv, Retains
    <2>2. Newer(offered, k) \in SUBSET Keys
      BY DEF StorageInv, Typed, Newer
    <2>3. Cardinality(Newer(offered, k)) \in Nat
      BY <2>2, SubsetFinite
    <2> QED
      BY <2>1, <2>3, StorageAssumption
  <1> QED
    BY <1>1, StorageInvariant, PTL

============================================================================
