----------------------------- MODULE LinksProofs -----------------------------
(***************************************************************************)
(* Proofs about Links, for any peers, callers and pool sizes: the tables    *)
(* keep to their limits, the eviction order lists the permanent peers, and  *)
(* every lease is counted.                                                  *)
(***************************************************************************)
EXTENDS Links, FiniteSetTheorems, SequenceTheorems, WellFoundedInduction, TLAPS

(***************************************************************************)
(* Removing elements from a sequence.                                       *)
(***************************************************************************)
\* f computes, for every i up to n, the first i elements of s that are not in S.
Keeps(f, s, S, n) ==
  f = [i \in 0 .. n |-> IF i = 0 THEN <<>>
                        ELSE IF s[i] \in S THEN f[i - 1]
                        ELSE Append(f[i - 1], s[i])]

\* t is what is left of the first i elements of s, a sequence over E.
Left(t, E, s, S, i) ==
  /\ t \in Seq(E)
  /\ Range(t) = {s[j] : j \in 1 .. i} \ S
  /\ IsInjective(s) => IsInjective(t)

\* A nonempty set of naturals has a least element.
LEMMA LeastNatural ==
  ASSUME NEW T \in SUBSET Nat, T # {}
  PROVE  \E n \in T : \A m \in T : n <= m
PROOF
  <1> DEFINE less == OpToRel(<, Nat)
  <1>1. PICK n \in T : \A m \in T : <<m, n>> \notin less
    <2> HIDE DEF less
    <2>1. IsWellFoundedOn(less, Nat)
      BY Zenon, NatLessThanWellFounded DEF less
    <2> QED
      BY Zenon, <2>1, WFMin
  <1>2. \A m \in T : ~(m < n)
    BY Zenon, <1>1 DEF OpToRel
  <1>3. \A m \in T : m \in Nat /\ n \in Nat
    BY Zenon, <1>1
  <1>4. \A m \in T : n <= m
    BY <1>2, <1>3
  <1> QED
    BY Zenon, <1>1, <1>4

\* The recursive function in Without exists.
LEMMA KeepsExists ==
  ASSUME NEW s, NEW S, NEW n \in Nat
  PROVE  \E f : Keeps(f, s, S, n)
PROOF
  <1> DEFINE bad == {m \in Nat : ~\E f : Keeps(f, s, S, m)}
  <1>1. SUFFICES ASSUME bad # {} PROVE FALSE
    OBVIOUS
  <1>2. PICK m \in bad : \A k \in bad : m <= k
    <2> HIDE DEF bad
    <2>1. bad \in SUBSET Nat
      BY DEF bad
    <2> QED
      BY Zenon, <1>1, <2>1, LeastNatural
  <1>3. CASE m = 0
    <2>1. Keeps([i \in 0 .. 0 |-> <<>>], s, S, 0)
      BY DEF Keeps
    <2> QED
      BY <1>2, <1>3, <2>1
  <1>4. CASE m # 0
    <2>1. m - 1 \in Nat /\ m \in Nat
      BY <1>2, <1>4
    <2>2. PICK f : Keeps(f, s, S, m - 1)
      BY <1>2, <2>1
    <2> DEFINE last == IF s[m] \in S THEN f[m - 1] ELSE Append(f[m - 1], s[m])
               g == [i \in 0 .. m |-> IF i = m THEN last ELSE f[i]]
    <2>3. \A i \in 0 .. m : g[i] = IF i = m THEN last ELSE f[i]
      OBVIOUS
    <2>4. g[m - 1] = f[m - 1]
      BY <2>1, <2>3
    <2>5. \A i \in 0 .. m - 1 : f[i] = IF i = 0 THEN <<>>
                                   ELSE IF s[i] \in S THEN f[i - 1] ELSE Append(f[i - 1], s[i])
      BY Zenon, <2>2 DEF Keeps
    <2>6. ASSUME NEW i \in 0 .. m
          PROVE  g[i] = IF i = 0 THEN <<>>
                        ELSE IF s[i] \in S THEN g[i - 1] ELSE Append(g[i - 1], s[i])
      <3> HIDE DEF g
      <3>1. CASE i = m
        BY <3>1, <2>3, <2>4, <1>4, <2>1
      <3>2. CASE i # m /\ i = 0
        BY <3>2, <2>3, <2>5, <2>1
      <3>3. CASE i # m /\ i # 0
        <4>1. i \in 0 .. m - 1 /\ i - 1 \in 0 .. m /\ i - 1 # m
          BY <3>3, <2>1
        <4>2. g[i] = f[i] /\ g[i - 1] = f[i - 1]
          BY <4>1, <3>3, <2>3
        <4> QED
          BY <4>1, <4>2, <2>5, <3>3
      <3> QED
        BY <3>1, <3>2, <3>3
    <2>7. Keeps(g, s, S, m)
      <3>1. g = [i \in 0 .. m |-> g[i]]
        OBVIOUS
      <3> HIDE DEF g
      <3> QED
        BY Zenon, <3>1, <2>6 DEF Keeps
    <2> QED
      BY <1>2, <2>7
  <1> QED
    BY <1>3, <1>4

\* Without(s, S) is that function at Len(s).
LEMMA WithoutKeeps ==
  ASSUME NEW s, NEW S, Len(s) \in Nat
  PROVE  \E f : Keeps(f, s, S, Len(s)) /\ Without(s, S) = f[Len(s)]
PROOF
  <1> DEFINE f == CHOOSE f : Keeps(f, s, S, Len(s))
  <1>1. Keeps(f, s, S, Len(s))
    BY KeepsExists
  <1>2. Without(s, S) = f[Len(s)]
    BY DEF Without, Keeps
  <1> QED
    BY Zenon, <1>1, <1>2

\* Adding a new element to a sequence.
LEMMA AppendFacts ==
  ASSUME NEW E, NEW t \in Seq(E), NEW x \in E
  PROVE  /\ Append(t, x) \in Seq(E)
         /\ Range(Append(t, x)) = Range(t) \cup {x}
         /\ IsInjective(t) /\ x \notin Range(t) => IsInjective(Append(t, x))
PROOF
  <1> DEFINE u == Append(t, x)
             n == Len(t)
  <1>1. /\ u \in Seq(E) /\ n \in Nat /\ Len(u) = n + 1
        /\ \A i \in 1 .. n : u[i] = t[i]
        /\ u[n + 1] = x
        /\ DOMAIN u = 1 .. n + 1 /\ DOMAIN t = 1 .. n
    BY LenProperties
  <1> HIDE DEF u
  <1>2. Range(u) = Range(t) \cup {x}
    <2>1. \A i \in 1 .. n + 1 : u[i] \in Range(t) \cup {x}
      BY <1>1 DEF Range
    <2>2. \A i \in 1 .. n : t[i] \in Range(u)
      BY <1>1 DEF Range
    <2>3. x \in Range(u)
      BY <1>1 DEF Range
    <2> QED
      BY <1>1, <2>1, <2>2, <2>3 DEF Range
  <1>3. ASSUME IsInjective(t), x \notin Range(t) PROVE IsInjective(u)
    <2>1. \A i \in 1 .. n : t[i] # x
      BY <1>1, <1>3 DEF Range
    <2>2. \A i, j \in 1 .. n + 1 : u[i] = u[j] => i = j
      BY <1>1, <1>3, <2>1 DEF IsInjective
    <2> QED
      BY <1>1, <2>2 DEF IsInjective
  <1> QED
    BY <1>1, <1>2, <1>3 DEF u

\* One step of Without.
LEMMA LeftStep ==
  ASSUME NEW E, NEW s \in Seq(E), NEW S, NEW i \in 1 .. Len(s), NEW t,
         Left(t, E, s, S, i - 1)
  PROVE  Left(IF s[i] \in S THEN t ELSE Append(t, s[i]), E, s, S, i)
PROOF
  <1> DEFINE before == {s[j] : j \in 1 .. i - 1}
             upto == {s[j] : j \in 1 .. i}
  <1>0. /\ i \in Nat /\ Len(s) \in Nat /\ DOMAIN s = 1 .. Len(s) /\ s[i] \in E
        /\ i \in 1 .. i
        /\ \A j \in 1 .. i : j \in 1 .. i - 1 \/ j = i
        /\ \A j \in 1 .. i - 1 : j \in 1 .. i /\ j \in 1 .. Len(s) /\ j # i
    <2>1. Len(s) \in Nat /\ DOMAIN s = 1 .. Len(s) /\ s[i] \in E
      BY Zenon, LenProperties, ElementOfSeq
    <2> QED
      BY <2>1
  <1>1. upto = before \cup {s[i]}
    BY <1>0, Zenon
  <1>2. IsInjective(s) => s[i] \notin before
    BY <1>0, Zenon DEF IsInjective
  <1> HIDE DEF before, upto
  <1>3. t \in Seq(E) /\ Range(t) = before \ S /\ (IsInjective(s) => IsInjective(t))
    BY DEF Left, before
  <1>4. CASE s[i] \in S
    <2>1. upto \ S = before \ S
      BY <1>1, <1>4
    <2> QED
      BY <1>3, <1>4, <2>1 DEF Left, upto
  <1>5. CASE s[i] \notin S
    <2>1. /\ Append(t, s[i]) \in Seq(E)
          /\ Range(Append(t, s[i])) = Range(t) \cup {s[i]}
          /\ IsInjective(t) /\ s[i] \notin Range(t) => IsInjective(Append(t, s[i]))
      BY <1>0, <1>3, AppendFacts
    <2>2. upto \ S = (before \ S) \cup {s[i]}
      BY <1>1, <1>5
    <2>3. IsInjective(s) => IsInjective(Append(t, s[i]))
      BY <1>2, <1>3, <2>1
    <2> QED
      BY <1>3, <1>5, <2>1, <2>2, <2>3 DEF Left, upto
  <1> QED
    BY <1>4, <1>5

\* Without(s, S) has the elements of s that are not in S, each as often as s.
LEMMA WithoutFacts ==
  ASSUME NEW E, NEW s \in Seq(E), NEW S
  PROVE  /\ Without(s, S) \in Seq(E)
         /\ Range(Without(s, S)) = Range(s) \ S
         /\ IsInjective(s) => IsInjective(Without(s, S))
PROOF
  <1>0. Len(s) \in Nat /\ DOMAIN s = 1 .. Len(s)
    BY LenProperties
  <1>1. PICK f : Keeps(f, s, S, Len(s)) /\ Without(s, S) = f[Len(s)]
    BY <1>0, WithoutKeeps
  <1>2. \A i \in 0 .. Len(s) : f[i] = IF i = 0 THEN <<>>
                                      ELSE IF s[i] \in S THEN f[i - 1]
                                      ELSE Append(f[i - 1], s[i])
    BY Zenon, <1>1 DEF Keeps
  <1> DEFINE bad == {i \in 0 .. Len(s) : ~Left(f[i], E, s, S, i)}
  <1>3. ASSUME bad # {} PROVE FALSE
    <2>1. PICK i \in bad : \A j \in bad : i <= j
      <3>1. bad \in SUBSET Nat
        BY <1>0
      <3> HIDE DEF bad
      <3> QED
        BY Zenon, <1>3, <3>1, LeastNatural
    <2>2. i \in 0 .. Len(s) /\ ~Left(f[i], E, s, S, i)
      BY <2>1
    <2>3. CASE i = 0
      <3>1. f[0] = <<>>
        BY <1>0, <1>2
      <3>2. {s[j] : j \in 1 .. 0} = {}
        OBVIOUS
      <3>3. <<>> \in Seq(E) /\ DOMAIN <<>> = {}
        OBVIOUS
      <3>4. Range(<<>>) = {} /\ IsInjective(<<>>)
        BY <3>3 DEF Range, IsInjective
      <3> QED
        BY <2>2, <2>3, <3>1, <3>2, <3>3, <3>4 DEF Left
    <2>4. CASE i # 0
      <3>1. i \in 1 .. Len(s) /\ i - 1 \in 0 .. Len(s) /\ ~(i <= i - 1)
        BY <1>0, <2>2, <2>4
      <3>2. Left(f[i - 1], E, s, S, i - 1)
        BY <2>1, <3>1
      <3>3. f[i] = IF s[i] \in S THEN f[i - 1] ELSE Append(f[i - 1], s[i])
        BY <1>2, <2>2, <2>4
      <3> QED
        BY <2>2, <3>1, <3>2, <3>3, LeftStep
    <2> QED
      BY <2>3, <2>4
  <1>4. Left(Without(s, S), E, s, S, Len(s))
    BY <1>0, <1>1, <1>3
  <1>5. {s[j] : j \in 1 .. Len(s)} = Range(s)
    BY <1>0 DEF Range
  <1> QED
    BY <1>4, <1>5 DEF Left

\* Moving an element to the end of a sequence, or adding it there.
LEMMA TouchFacts ==
  ASSUME NEW s \in Seq(Peers), NEW x \in Peers, IsInjective(s)
  PROVE  \A t : t = Append(Without(s, {x}), x)
           => t \in Seq(Peers) /\ IsInjective(t) /\ Range(t) = (Range(s) \ {x}) \cup {x}
PROOF
  <1> DEFINE w == Without(s, {x})
  <1>1. w \in Seq(Peers) /\ IsInjective(w) /\ Range(w) = Range(s) \ {x}
    BY WithoutFacts
  <1> HIDE DEF w
  <1>2. x \notin Range(w)
    BY Zenon, <1>1
  <1>3. /\ Append(w, x) \in Seq(Peers) /\ IsInjective(Append(w, x))
        /\ Range(Append(w, x)) = Range(w) \cup {x}
    BY Zenon, <1>1, <1>2, AppendFacts
  <1> QED
    BY Zenon, <1>1, <1>3 DEF w

(***************************************************************************)
(* The inductive invariant.                                                 *)
(***************************************************************************)
Tables == {"permanent", "overflow", "priority"}
Limit(table) == IF table = "permanent" THEN MaxSize
                ELSE IF table = "overflow" THEN MaxOverflow ELSE PrioritySize

Detector == [at : 0 .. LastAddress, active : BOOLEAN, seen : 0 .. MinSamples,
             probe : 0 .. LastAddress]
Entry == [table : {"none"} \cup Tables, at : 0 .. LastAddress, refcount : Nat,
          retired : Nat, fd : Detector]
Lease == [st : {"none", "connecting", "held", "waiting"},
          peer : Peers \cup {"nobody"}, at : 0 .. LastAddress]
Acquisition == [who : Callers, peer : Peers, table : Tables, at : Addresses]

Uses(l, p) == l.st \in {"held", "waiting"} /\ l.peer = p

Leasing(l) == /\ l \in [Callers -> Lease]
              /\ \A c \in Callers : l[c].st \in {"held", "waiting"}
                   => l[c].peer \in Peers /\ l[c].at \in Addresses

Types ==
  /\ addr \in [Peers -> Addresses]
  /\ pool \in [Peers -> Entry]
  /\ lru \in Seq(Peers)
  /\ busy = NoOne \/ busy \in Acquisition
  /\ Leasing(lease)
  /\ dark \in SUBSET (Peers \X Addresses)
  /\ faults \in Nat

\* The leases l on the client of p for address a, and on its other clients; the
\* entry e of p counts them.
On(l, p, a) == {c \in Callers : Uses(l[c], p) /\ l[c].at = a}
Off(l, p, a) == {c \in Callers : Uses(l[c], p) /\ l[c].at # a}
Covered(l, p, e) == /\ e.refcount >= Cardinality(On(l, p, e.at))
                    /\ e.retired >= Cardinality(Off(l, p, e.at))

Sizes == \A t \in Tables : Cardinality(In(t)) <= Limit(t)

\* A peer that is in no table counts no lease.
Absent == \A p \in Peers : pool[p].table = "none"
            => pool[p].refcount = 0 /\ pool[p].retired = 0 /\ pool[p].at = 0

\* While a connection is being opened, the place of its peer is kept: there is
\* room in the table, or the peer is in it with no retired client.
Reserved ==
  busy # NoOne =>
    \/ pool[busy.peer].table = "none" /\ Cardinality(In(busy.table)) < Limit(busy.table)
    \/ /\ pool[busy.peer].table = busy.table /\ pool[busy.peer].at # busy.at
       /\ pool[busy.peer].retired = 0

LinksInv == /\ Types /\ Sizes /\ LruListsPermanents /\ Absent /\ Reserved
            /\ \A p \in Peers : Covered(lease, p, pool[p])

-----------------------------------------------------------------------------
\* Facts about counts of leases.

\* The leases m on p are among the leases l.
Shrinks(l, m, p) ==
  \A c \in Callers : Uses(m[c], p) => Uses(l[c], p) /\ m[c].at = l[c].at

Same(e, f) == /\ f.table = e.table /\ f.at = e.at
              /\ f.refcount = e.refcount /\ f.retired = e.retired

\* The sets of leases are finite.
LEMMA LeasesFinite ==
  ASSUME NEW l, NEW p, NEW a
  PROVE  /\ IsFiniteSet(On(l, p, a)) /\ Cardinality(On(l, p, a)) \in Nat
         /\ IsFiniteSet(Off(l, p, a)) /\ Cardinality(Off(l, p, a)) \in Nat
PROOF
  <1>1. On(l, p, a) \in SUBSET Callers /\ Off(l, p, a) \in SUBSET Callers
    BY DEF On, Off
  <1>2. IsFiniteSet(On(l, p, a)) /\ IsFiniteSet(Off(l, p, a))
    BY <1>1, LinksAssumption, FS_Subset
  <1> QED
    BY <1>2, FS_CardinalityType

\* Fewer leases stay covered by the same counts.
LEMMA CoveredShrinks ==
  ASSUME NEW l, NEW m, NEW p, NEW e \in Entry, NEW f \in Entry,
         Shrinks(l, m, p), Same(e, f), Covered(l, p, e)
  PROVE  Covered(m, p, f)
PROOF
  <1>1. On(m, p, e.at) \in SUBSET On(l, p, e.at) /\ Off(m, p, e.at) \in SUBSET Off(l, p, e.at)
    BY DEF Shrinks, On, Off
  <1>2. /\ Cardinality(On(m, p, e.at)) <= Cardinality(On(l, p, e.at))
        /\ Cardinality(Off(m, p, e.at)) <= Cardinality(Off(l, p, e.at))
    BY <1>1, LeasesFinite, FS_Subset
  <1>3. /\ Cardinality(On(m, p, e.at)) \in Nat /\ Cardinality(On(l, p, e.at)) \in Nat
        /\ Cardinality(Off(m, p, e.at)) \in Nat /\ Cardinality(Off(l, p, e.at)) \in Nat
    BY LeasesFinite
  <1>4. e.refcount \in Nat /\ e.retired \in Nat
    BY DEF Entry
  <1> QED
    BY <1>2, <1>3, <1>4 DEF Covered, Same

\* Counts of zero mean that nobody leases the peer.
LEMMA CoveredIdle ==
  ASSUME NEW l, NEW p, NEW e \in Entry, Covered(l, p, e)
  PROVE  /\ e.refcount = 0 => \A c \in Callers : ~(Uses(l[c], p) /\ l[c].at = e.at)
         /\ e.retired = 0 => \A c \in Callers : Uses(l[c], p) => l[c].at = e.at
PROOF
  <1>1. e.refcount \in Nat /\ e.retired \in Nat
    BY DEF Entry
  <1>2. e.refcount = 0 => Cardinality(On(l, p, e.at)) = 0
    BY <1>1, LeasesFinite DEF Covered
  <1>3. e.retired = 0 => Cardinality(Off(l, p, e.at)) = 0
    BY <1>1, LeasesFinite DEF Covered
  <1>4. e.refcount = 0 => On(l, p, e.at) = {}
    BY <1>2, LeasesFinite, FS_EmptySet
  <1>5. e.retired = 0 => Off(l, p, e.at) = {}
    BY <1>3, LeasesFinite, FS_EmptySet
  <1> QED
    BY <1>4, <1>5 DEF On, Off

\* Any counts cover a peer nobody leases.
LEMMA CoveredUnused ==
  ASSUME NEW l, NEW p, NEW e \in Entry, \A c \in Callers : ~Uses(l[c], p)
  PROVE  Covered(l, p, e)
PROOF
  <1>1. On(l, p, e.at) = {} /\ Off(l, p, e.at) = {}
    BY DEF On, Off
  <1>2. e.refcount \in Nat /\ e.retired \in Nat
    BY DEF Entry
  <1>3. Cardinality(On(l, p, e.at)) = 0 /\ Cardinality(Off(l, p, e.at)) = 0
    BY <1>1, FS_EmptySet
  <1> QED
    BY <1>2, <1>3 DEF Covered

\* The tables are finite.
LEMMA TablesFinite ==
  ASSUME NEW t
  PROVE  IsFiniteSet(In(t)) /\ Cardinality(In(t)) \in Nat
PROOF
  <1>1. In(t) \in SUBSET Peers
    BY DEF In
  <1>2. IsFiniteSet(In(t))
    BY <1>1, LinksAssumption, FS_Subset
  <1> QED
    BY <1>2, FS_CardinalityType

-----------------------------------------------------------------------------
\* Steps that leave the tables and the counts alone.
LEMMA QuietStep ==
  ASSUME LinksInv, Types', lru' = lru, busy' = busy \/ busy' = NoOne,
         \A p \in Peers : Same(pool[p], pool'[p]) /\ Shrinks(lease, lease', p)
  PROVE  LinksInv'
PROOF
  <1>1. \A p \in Peers : pool[p] \in Entry /\ pool'[p] \in Entry
    BY DEF LinksInv, Types
  <1>2. \A p \in Peers : Covered(lease', p, pool'[p])
    BY <1>1, CoveredShrinks DEF LinksInv
  <1>3. \A t : In(t)' = In(t)
    BY DEF In, Same
  <1>4. Sizes'
    BY <1>3 DEF Sizes, LinksInv
  <1>5. LruListsPermanents'
    BY <1>3 DEF LruListsPermanents, LinksInv
  <1>6. Absent'
    BY DEF Absent, Same, LinksInv
  <1>7. Reserved'
    <2>1. CASE busy' = busy /\ busy # NoOne
      <3>1. busy.peer \in Peers
        BY <2>1 DEF LinksInv, Types, Acquisition
      <3>2. Same(pool[busy.peer], pool'[busy.peer])
        BY <3>1
      <3> QED
        BY <2>1, <3>2, <1>3 DEF Reserved, LinksInv, Same
    <2> QED
      BY <2>1 DEF Reserved
  <1> QED
    BY <1>2, <1>4, <1>5, <1>6, <1>7 DEF LinksInv

\* A change of the detector of one entry.
LEMMA DetectorStep ==
  ASSUME NEW P \in [Peers -> Entry], NEW Q, NEW p \in Peers, NEW d \in Detector,
         Q = [P EXCEPT ![p] = [@ EXCEPT !.fd = d]]
  PROVE  Q \in [Peers -> Entry] /\ \A q \in Peers : Same(P[q], Q[q])
PROOF
  <1>1. P[p] \in Entry
    OBVIOUS
  <1>2. [P[p] EXCEPT !.fd = d] \in Entry /\ Same(P[p], [P[p] EXCEPT !.fd = d])
    BY <1>1 DEF Entry, Same
  <1>3. \A q \in Peers : Q[q] = IF q = p THEN [P[p] EXCEPT !.fd = d] ELSE P[q]
    OBVIOUS
  <1> QED
    BY <1>2, <1>3 DEF Same

\* fd.run keeps the type of the detector.
LEMMA RunDetector ==
  ASSUME NEW e \in Entry, NEW a \in Addresses
  PROVE  \E d \in Detector : fd_run(e, a) = [e EXCEPT !.fd = d]
PROOF
  <1> DEFINE d == [at |-> a, active |-> TRUE, probe |-> e.fd.probe,
                   seen |-> IF e.fd.active THEN e.fd.seen ELSE 0]
  <1>1. d \in Detector
    BY LinksAssumption DEF Entry, Detector, Addresses
  <1> QED
    BY Zenon, <1>1 DEF fd_run

\* So does a failure that ends a probe.
LEMMA FailedDetector ==
  ASSUME NEW e \in Entry, NEW a \in Addresses
  PROVE  \E d \in Detector : Failed(e, a) = [e EXCEPT !.fd = d]
PROOF
  <1> DEFINE d == [fd_run(e, a).fd EXCEPT !.probe = IF @ = a THEN 0 ELSE @]
  <1>1. PICK b \in Detector : fd_run(e, a) = [e EXCEPT !.fd = b]
    BY RunDetector
  <1>2. fd_run(e, a).fd = b
    BY <1>1 DEF Entry
  <1>3. d \in Detector
    BY <1>2, LinksAssumption DEF Detector
  <1>4. Failed(e, a) = [e EXCEPT !.fd = d]
    BY DEF Failed
  <1> HIDE DEF d
  <1> QED
    BY Zenon, <1>3, <1>4

\* A lease that ends, or changes its state only, leases no more than before.
LEMMA LeaseChange ==
  ASSUME NEW l, Leasing(l), NEW c \in Callers, NEW k \in Lease, NEW m,
         m = [l EXCEPT ![c] = k],
         k.st \in {"held", "waiting"} => /\ l[c].st \in {"held", "waiting"}
                                         /\ k.peer = l[c].peer /\ k.at = l[c].at
  PROVE  Leasing(m) /\ \A p : Shrinks(l, m, p)
PROOF
  <1>1. \A d \in Callers : m[d] = IF d = c THEN k ELSE l[d]
    BY DEF Leasing
  <1>2. Leasing(m)
    BY <1>1 DEF Leasing
  <1>3. ASSUME NEW p PROVE Shrinks(l, m, p)
    BY <1>1 DEF Shrinks, Uses
  <1> QED
    BY Zenon, <1>2, <1>3

\* A lease that goes back to none.
LEMMA LeaseEnds ==
  ASSUME NEW l, Leasing(l), NEW c \in Callers, NEW m, m = [l EXCEPT ![c] = NoLease]
  PROVE  Leasing(m) /\ \A p : Shrinks(l, m, p)
PROOF
  <1>1. NoLease \in Lease /\ NoLease.st = "none"
    BY LinksAssumption DEF NoLease, Lease
  <1> QED
    BY Zenon, <1>1, LeaseChange

\* A lease whose state changes, for the same client.
LEMMA LeaseMoves ==
  ASSUME NEW l, Leasing(l), NEW c \in Callers, NEW st \in {"connecting", "held", "waiting"},
         NEW m, m = [l EXCEPT ![c].st = st],
         st = "connecting" \/ l[c].st \in {"held", "waiting"}
  PROVE  Leasing(m) /\ \A p : Shrinks(l, m, p)
PROOF
  <1> DEFINE k == [l[c] EXCEPT !.st = st]
  <1>1. l[c] \in Lease
    BY DEF Leasing
  <1>2. k \in Lease /\ k.st = st /\ k.peer = l[c].peer /\ k.at = l[c].at
    BY <1>1 DEF Lease
  <1>3. m = [l EXCEPT ![c] = k]
    BY DEF Leasing
  <1> HIDE DEF k
  <1> QED
    BY Zenon, <1>2, <1>3, LeaseChange

\* A step of a detector, which the pool does not notice.
LEMMA DetectorKeeps ==
  ASSUME LinksInv, NEW p \in Peers, NEW d \in Detector,
         pool' = [pool EXCEPT ![p] = [@ EXCEPT !.fd = d]],
         UNCHANGED <<addr, lru, busy, lease, dark, faults>>
  PROVE  LinksInv'
PROOF
  <1>1. pool' \in [Peers -> Entry] /\ \A q \in Peers : Same(pool[q], pool'[q])
    BY DetectorStep DEF LinksInv, Types
  <1>2. Types'
    BY <1>1 DEF LinksInv, Types
  <1> QED
    BY <1>1, <1>2, QuietStep DEF Shrinks

\* An answer recorded by a detector.
LEMMA AnsweredDetector ==
  ASSUME NEW fd \in Detector
  PROVE  (IF has_observations(record(fd)) THEN reset(fd) ELSE record(fd)) \in Detector
PROOF
  <1>1. fd.seen + 1 > MinSamples \/ fd.seen + 1 \in 0 .. MinSamples
    BY LinksAssumption DEF Detector
  <1>2. record(fd).seen = fd.seen + 1
    BY DEF record, Detector
  <1>3. 0 \in 0 .. MinSamples /\ 0 \in 0 .. LastAddress
    BY LinksAssumption
  <1>4. CASE has_observations(record(fd))
    <2>1. reset(fd) \in Detector
      BY <1>3 DEF reset, Detector
    <2> QED
      BY <1>4, <2>1
  <1>5. CASE ~has_observations(record(fd))
    <2>1. fd.seen + 1 \in 0 .. MinSamples
      BY <1>1, <1>2, <1>5 DEF has_observations
    <2>2. record(fd) \in Detector
      BY <1>3, <2>1 DEF record, Detector
    <2> QED
      BY <1>5, <2>2
  <1> QED
    BY <1>4, <1>5

\* A probe starts, is answered or fails (_probe_peer, _probe_once).
LEMMA ProbeKeeps ==
  ASSUME LinksInv, NEW p \in Peers, _probe_peer(p) \/ _probe_once(p)
  PROVE  LinksInv'
PROOF
  <1> DEFINE fd == pool[p].fd
             sent == [fd EXCEPT !.probe = fd.at]
             answered == IF has_observations(record(fd)) THEN reset(fd) ELSE record(fd)
  <1>1. pool \in [Peers -> Entry] /\ pool[p] \in Entry /\ fd \in Detector
    BY DEF LinksInv, Types, Entry
  <1>2. UNCHANGED <<addr, lru, busy, lease, dark, faults>>
    BY DEF _probe_peer, _probe_once
  <1>3. CASE _probe_peer(p)
    <2>1. sent \in Detector
      BY <1>1 DEF Detector
    <2>2. pool' = [pool EXCEPT ![p] = [@ EXCEPT !.fd = sent]]
      BY <1>3 DEF _probe_peer
    <2> HIDE DEF sent
    <2> QED
      BY <1>2, <2>1, <2>2, DetectorKeeps
  <1>4. CASE _probe_once(p) /\ <<p, fd.probe>> \notin dark
    <2>1. answered \in Detector
      BY Zenon, <1>1, AnsweredDetector
    <2>2. pool' = [pool EXCEPT ![p] = [@ EXCEPT !.fd = answered]]
      BY <1>4 DEF _probe_once
    <2> HIDE DEF answered
    <2> QED
      BY <1>2, <2>1, <2>2, DetectorKeeps
  <1>5. CASE _probe_once(p) /\ <<p, fd.probe>> \in dark
    <2>1. fd.probe \in Addresses
      BY <1>1, <1>5 DEF _probe_once, Detector, Addresses
    <2>2. PICK d \in Detector : Failed(pool[p], fd.probe) = [pool[p] EXCEPT !.fd = d]
      BY <1>1, <2>1, FailedDetector
    <2>3. pool' = [pool EXCEPT ![p] = Failed(@, fd.probe)]
      BY <1>5 DEF _probe_once
    <2>4. pool' = [pool EXCEPT ![p] = [@ EXCEPT !.fd = d]]
      BY <2>2, <2>3
    <2> QED
      BY <1>2, <2>4, DetectorKeeps
  <1> QED
    BY <1>3, <1>4, <1>5

\* A connection that is lost or closed fails all the requests pending on it.
LEMMA TeardownKeeps ==
  ASSUME LinksInv, NEW p \in Peers, NEW a \in Addresses, _teardown_reader(<<p, a>>),
         Fault, UNCHANGED <<addr, lru, busy, dark>>
  PROVE  LinksInv'
PROOF
  <1>0. Types /\ pool \in [Peers -> Entry] /\ Leasing(lease)
    BY DEF LinksInv, Types
  <1>1. pool' = [pool EXCEPT ![p] = Failed(@, a)] /\ faults' = faults + 1
    BY DEF _teardown_reader, Fault
  <1>2. PICK d \in Detector : Failed(pool[p], a) = [pool[p] EXCEPT !.fd = d]
    BY <1>0, FailedDetector
  <1>3. pool' = [pool EXCEPT ![p] = [@ EXCEPT !.fd = d]]
    BY <1>1, <1>2
  <1>4. pool' \in [Peers -> Entry] /\ \A q \in Peers : Same(pool[q], pool'[q])
    BY <1>0, <1>3, DetectorStep
  <1> DEFINE failed == Pending(<<p, a>>)
  <1>5. /\ \A c \in failed : lease[c].st = "waiting"
        /\ lease' = [c \in Callers |-> IF c \in failed THEN [lease[c] EXCEPT !.st = "held"]
                                       ELSE lease[c]]
    BY Zenon DEF _teardown_reader, Pending
  <1> HIDE DEF failed
  <1>6. ASSUME NEW c \in Callers
        PROVE  /\ lease'[c] \in Lease
               /\ lease'[c].peer = lease[c].peer /\ lease'[c].at = lease[c].at
               /\ lease'[c].st \in {"held", "waiting"} <=> lease[c].st \in {"held", "waiting"}
    <2>1. lease[c] \in Lease
      BY <1>0 DEF Leasing
    <2>2. CASE c \in failed
      <3>1. lease'[c] = [lease[c] EXCEPT !.st = "held"] /\ lease[c].st = "waiting"
        BY <1>5, <2>2
      <3> QED
        BY <2>1, <3>1 DEF Lease
    <2>3. CASE c \notin failed
      BY <1>5, <2>1, <2>3
    <2> QED
      BY <2>2, <2>3
  <1>7. Leasing(lease')
    BY <1>0, <1>5, <1>6 DEF Leasing
  <1>8. \A q \in Peers : Shrinks(lease, lease', q)
    BY <1>6 DEF Shrinks, Uses
  <1>9. Types'
    BY <1>0, <1>1, <1>4, <1>7 DEF Types
  <1> QED
    BY <1>1, <1>4, <1>8, <1>9, QuietStep

\* The client: requests, answers, timeouts and failing writes.
LEMMA ClientKeeps ==
  ASSUME LinksInv, NEW c \in Callers, Connection(c)
  PROVE  LinksInv'
PROOF
  <1>0. Types
    BY DEF LinksInv
  <1> DEFINE l == lease[c]
  <1>1. l.st \in {"held", "waiting"} /\ l.peer \in Peers /\ l.at \in Addresses
    BY <1>0 DEF Connection, request, _send, _route, ResponseTimeout, Types, Leasing
  <1>6. CASE _send(c)
    BY Zenon, <1>1, <1>6, TeardownKeeps DEF _send
  <1> SUFFICES ASSUME request(c) \/ _route(c) \/ ResponseTimeout(c) PROVE LinksInv'
    BY <1>6 DEF Connection
  <1>2. /\ \/ pool' = pool
           \/ pool' = [pool EXCEPT ![l.peer] = fd_run(@, l.at)]
        /\ \/ lease' = lease
           \/ lease' = [lease EXCEPT ![c].st = "waiting"]
           \/ lease' = [lease EXCEPT ![c].st = "held"]
        /\ UNCHANGED <<addr, lru, busy, dark>>
        /\ faults' = faults \/ faults' = faults + 1
    BY DEF request, _route, ResponseTimeout, Fault
  <1>3. pool' \in [Peers -> Entry] /\ \A q \in Peers : Same(pool[q], pool'[q])
    <2>1. pool \in [Peers -> Entry]
      BY <1>0 DEF Types
    <2>2. PICK d \in Detector : fd_run(pool[l.peer], l.at) = [pool[l.peer] EXCEPT !.fd = d]
      BY <1>1, <2>1, RunDetector
    <2>3. CASE pool' = pool
      BY <2>1, <2>3 DEF Same
    <2>4. CASE pool' = [pool EXCEPT ![l.peer] = fd_run(@, l.at)]
      <3>1. pool' = [pool EXCEPT ![l.peer] = [@ EXCEPT !.fd = d]]
        BY <2>2, <2>4
      <3> QED
        BY <1>1, <2>1, <3>1, DetectorStep
    <2> QED
      BY <1>2, <2>3, <2>4
  <1>4. Leasing(lease') /\ \A q \in Peers : Shrinks(lease, lease', q)
    <2>1. Leasing(lease)
      BY <1>0 DEF Types
    <2>2. CASE lease' = lease
      BY <2>1, <2>2 DEF Shrinks
    <2>3. ASSUME NEW st \in {"waiting", "held"}, lease' = [lease EXCEPT ![c].st = st]
          PROVE  Leasing(lease') /\ \A q \in Peers : Shrinks(lease, lease', q)
      BY Zenon, <1>1, <2>1, <2>3, LeaseMoves
    <2> QED
      BY Zenon, <1>2, <2>2, <2>3
  <1>5. Types'
    BY <1>0, <1>2, <1>3, <1>4 DEF Types
  <1> QED
    BY <1>2, <1>3, <1>4, <1>5, QuietStep

\* A connection that fails, a caller cancelled while it waits for the lock, and
\* what happens to the peers.
LEMMA OutsideKeeps ==
  ASSUME LinksInv,
         \/ ConnectFails
         \/ \E c \in Callers : CancelRelease(c)
         \/ \E p \in Peers : Move(p)
         \/ \E p \in Peers, a \in Addresses : GoDark(<<p, a>>) \/ Answers(<<p, a>>)
  PROVE  LinksInv'
PROOF
  <1>0. Types /\ Leasing(lease)
    BY DEF LinksInv, Types
  <1>1. /\ pool' = pool /\ lru' = lru
        /\ busy' = busy \/ busy' = NoOne
        /\ faults' = faults \/ faults' = faults + 1
    BY Zenon DEF ConnectFails, CancelRelease, Move, GoDark, Answers, Fault
  <1>2. addr' \in [Peers -> Addresses]
    <2>1. addr \in [Peers -> Addresses]
      BY <1>0 DEF Types
    <2>2. CASE addr' = addr
      BY <2>1, <2>2
    <2>3. ASSUME NEW p \in Peers, Move(p) PROVE addr' \in [Peers -> Addresses]
      <3>1. addr[p] + 1 \in Addresses
        BY <2>1, <2>3, LinksAssumption DEF Move, Addresses
      <3> QED
        BY <2>1, <2>3, <3>1 DEF Move
    <2> QED
      BY Zenon, <2>2, <2>3 DEF ConnectFails, CancelRelease, GoDark, Answers
  <1>3. dark' \in SUBSET (Peers \X Addresses)
    <2>1. dark \in SUBSET (Peers \X Addresses)
      BY <1>0 DEF Types
    <2>2. ASSUME NEW p \in Peers, NEW a \in Addresses,
                 dark' = dark \cup {<<p, a>>} \/ dark' = dark \ {<<p, a>>}
          PROVE  dark' \in SUBSET (Peers \X Addresses)
      BY <2>1, <2>2
    <2>3. CASE dark' = dark
      BY <2>1, <2>3
    <2> QED
      BY Zenon, <2>2, <2>3 DEF ConnectFails, CancelRelease, Move, GoDark, Answers
  <1>4. Leasing(lease') /\ \A q \in Peers : Shrinks(lease, lease', q)
    <2>1. CASE lease' = lease
      BY <1>0, <2>1 DEF Shrinks
    <2>2. CASE ConnectFails
      <3>1. busy.who \in Callers
        BY <1>0, <2>2 DEF ConnectFails, Types, Acquisition
      <3>2. lease' = [lease EXCEPT ![busy.who] = NoLease]
        BY <2>2 DEF ConnectFails
      <3> QED
        BY Zenon, <1>0, <3>1, <3>2, LeaseEnds
    <2>3. ASSUME NEW c \in Callers, CancelRelease(c)
          PROVE  Leasing(lease') /\ \A q \in Peers : Shrinks(lease, lease', q)
      <3>1. lease' = [lease EXCEPT ![c] = NoLease]
        BY <2>3 DEF CancelRelease
      <3> QED
        BY Zenon, <1>0, <3>1, LeaseEnds
    <2> QED
      BY Zenon, <2>1, <2>2, <2>3 DEF Move, GoDark, Answers
  <1>5. Types'
    BY <1>0, <1>1, <1>2, <1>3, <1>4 DEF Types
  <1>6. \A q \in Peers : Same(pool[q], pool'[q])
    BY <1>1 DEF Same
  <1> QED
    BY <1>1, <1>4, <1>5, <1>6, QuietStep

-----------------------------------------------------------------------------
\* acquire().

\* A known peer at its known address.
LEMMA ReuseKeeps ==
  ASSUME LinksInv, NEW c \in Callers, NEW p \in Peers, Reuse(c, p)
  PROVE  LinksInv'
PROOF
  <1>0. Types /\ pool \in [Peers -> Entry] /\ Leasing(lease) /\ addr[p] \in Addresses
    BY DEF LinksInv, Types
  <1> DEFINE e == pool[p]
             f == [e EXCEPT !.refcount = @ + 1]
             k == [st |-> "held", peer |-> p, at |-> addr[p]]
  <1>1. /\ e \in Entry /\ f \in Entry /\ f.table = e.table /\ f.at = e.at
        /\ f.refcount = e.refcount + 1 /\ f.retired = e.retired
    BY <1>0 DEF Entry
  <1>2. /\ pool' = [pool EXCEPT ![p] = f]
        /\ lease' = [lease EXCEPT ![c] = k]
        /\ e.table # "none" /\ e.at = addr[p] /\ lease[c].st = "none" /\ busy = NoOne
        /\ lru' = Touch(p)
        /\ UNCHANGED <<addr, busy, dark, faults>>
    BY <1>0 DEF Reuse, Free
  <1> HIDE DEF f
  <1>3. \A q \in Peers : pool'[q] = IF q = p THEN f ELSE pool[q]
    BY <1>0, <1>2
  <1>4. k \in Lease
    BY <1>0, LinksAssumption DEF Lease, Addresses
  <1>5. \A d \in Callers : lease'[d] = IF d = c THEN k ELSE lease[d]
    BY <1>0, <1>2 DEF Leasing
  <1>6. Leasing(lease')
    BY <1>0, <1>2, <1>4, <1>5 DEF Leasing
  <1>7. pool' \in [Peers -> Entry]
    BY <1>0, <1>1, <1>2
  <1>8. \A t : In(t)' = In(t)
    BY <1>1, <1>3 DEF In
  <1>9. lru' \in Seq(Peers) /\ LruListsPermanents'
    <2>1. lru \in Seq(Peers) /\ Range(lru) = In("permanent") /\ IsInjective(lru)
      BY DEF LinksInv, Types, LruListsPermanents
    <2>2. CASE e.table = "permanent"
      <3>1. lru' = Append(Without(lru, {p}), p)
        BY <1>2, <2>2 DEF Touch
      <3>2. \A t : t = Append(Without(lru, {p}), p)
                   => t \in Seq(Peers) /\ IsInjective(t)
                      /\ Range(t) = (Range(lru) \ {p}) \cup {p}
        BY <2>1, TouchFacts
      <3>3. /\ lru' \in Seq(Peers) /\ IsInjective(lru')
            /\ Range(lru') = (In("permanent") \ {p}) \cup {p}
        BY Zenon, <2>1, <3>1, <3>2
      <3>4. p \in In("permanent")
        BY <2>2 DEF In
      <3> QED
        BY <1>8, <3>3, <3>4 DEF LruListsPermanents
    <2>3. CASE e.table # "permanent"
      BY <1>2, <1>8, <2>1, <2>3 DEF Touch, LruListsPermanents
    <2> QED
      BY <2>2, <2>3
  <1>10. Types'
    BY <1>0, <1>2, <1>6, <1>7, <1>9 DEF Types
  <1>11. Sizes'
    BY <1>8 DEF Sizes, LinksInv
  <1>12. Absent' /\ Reserved'
    BY <1>1, <1>2, <1>3 DEF Absent, Reserved, LinksInv
  <1>13. ASSUME NEW q \in Peers PROVE Covered(lease', q, pool'[q])
    <2>1. CASE q # p
      <3>1. Shrinks(lease, lease', q)
        BY <1>5, <2>1 DEF Shrinks, Uses
      <3>2. pool'[q] = pool[q] /\ pool[q] \in Entry /\ Covered(lease, q, pool[q])
        BY <1>0, <1>3, <2>1 DEF LinksInv
      <3> QED
        BY <3>1, <3>2, CoveredShrinks DEF Same
    <2>2. CASE q = p
      <3>1. Covered(lease, p, e)
        BY DEF LinksInv
      <3>2. On(lease', p, e.at) = On(lease, p, e.at) \cup {c} /\ c \notin On(lease, p, e.at)
        BY <1>2, <1>5 DEF On, Uses
      <3>3. Off(lease', p, e.at) = Off(lease, p, e.at)
        BY <1>2, <1>5 DEF Off, Uses
      <3>4. Cardinality(On(lease', p, e.at)) = Cardinality(On(lease, p, e.at)) + 1
        BY Zenon, <3>2, LeasesFinite, FS_AddElement
      <3>5. pool'[q] = f /\ e.refcount \in Nat /\ Cardinality(On(lease, p, e.at)) \in Nat
        BY <1>1, <1>3, <2>2, LeasesFinite DEF Entry
      <3> HIDE DEF e
      <3> QED
        BY <1>1, <2>2, <3>1, <3>3, <3>4, <3>5 DEF Covered
    <2> QED
      BY <2>1, <2>2
  <1> QED
    BY <1>9, <1>10, <1>11, <1>12, <1>13 DEF LinksInv

\* An entry nobody leases may go.
LEMMA CoveredRemoved ==
  ASSUME NEW l, NEW m, NEW p, NEW e \in Entry, Covered(l, p, e), Shrinks(l, m, p),
         e.refcount = 0, e.retired = 0
  PROVE  NoPeer \in Entry /\ Covered(m, p, NoPeer)
PROOF
  <1>1. NoPeer \in Entry
    BY LinksAssumption DEF NoPeer, NoDetector, Entry, Detector
  <1>2. \A c \in Callers : ~Uses(l[c], p)
    BY CoveredIdle
  <1>3. \A c \in Callers : ~Uses(m[c], p)
    BY <1>2 DEF Shrinks
  <1> QED
    BY <1>1, <1>3, CoveredUnused

\* The start of a connection, whose place is kept.
LEMMA ConnectingTypes ==
  ASSUME Types, NEW c \in Callers, NEW p \in Peers, NEW t \in Tables, Connecting(c, p, t),
         UNCHANGED <<addr, dark, faults>>
  PROVE  /\ Leasing(lease') /\ \A q : Shrinks(lease, lease', q)
         /\ busy' \in Acquisition /\ busy'.peer = p /\ busy'.table = t /\ busy'.at = addr[p]
         /\ pool' \in [Peers -> Entry] /\ lru' \in Seq(Peers) => Types'
PROOF
  <1>1. Leasing(lease) /\ addr[p] \in Addresses
    BY DEF Types
  <1>2. lease' = [lease EXCEPT ![c].st = "connecting"]
    BY DEF Connecting
  <1>3. Leasing(lease') /\ \A q : Shrinks(lease, lease', q)
    BY Zenon, <1>1, <1>2, LeaseMoves
  <1>4. busy' \in Acquisition /\ busy'.peer = p /\ busy'.table = t /\ busy'.at = addr[p]
    BY <1>1 DEF Connecting, Acquisition
  <1> QED
    BY <1>3, <1>4 DEF Types

\* A known peer that moved.
LEMMA RefreshKeeps ==
  ASSUME LinksInv, NEW c \in Callers, NEW p \in Peers, _may_refresh_peer(c, p)
  PROVE  LinksInv'
PROOF
  <1>0. Types /\ pool \in [Peers -> Entry] /\ lru \in Seq(Peers)
    BY DEF LinksInv, Types
  <1>1. /\ pool[p].table \in Tables /\ pool[p].at # addr[p] /\ pool[p].retired = 0
        /\ Connecting(c, p, pool[p].table) /\ UNCHANGED <<addr, pool, lru, dark, faults>>
    BY <1>0 DEF _may_refresh_peer, Entry
  <1>2. /\ \A q : Shrinks(lease, lease', q)
        /\ busy'.peer = p /\ busy'.table = pool[p].table /\ busy'.at = addr[p]
        /\ Types'
    BY <1>0, <1>1, ConnectingTypes
  <1>3. Sizes' /\ LruListsPermanents' /\ Absent'
    BY <1>1 DEF LinksInv, Sizes, LruListsPermanents, Absent, In
  <1>4. Reserved'
    BY <1>1, <1>2 DEF Reserved
  <1>5. ASSUME NEW q \in Peers PROVE Covered(lease', q, pool'[q])
    BY Zenon, <1>0, <1>1, <1>2, CoveredShrinks DEF LinksInv, Same
  <1> QED
    BY <1>2, <1>3, <1>4, <1>5 DEF LinksInv

\* The victim of an eviction is a permanent peer nobody leases.
LEMMA VictimIdle ==
  ASSUME LinksInv, _idle_lru_peer # <<>>
  PROVE  Head(_idle_lru_peer) \in In("permanent") /\ Idle(Head(_idle_lru_peer))
PROOF
  <1> DEFINE leased == {p \in Peers : ~Idle(p)}
             s == Without(lru, leased)
  <1>1. lru \in Seq(Peers) /\ Range(lru) = In("permanent")
    BY DEF LinksInv, Types, LruListsPermanents
  <1>2. s \in Seq(Peers) /\ Range(s) = In("permanent") \ leased /\ s # <<>>
    BY <1>1, WithoutFacts DEF _idle_lru_peer
  <1> HIDE DEF s
  <1>3. Head(s) = s[1] /\ 1 \in DOMAIN s
    BY <1>2, LenProperties
  <1>4. Head(s) \in In("permanent") \ leased
    BY <1>2, <1>3 DEF Range
  <1>5. Head(s) \in In("permanent") /\ Idle(Head(s))
    BY <1>4 DEF In
  <1> QED
    BY <1>5 DEF _idle_lru_peer, s

\* An unknown peer that there is room for.
LEMMA RoomKeeps ==
  ASSUME LinksInv, NEW c \in Callers, NEW p \in Peers, NEW t \in Tables,
         pool[p].table = "none", Cardinality(In(t)) < Limit(t),
         Connecting(c, p, t), UNCHANGED <<addr, pool, lru, dark, faults>>
  PROVE  LinksInv'
PROOF
  <1>0. Types /\ pool \in [Peers -> Entry] /\ lru \in Seq(Peers)
    BY DEF LinksInv, Types
  <1>1. /\ \A q : Shrinks(lease, lease', q)
        /\ busy'.peer = p /\ busy'.table = t /\ Types'
    BY <1>0, ConnectingTypes
  <1>2. Sizes' /\ LruListsPermanents' /\ Absent'
    BY DEF LinksInv, Sizes, LruListsPermanents, Absent, In
  <1>3. Reserved'
    BY <1>1 DEF Reserved, In
  <1>4. ASSUME NEW q \in Peers PROVE Covered(lease', q, pool'[q])
    BY Zenon, <1>0, <1>1, CoveredShrinks DEF LinksInv, Same
  <1> QED
    BY <1>1, <1>2, <1>3, <1>4 DEF LinksInv

\* An unknown peer that takes the place of an idle permanent one.
LEMMA EvictKeeps ==
  ASSUME LinksInv, NEW c \in Callers, NEW p \in Peers, NEW victim \in In("permanent"),
         pool[p].table = "none", Idle(victim),
         Connecting(c, p, "permanent"), pool' = [pool EXCEPT ![victim] = NoPeer],
         lru' = Without(lru, {victim}), UNCHANGED <<addr, dark, faults>>
  PROVE  LinksInv'
PROOF
  <1>0. Types /\ pool \in [Peers -> Entry] /\ lru \in Seq(Peers)
    BY DEF LinksInv, Types
  <1>1. victim \in Peers /\ pool[victim].table = "permanent" /\ victim # p
    BY DEF In
  <1>2. NoPeer \in Entry /\ NoPeer.table = "none" /\ NoPeer.refcount = 0
        /\ NoPeer.retired = 0 /\ NoPeer.at = 0
    BY LinksAssumption DEF NoPeer, NoDetector, Entry, Detector
  <1>3. /\ pool' \in [Peers -> Entry]
        /\ \A q \in Peers : pool'[q] = IF q = victim THEN NoPeer ELSE pool[q]
    BY <1>0, <1>1, <1>2
  <1>4. /\ lru' \in Seq(Peers) /\ IsInjective(lru')
        /\ Range(lru') = In("permanent") \ {victim}
    BY <1>0, WithoutFacts DEF LinksInv, LruListsPermanents
  <1>5. /\ \A q : Shrinks(lease, lease', q)
        /\ busy'.peer = p /\ busy'.table = "permanent" /\ Types'
    BY Zenon, <1>0, <1>3, <1>4, ConnectingTypes DEF Tables
  <1>6. /\ In("permanent")' = In("permanent") \ {victim}
        /\ \A t \in Tables \ {"permanent"} : In(t)' = In(t)
    BY <1>1, <1>2, <1>3 DEF In, Tables
  <1>7. Cardinality(In("permanent") \ {victim}) = Cardinality(In("permanent")) - 1
    BY Zenon, TablesFinite, FS_RemoveElement
  <1>8. Cardinality(In("permanent")) \in Nat /\ Cardinality(In("permanent")) <= MaxSize
    BY TablesFinite DEF LinksInv, Sizes, Tables, Limit
  <1>9. Cardinality(In("permanent"))' < MaxSize /\ Cardinality(In("permanent"))' <= MaxSize
    <2> DEFINE n == Cardinality(In("permanent"))
               k == Cardinality(In("permanent") \ {victim})
    <2>1. k = n - 1 /\ n \in Nat /\ n <= MaxSize /\ MaxSize \in Nat
      BY <1>7, <1>8, LinksAssumption
    <2> HIDE DEF n, k
    <2>2. k < MaxSize /\ k <= MaxSize
      BY <2>1
    <2> QED
      BY Zenon, <1>6, <2>2 DEF k
  <1>10. Sizes'
    <2>1. ASSUME NEW t \in Tables \ {"permanent"} PROVE Cardinality(In(t))' <= Limit(t)
      BY <1>6 DEF LinksInv, Sizes
    <2> QED
      BY <1>9, <2>1 DEF Sizes, Limit
  <1>11. LruListsPermanents'
    BY Zenon, <1>4, <1>6 DEF LruListsPermanents
  <1>12. Absent'
    BY <1>2, <1>3 DEF LinksInv, Absent
  <1>13. Reserved'
    <2>1. pool'[p].table = "none"
      BY <1>1, <1>3
    <2> QED
      BY <1>5, <1>9, <2>1 DEF Reserved, Limit
  <1>14. ASSUME NEW q \in Peers PROVE Covered(lease', q, pool'[q])
    <2>0. pool[q] \in Entry /\ Covered(lease, q, pool[q]) /\ Shrinks(lease, lease', q)
      BY <1>0, <1>5 DEF LinksInv
    <2>1. CASE q = victim
      BY <1>3, <2>0, <2>1, CoveredRemoved DEF Idle
    <2>2. CASE q # victim
      BY <1>3, <2>0, <2>2, CoveredShrinks DEF Same
    <2> QED
      BY <2>1, <2>2
  <1> QED
    BY <1>5, <1>10, <1>11, <1>12, <1>13, <1>14 DEF LinksInv

\* acquire() of an unknown peer, whichever way it finds room.
LEMMA AcquireKeeps ==
  ASSUME LinksInv, NEW c \in Callers, NEW p \in Peers, NEW priority \in BOOLEAN,
         _acquire_locked(c, p, priority)
  PROVE  LinksInv'
PROOF
  <1> DEFINE room == RoomFor(Cardinality(In("permanent")), Cardinality(In("overflow")),
                             Cardinality(In("priority")), _idle_lru_peer # <<>>, priority)
  <1>1. \/ room = "permanent" /\ Cardinality(In("permanent")) < MaxSize
        \/ room = "overflow" /\ Cardinality(In("overflow")) < MaxOverflow
        \/ room = "evict" /\ _idle_lru_peer # <<>>
        \/ room = "priority" /\ Cardinality(In("priority")) < PrioritySize
    <2>1. /\ Cardinality(In("permanent")) \in Nat /\ Cardinality(In("overflow")) \in Nat
          /\ Cardinality(In("priority")) \in Nat
      BY TablesFinite
    <2>2. room # "none"
      BY DEF _acquire_locked
    <2> DEFINE x == Cardinality(In("permanent"))
               y == Cardinality(In("overflow"))
               z == Cardinality(In("priority"))
               idle == _idle_lru_peer # <<>>
    <2>3. idle \in BOOLEAN /\ x \in Nat /\ y \in Nat /\ z \in Nat
      BY <2>1
    <2>4. room = RoomFor(x, y, z, idle, priority)
      OBVIOUS
    <2> HIDE DEF x, y, z, idle, room
    <2>5. \/ room = "permanent" /\ x < MaxSize
          \/ room = "overflow" /\ y < MaxOverflow
          \/ room = "evict" /\ idle
          \/ room = "priority" /\ z < PrioritySize
      <3>0. MaxSize \in Nat /\ MaxOverflow \in Nat
        BY LinksAssumption
      <3>1. CASE x < MaxSize
        BY <2>2, <2>3, <2>4, <3>0, <3>1 DEF RoomFor
      <3>2. CASE x >= MaxSize /\ y < MaxOverflow
        BY <2>2, <2>3, <2>4, <3>0, <3>2 DEF RoomFor
      <3>3. CASE x >= MaxSize /\ y >= MaxOverflow /\ idle
        BY <2>2, <2>3, <2>4, <3>0, <3>3 DEF RoomFor
      <3>4. CASE x >= MaxSize /\ y >= MaxOverflow /\ ~idle
        BY <2>2, <2>3, <2>4, <3>0, <3>4 DEF RoomFor
      <3> QED
        BY <2>3, <3>0, <3>1, <3>2, <3>3, <3>4
    <2> QED
      BY Zenon, <2>5 DEF x, y, z, idle
  <1>2. /\ pool[p].table = "none"
        /\ Connecting(c, p, IF room = "evict" THEN "permanent" ELSE room)
        /\ IF room = "evict"
           THEN /\ pool' = [pool EXCEPT ![Head(_idle_lru_peer)] = NoPeer]
                /\ lru' = Without(lru, {Head(_idle_lru_peer)})
           ELSE UNCHANGED <<pool, lru>>
        /\ UNCHANGED <<addr, dark, faults>>
    BY DEF _acquire_locked
  <1> HIDE DEF room
  <1>3. CASE room = "evict"
    BY <1>1, <1>2, <1>3, VictimIdle, EvictKeeps
  <1>4. CASE room # "evict"
    <2>1. room \in Tables /\ Cardinality(In(room)) < Limit(room)
      BY <1>1, <1>4 DEF Tables, Limit
    <2> QED
      BY <1>2, <1>4, <2>1, RoomKeeps
  <1> QED
    BY <1>3, <1>4

\* The connection of caller c to address a of p is open: its entry, which was e,
\* is installed or refreshed.
LEMMA InstallKeeps ==
  ASSUME LinksInv, NEW c \in Callers, NEW p \in Peers, NEW a \in Addresses,
         NEW table \in Tables, NEW e, e = pool[p],
         \/ e.table = "none" /\ Cardinality(In(table)) < Limit(table)
         \/ e.table = table /\ e.at # a /\ e.retired = 0,
         pool' = [pool EXCEPT ![p] = [table |-> table, at |-> a, refcount |-> 1,
                                      retired |-> e.refcount, fd |-> e.fd]],
         lru' = IF table = "permanent" THEN Append(Without(lru, {p}), p) ELSE lru,
         lease' = [lease EXCEPT ![c] = [st |-> "held", peer |-> p, at |-> a]],
         busy' = NoOne, UNCHANGED <<addr, dark, faults>>
  PROVE  LinksInv'
PROOF
  <1> DEFINE f == [table |-> table, at |-> a, refcount |-> 1, retired |-> e.refcount, fd |-> e.fd]
             k == [st |-> "held", peer |-> p, at |-> a]
  <1>0. /\ Types /\ pool \in [Peers -> Entry] /\ Leasing(lease) /\ lru \in Seq(Peers)
        /\ e \in Entry
    BY DEF LinksInv, Types
  <1>4. /\ f \in Entry /\ f.table = table /\ f.at = a /\ f.refcount = 1
        /\ f.retired = e.refcount
    BY <1>0, LinksAssumption DEF Entry, Addresses
  <1>5. k \in Lease /\ k.st = "held" /\ k.peer = p /\ k.at = a
    BY LinksAssumption DEF Lease, Addresses
  <1> HIDE DEF f, k
  <1>6. /\ pool' \in [Peers -> Entry]
        /\ \A q \in Peers : pool'[q] = IF q = p THEN f ELSE pool[q]
    BY <1>0, <1>4 DEF f
  <1>7. \A d \in Callers : lease'[d] = IF d = c THEN k ELSE lease[d]
    BY <1>0 DEF Leasing, k
  <1>8. Leasing(lease')
    BY <1>0, <1>5, <1>7 DEF Leasing
  <1>9. /\ In(table)' = In(table) \cup {p}
        /\ \A t \in Tables \ {table} : In(t)' = In(t)
    BY <1>4, <1>6 DEF In, Tables
  <1>10. Sizes'
    <2>1. ASSUME NEW t \in Tables \ {table} PROVE Cardinality(In(t))' <= Limit(t)
      BY <1>9 DEF LinksInv, Sizes
    <2>2. Cardinality(In(table) \cup {p}) <= Limit(table)
      <3> DEFINE n == Cardinality(In(table))
                 m == Cardinality(In(table) \cup {p})
      <3>1. n \in Nat /\ n <= Limit(table) /\ Limit(table) \in Nat
        BY TablesFinite, LinksAssumption DEF LinksInv, Sizes, Limit
      <3>2. m = IF p \in In(table) THEN n ELSE n + 1
        BY Zenon, TablesFinite, FS_AddElement
      <3>3. p \in In(table) \/ n < Limit(table)
        BY DEF In
      <3> HIDE DEF n, m
      <3>4. m <= Limit(table)
        BY <3>1, <3>2, <3>3
      <3> QED
        BY <3>4 DEF m
    <2>4. ASSUME NEW t \in Tables PROVE Cardinality(In(t))' <= Limit(t)
      <3>1. CASE t = table
        BY Zenon, <1>9, <2>2, <3>1
      <3>2. CASE t # table
        BY Zenon, <2>1, <3>2
      <3> QED
        BY <3>1, <3>2
    <2> QED
      BY Zenon, <2>4 DEF Sizes, Limit
  <1>11. lru' \in Seq(Peers) /\ LruListsPermanents'
    <2>1. Range(lru) = In("permanent") /\ IsInjective(lru)
      BY DEF LinksInv, LruListsPermanents
    <2>2. CASE table = "permanent"
      <3>1. lru' = Append(Without(lru, {p}), p)
        BY <2>2
      <3>2. \A t : t = Append(Without(lru, {p}), p)
                   => t \in Seq(Peers) /\ IsInjective(t)
                      /\ Range(t) = (Range(lru) \ {p}) \cup {p}
        BY <1>0, <2>1, TouchFacts
      <3>3. /\ lru' \in Seq(Peers) /\ IsInjective(lru')
            /\ Range(lru') = (In("permanent") \ {p}) \cup {p}
        BY Zenon, <2>1, <3>1, <3>2
      <3>4. In("permanent")' = (In("permanent") \ {p}) \cup {p}
        BY <1>9, <2>2
      <3> QED
        BY Zenon, <3>3, <3>4 DEF LruListsPermanents
    <2>3. CASE table # "permanent"
      <3>1. In("permanent")' = In("permanent") /\ lru' = lru
        BY <1>9, <2>3 DEF Tables
      <3> QED
        BY Zenon, <1>0, <2>1, <3>1 DEF LruListsPermanents
    <2> QED
      BY <2>2, <2>3
  <1>12. Types'
    BY <1>0, <1>6, <1>8, <1>11 DEF Types
  <1>13. Absent' /\ Reserved'
    BY <1>4, <1>6 DEF LinksInv, Absent, Reserved, Tables
  <1>14. ASSUME NEW q \in Peers PROVE Covered(lease', q, pool'[q])
    <2>0. pool[q] \in Entry /\ Covered(lease, q, pool[q])
      BY <1>0 DEF LinksInv
    <2>1. CASE q # p
      <3>1. Shrinks(lease, lease', q)
        BY <1>5, <1>7, <2>1 DEF Shrinks, Uses
      <3> QED
        BY <1>6, <2>0, <2>1, <3>1, CoveredShrinks DEF Same
    <2>2. CASE q = p
      <3>1. /\ e.retired = 0 /\ e.at # a
            /\ e.table = "none" => e.refcount = 0
        BY LinksAssumption DEF LinksInv, Absent, Addresses
      <3>2. \A d \in Callers : Uses(lease[d], p) => lease[d].at = e.at
        BY <2>0, <2>2, <3>1, CoveredIdle
      <3>3. On(lease', p, a) \in SUBSET {c}
        BY <1>7, <3>1, <3>2 DEF On
      <3>4. Off(lease', p, a) \in SUBSET On(lease, p, e.at)
        BY <1>5, <1>7, <3>2 DEF On, Off, Uses
      <3>5. Cardinality(On(lease', p, a)) <= 1
        <4>1. IsFiniteSet({c}) /\ Cardinality({c}) = 1
          BY Zenon, FS_Singleton
        <4> QED
          BY Zenon, <3>3, <4>1, FS_Subset
      <3>6. Cardinality(Off(lease', p, a)) <= Cardinality(On(lease, p, e.at))
        BY Zenon, <3>4, LeasesFinite, FS_Subset
      <3>7. /\ Cardinality(On(lease', p, a)) \in Nat /\ Cardinality(On(lease, p, e.at)) \in Nat
            /\ Cardinality(Off(lease', p, a)) \in Nat /\ e.refcount \in Nat
        BY <1>0, LeasesFinite DEF Entry
      <3>8. e.refcount >= Cardinality(On(lease, p, e.at))
        BY <2>0, <2>2 DEF Covered
      <3>9. f.refcount >= Cardinality(On(lease', p, a)) /\ f.retired >= Cardinality(Off(lease', p, a))
        BY <1>4, <3>5, <3>6, <3>7, <3>8
      <3> QED
        BY Zenon, <1>4, <1>6, <2>2, <3>9 DEF Covered
    <2> QED
      BY <2>1, <2>2
  <1> QED
    BY Zenon, <1>10, <1>11, <1>12, <1>13, <1>14 DEF LinksInv

\* The connection acquire() waited for is open.
LEMMA ConnectedKeeps ==
  ASSUME LinksInv, Connected
  PROVE  LinksInv'
PROOF
  <1>1. busy # NoOne /\ busy \in Acquisition
    BY DEF LinksInv, Types, Connected
  <1>2. /\ busy.peer \in Peers /\ busy.at \in Addresses /\ busy.table \in Tables
        /\ busy.who \in Callers
    BY <1>1 DEF Acquisition
  <1>3. \/ pool[busy.peer].table = "none" /\ Cardinality(In(busy.table)) < Limit(busy.table)
        \/ /\ pool[busy.peer].table = busy.table /\ pool[busy.peer].at # busy.at
           /\ pool[busy.peer].retired = 0
    BY <1>1 DEF LinksInv, Reserved
  <1> QED
    BY Zenon, <1>2, <1>3, InstallKeeps DEF Connected

-----------------------------------------------------------------------------
\* release(): the entry after a lease ended.
LEMMA ReturnedFacts ==
  ASSUME NEW l, NEW m, NEW p, NEW e \in Entry, NEW c \in Callers, Uses(l[c], p),
         Covered(l, p, e), m = [l EXCEPT ![c] = NoLease], l \in [Callers -> Lease]
  PROVE  LET f == Returned(e, l[c].at)
         IN /\ f \in Entry /\ Covered(m, p, f)
            /\ \/ f = NoPeer /\ e.table # "permanent"
               \/ f.table = e.table /\ f.at = e.at
PROOF
  <1> DEFINE a == l[c].at
             left == IF a = e.at THEN [e EXCEPT !.refcount = @ - 1]
                     ELSE [e EXCEPT !.retired = @ - 1]
  <1>0. /\ e.refcount \in Nat /\ e.retired \in Nat
        /\ Cardinality(On(l, p, e.at)) \in Nat /\ Cardinality(Off(l, p, e.at)) \in Nat
    BY LeasesFinite DEF Entry
  <1>1. \A d \in Callers : m[d] = IF d = c THEN NoLease ELSE l[d]
    OBVIOUS
  <1>2. ~Uses(NoLease, p)
    BY DEF Uses, NoLease
  <1>3. /\ left \in Entry /\ left.table = e.table /\ left.at = e.at
        /\ Covered(m, p, left)
    <2>1. CASE a = e.at
      <3>1. c \in On(l, p, e.at)
        BY <2>1 DEF On
      <3>2. On(m, p, e.at) = On(l, p, e.at) \ {c} /\ Off(m, p, e.at) = Off(l, p, e.at)
        BY <1>1, <1>2, <2>1 DEF On, Off
      <3>3. Cardinality(On(m, p, e.at)) = Cardinality(On(l, p, e.at)) - 1
        <4>1. IsFiniteSet(On(l, p, e.at))
          BY LeasesFinite
        <4>2. Cardinality(On(l, p, e.at) \ {c}) = Cardinality(On(l, p, e.at)) - 1
          BY Zenon, <3>1, <4>1, FS_RemoveElement
        <4> QED
          BY Zenon, <3>2, <4>2
      <3>4. Cardinality(On(m, p, e.at)) \in Nat
        BY LeasesFinite
      <3>5. e.refcount >= Cardinality(On(l, p, e.at)) /\ e.retired >= Cardinality(Off(l, p, e.at))
        BY DEF Covered
      <3>6. /\ e.refcount - 1 \in Nat
            /\ e.refcount - 1 >= Cardinality(On(m, p, e.at))
        BY <1>0, <3>3, <3>4, <3>5
      <3>7. /\ left \in Entry /\ left.table = e.table /\ left.at = e.at
            /\ left.refcount = e.refcount - 1 /\ left.retired = e.retired
        BY <2>1, <3>6 DEF Entry
      <3> HIDE DEF left
      <3> QED
        BY Zenon, <3>2, <3>5, <3>6, <3>7 DEF Covered
    <2>2. CASE a # e.at
      <3>1. c \in Off(l, p, e.at)
        BY <2>2 DEF Off
      <3>2. Off(m, p, e.at) = Off(l, p, e.at) \ {c} /\ On(m, p, e.at) = On(l, p, e.at)
        BY <1>1, <1>2, <2>2 DEF On, Off
      <3>3. Cardinality(Off(m, p, e.at)) = Cardinality(Off(l, p, e.at)) - 1
        <4>1. IsFiniteSet(Off(l, p, e.at))
          BY LeasesFinite
        <4>2. Cardinality(Off(l, p, e.at) \ {c}) = Cardinality(Off(l, p, e.at)) - 1
          BY Zenon, <3>1, <4>1, FS_RemoveElement
        <4> QED
          BY Zenon, <3>2, <4>2
      <3>4. Cardinality(Off(m, p, e.at)) \in Nat
        BY LeasesFinite
      <3>5. e.refcount >= Cardinality(On(l, p, e.at)) /\ e.retired >= Cardinality(Off(l, p, e.at))
        BY DEF Covered
      <3>6. /\ e.retired - 1 \in Nat
            /\ e.retired - 1 >= Cardinality(Off(m, p, e.at))
        BY <1>0, <3>3, <3>4, <3>5
      <3>7. /\ left \in Entry /\ left.table = e.table /\ left.at = e.at
            /\ left.retired = e.retired - 1 /\ left.refcount = e.refcount
        BY <2>2, <3>6 DEF Entry
      <3> HIDE DEF left
      <3> QED
        BY Zenon, <3>2, <3>5, <3>6, <3>7 DEF Covered
    <2> QED
      BY <2>1, <2>2
  <1>4. Returned(e, a) = IF left.table # "permanent" /\ left.refcount = 0 /\ left.retired = 0
                         THEN NoPeer ELSE left
    BY DEF Returned
  <1> HIDE DEF left
  <1>5. CASE left.table # "permanent" /\ left.refcount = 0 /\ left.retired = 0
    <2>1. Shrinks(m, m, p)
      BY DEF Shrinks
    <2>2. NoPeer \in Entry /\ Covered(m, p, NoPeer)
      BY <1>3, <1>5, <2>1, CoveredRemoved
    <2> QED
      BY <1>3, <1>4, <1>5, <2>2
  <1>6. CASE ~(left.table # "permanent" /\ left.refcount = 0 /\ left.retired = 0)
    BY <1>3, <1>4, <1>6
  <1> QED
    BY <1>5, <1>6

\* release(), of a current or of a retired lease.
LEMMA ReleaseKeeps ==
  ASSUME LinksInv, NEW c \in Callers, release(c)
  PROVE  LinksInv'
PROOF
  <1> DEFINE p == lease[c].peer
             e == pool[p]
             f == Returned(e, lease[c].at)
  <1>0. /\ Types /\ pool \in [Peers -> Entry] /\ Leasing(lease) /\ lease \in [Callers -> Lease]
    BY DEF LinksInv, Types, Leasing
  <1>1. /\ lease[c].st = "held" /\ busy = NoOne
        /\ pool' = [pool EXCEPT ![p] = f]
        /\ lease' = [lease EXCEPT ![c] = NoLease]
        /\ UNCHANGED <<addr, lru, busy, dark, faults>>
    BY DEF release
  <1>2. p \in Peers /\ e \in Entry /\ Uses(lease[c], p) /\ Covered(lease, p, e)
    BY <1>0, <1>1 DEF Leasing, Uses, LinksInv
  <1>3. /\ f \in Entry /\ Covered(lease', p, f)
        /\ \/ f = NoPeer /\ e.table # "permanent"
           \/ f.table = e.table /\ f.at = e.at
    BY Zenon, <1>0, <1>1, <1>2, ReturnedFacts
  <1>4. Leasing(lease') /\ \A q : Shrinks(lease, lease', q)
    BY Zenon, <1>0, <1>1, LeaseEnds
  <1> HIDE DEF f
  <1>5. /\ pool' \in [Peers -> Entry]
        /\ \A q \in Peers : pool'[q] = IF q = p THEN f ELSE pool[q]
    BY Zenon, <1>0, <1>1, <1>3
  <1>6. Types'
    BY <1>0, <1>1, <1>4, <1>5 DEF Types
  <1>7. NoPeer.table = "none" /\ NoPeer.refcount = 0 /\ NoPeer.retired = 0 /\ NoPeer.at = 0
    BY DEF NoPeer
  <1>8. \A t \in Tables : In(t)' \in SUBSET In(t)
    BY <1>3, <1>5, <1>7 DEF In, Tables
  <1>9. In("permanent")' = In("permanent")
    BY <1>3, <1>5, <1>7 DEF In
  <1>10. Sizes'
    <2>1. ASSUME NEW t \in Tables PROVE Cardinality(In(t)') <= Limit(t)
      <3>1. Cardinality(In(t)') <= Cardinality(In(t)) /\ IsFiniteSet(In(t)')
        BY <1>8, TablesFinite, FS_Subset
      <3>2. Cardinality(In(t)') \in Nat /\ Cardinality(In(t)) \in Nat
        BY <3>1, TablesFinite, FS_CardinalityType
      <3>3. Cardinality(In(t)) <= Limit(t) /\ Limit(t) \in Nat
        BY LinksAssumption DEF LinksInv, Sizes, Limit
      <3> QED
        BY <3>1, <3>2, <3>3
    <2> QED
      BY Zenon, <2>1 DEF Sizes, Limit
  <1>11. LruListsPermanents'
    BY <1>1, <1>9 DEF LinksInv, LruListsPermanents
  <1>12. Absent' /\ Reserved'
    <2>1. Reserved'
      BY <1>1 DEF Reserved
    <2>2. e.table # "none"
      <3>1. e.table = "none" => e.refcount = 0 /\ e.retired = 0
        BY <1>2 DEF LinksInv, Absent
      <3> QED
        BY <1>2, <3>1, CoveredIdle
    <2>3. Absent'
      BY <1>3, <1>5, <1>7, <2>2 DEF LinksInv, Absent
    <2> QED
      BY <2>1, <2>3
  <1>13. ASSUME NEW q \in Peers PROVE Covered(lease', q, pool'[q])
    <2>1. CASE q = p
      BY <1>3, <1>5, <2>1
    <2>2. CASE q # p
      <3>1. pool'[q] = pool[q] /\ pool[q] \in Entry /\ Covered(lease, q, pool[q])
        BY <1>0, <1>5, <2>2 DEF LinksInv
      <3> QED
        BY <1>4, <3>1, CoveredShrinks DEF Same
    <2> QED
      BY <2>1, <2>2
  <1> QED
    BY <1>6, <1>10, <1>11, <1>12, <1>13 DEF LinksInv

-----------------------------------------------------------------------------
\* The reaper.

\* An enumeration of a finite set lists each of its elements once.
LEMMA EnumerationFacts ==
  ASSUME NEW S \in SUBSET Peers, NEW s \in Injection(1 .. Cardinality(S), S)
  PROVE  s \in Seq(Peers) /\ Range(s) = S /\ IsInjective(s)
PROOF
  <1> DEFINE n == Cardinality(S)
  <1>1. IsFiniteSet(S) /\ n \in Nat
    BY LinksAssumption, FS_Subset, FS_CardinalityType
  <1>2. s \in [1 .. n -> S] /\ IsInjective(s)
    BY DEF Injection
  <1> HIDE DEF n
  <1>3. DOMAIN s = 1 .. n
    BY <1>2
  <1>4. s \in Injection(1 .. n, S)
    BY DEF n
  <1>5. Cardinality(1 .. n) = n
    BY <1>1, FS_Interval
  <1>6. s \in Surjection(1 .. n, S)
    BY Zenon, <1>1, <1>4, <1>5, FS_Injection DEF n
  <1>7. Range(s) = S
    <2>1. \A x \in S : \E i \in 1 .. n : s[i] = x
      BY <1>6 DEF Surjection
    <2> QED
      BY <1>2, <1>3, <2>1 DEF Range
  <1>8. s \in Seq(Peers)
    <2>1. s \in [1 .. n -> Peers]
      BY <1>2
    <2> QED
      BY <1>1, <2>1, SeqDef
  <1> QED
    BY <1>2, <1>7, <1>8

\* A sequence followed by another that shares no element with it.
LEMMA ConcatFacts ==
  ASSUME NEW s \in Seq(Peers), NEW t \in Seq(Peers)
  PROVE  /\ s \o t \in Seq(Peers)
         /\ Range(s \o t) = Range(s) \cup Range(t)
         /\ IsInjective(s) /\ IsInjective(t) /\ Range(s) \cap Range(t) = {}
              => IsInjective(s \o t)
PROOF
  <1> DEFINE u == s \o t
             n == Len(s)
             k == Len(t)
  <1>1. /\ u \in Seq(Peers) /\ n \in Nat /\ k \in Nat
        /\ DOMAIN s = 1 .. n /\ DOMAIN t = 1 .. k /\ DOMAIN u = 1 .. n + k
        /\ \A i \in 1 .. n + k : u[i] = IF i <= n THEN s[i] ELSE t[i - n]
    <2>1. /\ Len(u) = n + k /\ u \in Seq(Peers)
          /\ \A i \in 1 .. n + k : u[i] = IF i <= n THEN s[i] ELSE t[i - n]
      BY Zenon, ConcatProperties
    <2>2. n \in Nat /\ k \in Nat /\ DOMAIN s = 1 .. n /\ DOMAIN t = 1 .. k
      BY Zenon, LenProperties
    <2>3. DOMAIN u = 1 .. Len(u)
      BY Zenon, <2>1, LenProperties
    <2> QED
      BY Zenon, <2>1, <2>2, <2>3
  <1> HIDE DEF u, n, k
  <1>2. /\ \A i \in 1 .. n : i \in 1 .. n + k /\ u[i] = s[i]
        /\ \A i \in 1 .. k : i + n \in 1 .. n + k /\ u[i + n] = t[i]
        /\ \A i \in 1 .. n + k : i \notin 1 .. n => i - n \in 1 .. k /\ u[i] = t[i - n]
    BY <1>1
  <1>3. Range(u) = Range(s) \cup Range(t)
    <2>1. \A i \in 1 .. n + k : u[i] \in Range(s) \cup Range(t)
      BY Zenon, <1>1, <1>2 DEF Range
    <2>2. \A i \in 1 .. n : s[i] \in Range(u)
      BY Zenon, <1>1, <1>2 DEF Range
    <2>3. \A i \in 1 .. k : t[i] \in Range(u)
      BY Zenon, <1>1, <1>2 DEF Range
    <2> QED
      BY Zenon, <1>1, <2>1, <2>2, <2>3 DEF Range
  <1>4. ASSUME IsInjective(s), IsInjective(t), Range(s) \cap Range(t) = {}
        PROVE  IsInjective(u)
    <2>1. \A i \in 1 .. n, j \in 1 .. k : s[i] # t[j]
      BY Zenon, <1>1, <1>4 DEF Range
    <2>2. ASSUME NEW i \in 1 .. n + k, NEW j \in 1 .. n + k, u[i] = u[j] PROVE i = j
      <3>1. CASE i \in 1 .. n /\ j \in 1 .. n
        BY <1>1, <1>2, <1>4, <2>2, <3>1 DEF IsInjective
      <3>2. CASE i \notin 1 .. n /\ j \notin 1 .. n
        <4>1. i - n \in 1 .. k /\ j - n \in 1 .. k /\ t[i - n] = t[j - n]
          BY <1>2, <2>2, <3>2
        <4>2. i - n = j - n
          BY Zenon, <1>1, <1>4, <4>1 DEF IsInjective
        <4> QED
          BY <1>1, <4>2
      <3> QED
        BY <1>2, <2>1, <2>2, <3>1, <3>2
    <2> QED
      BY <1>1, <2>2 DEF IsInjective
  <1> QED
    BY <1>1, <1>3, <1>4 DEF u

\* The reaper removes the expired entries and promotes the moved ones.
LEMMA ReapKeeps ==
  ASSUME LinksInv, busy = NoOne, NEW expired \in SUBSET _remove_expired,
         NEW moved \in _try_promote_overflow(expired), NEW promoted \in Injection(1 .. Cardinality(moved), moved),
         pool' = [p \in Peers |-> CASE p \in expired -> NoPeer
                                    [] p \in moved -> [pool[p] EXCEPT !.table = "permanent"]
                                    [] OTHER -> pool[p]],
         lru' = Promoted(promoted, Without(lru, expired)),
         UNCHANGED <<addr, busy, lease, dark, faults>>
  PROVE  LinksInv'
PROOF
  <1>0. /\ Types /\ pool \in [Peers -> Entry] /\ lru \in Seq(Peers)
        /\ Range(lru) = In("permanent") /\ IsInjective(lru)
    BY DEF LinksInv, Types, LruListsPermanents
  <1>1. moved \in SUBSET (In("overflow") \ expired)
    BY DEF _try_promote_overflow
  <1>3. /\ expired \in SUBSET Peers /\ moved \in SUBSET Peers /\ expired \cap moved = {}
        /\ \A p \in expired : Idle(p)
        /\ \A p \in moved : pool[p].table = "overflow"
    BY Zenon, <1>1 DEF _remove_expired, In
  <1>4. NoPeer \in Entry /\ NoPeer.table = "none" /\ NoPeer.refcount = 0
        /\ NoPeer.retired = 0 /\ NoPeer.at = 0
    BY LinksAssumption DEF NoPeer, NoDetector, Entry, Detector
  <1>5. ASSUME NEW p \in Peers
        PROVE  /\ pool'[p] \in Entry
               /\ p \in expired => pool'[p] = NoPeer
               /\ p \notin expired => /\ pool'[p].refcount = pool[p].refcount
                                      /\ pool'[p].retired = pool[p].retired
                                      /\ pool'[p].at = pool[p].at
               /\ p \in moved => pool'[p].table = "permanent"
               /\ p \notin expired /\ p \notin moved => pool'[p].table = pool[p].table
    <2>0. pool[p] \in Entry
      BY <1>0
    <2>1. CASE p \in expired
      BY <1>3, <1>4, <2>1
    <2>2. CASE p \in moved
      <3>1. pool'[p] = [pool[p] EXCEPT !.table = "permanent"] /\ p \notin expired
        BY <1>3, <2>2
      <3> QED
        BY <2>0, <2>2, <3>1 DEF Entry, Tables
    <2>3. CASE p \notin expired /\ p \notin moved
      BY <2>0, <2>3
    <2> QED
      BY <2>1, <2>2, <2>3
  <1>6. pool' \in [Peers -> Entry]
    BY <1>5
  <1>7. /\ In("permanent")' = (In("permanent") \ expired) \cup moved
        /\ In("overflow")' \in SUBSET In("overflow")
        /\ In("priority")' \in SUBSET In("priority")
    BY <1>3, <1>4, <1>5 DEF In
  <1>8. lru' \in Seq(Peers) /\ LruListsPermanents'
    <2>1. /\ Without(lru, expired) \in Seq(Peers) /\ IsInjective(Without(lru, expired))
          /\ Range(Without(lru, expired)) = In("permanent") \ expired
      BY <1>0, WithoutFacts
    <2>2. promoted \in Seq(Peers) /\ Range(promoted) = moved /\ IsInjective(promoted)
      BY <1>3, EnumerationFacts
    <2>3. (In("permanent") \ expired) \cap moved = {}
      BY <1>3 DEF In
    <2>4. lru' = Without(lru, expired) \o promoted
      BY DEF Promoted
    <2>5. /\ lru' \in Seq(Peers) /\ IsInjective(lru')
          /\ Range(lru') = (In("permanent") \ expired) \cup moved
      BY Zenon, <2>1, <2>2, <2>3, <2>4, ConcatFacts
    <2> QED
      BY <1>7, <2>5 DEF LruListsPermanents
  <1>9. Types'
    BY <1>0, <1>6, <1>8 DEF Types
  <1>10. Sizes'
    <2>1. Cardinality(In("permanent")') <= MaxSize
      <3> DEFINE kept == In("permanent") \ expired
                 k == Cardinality(kept)
                 m == Cardinality(moved)
                 w == Cardinality(In("overflow") \ expired)
      <3>1. /\ IsFiniteSet(kept) /\ k <= Cardinality(In("permanent"))
        BY TablesFinite, FS_Subset
      <3>2. /\ IsFiniteSet(moved) /\ IsFiniteSet(In("overflow") \ expired)
        BY <1>3, TablesFinite, LinksAssumption, FS_Subset, FS_Difference
      <3>3. k \in Nat /\ m \in Nat /\ w \in Nat
        BY <3>1, <3>2, FS_CardinalityType
      <3>4. Cardinality(In("permanent")) <= MaxSize /\ Cardinality(In("permanent")) \in Nat
        BY TablesFinite DEF LinksInv, Sizes, Tables, Limit
      <3>5. m = IF w < MaxSize - k THEN w ELSE MaxSize - k
        BY DEF _try_promote_overflow
      <3>6. kept \cap moved = {}
        BY <1>3 DEF In
      <3>7. Cardinality(kept \cup moved) = k + m - Cardinality(kept \cap moved)
        BY <3>1, <3>2, FS_Union
      <3>8. Cardinality(kept \cap moved) = 0
        BY Zenon, <3>6, FS_EmptySet
      <3>9. Cardinality(In("permanent")') = Cardinality(kept \cup moved)
        BY Zenon, <1>7
      <3> HIDE DEF kept, k, m, w
      <3> QED
        BY <3>3, <3>4, <3>5, <3>7, <3>8, <3>9, LinksAssumption
    <2>2. ASSUME NEW t \in {"overflow", "priority"} PROVE Cardinality(In(t)') <= Limit(t)
      <3>1. Cardinality(In(t)') <= Cardinality(In(t)) /\ IsFiniteSet(In(t)')
        BY <1>7, TablesFinite, FS_Subset
      <3>2. Cardinality(In(t)') \in Nat /\ Cardinality(In(t)) \in Nat
        BY <3>1, TablesFinite, FS_CardinalityType
      <3>3. Cardinality(In(t)) <= Limit(t) /\ Limit(t) \in Nat
        BY LinksAssumption DEF LinksInv, Sizes, Limit, Tables
      <3> QED
        BY <3>1, <3>2, <3>3
    <2> QED
      BY <2>1, <2>2 DEF Sizes, Limit, Tables
  <1>11. Absent' /\ Reserved'
    BY <1>4, <1>5 DEF LinksInv, Absent, Reserved
  <1>12. ASSUME NEW p \in Peers PROVE Covered(lease', p, pool'[p])
    <2>0. pool[p] \in Entry /\ Covered(lease, p, pool[p]) /\ Shrinks(lease, lease, p)
      BY <1>0 DEF LinksInv, Shrinks
    <2>1. CASE p \in expired
      BY <1>3, <1>5, <2>0, <2>1, CoveredRemoved DEF Idle
    <2>2. CASE p \notin expired
      BY <1>5, <2>0, <2>2 DEF Covered
    <2> QED
      BY <2>1, <2>2
  <1> QED
    BY <1>8, <1>9, <1>10, <1>11, <1>12 DEF LinksInv

\* A pass of the reaper.
LEMMA ReaperKeeps ==
  ASSUME LinksInv, _idle_reaper
  PROVE  LinksInv'
PROOF
  BY Zenon, ReapKeeps DEF _idle_reaper

-----------------------------------------------------------------------------

\* The empty pool.
LEMMA InitLinks == Init => LinksInv
PROOF
  <1> SUFFICES ASSUME Init PROVE LinksInv
    OBVIOUS
  <1>1. NoPeer \in Entry /\ NoPeer.table = "none" /\ NoPeer.refcount = 0
        /\ NoPeer.retired = 0 /\ NoPeer.at = 0
    BY LinksAssumption DEF NoPeer, NoDetector, Entry, Detector
  <1>2. NoLease \in Lease /\ NoLease.st = "none"
    BY LinksAssumption DEF NoLease, Lease
  <1>3. Types
    BY <1>1, <1>2, LinksAssumption DEF Init, Types, Leasing, Addresses
  <1>4. \A t \in Tables : In(t) = {}
    BY <1>1 DEF Init, In, Tables
  <1>5. Sizes
    BY <1>4, FS_EmptySet, LinksAssumption DEF Sizes, Limit
  <1>6. LruListsPermanents
    BY <1>4 DEF Init, LruListsPermanents, Range, IsInjective, Tables
  <1>7. Absent /\ Reserved
    BY <1>1 DEF Init, Absent, Reserved
  <1>8. ASSUME NEW p \in Peers PROVE Covered(lease, p, pool[p])
    <2>1. \A c \in Callers : ~Uses(lease[c], p)
      BY <1>2 DEF Init, Uses
    <2>2. pool[p] \in Entry
      BY <1>1 DEF Init
    <2> QED
      BY <2>1, <2>2, CoveredUnused
  <1> QED
    BY <1>3, <1>5, <1>6, <1>7, <1>8 DEF LinksInv

\* Every step keeps the invariant.
LEMMA NextKeeps == LinksInv /\ [Next]_vars => LinksInv'
PROOF
  <1> SUFFICES ASSUME LinksInv, [Next]_vars PROVE LinksInv'
    OBVIOUS
  <1>1. ASSUME NEW c \in Callers, acquire(c) PROVE LinksInv'
    BY Zenon, <1>1, ReuseKeeps, RefreshKeeps, AcquireKeeps DEF acquire
  <1>2. ASSUME NEW c \in Callers, Connection(c) \/ release(c) \/ CancelRelease(c) PROVE LinksInv'
    BY Zenon, <1>2, ClientKeeps, ReleaseKeeps, OutsideKeeps
  <1>3. CASE Connected \/ ConnectFails \/ _idle_reaper
    BY Zenon, <1>3, ConnectedKeeps, OutsideKeeps, ReaperKeeps
  <1>4. ASSUME NEW p \in Peers, _probe_peer(p) \/ _probe_once(p) \/ Move(p) PROVE LinksInv'
    BY Zenon, <1>4, ProbeKeeps, OutsideKeeps
  <1>5. ASSUME NEW p \in Peers, NEW a \in Addresses,
               _read_loop(<<p, a>>) \/ GoDark(<<p, a>>) \/ Answers(<<p, a>>)
        PROVE  LinksInv'
    BY Zenon, <1>5, TeardownKeeps, OutsideKeeps DEF _read_loop
  <1>6. CASE UNCHANGED vars
    <2>1. UNCHANGED <<addr, pool, lru, busy, lease, dark, faults>>
      BY <1>6 DEF vars
    <2>2. Types' /\ \A p \in Peers : Same(pool[p], pool'[p]) /\ Shrinks(lease, lease', p)
      BY <2>1 DEF LinksInv, Types, Same, Shrinks
    <2> QED
      BY <2>1, <2>2, QuietStep
  <1> QED
    BY Zenon, <1>1, <1>2, <1>3, <1>4, <1>5, <1>6 DEF Next

\* What makes the pool correct, for any peers, callers and sizes: see LinksInv.
THEOREM LinksTheorem == Spec => []LinksInv
PROOF
  BY InitLinks, NextKeeps, PTL DEF Spec

\* No table of the pool outgrows its size, whatever is promoted, evicted or
\* refreshed (pool.py _acquire_locked, _try_promote_overflow).
THEOREM LimitsTheorem == Spec => []TypeOK
PROOF
  <1>1. LinksInv => TypeOK
    <2> SUFFICES ASSUME LinksInv PROVE TypeOK
      OBVIOUS
    <2>1. \A p \in Peers : /\ pool[p].table \in {"none", "permanent", "overflow", "priority"}
                           /\ pool[p].refcount \in Nat /\ pool[p].retired \in Nat
                           /\ pool[p].fd.seen \in 0 .. MinSamples
                           /\ pool[p].fd.probe \in 0 .. LastAddress
      BY DEF LinksInv, Types, Entry, Detector, Tables
    <2>2. \A c \in Callers : lease[c].st \in {"none", "connecting", "held", "waiting"}
      BY DEF LinksInv, Types, Leasing, Lease
    <2>3. /\ Cardinality(In("permanent")) <= MaxSize /\ Cardinality(In("overflow")) <= MaxOverflow
          /\ Cardinality(In("priority")) <= PrioritySize
      BY DEF LinksInv, Sizes, Tables, Limit
    <2>4. dark \subseteq Peers \X Addresses
      BY DEF LinksInv, Types
    <2> QED
      BY <2>1, <2>2, <2>3, <2>4 DEF TypeOK
  <1> QED
    BY <1>1, LinksTheorem, PTL

\* The pool closes no client under its user, whatever is evicted, refreshed,
\* reaped or released around it (pool.py release, _release_retired).
THEOREM LeasesTheorem == Spec => []LeasesCovered
PROOF
  <1>1. LinksInv => LeasesCovered
    <2> SUFFICES ASSUME LinksInv, NEW p \in Peers
                 PROVE  /\ pool[p].refcount >= Cardinality(Leases(p, pool[p].at))
                        /\ pool[p].retired >= Cardinality(UNION {Leases(p, a) :
                                                            a \in Addresses \ {pool[p].at}})
      BY DEF LeasesCovered
    <2>1. Leases(p, pool[p].at) = On(lease, p, pool[p].at)
      BY DEF Leases, On, Uses
    <2>2. UNION {Leases(p, a) : a \in Addresses \ {pool[p].at}} = Off(lease, p, pool[p].at)
      <3>1. \A c \in Callers : lease[c].st \in {"held", "waiting"} => lease[c].at \in Addresses
        BY DEF LinksInv, Types, Leasing
      <3> QED
        BY <3>1 DEF Leases, Off, Uses
    <2>3. Covered(lease, p, pool[p])
      BY DEF LinksInv
    <2> QED
      BY Zenon, <2>1, <2>2, <2>3 DEF Covered
  <1> QED
    BY <1>1, LinksTheorem, PTL

\* The eviction order lists exactly the permanent peers, each once (pool.py
\* _lru, _evict_permanent, _try_promote_overflow).
THEOREM LruTheorem == Spec => []LruListsPermanents
PROOF
  <1>1. LinksInv => LruListsPermanents
    BY DEF LinksInv
  <1> QED
    BY <1>1, LinksTheorem, PTL
-----------------------------------------------------------------------------
\* The entry of a peer stays leased, or is in no table beyond the permanent one.
Kept(e) == e.table \in {"overflow", "priority"} => ~(e.refcount = 0 /\ e.retired = 0)

\* The steps that move no entry between tables and end no lease.
LEMMA SameKept ==
  ASSUME NEW e, NEW f, Kept(e), Same(e, f)
  PROVE  Kept(f)
PROOF
  BY DEF Kept, Same

\* An entry after the end of a lease.
LEMMA ReturnedIsKept ==
  ASSUME NEW e \in Entry, NEW a
  PROVE  Kept(Returned(e, a))
PROOF
  <1> DEFINE left == IF a = e.at THEN [e EXCEPT !.refcount = @ - 1]
                     ELSE [e EXCEPT !.retired = @ - 1]
  <1>1. Returned(e, a) = IF left.table # "permanent" /\ left.refcount = 0 /\ left.retired = 0
                         THEN NoPeer ELSE left
    BY DEF Returned
  <1>2. Kept(NoPeer)
    BY DEF Kept, NoPeer
  <1> HIDE DEF left
  <1> QED
    BY <1>1, <1>2 DEF Kept

\* A change of one entry.
LEMMA OneKept ==
  ASSUME LinksInv, TemporaryLeased, NEW p \in Peers, NEW f, Kept(f),
         pool' = [pool EXCEPT ![p] = f]
  PROVE  TemporaryLeased'
PROOF
  <1>1. \A q \in Peers : pool'[q] = IF q = p THEN f ELSE pool[q]
    BY DEF LinksInv, Types
  <1> QED
    BY <1>1 DEF TemporaryLeased, Idle, Kept

\* A failure or a probe changes a detector only.
LEMMA DetectorKept ==
  ASSUME LinksInv, TemporaryLeased, NEW p \in Peers, NEW d \in Detector, NEW f,
         f = [pool[p] EXCEPT !.fd = d], pool' = [pool EXCEPT ![p] = f]
  PROVE  TemporaryLeased'
PROOF
  <1>1. pool[p] \in Entry
    BY DEF LinksInv, Types
  <1>2. Kept(pool[p])
    BY DEF TemporaryLeased, Idle, Kept
  <1>3. Same(pool[p], f)
    BY <1>1 DEF Entry, Same
  <1> QED
    BY <1>2, <1>3, SameKept, OneKept

\* Requests that fail on the client of address a.
LEMMA FailureKept ==
  ASSUME LinksInv, TemporaryLeased, NEW p \in Peers, NEW a \in Addresses,
         \/ pool' = [pool EXCEPT ![p] = fd_run(@, a)]
         \/ pool' = [pool EXCEPT ![p] = Failed(@, a)]
  PROVE  TemporaryLeased'
PROOF
  <1>1. pool[p] \in Entry
    BY DEF LinksInv, Types
  <1>2. PICK d \in Detector : fd_run(pool[p], a) = [pool[p] EXCEPT !.fd = d]
    BY <1>1, RunDetector
  <1>3. PICK b \in Detector : Failed(pool[p], a) = [pool[p] EXCEPT !.fd = b]
    BY <1>1, FailedDetector
  <1>4. CASE pool' = [pool EXCEPT ![p] = fd_run(@, a)]
    BY Zenon, <1>2, <1>4, DetectorKept
  <1>5. CASE pool' = [pool EXCEPT ![p] = Failed(@, a)]
    BY Zenon, <1>3, <1>5, DetectorKept
  <1> QED
    BY <1>4, <1>5

\* acquire(): one more lease, a removed entry, or a connection to open.
LEMMA AcquireKept ==
  ASSUME LinksInv, TemporaryLeased, NEW c \in Callers, acquire(c)
  PROVE  TemporaryLeased'
PROOF
  <1>0. pool \in [Peers -> Entry]
    BY DEF LinksInv, Types
  <1>1. ASSUME NEW p \in Peers, Reuse(c, p) PROVE TemporaryLeased'
    <2> DEFINE f == [pool[p] EXCEPT !.refcount = @ + 1]
    <2>1. pool' = [pool EXCEPT ![p] = f]
      BY <1>1 DEF Reuse
    <2>2. Kept(f)
      BY <1>0 DEF Entry, Kept
    <2> HIDE DEF f
    <2> QED
      BY <2>1, <2>2, OneKept
  <1>2. ASSUME pool' = pool PROVE TemporaryLeased'
    BY <1>2 DEF TemporaryLeased, Idle
  <1>3. ASSUME NEW v, pool' = [pool EXCEPT ![v] = NoPeer] PROVE TemporaryLeased'
    <2>1. \A q \in Peers : pool'[q] = NoPeer \/ pool'[q] = pool[q]
      BY <1>0, <1>3
    <2>2. NoPeer.table = "none"
      BY DEF NoPeer
    <2> QED
      BY <2>1, <2>2 DEF TemporaryLeased, Idle
  <1>4. ASSUME NEW p \in Peers, NEW priority \in BOOLEAN, _acquire_locked(c, p, priority)
        PROVE  pool' = pool \/ pool' = [pool EXCEPT ![Head(_idle_lru_peer)] = NoPeer]
    BY Zenon, <1>4 DEF _acquire_locked
  <1>5. ASSUME NEW p \in Peers, _may_refresh_peer(c, p) PROVE pool' = pool
    BY <1>5 DEF _may_refresh_peer
  <1> QED
    BY Zenon, <1>1, <1>2, <1>3, <1>4, <1>5 DEF acquire

\* The connection opened for a caller is leased by it.
LEMMA ConnectedKept ==
  ASSUME LinksInv, TemporaryLeased, Connected
  PROVE  TemporaryLeased'
PROOF
  <1> DEFINE f == [table |-> busy.table, at |-> busy.at, refcount |-> 1,
                   retired |-> pool[busy.peer].refcount, fd |-> pool[busy.peer].fd]
  <1>1. busy.peer \in Peers
    BY DEF LinksInv, Types, Connected, Acquisition
  <1>2. pool' = [pool EXCEPT ![busy.peer] = f]
    BY DEF Connected
  <1>3. Kept(f)
    BY DEF Kept
  <1> HIDE DEF f
  <1> QED
    BY <1>1, <1>2, <1>3, OneKept

\* The requests of a caller and the end of its lease.
LEMMA CallerKept ==
  ASSUME LinksInv, TemporaryLeased, NEW c \in Callers,
         Connection(c) \/ release(c) \/ CancelRelease(c)
  PROVE  TemporaryLeased'
PROOF
  <1> DEFINE l == lease[c]
  <1>1. l.st \in {"held", "waiting"} /\ l.peer \in Peers /\ l.at \in Addresses
    BY DEF LinksInv, Connection, request, _send, _route, ResponseTimeout, release,
           CancelRelease, Types, Leasing
  <1>2. CASE pool' = pool
    BY <1>2 DEF TemporaryLeased, Idle
  <1>3. CASE \/ pool' = [pool EXCEPT ![l.peer] = fd_run(@, l.at)]
             \/ pool' = [pool EXCEPT ![l.peer] = Failed(@, l.at)]
    BY Zenon, <1>1, <1>3, FailureKept
  <1>4. CASE release(c)
    <2>1. pool' = [pool EXCEPT ![l.peer] = Returned(pool[l.peer], l.at)]
      BY <1>4 DEF release
    <2>2. pool[l.peer] \in Entry
      BY <1>1 DEF LinksInv, Types
    <2> QED
      BY Zenon, <1>1, <2>1, <2>2, ReturnedIsKept, OneKept
  <1>5. CASE Connection(c) \/ CancelRelease(c)
    <2>1. \/ pool' = pool
          \/ pool' = [pool EXCEPT ![l.peer] = fd_run(@, l.at)]
          \/ pool' = [pool EXCEPT ![l.peer] = Failed(@, l.at)]
      BY <1>5 DEF Connection, request, _send, _route, ResponseTimeout, CancelRelease,
                  _teardown_reader
    <2> QED
      BY <2>1, <1>2, <1>3
  <1> QED
    BY <1>4, <1>5

\* A probe of the detector.
LEMMA ProbeKept ==
  ASSUME LinksInv, TemporaryLeased, NEW p \in Peers, _probe_peer(p) \/ _probe_once(p)
  PROVE  TemporaryLeased'
PROOF
  <1> DEFINE fd == pool[p].fd
             sent == [fd EXCEPT !.probe = fd.at]
             answered == IF has_observations(record(fd)) THEN reset(fd) ELSE record(fd)
  <1>1. fd \in Detector
    BY DEF LinksInv, Types, Entry
  <1>2. sent \in Detector /\ answered \in Detector
    <2>1. sent \in Detector
      BY <1>1 DEF Detector
    <2> QED
      BY Zenon, <1>1, <2>1, AnsweredDetector
  <1>3. \/ pool' = [pool EXCEPT ![p] = [pool[p] EXCEPT !.fd = sent]]
        \/ pool' = [pool EXCEPT ![p] = [pool[p] EXCEPT !.fd = answered]]
        \/ fd.probe # 0 /\ pool' = [pool EXCEPT ![p] = Failed(@, fd.probe)]
    BY DEF _probe_peer, _probe_once
  <1>4. fd.probe # 0 => fd.probe \in Addresses
    BY <1>1 DEF Detector, Addresses
  <1> HIDE DEF sent, answered
  <1> QED
    BY Zenon, <1>2, <1>3, <1>4, DetectorKept, FailureKept

\* A pass of the reaper.
LEMMA ReaperKept ==
  ASSUME LinksInv, TemporaryLeased, _idle_reaper
  PROVE  TemporaryLeased'
PROOF
  <1>1. PICK expired, moved :
          pool' = [p \in Peers |-> CASE p \in expired -> NoPeer
                                     [] p \in moved -> [pool[p] EXCEPT !.table = "permanent"]
                                     [] OTHER -> pool[p]]
    BY Zenon DEF _idle_reaper
  <1>2. ASSUME NEW p \in Peers
        PROVE  Kept(pool'[p])
    <2>1. pool[p] \in Entry /\ Kept(pool[p])
      BY DEF LinksInv, Types, TemporaryLeased, Idle, Kept
    <2>2. Kept(NoPeer)
      BY DEF Kept, NoPeer
    <2>3. Kept([pool[p] EXCEPT !.table = "permanent"])
      BY <2>1 DEF Kept, Entry
    <2>4. \/ pool'[p] = NoPeer
          \/ pool'[p] = [pool[p] EXCEPT !.table = "permanent"]
          \/ pool'[p] = pool[p]
      BY <1>1
    <2> QED
      BY Zenon, <2>1, <2>2, <2>3, <2>4
  <1> QED
    BY <1>2 DEF TemporaryLeased, Idle, Kept

\* A connection beyond the permanent ones lives no longer than its leases, those on
\* a previous address of the peer included (pool.py release, _release_retired).
THEOREM TemporaryTheorem == Spec => []TemporaryLeased
PROOF
  <1>1. Init => TemporaryLeased
    BY DEF Init, TemporaryLeased, NoPeer
  <1>2. LinksInv /\ TemporaryLeased /\ [Next]_vars => TemporaryLeased'
    <2> SUFFICES ASSUME LinksInv, TemporaryLeased, [Next]_vars PROVE TemporaryLeased'
      OBVIOUS
    <2>1. CASE pool' = pool
      BY <2>1 DEF TemporaryLeased, Idle
    <2>2. ASSUME NEW c \in Callers, acquire(c) \/ Connection(c) \/ release(c) \/ CancelRelease(c)
          PROVE  TemporaryLeased'
      BY Zenon, <2>2, AcquireKept, CallerKept
    <2>3. CASE Connected \/ ConnectFails \/ _idle_reaper
      BY <2>1, <2>3, ConnectedKept, ReaperKept DEF ConnectFails
    <2>4. ASSUME NEW p \in Peers, _probe_peer(p) \/ _probe_once(p) \/ Move(p)
          PROVE  TemporaryLeased'
      BY <2>1, <2>4, ProbeKept DEF Move
    <2>5. ASSUME NEW p \in Peers, NEW a \in Addresses,
                 _read_loop(<<p, a>>) \/ GoDark(<<p, a>>) \/ Answers(<<p, a>>)
          PROVE  TemporaryLeased'
      <3>1. pool' = pool \/ pool' = [pool EXCEPT ![p] = Failed(@, a)]
        BY <2>5 DEF _read_loop, _teardown_reader, GoDark, Answers
      <3> QED
        BY Zenon, <2>1, <3>1, FailureKept
    <2>6. CASE UNCHANGED vars
      BY <2>1, <2>6 DEF vars
    <2> QED
      BY Zenon, <2>2, <2>3, <2>4, <2>5, <2>6 DEF Next
  <1> QED
    BY <1>1, <1>2, LinksTheorem, PTL DEF Spec
=============================================================================
