------------------------- MODULE ObligationsProofs -------------------------
(***************************************************************************)
(* Machine-checked proofs about Obligations, for every value of its        *)
(* constants.                                                              *)
(***************************************************************************)
EXTENDS Obligations, FiniteSetTheorems, WellFoundedInduction, TLAPS

----------------------------------------------------------------------------
(* Facts about the data *)

\* What no timestamp exceeds is at least all that the timestamp is.
LEMMA NotBelow ==
    ASSUME NEW r \in Nat, NEW s \in Nat, NEW t \in Nat, r >= t, ~(r > s)
    PROVE  s >= t
    OBVIOUS

\* There are finitely many debts.
LEMMA FiniteDebts == IsFiniteSet(Debts)
<1> DEFINE D == (Targets \X Addrs) \X Ts
           f == [x \in D |-> [target |-> x[1][1], addr |-> x[1][2], ts |-> x[2]]]
<1>1. IsFiniteSet(Ts)
    BY ConstantsAssumption, FS_Interval DEF Ts
<1>2. IsFiniteSet(D)
    BY Zenon, <1>1, ConstantsAssumption, FS_Product
<1>3. \A d \in Debts : \E x \in D : f[x] = d
    <2> SUFFICES ASSUME NEW d \in Debts PROVE \E x \in D : f[x] = d
        OBVIOUS
    <2>1. <<<<d.target, d.addr>>, d.ts>> \in D
        BY DEF Debts
    <2>2. f[<<<<d.target, d.addr>>, d.ts>>] = d
        BY <2>1 DEF Debts
    <2> QED BY <2>1, <2>2
<1>4. f \in [D -> Debts]
    BY DEF Debts
<1>5. f \in Surjection(D, Debts)
    BY <1>3, <1>4 DEF Surjection
<1> QED
    BY <1>2, <1>5, FS_Surjection

\* Cardinalities of sets of debts are natural numbers.
LEMMA DebtSets ==
    ASSUME NEW S \in SUBSET Debts
    PROVE  /\ IsFiniteSet(S)
           /\ Cardinality(S) \in Nat
           /\ Cardinality(S) = 0 <=> S = {}
<1>1. IsFiniteSet(S)
    BY FiniteDebts, FS_Subset
<1>2. Cardinality(S) \in Nat
    BY <1>1, FS_CardinalityType
<1> QED
    BY <1>1, <1>2, FS_EmptySet

\* One of the versions of a stored address has the last LOGS key.
LEMMA LastKey ==
    ASSUME TypeOK, NEW a \in Addrs, versions[a] # {}
    PROVE  \E v \in versions[a] : Later(a, v) = {}
<1> DEFINE V == versions[a]
           size == {Cardinality(Later(a, v)) : v \in V}
           less == OpToRel(<, Nat)
<1>1. V \subseteq Ts /\ IsFiniteSet(V) /\ \A v \in V : Encoded[a][v] \in Nat
    <2>1. V \subseteq Ts /\ IsFiniteSet(Ts)
        BY ConstantsAssumption, FS_Interval DEF TypeOK, Ts
    <2> QED
        BY <2>1, ConstantsAssumption, FS_Subset
<1>2. \A v \in V : IsFiniteSet(Later(a, v)) /\ Cardinality(Later(a, v)) \in Nat
    <2>1. \A v \in V : Later(a, v) \subseteq V
        BY DEF Later
    <2> QED
        BY <1>1, <2>1, FS_Subset, FS_CardinalityType
<1>3. size \subseteq Nat /\ size # {}
    BY Zenon, <1>2
<1>4. PICK n \in size : \A k \in size : <<k, n>> \notin less
    <2> HIDE DEF size, less
    <2>1. IsWellFoundedOn(less, Nat)
        BY Zenon, NatLessThanWellFounded DEF less
    <2> QED
        BY Zenon, <1>3, <2>1, WFMin
<1>5. \A k \in size : ~(k < n)
    BY Zenon, <1>3, <1>4 DEF OpToRel
<1>6. PICK v \in V : n = Cardinality(Later(a, v))
    BY Zenon, <1>4
<1>7. ASSUME NEW w \in Later(a, v) PROVE FALSE
    <2>1. w \in V /\ Encoded[a][w] > Encoded[a][v]
        BY DEF Later
    <2>2. Later(a, w) \subseteq Later(a, v) /\ w \notin Later(a, w)
        BY <1>1, <2>1 DEF Later
    <2>3. Cardinality(Later(a, w)) <= Cardinality(Later(a, v))
          /\ Cardinality(Later(a, w)) # Cardinality(Later(a, v))
        BY <1>2, <1>7, <2>2, FS_Subset
    <2>4. ~(Cardinality(Later(a, w)) < Cardinality(Later(a, v)))
        BY Zenon, <1>5, <1>6, <2>1
    <2> QED
        BY <1>2, <2>1, <2>3, <2>4
<1> QED
    BY Zenon, <1>6, <1>7

\* What latest_records reads for a stored address is one of its versions.
LEMMA NewestType ==
    ASSUME TypeOK, NEW a \in Addrs, versions[a] # {}
    PROVE  Newest(a) \in versions[a] /\ Newest(a) \in 0..MaxTs
<1>1. MaxTs \in Nat /\ versions[a] \in SUBSET (1..MaxTs)
    BY ConstantsAssumption DEF TypeOK, Ts
<1>2. Newest(a) \in versions[a]
    BY LastKey DEF Newest
<1> QED
    BY <1>1, <1>2

\* What the assumptions say of the bounds.
LEMMA Bounds ==
    /\ NumGroups \in Nat /\ 1 \in 1..NumGroups
    /\ MaxTs \in Nat /\ MaxWrites \in Nat /\ MaxFaults \in Nat
    /\ 0 \in 0..MaxTs /\ 0 \in 0..MaxWrites /\ 0 \in 0..MaxFaults
BY ConstantsAssumption

----------------------------------------------------------------------------
(* Type correctness *)

\* What TypeOK needs besides: the worker holds a batch only while delivering
\* and a chunk only while pushing it, to one of the targets.
BatchOnlyInDelivery ==
    /\ pc \notin Delivering => batch = {}
    /\ pc \notin {"push", "forget"} => chunk = {}
    /\ pc \in {"pids", "push", "forget"} => target \in Targets

TypeInv == TypeOK /\ BatchOnlyInDelivery

LEMMA TypeInit == Init => TypeInv
<1> SUFFICES ASSUME Init PROVE TypeInv
    OBVIOUS
<1>1. TypeOK
    BY Zenon, Bounds DEF Init, TypeOK, NoRecords, PCs
<1>2. BatchOnlyInDelivery
    BY DEF Init, BatchOnlyInDelivery
<1> QED
    BY <1>1, <1>2 DEF TypeInv

LEMMA SettleType ==
    ASSUME TypeInv, settle
    PROVE  inflight' \in Nat /\ idle' \in BOOLEAN /\ batch' = {}
<1>1. Cardinality(batch) \in Nat
    BY DebtSets DEF TypeInv, TypeOK
<1>2. inflight \in Nat /\ idle \in BOOLEAN
    BY DEF TypeInv, TypeOK
<1>3. inflight' \in Nat
    BY <1>1, <1>2 DEF settle
<1>4. idle' \in BOOLEAN /\ batch' = {}
    BY Zenon, <1>2 DEF settle
<1> QED
    BY <1>3, <1>4

LEMMA AbandonType ==
    ASSUME TypeInv, Abandon
    PROVE  /\ inflight' \in Nat /\ idle' \in BOOLEAN
           /\ batch' = {} /\ owed' = {} /\ obsolete' = {} /\ chunk' = {}
           /\ records' \in [Addrs -> 0..MaxTs]
           /\ target' = NoTarget /\ processed' = FALSE
           /\ group' \in 1..NumGroups /\ after' \in Nat
           /\ pending' = FALSE /\ timed' = FALSE
<1>1. inflight' \in Nat /\ idle' \in BOOLEAN /\ batch' = {}
    <2>1. CASE pc \in Delivering
        BY <2>1, SettleType DEF Abandon
    <2>2. CASE pc \notin Delivering
        BY <2>2 DEF Abandon, TypeInv, TypeOK, BatchOnlyInDelivery
    <2> QED
        BY <2>1, <2>2
<1>2. records' \in [Addrs -> 0..MaxTs]
    BY Bounds DEF Abandon, LeaveDeliver, NoRecords
<1> QED
    BY <1>1, <1>2, Bounds DEF Abandon, LeaveDeliver, RewindScan

LEMMA ReloadType ==
    ASSUME TypeInv, NEW page \in SUBSET meta, ReloadPage(page)
    PROVE  /\ queue' \subseteq Debts
           /\ wake' \in BOOLEAN /\ idle' \in BOOLEAN /\ backlog' \in BOOLEAN
           /\ group' \in 1..NumGroups /\ after' \in Nat
           /\ pending' \in BOOLEAN /\ timed' \in BOOLEAN
           /\ pc' \in {"reload", "wait", "top"}
<1>1. /\ group \in 1..NumGroups /\ after \in Nat
      /\ page \subseteq Debts /\ queue \subseteq Debts
    BY DEF TypeInv, TypeOK
<1>2. /\ pending \in BOOLEAN /\ timed \in BOOLEAN /\ backlog \in BOOLEAN
      /\ wake \in BOOLEAN /\ idle \in BOOLEAN
    BY DEF TypeInv, TypeOK
<1>3. PICK acc \in Accepted(Undeferred(page)) :
        /\ Enqueue(acc)
        /\ \/ ReloadGivesUp(page, acc) \/ ReloadNextPage(page, acc)
           \/ ReloadNextGroup(page, acc) \/ ReloadEnds(page, acc)
    BY DEF ReloadPage
<1>4. acc \subseteq page
    BY DEF Accepted, Undeferred
<1>5. queue' \subseteq Debts /\ wake' \in BOOLEAN /\ idle' \in BOOLEAN
    BY Zenon, <1>1, <1>2, <1>3, <1>4 DEF Enqueue
<1>6. LeftBehind(page) \in BOOLEAN
    BY Zenon, <1>2 DEF LeftBehind
<1>7. pc = "reload"
    BY DEF ReloadPage
<1>8. CASE ReloadGivesUp(page, acc)
    BY Zenon, <1>2, <1>5, <1>8, Bounds DEF ReloadGivesUp, EndReload, RewindScan
<1>9. CASE ReloadNextPage(page, acc)
    <2>1. \A d \in page : Rank[d] \in Nat
        BY <1>1, ConstantsAssumption
    <2> QED
        BY <1>1, <1>2, <1>5, <1>6, <1>7, <1>9, <2>1 DEF ReloadNextPage
<1>10. CASE ReloadNextGroup(page, acc)
    <2>1. group' \in 1..NumGroups /\ after' \in Nat
        BY <1>1, <1>10, Bounds DEF ReloadNextGroup
    <2> QED
        BY <1>2, <1>5, <1>6, <1>7, <1>10, <2>1 DEF ReloadNextGroup
<1>11. CASE ReloadEnds(page, acc)
    BY Zenon, <1>2, <1>5, <1>6, <1>11, Bounds DEF ReloadEnds, EndReload, RewindScan
<1> QED
    BY <1>3, <1>8, <1>9, <1>10, <1>11

\* A step of the tracker alone.
Untracked ==
    UNCHANGED <<versions, meta, queue, inflight, backlog, wake, idle, unsubmitted,
                pc, batch, owed, obsolete, records, target, chunk, processed,
                group, after, pending, timed, deferred, topo, up, received,
                writes, faults, recorded, lapsed, unlearned>>

LEMMA TypeNext == TypeInv /\ [Next]_vars => TypeInv'
<1> SUFFICES ASSUME TypeInv, [Next]_vars PROVE TypeInv'
    OBVIOUS
<1> USE Bounds DEF TypeInv, TypeOK, BatchOnlyInDelivery,
        vars, durable, queueVars, events, delivery, reload, tracker, peers, history, PCs, Delivering, NoRecords
<1>1. ASSUME NEW t \in Targets, NEW a \in Addrs, NEW v \in Ts, Oblige(t, a, v)
      PROVE  TypeInv'
    BY <1>1 DEF Oblige, Debts
<1>2. ASSUME NEW d \in unsubmitted, ObligeSubmit(d)
      PROVE  TypeInv'
    <2>1. PICK acc \in SUBSET {d} :
            /\ queue' = queue \union acc
            /\ wake' \in BOOLEAN /\ idle' \in BOOLEAN /\ backlog' \in BOOLEAN
        BY Zenon, <1>2 DEF ObligeSubmit, submit, Accepted, Enqueue
    <2>2. d \in Debts
        OBVIOUS
    <2> QED
        BY <1>2, <2>1, <2>2 DEF ObligeSubmit
<1>3. ASSUME NEW a \in Addrs, NEW v \in Ts, LocalWrite(a, v)
      PROVE  TypeInv'
    BY <1>3 DEF LocalWrite
<1>4. ASSUME NEW a \in Addrs, NEW v \in Ts, Collect(a, v)
      PROVE  TypeInv'
    BY <1>4 DEF Collect
<1>5. ASSUME DeliverBatch
      PROVE  TypeInv'
    <2>1. batch' \subseteq queue /\ Cardinality(batch') \in Nat
        BY <1>5, DebtSets DEF DeliverBatch, take
    <2>2. inflight' = inflight + Cardinality(batch')
        BY <1>5 DEF DeliverBatch, take
    <2>3. queue' = queue \ batch' /\ wake' \in BOOLEAN
        BY Zenon, <1>5 DEF DeliverBatch, take
    <2>4. owed' \subseteq batch' /\ obsolete' \subseteq batch' /\ chunk' = {}
        BY <1>5 DEF DeliverBatch
    <2> QED
        BY <1>5, <2>1, <2>2, <2>3, <2>4 DEF DeliverBatch
<1>6. ASSUME StartReload
      PROVE  TypeInv'
    BY Zenon, <1>6 DEF StartReload, RewindScan
<1>7. ASSUME StartWait
      PROVE  TypeInv'
    BY Zenon, <1>7 DEF StartWait
<1>8. ASSUME EndWait
      PROVE  TypeInv'
    BY <1>8 DEF EndWait
<1>9. ASSUME NEW page \in SUBSET meta, ReloadPage(page)
      PROVE  TypeInv'
    BY Zenon, <1>9, ReloadType DEF ReloadPage
<1>10. ASSUME LoadRecords
      PROVE  TypeInv'
    <2>1. records' \in [Addrs -> 0..MaxTs]
        BY Zenon, <1>10, NewestType DEF LoadRecords
    <2>2. owed' \subseteq owed /\ backlog' \in BOOLEAN
        BY Zenon, <1>10 DEF LoadRecords
    <2> QED
        BY Zenon, <1>10, <2>1, <2>2 DEF LoadRecords
<1>11. ASSUME NEW t \in Targets, Park(t)
      PROVE  TypeInv'
    BY Zenon, <1>11 DEF Park, OwedTo
<1>12. ASSUME NEW t \in Targets, DeliverTo(t)
      PROVE  TypeInv'
    BY <1>12 DEF DeliverTo
<1>13. ASSUME NEW a \in Addrs, Push(a)
      PROVE  TypeInv'
    BY <1>13 DEF Push, OwedTo
<1>14. ASSUME TargetDone
      PROVE  TypeInv'
    BY <1>14 DEF TargetDone, NoTarget
<1>15. ASSUME PushProcessed
      PROVE  TypeInv'
    <2>1. received' \in [Pairs -> 0..MaxTs]
        BY Zenon, <1>15 DEF PushProcessed, Pairs
    <2> QED
        BY Zenon, <1>15, <2>1 DEF PushProcessed
<1>16. ASSUME PushAccepted
      PROVE  TypeInv'
    BY Zenon, <1>16 DEF PushAccepted
<1>17. ASSUME PushFailed
      PROVE  TypeInv'
    <2>1. faults' \in 0..MaxFaults
        BY <1>17 DEF PushFailed
    <2> QED
        BY Zenon, <1>17, <2>1 DEF PushFailed, OwedTo
<1>18. ASSUME Forget
      PROVE  TypeInv'
    BY Zenon, <1>18 DEF Forget
<1>19. ASSUME StartDrop
      PROVE  TypeInv'
    BY Zenon, <1>19 DEF StartDrop
<1>20. ASSUME EndBatch
      PROVE  TypeInv'
    BY Zenon, <1>20, SettleType DEF EndBatch, LeaveDeliver
<1>21. ASSUME NEW g \in 1..NumGroups, Drop(g)
      PROVE  TypeInv'
    <2>1. CASE settle /\ LeaveDeliver /\ pc' = "top"
        BY Zenon, <1>21, <2>1, SettleType DEF Drop, LeaveDeliver
    <2>2. CASE UNCHANGED <<inflight, idle, batch, owed, records, target, chunk,
                           processed, pc>> /\ obsolete' \subseteq obsolete
        BY <1>21, <2>2 DEF Drop
    <2> QED
        BY Zenon, <1>21, <2>1, <2>2 DEF Drop
<1>22. ASSUME StepFailed
      PROVE  TypeInv'
    <2>1. Abandon /\ faults' \in 0..MaxFaults
        BY <1>22 DEF StepFailed
    <2>2. BatchOnlyInDelivery'
        BY Zenon, <1>22, <2>1, AbandonType DEF StepFailed
    <2> QED
        BY Zenon, <1>22, <2>1, <2>2, AbandonType DEF StepFailed
<1>23. ASSUME Stop
      PROVE  TypeInv'
    <2>1. Abandon /\ faults' \in 0..MaxFaults
        BY <1>23 DEF Stop
    <2>2. BatchOnlyInDelivery'
        BY Zenon, <1>23, <2>1, AbandonType DEF Stop
    <2> QED
        BY Zenon, <1>23, <2>1, <2>2, AbandonType DEF Stop
<1>24. ASSUME Start
      PROVE  TypeInv'
    BY Zenon, <1>24 DEF Start
<1>25. ASSUME Crash
      PROVE  TypeInv'
    <2>1. records' \in [Addrs -> 0..MaxTs] /\ faults' \in 0..MaxFaults
        BY <1>25 DEF Crash, LeaveDeliver
    <2>2. BatchOnlyInDelivery'
        BY <1>25 DEF Crash, LeaveDeliver
    <2> QED
        BY Zenon, <1>25, <2>1, <2>2 DEF Crash, LeaveDeliver, RewindScan
<1>26. ASSUME Restart
      PROVE  TypeInv'
    BY <1>26 DEF Restart
<1>27. ASSUME NEW new \in SUBSET Pairs, TopologyChange(new)
      PROVE  TypeInv'
    BY <1>27 DEF TopologyChange
<1>28. ASSUME Invalidate
      PROVE  TypeInv'
    <2>1. view' \subseteq Pairs /\ ready' \in BOOLEAN /\ changed' \in BOOLEAN
        BY Zenon, <1>28 DEF Invalidate
    <2>2. Untracked
        BY Zenon, <1>28 DEF Invalidate, Untracked
    <2> QED
        BY <2>1, <2>2 DEF Untracked
<1>29. ASSUME Rebuild
      PROVE  TypeInv'
    <2>1. view' \subseteq Pairs /\ ready' \in BOOLEAN /\ changed' \in BOOLEAN
        BY Zenon, <1>29 DEF Rebuild
    <2>2. Untracked
        BY Zenon, <1>29 DEF Rebuild, Untracked
    <2> QED
        BY <2>1, <2>2 DEF Untracked
<1>30. ASSUME NEW t \in Targets, PeerDown(t)
      PROVE  TypeInv'
    BY <1>30 DEF PeerDown
<1>31. ASSUME NEW t \in Targets, PeerUp(t)
      PROVE  TypeInv'
    BY <1>31 DEF PeerUp
<1>32. ASSUME NEW t \in Targets, BackoffExpires(t)
      PROVE  TypeInv'
    BY <1>32 DEF BackoffExpires
<1>33. CASE UNCHANGED vars
    BY <1>33
<1> QED
    BY Zenon, <1>1, <1>2, <1>3, <1>4, <1>5, <1>6, <1>7, <1>8, <1>9, <1>10, <1>11, <1>12, <1>13, <1>14, <1>15, <1>16, <1>17, <1>18, <1>19, <1>20, <1>21, <1>22, <1>23, <1>24, <1>25, <1>26, <1>27, <1>28, <1>29, <1>30, <1>31, <1>32, <1>33
       DEF Next, NextUninterrupted, Worker, Producer, Environment

\* The state of the node keeps its type through every operation, crash and
\* restart: in particular the in-flight count never goes below zero and the
\* worker holds debts only where _deliver_step does.
THEOREM TypeCorrect == Spec => []TypeOK
<1>1. Spec => []TypeInv
    BY TypeInit, TypeNext, PTL DEF Spec
<1> QED
    BY <1>1, PTL DEF TypeInv

----------------------------------------------------------------------------
(* Debts can be paid *)

DebtCoveredInv == TypeInv /\ DebtCovered

LEMMA DebtCoveredNext == DebtCoveredInv /\ [Next]_vars => DebtCovered'
<1> SUFFICES ASSUME DebtCoveredInv, [Next]_vars PROVE DebtCovered'
    OBVIOUS
<1> USE DEF DebtCoveredInv
<1>1. versions \in [Addrs -> SUBSET Ts] /\ meta \subseteq Debts
    BY DEF TypeInv, TypeOK
<1>2. \A d \in Debts : d.addr \in Addrs /\ d.ts \in Ts
    BY DEF Debts
<1>3. \A n \in Ts : n \in Nat
    BY Bounds DEF Ts
<1>4. ASSUME UNCHANGED versions, meta' \subseteq meta
      PROVE  DebtCovered'
    BY <1>4 DEF DebtCovered
<1>5. ASSUME NEW t \in Targets, NEW a \in Addrs, NEW v \in Ts, Oblige(t, a, v)
      PROVE  DebtCovered'
    <2> DEFINE d == [target |-> t, addr |-> a, ts |-> v]
    <2>1. versions' = [versions EXCEPT ![a] = @ \union {v}] /\ meta' = meta \union {d}
        BY <1>5 DEF Oblige
    <2>2. d.addr = a /\ d.ts = v
        OBVIOUS
    <2> HIDE DEF d
    <2> QED
        BY <1>1, <1>2, <1>3, <2>1, <2>2 DEF DebtCovered
<1>6. ASSUME NEW a \in Addrs, NEW v \in Ts, LocalWrite(a, v)
      PROVE  DebtCovered'
    <2>1. versions' = [versions EXCEPT ![a] = @ \union {v}] /\ meta' = meta
        BY <1>6 DEF LocalWrite
    <2> QED
        BY <1>1, <1>2, <2>1 DEF DebtCovered
<1>7. ASSUME NEW a \in Addrs, NEW v \in Ts, Collect(a, v)
      PROVE  DebtCovered'
    <2>1. versions' = [versions EXCEPT ![a] = @ \ {v}] /\ meta' = meta
        BY <1>7 DEF Collect
    <2>2. PICK w \in versions[a] : w > v
        <3> DEFINE newer == {w \in Latest(a) : w > v}
        <3>1. Cardinality(newer) >= Versions /\ Versions \in Nat \ {0}
            BY <1>7, ConstantsAssumption DEF Collect
        <3>2. newer \subseteq versions[a]
            BY DEF Latest
        <3>3. newer # {}
            <4>1. Cardinality({}) = 0
                BY FS_EmptySet
            <4> HIDE DEF newer
            <4> QED
                BY <3>1, <4>1
        <3> QED
            BY <3>2, <3>3
    <2>3. w \in versions'[a]
        BY <1>1, <1>3, <2>1, <2>2
    <2>4. ASSUME NEW d \in meta PROVE \E x \in versions'[d.addr] : x >= d.ts
        <3>1. PICK x \in versions[d.addr] : x >= d.ts
            BY DEF DebtCovered
        <3>2. CASE d.addr = a /\ x = v
            BY <1>1, <1>2, <1>3, <2>2, <2>3, <3>1, <3>2
        <3>3. CASE ~(d.addr = a /\ x = v)
            BY <1>1, <1>2, <2>1, <3>1, <3>3
        <3> QED
            BY <3>2, <3>3
    <2> QED
        BY <2>1, <2>4 DEF DebtCovered
<1> USE DEF durable
<1>8. CASE DeliverBatch \/ StartReload \/ StartWait \/ EndWait \/ LoadRecords
    <2>1. UNCHANGED <<versions, meta>>
        BY Zenon, <1>8 DEF DeliverBatch, StartReload, StartWait, EndWait, LoadRecords
    <2> QED
        BY <1>4, <2>1
<1>9. CASE \/ \E page \in SUBSET meta : ReloadPage(page)
           \/ \E t \in Targets : Park(t) \/ DeliverTo(t)
           \/ \E a \in Addrs : Push(a)
    BY <1>4, <1>9 DEF ReloadPage, Park, DeliverTo, Push
<1>10. CASE \/ TargetDone \/ PushProcessed \/ PushAccepted \/ PushFailed
            \/ Forget \/ StartDrop \/ EndBatch
    BY Zenon, <1>4, <1>10 DEF TargetDone, PushProcessed, PushAccepted, PushFailed,
                       Forget, StartDrop, EndBatch
<1>11. CASE \E g \in 1..NumGroups : Drop(g)
    BY Zenon, <1>4, <1>11 DEF Drop
<1>12. CASE \E d \in unsubmitted : ObligeSubmit(d)
    BY <1>4, <1>12 DEF ObligeSubmit
<1>13. CASE StepFailed \/ Crash \/ Restart \/ Stop \/ Start
    BY Zenon, <1>4, <1>13 DEF StepFailed, Crash, Restart, Stop, Start
<1>14. CASE Invalidate \/ Rebuild \/ \E new \in SUBSET Pairs : TopologyChange(new)
    BY Zenon, <1>4, <1>14 DEF Invalidate, Rebuild, TopologyChange
<1>15. CASE \E t \in Targets : PeerDown(t) \/ PeerUp(t) \/ BackoffExpires(t)
    BY <1>4, <1>15 DEF PeerDown, PeerUp, BackoffExpires
<1>16. CASE UNCHANGED vars
    BY <1>4, <1>16 DEF vars
<1> QED
    BY <1>5, <1>6, <1>7, <1>8, <1>9, <1>10, <1>11, <1>12, <1>13, <1>14, <1>15, <1>16
       DEF Next, NextUninterrupted, Worker, Producer, Environment

\* Garbage collection never strands a debt: with any number of retained
\* versions, any debt in META has a stored version that covers it.
THEOREM DebtsCovered == Spec => []DebtCovered
<1>1. Init => DebtCoveredInv
    BY TypeInit DEF Init, DebtCovered, DebtCoveredInv
<1>2. DebtCoveredInv /\ [Next]_vars => DebtCoveredInv'
    BY TypeNext, DebtCoveredNext DEF DebtCoveredInv
<1>3. Spec => []DebtCoveredInv
    BY <1>1, <1>2, PTL DEF Spec
<1> QED
    BY <1>3, PTL DEF DebtCoveredInv

----------------------------------------------------------------------------
(* The events of the queue *)

EventsInv == TypeInv /\ EventsMatchQueue

\* Handing back a batch leaves nothing in flight.
LEMMA SettleEvents ==
    ASSUME EventsInv, settle, UNCHANGED <<queue, wake>>
    PROVE  EventsMatchQueue'
<1>1. inflight = Cardinality(batch) /\ inflight \in Nat /\ idle \in BOOLEAN
    BY DEF EventsInv, EventsMatchQueue, TypeInv, TypeOK
<1>2. inflight' = 0 /\ batch' = {}
    BY <1>1 DEF settle
<1>3. Cardinality({}) = 0
    BY FS_EmptySet
<1>4. idle' <=> queue = {}
    BY <1>1, <1>2 DEF settle, EventsInv, EventsMatchQueue
<1> QED
    BY <1>2, <1>3, <1>4 DEF EventsInv, EventsMatchQueue

\* Taking debts in keeps the capacity and tells the waiters.
LEMMA EnqueueEvents ==
    ASSUME EventsInv, NEW D \in SUBSET Debts, NEW acc \in Accepted(D), Enqueue(acc),
           UNCHANGED <<inflight, batch>>
    PROVE  EventsMatchQueue'
<1>1. Cardinality(queue \union acc) <= Capacity
    BY DEF Accepted
<1>2. wake \in BOOLEAN /\ idle \in BOOLEAN
    BY DEF EventsInv, TypeInv, TypeOK
<1>3. wake' <=> queue' # {}
    BY <1>2 DEF Enqueue, EventsInv, EventsMatchQueue
<1>4. idle' <=> (queue' = {} /\ batch' = {})
    BY <1>2 DEF Enqueue, EventsInv, EventsMatchQueue
<1> QED
    BY <1>1, <1>3, <1>4 DEF Enqueue, EventsInv, EventsMatchQueue

LEMMA TakeEvents ==
    ASSUME EventsInv, batch = {}, queue # {}, take, UNCHANGED idle
    PROVE  EventsMatchQueue' /\ batch' # {}
<1>1. queue \subseteq Debts /\ wake \in BOOLEAN /\ idle \in BOOLEAN
    BY DEF EventsInv, TypeInv, TypeOK
<1>2. IsFiniteSet(queue) /\ batch' \subseteq queue /\ queue' = queue \ batch'
    BY <1>1, DebtSets DEF take
<1>3. Cardinality(batch') \in Nat /\ (Cardinality(batch') = 0 <=> batch' = {})
    BY <1>1, <1>2, DebtSets
<1>4. batch' # {}
    <2>1. CASE batch' = queue
        BY <2>1
    <2>2. CASE batch' # queue
        BY <1>3, <2>2, ConstantsAssumption DEF take
    <2> QED
        BY <2>1, <2>2
<1>5. inflight = 0
    BY FS_EmptySet DEF EventsInv, EventsMatchQueue
<1>6. inflight' = Cardinality(batch')
    <2>1. inflight' = inflight + Cardinality(batch')
        BY DEF take
    <2> QED
        BY <1>3, <1>5, <2>1
<1>7. wake' <=> queue' # {}
    BY <1>1, <1>2 DEF take, EventsInv, EventsMatchQueue
<1>8. ~idle'
    BY <1>1 DEF EventsInv, EventsMatchQueue
<1>9. Cardinality(queue') <= Capacity
    <2>1. Cardinality(queue') <= Cardinality(queue)
        BY <1>2, FS_Subset
    <2>2. Cardinality(queue') \in Nat /\ Cardinality(queue) \in Nat
        BY <1>1, <1>2, DebtSets
    <2> QED
        BY <2>1, <2>2, ConstantsAssumption DEF EventsInv, EventsMatchQueue
<1> QED
    BY <1>4, <1>6, <1>7, <1>8, <1>9 DEF EventsMatchQueue

LEMMA AbandonEvents ==
    ASSUME EventsInv, Abandon, UNCHANGED <<queue, wake>>
    PROVE  EventsMatchQueue'
<1>1. CASE pc \in Delivering
    BY <1>1, SettleEvents DEF Abandon
<1>2. CASE pc \notin Delivering
    BY <1>2 DEF Abandon, EventsInv, EventsMatchQueue
<1> QED
    BY <1>1, <1>2

LEMMA EventsNext == EventsInv /\ [Next]_vars => EventsMatchQueue'
<1> SUFFICES ASSUME EventsInv, [Next]_vars PROVE EventsMatchQueue'
    OBVIOUS
<1> USE DEF queueVars, events, delivery
<1>1. ASSUME UNCHANGED <<queue, inflight, wake, idle, batch>>
      PROVE  EventsMatchQueue'
    BY <1>1 DEF EventsInv, EventsMatchQueue
<1>2. CASE DeliverBatch
    <2>1. batch = {}
        BY <1>2 DEF DeliverBatch, EventsInv, TypeInv, BatchOnlyInDelivery, Delivering
    <2> QED
        BY <1>2, <2>1, TakeEvents DEF DeliverBatch
<1>3. ASSUME NEW page \in SUBSET meta, ReloadPage(page) PROVE EventsMatchQueue'
    <2>1. Undeferred(page) \in SUBSET Debts
        BY DEF Undeferred, EventsInv, TypeInv, TypeOK
    <2>2. PICK acc \in Accepted(Undeferred(page)) : Enqueue(acc)
        BY <1>3 DEF ReloadPage
    <2> QED
        BY <1>3, <2>1, <2>2, EnqueueEvents DEF ReloadPage
<1>4. ASSUME NEW d \in unsubmitted, ObligeSubmit(d) PROVE EventsMatchQueue'
    <2>1. {d} \in SUBSET Debts
        BY DEF EventsInv, TypeInv, TypeOK
    <2>2. PICK acc \in Accepted({d}) : Enqueue(acc)
        BY <1>4 DEF ObligeSubmit, submit
    <2> QED
        BY <1>4, <2>1, <2>2, EnqueueEvents DEF ObligeSubmit
<1>5. CASE EndBatch
    BY <1>5, SettleEvents DEF EndBatch
<1>6. ASSUME NEW g \in 1..NumGroups, Drop(g) PROVE EventsMatchQueue'
    <2>1. CASE settle
        BY Zenon, <1>6, <2>1, SettleEvents DEF Drop
    <2>2. CASE UNCHANGED <<inflight, idle, batch>>
        BY Zenon, <1>1, <1>6, <2>2 DEF Drop
    <2> QED
        BY Zenon, <1>6, <2>1, <2>2 DEF Drop
<1>7. CASE StepFailed
    BY <1>7, AbandonEvents DEF StepFailed
<1>8. CASE Stop
    BY <1>8, AbandonEvents DEF Stop
<1>9. CASE Crash
    BY <1>9, FS_EmptySet, ConstantsAssumption DEF Crash, EventsMatchQueue
<1>10. CASE StartReload \/ StartWait \/ EndWait \/ LoadRecords
    <2>1. UNCHANGED <<queue, inflight, wake, idle, batch>>
        BY Zenon, <1>10 DEF StartReload, StartWait, EndWait, LoadRecords
    <2> QED
        BY <1>1, <2>1
<1>11. CASE \/ \E t \in Targets : Park(t) \/ DeliverTo(t)
            \/ \E a \in Addrs : Push(a)
    BY Zenon, <1>1, <1>11 DEF Park, DeliverTo, Push
<1>12. CASE \/ TargetDone \/ PushProcessed \/ PushAccepted \/ PushFailed
            \/ Forget \/ StartDrop
    BY Zenon, <1>1, <1>12 DEF TargetDone, PushProcessed, PushAccepted, PushFailed,
                       Forget, StartDrop
<1>13. CASE \/ \E t \in Targets, a \in Addrs, v \in Ts : Oblige(t, a, v)
            \/ \E a \in Addrs, v \in Ts : LocalWrite(a, v) \/ Collect(a, v)
    <2>1. UNCHANGED <<queue, inflight, wake, idle, batch>>
        BY Zenon, <1>13 DEF Oblige, LocalWrite, Collect
    <2> QED
        BY <1>1, <2>1
<1>14. CASE Restart \/ Start
    BY Zenon, <1>1, <1>14 DEF Restart, Start
<1>15. CASE Invalidate \/ Rebuild \/ \E new \in SUBSET Pairs : TopologyChange(new)
    BY Zenon, <1>1, <1>15 DEF Invalidate, Rebuild, TopologyChange
<1>16. CASE \E t \in Targets : PeerDown(t) \/ PeerUp(t) \/ BackoffExpires(t)
    BY Zenon, <1>1, <1>16 DEF PeerDown, PeerUp, BackoffExpires
<1>17. CASE UNCHANGED vars
    BY <1>1, <1>17 DEF vars
<1> QED
    BY Zenon, <1>2, <1>3, <1>4, <1>5, <1>6, <1>7, <1>8, <1>9, <1>10, <1>11, <1>12,
       <1>13, <1>14, <1>15, <1>16, <1>17
       DEF Next, NextUninterrupted, Worker, Producer, Environment

\* The wake and idle events always tell the truth about the queue and the
\* batch in delivery, across failures, cancellations and restarts, so neither
\* the worker nor a sweep unit waits on a stale event.
THEOREM EventsTruthful == Spec => []EventsMatchQueue
<1>1. Init => EventsInv
    <2> SUFFICES ASSUME Init PROVE EventsMatchQueue
        BY TypeInit DEF EventsInv
    <2> QED
        BY FS_EmptySet, ConstantsAssumption DEF Init, EventsMatchQueue
<1>2. EventsInv /\ [Next]_vars => EventsInv'
    BY TypeNext, EventsNext DEF EventsInv
<1>3. Spec => []EventsInv
    BY <1>1, <1>2, PTL DEF Spec
<1> QED
    BY <1>3, PTL DEF EventsInv

----------------------------------------------------------------------------
(***************************************************************************)
(* Nothing is forgotten, and the worker sleeps only when it may.           *)
(***************************************************************************)
\* NoForgottenDebt is not inductive: a debt of the batch in delivery counts
\* only while the worker still has to do something about it.
Scheduled(d) ==
    \/ d \in queue \/ d \in unsubmitted
    \/ backlog
    \/ Ahead(d)
    \/ pc = "reload" /\ pending
    \/ pc \in Delivering /\ d \in owed \union obsolete

AllScheduled == \A d \in meta : Scheduled(d)

\* The debts are served before the obsolete ones are dropped, and a wait
\* without a timeout finds the flag lowered unless something is queued.
WorkerDiscipline ==
    /\ pc = "drop" => owed = {}
    /\ pc = "wait" /\ ~timed /\ queue = {} => ~backlog

ScheduleInv == EventsInv /\ AllScheduled /\ WorkerDiscipline

\* A page of META, once submitted, leaves behind nothing but debts that are
\* queued, still ahead or remembered by the flags.
LEMMA ReloadSchedules ==
    ASSUME ScheduleInv, NEW page \in SUBSET meta, ReloadPage(page)
    PROVE  AllScheduled'
<1>1. /\ group \in 1..NumGroups /\ after \in Nat /\ meta \subseteq Debts
    BY DEF ScheduleInv, EventsInv, TypeInv, TypeOK
<1>2. /\ pending \in BOOLEAN /\ backlog \in BOOLEAN
    BY DEF ScheduleInv, EventsInv, TypeInv, TypeOK
<1>3. /\ \A d \in Debts : Rank[d] \in Nat /\ Rank[d] > 0
      /\ \A d \in Debts : Group[d.addr] \in 1..NumGroups
      /\ NumGroups \in Nat
    <2>1. \A d \in Debts : d.addr \in Addrs
        BY DEF Debts
    <2> QED
        BY <2>1, ConstantsAssumption
<1>4. PICK acc \in Accepted(Undeferred(page)) :
        /\ Enqueue(acc)
        /\ \/ ReloadGivesUp(page, acc) \/ ReloadNextPage(page, acc)
           \/ ReloadNextGroup(page, acc) \/ ReloadEnds(page, acc)
    BY DEF ReloadPage
<1>5. queue' = queue \union acc /\ meta' = meta /\ unsubmitted' = unsubmitted
    BY Zenon, <1>4 DEF Enqueue, ReloadPage, durable
<1>6. pc = "reload" /\ IsPage(page)
    BY DEF ReloadPage
<1>7. CASE Raised(page, acc)
    <2>1. backlog' = TRUE
        BY <1>4, <1>7 DEF ReloadGivesUp, ReloadNextPage, ReloadNextGroup, ReloadEnds
    <2> QED
        BY <2>1 DEF AllScheduled, Scheduled
<1>8. ASSUME ~Raised(page, acc), NEW d \in page
      PROVE  d \in queue' \/ LeftBehind(page) = TRUE
    <2>1. acc = Undeferred(page) \ queue
        BY <1>8 DEF Raised
    <2>2. CASE d \in Undeferred(page)
        BY <1>5, <2>1, <2>2
    <2>3. CASE d \notin Undeferred(page)
        BY <1>8, <2>3 DEF LeftBehind
    <2> QED
        BY Zenon, <2>2, <2>3
<1>9. ASSUME ~Raised(page, acc), NEW d \in meta
      PROVE  \/ d \in queue' \/ d \in unsubmitted' \/ LeftBehind(page) = TRUE
             \/ Ahead(d) /\ d \notin page
    <2>1. ~backlog /\ pc \notin Delivering
        BY <1>6, <1>9 DEF Raised, Delivering
    <2>2. CASE pending
        BY <1>2, <2>2 DEF LeftBehind
    <2>3. CASE d \in queue \/ d \in unsubmitted
        BY <1>5, <2>3
    <2>4. CASE Ahead(d)
        BY Zenon, <1>8, <1>9, <2>4
    <2> QED
        BY Zenon, <2>1, <2>2, <2>3, <2>4 DEF ScheduleInv, AllScheduled, Scheduled
<1>10. CASE ~Raised(page, acc) /\ ReloadNextPage(page, acc)
    <2>1. /\ pc' = "reload" /\ group' = group /\ pending' = LeftBehind(page)
        BY <1>6, <1>10 DEF ReloadNextPage
    <2>2. PICK last \in page : after' = Rank[last]
        BY <1>10 DEF ReloadNextPage
    <2>3. ASSUME NEW d \in meta, Ahead(d), d \notin page PROVE Ahead(d)'
        <3>1. CASE Group[d.addr] > group
            BY Zenon, <2>1, <3>1 DEF Ahead
        <3>2. CASE Group[d.addr] = group /\ Rank[d] > after
            <4>1. Rank[last] < Rank[d]
                BY Zenon, <1>6, <2>2, <2>3, <3>2 DEF IsPage
            <4> QED
                BY Zenon, <1>1, <1>3, <2>1, <2>2, <3>2, <4>1 DEF Ahead
        <3> QED
            BY Zenon, <2>3, <3>1, <3>2 DEF Ahead
    <2> QED
        BY Zenon, <1>5, <1>9, <1>10, <2>1, <2>3 DEF AllScheduled, Scheduled
<1>11. ASSUME ~Raised(page, acc), Cardinality(page) # Batch,
              NEW d \in meta, Ahead(d), d \notin page
       PROVE  Group[d.addr] > group
    BY Zenon, <1>6, <1>11 DEF Ahead, IsPage
<1>12. CASE ~Raised(page, acc) /\ ReloadNextGroup(page, acc)
    <2>1. /\ pc' = "reload" /\ group' = group + 1 /\ after' = 0
          /\ pending' = LeftBehind(page) /\ Cardinality(page) # Batch
        BY <1>6, <1>12 DEF ReloadNextGroup
    <2>2. ASSUME NEW d \in meta, Ahead(d), d \notin page PROVE Ahead(d)'
        <3>1. Group[d.addr] > group
            BY Zenon, <1>11, <1>12, <2>1, <2>2
        <3>2. Group[d.addr] > group' \/ Group[d.addr] = group'
            BY <1>1, <1>3, <2>1, <3>1
        <3> QED
            BY Zenon, <1>1, <1>3, <2>1, <3>2 DEF Ahead
    <2> QED
        BY Zenon, <1>5, <1>9, <1>12, <2>1, <2>2 DEF AllScheduled, Scheduled
<1>13. CASE ~Raised(page, acc) /\ ReloadEnds(page, acc)
    <2>1. backlog' = LeftBehind(page) /\ Cardinality(page) # Batch /\ group = NumGroups
        BY <1>13 DEF ReloadEnds
    <2>2. ASSUME NEW d \in meta, Ahead(d), d \notin page PROVE FALSE
        <3>1. Group[d.addr] > group
            BY Zenon, <1>11, <1>13, <2>1, <2>2
        <3> QED
            BY <1>1, <1>3, <2>1, <3>1
    <2> QED
        BY Zenon, <1>5, <1>9, <1>13, <2>1, <2>2 DEF AllScheduled, Scheduled
<1> QED
    BY <1>4, <1>7, <1>10, <1>12, <1>13 DEF ReloadGivesUp

LEMMA ScheduleNext ==
    ScheduleInv /\ [NextUninterrupted]_vars => AllScheduled'
<1> SUFFICES ASSUME ScheduleInv, [NextUninterrupted]_vars PROVE AllScheduled'
    OBVIOUS
<1> USE DEF durable, queueVars, events, delivery, reload
<1>1. ASSUME UNCHANGED <<meta, queue, unsubmitted, backlog, pc, owed, obsolete,
                         group, after, pending>>
      PROVE  AllScheduled'
    BY Zenon, <1>1 DEF ScheduleInv, AllScheduled, Scheduled, Ahead
<1>2. ASSUME backlog' = TRUE PROVE AllScheduled'
    BY <1>2 DEF AllScheduled, Scheduled
<1>3. ASSUME NEW t \in Targets, NEW a \in Addrs, NEW v \in Ts, Oblige(t, a, v)
      PROVE  AllScheduled'
    BY Zenon, <1>3 DEF Oblige, ScheduleInv, AllScheduled, Scheduled, Ahead
<1>4. ASSUME NEW d \in unsubmitted, ObligeSubmit(d) PROVE AllScheduled'
    <2>1. PICK acc \in Accepted({d}) :
            Enqueue(acc) /\ backlog' = IF acc # {d} \ queue THEN TRUE ELSE backlog
        BY Zenon, <1>4 DEF ObligeSubmit, submit
    <2>2. CASE acc # {d} \ queue
        BY <1>2, <2>1, <2>2
    <2>3. CASE acc = {d} \ queue
        <3>1. queue' = queue \union {d} /\ backlog' = backlog
            BY <2>1, <2>3 DEF Enqueue
        <3>2. ASSUME NEW e \in meta PROVE Scheduled(e)'
            BY Zenon, <1>4, <3>1 DEF ObligeSubmit, ScheduleInv, AllScheduled, Scheduled, Ahead
        <3> QED
            BY Zenon, <1>4, <3>2 DEF ObligeSubmit, AllScheduled
    <2> QED
        BY <2>2, <2>3
<1>5. CASE DeliverBatch
    <2>1. /\ queue' = queue \ batch' /\ batch' = owed' \union obsolete'
          /\ backlog' = backlog /\ pc' \in Delivering /\ pc = "top"
          /\ unsubmitted' = unsubmitted /\ meta' = meta
        BY Zenon, <1>5 DEF DeliverBatch, take, Delivering
    <2> QED
        BY Zenon, <2>1 DEF ScheduleInv, AllScheduled, Scheduled, Ahead, Delivering
<1>6. CASE StartReload
    <2>1. meta' = meta /\ pc' = "reload" /\ group' = 1 /\ after' = 0
        BY Zenon, <1>6 DEF StartReload, RewindScan
    <2>2. ASSUME NEW d \in meta PROVE Ahead(d)'
        <3>1. d \in Debts /\ d.addr \in Addrs
            BY Zenon DEF Debts, ScheduleInv, EventsInv, TypeInv, TypeOK
        <3>2. Rank[d] \in Nat /\ Rank[d] > 0 /\ Group[d.addr] \in 1..NumGroups
            BY <3>1, ConstantsAssumption
        <3> QED
            BY <2>1, <3>2, Bounds DEF Ahead
    <2> QED
        BY <2>1, <2>2 DEF AllScheduled, Scheduled
<1>7. CASE StartWait \/ EndWait
    BY <1>7 DEF StartWait, EndWait, ScheduleInv, AllScheduled, Scheduled, Ahead, Delivering
<1>8. ASSUME NEW page \in SUBSET meta, ReloadPage(page) PROVE AllScheduled'
    BY <1>8, ReloadSchedules
<1>9. CASE LoadRecords
    <2>1. CASE owed' # owed
        BY Zenon, <1>2, <1>9, <2>1 DEF LoadRecords
    <2>2. CASE owed' = owed
        BY Zenon, <1>9, <2>2 DEF LoadRecords, ScheduleInv, AllScheduled, Scheduled, Ahead, Delivering
    <2> QED
        BY <2>1, <2>2
<1>10. ASSUME NEW t \in Targets, Park(t) PROVE AllScheduled'
    BY Zenon, <1>2, <1>10 DEF Park
<1>11. CASE \/ \E t \in Targets : DeliverTo(t)
            \/ \E a \in Addrs : Push(a)
            \/ TargetDone \/ PushProcessed \/ PushAccepted \/ StartDrop
    <2>1. /\ UNCHANGED <<meta, queue, unsubmitted, backlog, owed, obsolete>>
          /\ pc \in Delivering /\ pc' \in Delivering
        BY Zenon, <1>11 DEF DeliverTo, Push, TargetDone, PushProcessed, PushAccepted, StartDrop,
                     Delivering
    <2> QED
        BY Zenon, <2>1 DEF ScheduleInv, AllScheduled, Scheduled, Ahead, Delivering
<1>12. CASE PushFailed \/ StepFailed \/ Crash
    <2>1. backlog' = TRUE
        BY Zenon, <1>12 DEF PushFailed, StepFailed, Crash
    <2> QED
        BY <1>2, <2>1
<1>13. CASE Forget
    BY Zenon, <1>13 DEF Forget, ScheduleInv, AllScheduled, Scheduled, Ahead, Delivering
<1>14. CASE EndBatch
    BY Zenon, <1>14 DEF EndBatch, ScheduleInv, AllScheduled, Scheduled, Ahead, Delivering
<1>15. ASSUME NEW g \in 1..NumGroups, Drop(g) PROVE AllScheduled'
    <2>1. owed = {} /\ pc = "drop"
        BY Zenon, <1>15 DEF Drop, ScheduleInv, WorkerDiscipline
    <2>2. CASE meta' = meta \ obsolete
        BY Zenon, <1>15, <2>1, <2>2 DEF Drop, ScheduleInv, AllScheduled, Scheduled, Ahead, Delivering
    <2>3. CASE meta' # meta \ obsolete
        BY Zenon, <1>15, <2>1, <2>3 DEF Drop, ScheduleInv, AllScheduled, Scheduled, Ahead, Delivering
    <2> QED
        BY Zenon, <2>2, <2>3
<1>16. CASE Restart
    BY Zenon, <1>16 DEF Restart, ScheduleInv, AllScheduled, Scheduled, Ahead, Delivering
<1>17. CASE \E a \in Addrs, v \in Ts : LocalWrite(a, v) \/ Collect(a, v)
    BY Zenon, <1>1, <1>17 DEF LocalWrite, Collect
<1>18. CASE Invalidate \/ Rebuild \/ \E new \in SUBSET Pairs : TopologyChange(new)
    BY Zenon, <1>1, <1>18 DEF Invalidate, Rebuild, TopologyChange
<1>19. CASE \E t \in Targets : PeerDown(t) \/ PeerUp(t) \/ BackoffExpires(t)
    BY Zenon, <1>1, <1>19 DEF PeerDown, PeerUp, BackoffExpires
<1>20. CASE UNCHANGED vars
    BY Zenon, <1>1, <1>20 DEF vars
<1> QED
    BY Zenon, <1>3, <1>4, <1>5, <1>6, <1>7, <1>8, <1>9, <1>10, <1>11, <1>12, <1>13,
       <1>14, <1>15, <1>16, <1>17, <1>18, <1>19, <1>20
       DEF NextUninterrupted, Worker, Producer, Environment

LEMMA DisciplineNext ==
    ScheduleInv /\ [NextUninterrupted]_vars => WorkerDiscipline'
<1> SUFFICES ASSUME ScheduleInv, [NextUninterrupted]_vars PROVE WorkerDiscipline'
    OBVIOUS
<1> USE DEF durable, queueVars, events, delivery, reload
<1>1. ASSUME UNCHANGED <<pc, owed, timed, queue, backlog>> PROVE WorkerDiscipline'
    BY <1>1 DEF ScheduleInv, WorkerDiscipline
<1>2. ASSUME pc' \notin {"drop", "wait"} PROVE WorkerDiscipline'
    BY <1>2 DEF WorkerDiscipline
<1>3. ASSUME NEW d \in unsubmitted, ObligeSubmit(d) PROVE WorkerDiscipline'
    <2>1. PICK acc \in Accepted({d}) :
            Enqueue(acc) /\ backlog' = IF acc # {d} \ queue THEN TRUE ELSE backlog
        BY Zenon, <1>3 DEF ObligeSubmit, submit
    <2>2. acc # {d} \ queue => queue' # {}
        <3>1. acc # {d} \ queue => Cardinality(queue') = Capacity
            BY <2>1 DEF Accepted, Enqueue
        <3> QED
            BY Zenon, <3>1, FS_EmptySet, ConstantsAssumption
    <2>3. queue' = {} => backlog' = backlog /\ queue = {}
        BY <2>1, <2>2 DEF Enqueue
    <2> QED
        BY <1>3, <2>3 DEF ObligeSubmit, ScheduleInv, WorkerDiscipline
<1>4. ASSUME NEW page \in SUBSET meta, ReloadPage(page) PROVE WorkerDiscipline'
    <2>1. PICK acc \in Accepted(Undeferred(page)) :
            \/ ReloadGivesUp(page, acc) \/ ReloadNextPage(page, acc)
            \/ ReloadNextGroup(page, acc) \/ ReloadEnds(page, acc)
        BY Zenon, <1>4 DEF ReloadPage
    <2>2. CASE ReloadGivesUp(page, acc) \/ ReloadEnds(page, acc)
        BY Zenon, <1>4, <2>2 DEF ReloadGivesUp, ReloadEnds, EndReload, WorkerDiscipline
    <2>3. CASE ReloadNextPage(page, acc) \/ ReloadNextGroup(page, acc)
        BY Zenon, <1>2, <1>4, <2>3 DEF ReloadPage, ReloadNextPage, ReloadNextGroup
    <2> QED
        BY <2>1, <2>2, <2>3
<1>5. CASE StartWait \/ StartDrop
    BY <1>5 DEF StartWait, StartDrop, WorkerDiscipline
<1>6. CASE \/ DeliverBatch \/ StartReload \/ EndWait \/ LoadRecords
           \/ \E t \in Targets : Park(t) \/ DeliverTo(t)
    BY Zenon, <1>2, <1>6 DEF DeliverBatch, StartReload, EndWait, LoadRecords, Park, DeliverTo
<1>7. CASE \/ \E a \in Addrs : Push(a)
           \/ TargetDone \/ PushProcessed \/ PushAccepted \/ PushFailed
           \/ Forget \/ EndBatch
    BY Zenon, <1>2, <1>7 DEF Push, TargetDone, PushProcessed, PushAccepted, PushFailed,
                      Forget, EndBatch
<1>8. ASSUME NEW g \in 1..NumGroups, Drop(g) PROVE WorkerDiscipline'
    BY Zenon, <1>8 DEF Drop, ScheduleInv, WorkerDiscipline
<1>9. CASE StepFailed \/ Crash \/ Restart
    BY Zenon, <1>2, <1>9 DEF StepFailed, Crash, Restart
<1>10. CASE \/ \E t \in Targets, a \in Addrs, v \in Ts : Oblige(t, a, v)
            \/ \E a \in Addrs, v \in Ts : LocalWrite(a, v) \/ Collect(a, v)
    <2>1. UNCHANGED <<pc, owed, timed, queue, backlog>>
        BY Zenon, <1>10 DEF Oblige, LocalWrite, Collect
    <2> QED
        BY <1>1, <2>1
<1>11. CASE Invalidate \/ Rebuild \/ \E new \in SUBSET Pairs : TopologyChange(new)
    BY Zenon, <1>1, <1>11 DEF Invalidate, Rebuild, TopologyChange
<1>12. CASE \E t \in Targets : PeerDown(t) \/ PeerUp(t) \/ BackoffExpires(t)
    BY Zenon, <1>1, <1>12 DEF PeerDown, PeerUp, BackoffExpires
<1>13. CASE UNCHANGED vars
    BY Zenon, <1>1, <1>13 DEF vars
<1> QED
    BY Zenon, <1>3, <1>4, <1>5, <1>6, <1>7, <1>8, <1>9, <1>10, <1>11, <1>12, <1>13
       DEF NextUninterrupted, Worker, Producer, Environment

LEMMA ScheduleInvariant == SpecUninterrupted => []ScheduleInv
<1>1. Init => ScheduleInv
    <2> SUFFICES ASSUME Init PROVE ScheduleInv
        OBVIOUS
    <2>1. EventsMatchQueue
        BY FS_EmptySet, ConstantsAssumption DEF Init, EventsMatchQueue
    <2> QED
        BY Zenon, <2>1, TypeInit DEF Init, ScheduleInv, EventsInv, AllScheduled, Scheduled,
           WorkerDiscipline
<1>2. ScheduleInv /\ [NextUninterrupted]_vars => ScheduleInv'
    <2>1. [NextUninterrupted]_vars => [Next]_vars
        BY DEF Next
    <2> QED
        BY <2>1, TypeNext, EventsNext, ScheduleNext, DisciplineNext DEF ScheduleInv, EventsInv
<1> QED
    BY <1>1, <1>2, PTL DEF SpecUninterrupted

\* Whatever the interleaving of writes, overflows, reloads, deferrals, failures
\* and crashes, no debt in META falls out of the queue, the flag and the hands
\* of the worker at the same time.
THEOREM NoDebtForgotten == SpecUninterrupted => []NoForgottenDebt
<1>1. ScheduleInv => NoForgottenDebt
    BY Zenon DEF ScheduleInv, EventsInv, TypeInv, TypeOK, AllScheduled, Scheduled, NoForgottenDebt
<1> QED
    BY <1>1, ScheduleInvariant, PTL

\* _deliver_step sleeps without a timeout only once META is empty of everything
\* but debts whose submission will wake it.
THEOREM SleepsWhenSettled == SpecUninterrupted => []SleepOnlyWhenSettled
<1>1. ScheduleInv => SleepOnlyWhenSettled
    BY Zenon DEF ScheduleInv, EventsInv, EventsMatchQueue, AllScheduled, Scheduled, Ahead,
           WorkerDiscipline, SleepOnlyWhenSettled, Delivering
<1> QED
    BY <1>1, ScheduleInvariant, PTL

----------------------------------------------------------------------------
(***************************************************************************)
(* No durable debt is lost.                                                *)
(***************************************************************************)
\* The target has processed the address through the required timestamp.
Paid(d) == received[<<d.target, d.addr>>] >= d.ts

\* The ring, and the view while there is one, still count as a replica the
\* target of every durable debt that has not lapsed.
OwedByRing ==
    \A d \in meta \ (lapsed \union unlearned) :
        <<d.target, d.addr>> \in topo /\ (ready => <<d.target, d.addr>> \in view)

\* What the worker holds: an obsolete debt has lapsed or is paid, an owed one is
\* covered by the version it will send, and a chunk that was processed is paid.
HeldDebts ==
    /\ \A d \in obsolete : d \in lapsed \union unlearned \/ Paid(d)
    /\ pc \in Delivering \ {"load"} => \A d \in owed : records[d.addr] >= d.ts
    /\ \A d \in chunk : d.target = target
    /\ pc = "forget" => processed
    /\ processed => pc \in {"push", "forget"}
    /\ processed => \A d \in chunk : Paid(d)

LossInv ==
    /\ TypeInv
    /\ meta \union queue \union unsubmitted \union batch \subseteq recorded
    /\ NoLostDebt /\ OwedByRing /\ HeldDebts

\* The pairs and timestamps of debts.
LEMMA DebtFields ==
    ASSUME NEW d \in Debts
    PROVE  /\ <<d.target, d.addr>> \in Pairs
           /\ d.target \in Targets /\ d.addr \in Addrs /\ d.ts \in Nat
BY Bounds DEF Debts, Pairs, Ts

\* A paid debt stays paid.
LEMMA PaidStable ==
    ASSUME TypeInv, TypeInv', [Next]_vars, NEW d \in Debts, Paid(d)
    PROVE  Paid(d)'
<1>1. <<d.target, d.addr>> \in Pairs /\ d.ts \in Nat
    BY DebtFields
<1>2. ASSUME UNCHANGED received PROVE Paid(d)'
    BY Zenon, <1>2 DEF Paid
<1>3. CASE PushProcessed
    <2>1. /\ received[<<d.target, d.addr>>] \in Nat
          /\ records \in [Addrs -> 0..MaxTs] /\ d.addr \in Addrs
        BY <1>1, DebtFields, Bounds DEF TypeInv, TypeOK
    <2>2. \/ received'[<<d.target, d.addr>>] = received[<<d.target, d.addr>>]
          \/ /\ received'[<<d.target, d.addr>>] = records[d.addr]
             /\ records[d.addr] > received[<<d.target, d.addr>>]
        BY Zenon, <1>1, <1>3 DEF PushProcessed
    <2> QED
        BY <1>1, <2>1, <2>2, Bounds DEF Paid
<1> USE DEF peers
<1>4. CASE \/ DeliverBatch \/ StartReload \/ StartWait \/ EndWait \/ LoadRecords
           \/ \E page \in SUBSET meta : ReloadPage(page)
    BY Zenon, <1>2, <1>4 DEF DeliverBatch, StartReload, StartWait, EndWait, LoadRecords, ReloadPage
<1>5. CASE \/ \E t \in Targets : Park(t) \/ DeliverTo(t)
           \/ \E a \in Addrs : Push(a)
           \/ TargetDone \/ PushAccepted \/ PushFailed
    BY Zenon, <1>2, <1>5 DEF Park, DeliverTo, Push, TargetDone, PushAccepted, PushFailed
<1>6. CASE \/ Forget \/ StartDrop \/ EndBatch
           \/ \E g \in 1..NumGroups : Drop(g)
    BY Zenon, <1>2, <1>6 DEF Forget, StartDrop, EndBatch, Drop
<1>7. CASE Producer
    BY Zenon, <1>2, <1>7 DEF Producer, Oblige, ObligeSubmit, LocalWrite, Collect
<1>8. CASE StepFailed \/ Crash \/ Restart \/ Stop \/ Start
    BY Zenon, <1>2, <1>8 DEF StepFailed, Crash, Restart, Stop, Start
<1>9. CASE Invalidate \/ Rebuild \/ \E new \in SUBSET Pairs : TopologyChange(new)
    BY Zenon, <1>2, <1>9 DEF Invalidate, Rebuild, TopologyChange
<1>10. CASE \E t \in Targets : PeerDown(t) \/ PeerUp(t) \/ BackoffExpires(t)
    BY Zenon, <1>2, <1>10 DEF PeerDown, PeerUp, BackoffExpires
<1>11. CASE UNCHANGED vars
    BY Zenon, <1>2, <1>11 DEF vars
<1> QED
    BY Zenon, <1>3, <1>4, <1>5, <1>6, <1>7, <1>8, <1>9, <1>10, <1>11
       DEF Next, NextUninterrupted, Worker, Environment

\* The debts of a batch are known, and everything removed from META was allowed
\* to go: the obligations to check are on the steps that write META, the
\* history or the ring.
LEMMA LossNext ==
    ASSUME LossInv, TypeInv', [Next]_vars
    PROVE  LossInv'
<1> USE DEF durable, queueVars, events, delivery, reload, tracker, peers, history
<1>1. /\ meta \subseteq Debts /\ obsolete \subseteq Debts /\ chunk \subseteq Debts
      /\ owed \subseteq batch /\ obsolete \subseteq batch /\ chunk \subseteq owed
      /\ recorded \subseteq Debts
    BY Zenon DEF LossInv, TypeInv, TypeOK
<1>2. \A d \in recorded : Paid(d) => Paid(d)'
    BY Zenon, <1>1, PaidStable DEF LossInv
<1> DEFINE Known == meta \union queue \union unsubmitted \union batch \subseteq recorded
<1>3. /\ Known /\ NoLostDebt /\ OwedByRing /\ HeldDebts
      /\ \A d \in obsolete : d \in recorded
      /\ \A d \in chunk : d \in recorded
    BY <1>1 DEF LossInv
\* NoLostDebt for a step that keeps the history and removes only what may go.
<1>4. ASSUME recorded' = recorded, lapsed \subseteq lapsed', unlearned \subseteq unlearned',
             \A d \in meta : d \in meta' \/ d \in lapsed \union unlearned \/ Paid(d)
      PROVE  NoLostDebt'
    BY Zenon, <1>2, <1>3, <1>4 DEF NoLostDebt, Paid
\* OwedByRing for a step that leaves the ring alone.
<1>5. ASSUME meta' \subseteq meta, lapsed' = lapsed, unlearned' = unlearned, topo' = topo,
             ready' => ready /\ view' = view
      PROVE  OwedByRing'
    BY Zenon, <1>3, <1>5 DEF OwedByRing
\* HeldDebts for a step that leaves what the worker holds alone.
<1>6. ASSUME UNCHANGED <<pc, delivery>>, lapsed \subseteq lapsed', unlearned \subseteq unlearned'
      PROVE  HeldDebts'
    BY Zenon, <1>2, <1>3, <1>6 DEF HeldDebts
\* HeldDebts once the worker has dropped everything.
<1>7. ASSUME LeaveDeliver, pc' \notin Delivering
      PROVE  HeldDebts'
    BY Zenon, <1>7 DEF HeldDebts, LeaveDeliver, Delivering
<1> HIDE DEF Known
<1>8. ASSUME NEW t \in Targets, NEW a \in Addrs, NEW v \in Ts, Oblige(t, a, v)
      PROVE  LossInv'
    <2> DEFINE d == [target |-> t, addr |-> a, ts |-> v]
    <2>1. /\ meta' = meta \union {d} /\ unsubmitted' = unsubmitted \union {d}
          /\ recorded' = recorded \union {d}
          /\ lapsed' = IF <<t, a>> \in topo /\ (ready => <<t, a>> \in view)
                       THEN lapsed ELSE lapsed \union {d}
          /\ UNCHANGED <<queue, batch, topo, ready, view, received, pc, delivery, unlearned>>
        BY Zenon, <1>8 DEF Oblige
    <2>2. d.target = t /\ d.addr = a
        BY Zenon
    <2> HIDE DEF d
    <2>3. Known'
        BY Zenon, <1>3, <2>1 DEF Known
    <2>4. NoLostDebt'
        BY Zenon, <1>3, <2>1 DEF NoLostDebt
    <2>5. OwedByRing'
        BY Zenon, <1>3, <2>1, <2>2 DEF OwedByRing
    <2>6. HeldDebts'
        BY Zenon, <1>6, <2>1
    <2> QED
        BY Zenon, <2>3, <2>4, <2>5, <2>6 DEF LossInv, Known
<1>9. ASSUME NEW e \in unsubmitted, ObligeSubmit(e) PROVE LossInv'
    <2>1. Known'
        BY Zenon, <1>3, <1>9 DEF Known, ObligeSubmit, submit, Accepted, Enqueue
    <2> QED
        BY Zenon, <1>4, <1>5, <1>6, <1>9, <2>1 DEF ObligeSubmit, LossInv, Known
<1>10. CASE \E a \in Addrs, v \in Ts : LocalWrite(a, v) \/ Collect(a, v)
    <2>1. Known'
        BY Zenon, <1>3, <1>10 DEF Known, LocalWrite, Collect
    <2>2. UNCHANGED <<meta, recorded, lapsed, unlearned, topo, ready, view, pc, delivery>>
        BY Zenon, <1>10 DEF LocalWrite, Collect
    <2>3. NoLostDebt' /\ OwedByRing' /\ HeldDebts'
        BY Zenon, <1>4, <1>5, <1>6, <2>2
    <2> QED
        BY Zenon, <2>1, <2>3 DEF LossInv, Known
<1>11. CASE DeliverBatch
    <2>1. /\ batch' \subseteq queue /\ queue' = queue \ batch' /\ pc' = "load"
          /\ owed' = {d \in batch' : <<d.target, d.addr>> \in view}
          /\ obsolete' = batch' \ owed' /\ ready
          /\ UNCHANGED <<meta, unsubmitted, recorded, lapsed, unlearned, topo, view, ready,
                         received, chunk, target, processed>>
        BY Zenon, <1>11 DEF DeliverBatch, take
    <2>2. chunk = {}
        BY Zenon, <1>11 DEF DeliverBatch, LossInv, TypeInv, BatchOnlyInDelivery
    <2>3. ASSUME NEW d \in obsolete' PROVE d \in lapsed \union unlearned \/ Paid(d)
        <3>1. d \in recorded /\ <<d.target, d.addr>> \notin view
            BY Zenon, <1>3, <2>1 DEF Known
        <3> QED
            BY Zenon, <1>3, <2>1, <3>1 DEF OwedByRing, NoLostDebt, Paid
    <2>4. ~processed
        BY Zenon, <1>3, <1>11 DEF DeliverBatch, HeldDebts
    <2>5. HeldDebts'
        BY Zenon, <2>1, <2>2, <2>3, <2>4 DEF HeldDebts, Paid
    <2>6. Known'
        BY Zenon, <1>3, <2>1 DEF Known
    <2> QED
        BY Zenon, <1>4, <1>5, <2>1, <2>5, <2>6 DEF LossInv, Known
<1>12. CASE StartReload \/ StartWait \/ EndWait
    <2>1. /\ UNCHANGED <<meta, queue, unsubmitted, recorded, lapsed, unlearned, topo, view, ready,
                         received, delivery>>
          /\ pc \in {"top", "wait"} /\ pc' \notin Delivering
        BY Zenon, <1>12 DEF StartReload, StartWait, EndWait, Delivering
    <2>2. HeldDebts'
        BY Zenon, <1>3, <2>1 DEF HeldDebts, Delivering, Paid
    <2> QED
        BY Zenon, <1>3, <1>4, <1>5, <2>1, <2>2 DEF LossInv, Known
<1>13. ASSUME NEW page \in SUBSET meta, ReloadPage(page) PROVE LossInv'
    <2>1. PICK acc \in SUBSET page : queue' = queue \union acc
        BY Zenon, <1>13 DEF ReloadPage, Accepted, Undeferred, Enqueue
    <2>2. /\ UNCHANGED <<meta, unsubmitted, recorded, lapsed, unlearned, topo, view, ready,
                         received, delivery>>
          /\ pc = "reload"
        BY Zenon, <1>13 DEF ReloadPage
    <2>3. pc' \notin Delivering
        BY Zenon, <1>13, ReloadType DEF LossInv, Delivering
    <2>4. HeldDebts'
        BY Zenon, <1>3, <2>2, <2>3 DEF HeldDebts, Delivering, Paid
    <2>5. Known'
        BY Zenon, <1>3, <2>1, <2>2 DEF Known
    <2> QED
        BY Zenon, <1>4, <1>5, <2>2, <2>4, <2>5 DEF LossInv, Known
<1> DEFINE Steady == UNCHANGED <<queue, unsubmitted, recorded, lapsed, unlearned, topo, view,
                                 ready>>
\* What is left for a step of deliver: the worker's part, and what it removes.
<1>14. ASSUME Steady, batch' = batch \/ batch' = {}, HeldDebts',
              meta' \subseteq meta,
              \A d \in meta : d \in meta' \/ d \in lapsed \union unlearned \/ Paid(d)
       PROVE  LossInv'
    <2>1. Known'
        BY Zenon, <1>3, <1>14 DEF Known
    <2>2. OwedByRing'
        BY Zenon, <1>5, <1>14
    <2>3. NoLostDebt'
        BY Zenon, <1>4, <1>14
    <2> QED
        BY Zenon, <1>14, <2>1, <2>2, <2>3 DEF LossInv, Known
<1>15. CASE LoadRecords
    <2>1. /\ records' \in [Addrs -> 0..MaxTs]
          /\ \A d \in owed' : records'[d.addr] >= d.ts
          /\ pc' = "targets" /\ chunk = {}
        BY Zenon, <1>15 DEF LoadRecords, LossInv, TypeInv, TypeOK, BatchOnlyInDelivery
    <2>2. HeldDebts'
        BY Zenon, <1>3, <1>15, <2>1 DEF LoadRecords, HeldDebts, Paid
    <2> QED
        BY Zenon, <1>14, <1>15, <2>2 DEF LoadRecords
<1>16. ASSUME NEW t \in Targets, Park(t) \/ DeliverTo(t) PROVE LossInv'
    <2>1. /\ pc = "targets" /\ pc' \in {"targets", "pids"} /\ chunk = {} /\ owed' \subseteq owed
          /\ UNCHANGED <<obsolete, records, chunk, processed, received, lapsed, unlearned>>
        BY Zenon, <1>16 DEF Park, DeliverTo, OwedTo, LossInv, TypeInv, BatchOnlyInDelivery
    <2>2. HeldDebts'
        BY Zenon, <1>3, <2>1 DEF HeldDebts, Paid, Delivering
    <2> QED
        BY Zenon, <1>14, <1>16, <2>2 DEF Park, DeliverTo
<1>17. ASSUME NEW a \in Addrs, Push(a) PROVE LossInv'
    <2>1. /\ pc = "pids" /\ pc' = "push" /\ chunk' \subseteq OwedTo(target) /\ chunk = {}
          /\ UNCHANGED <<owed, obsolete, records, target, processed, received, lapsed, unlearned>>
        BY Zenon, <1>17 DEF Push, LossInv, TypeInv, BatchOnlyInDelivery
    <2>2. ~processed
        BY Zenon, <1>3, <2>1 DEF HeldDebts
    <2>3. HeldDebts'
        BY Zenon, <1>3, <2>1, <2>2 DEF HeldDebts, Paid, Delivering, OwedTo
    <2> QED
        BY Zenon, <1>14, <1>17, <2>3 DEF Push
<1>18. CASE TargetDone
    <2>1. HeldDebts'
        BY Zenon, <1>3, <1>18 DEF TargetDone, HeldDebts, Paid, Delivering, LossInv, TypeInv,
           BatchOnlyInDelivery
    <2> QED
        BY Zenon, <1>14, <1>18, <2>1 DEF TargetDone
<1>19. CASE PushProcessed
    <2>1. ASSUME NEW d \in chunk PROVE Paid(d)'
        <3>1. /\ d \in Debts /\ records[d.addr] >= d.ts /\ d.target = target
            BY Zenon, <1>1, <1>3, <1>19 DEF PushProcessed, HeldDebts, Delivering
        <3>2. /\ <<d.target, d.addr>> \in Pairs /\ d.addr \in Addrs /\ d.ts \in Nat
            BY Zenon, <3>1, DebtFields
        <3>3. /\ records[d.addr] \in Nat /\ received[<<d.target, d.addr>>] \in Nat
            BY <3>2, Bounds DEF LossInv, TypeInv, TypeOK
        <3>4. received'[<<d.target, d.addr>>] =
                  IF records[d.addr] > received[<<d.target, d.addr>>]
                  THEN records[d.addr] ELSE received[<<d.target, d.addr>>]
            BY Zenon, <1>19, <3>1, <3>2 DEF PushProcessed
        <3>5. received'[<<d.target, d.addr>>] >= d.ts
            <4>1. CASE records[d.addr] > received[<<d.target, d.addr>>]
                BY Zenon, <3>1, <3>4, <4>1
            <4>2. CASE ~(records[d.addr] > received[<<d.target, d.addr>>])
                <5>1. received'[<<d.target, d.addr>>] = received[<<d.target, d.addr>>]
                    BY Zenon, <3>4, <4>2
                <5>2. received[<<d.target, d.addr>>] >= d.ts
                    BY Zenon, <3>1, <3>2, <3>3, <4>2, NotBelow
                <5> QED
                    BY Zenon, <5>1, <5>2
            <4> QED
                BY Zenon, <4>1, <4>2
        <3> QED
            BY Zenon, <3>5 DEF Paid
    <2>2. /\ UNCHANGED <<pc, owed, obsolete, records, target, chunk, lapsed, unlearned>>
          /\ pc = "push"
        BY Zenon, <1>19 DEF PushProcessed
    <2>3. \A d \in obsolete : d \in lapsed \union unlearned \/ Paid(d)'
        BY Zenon, <1>2, <1>3 DEF HeldDebts
    <2>4. HeldDebts'
        BY Zenon, <1>3, <2>1, <2>2, <2>3 DEF HeldDebts
    <2> QED
        BY Zenon, <1>14, <1>19, <2>4 DEF PushProcessed
<1>20. CASE PushAccepted
    <2>1. HeldDebts'
        BY Zenon, <1>3, <1>20 DEF PushAccepted, HeldDebts, Paid, Delivering
    <2> QED
        BY Zenon, <1>14, <1>20, <2>1 DEF PushAccepted
<1>21. CASE PushFailed
    <2>1. HeldDebts'
        BY Zenon, <1>3, <1>21 DEF PushFailed, HeldDebts, Paid, Delivering
    <2> QED
        BY Zenon, <1>14, <1>21, <2>1 DEF PushFailed
<1>22. CASE Forget
    <2>1. HeldDebts'
        BY Zenon, <1>3, <1>22 DEF Forget, HeldDebts, Paid, Delivering
    <2>2. \A d \in chunk : Paid(d)
        BY Zenon, <1>3, <1>22 DEF Forget, HeldDebts
    <2> QED
        BY Zenon, <1>14, <1>22, <2>1, <2>2 DEF Forget
<1>23. CASE StartDrop
    <2>1. HeldDebts'
        BY Zenon, <1>3, <1>23 DEF StartDrop, HeldDebts, Paid, Delivering
    <2> QED
        BY Zenon, <1>14, <1>23, <2>1 DEF StartDrop
<1>24. CASE EndBatch
    BY Zenon, <1>7, <1>14, <1>24 DEF EndBatch, settle, Delivering
<1>25. ASSUME NEW g \in 1..NumGroups, Drop(g) PROVE LossInv'
    <2>1. PICK dropped \in SUBSET obsolete : meta' = meta \ dropped
        BY Zenon, <1>25 DEF Drop
    <2>2. \A d \in meta : d \in meta' \/ d \in lapsed \union unlearned \/ Paid(d)
        BY Zenon, <1>3, <2>1 DEF HeldDebts
    <2>3. CASE settle /\ LeaveDeliver /\ pc' = "top"
        BY Zenon, <1>7, <1>14, <1>25, <2>1, <2>2, <2>3 DEF Drop, settle, Delivering
    <2>4. CASE /\ obsolete' \subseteq obsolete
               /\ UNCHANGED <<batch, owed, records, target, chunk, processed, pc>>
        <3>1. HeldDebts'
            BY Zenon, <1>3, <1>25, <2>4 DEF Drop, HeldDebts, Paid
        <3> QED
            BY Zenon, <1>14, <1>25, <2>1, <2>2, <2>4, <3>1 DEF Drop
    <2> QED
        BY Zenon, <1>25, <2>3, <2>4 DEF Drop
<1>26. CASE StepFailed
    <2>1. LeaveDeliver /\ pc' \notin Delivering /\ batch' \in {batch, {}}
        BY Zenon, <1>26 DEF StepFailed, Abandon, settle, Delivering
    <2> QED
        BY Zenon, <1>7, <1>14, <1>26, <2>1 DEF StepFailed
<1>27. CASE Stop
    <2>1. /\ LeaveDeliver /\ pc' \notin Delivering /\ batch' \in {batch, {}} /\ ~ready'
          /\ UNCHANGED <<meta, queue, unsubmitted, recorded, lapsed, unlearned, topo>>
        BY Zenon, <1>27 DEF Stop, Abandon, settle, Delivering
    <2>2. Known'
        BY Zenon, <1>3, <2>1 DEF Known
    <2> QED
        BY Zenon, <1>4, <1>5, <1>7, <2>1, <2>2 DEF LossInv, Known
<1>28. CASE Crash
    <2>1. /\ LeaveDeliver /\ pc' \notin Delivering /\ batch' = {} /\ queue' = {}
          /\ unsubmitted' = {} /\ ~ready'
          /\ UNCHANGED <<meta, recorded, lapsed, unlearned, topo>>
        BY Zenon, <1>28 DEF Crash, Delivering
    <2>2. Known'
        BY Zenon, <1>3, <2>1 DEF Known
    <2> QED
        BY Zenon, <1>4, <1>5, <1>7, <2>1, <2>2 DEF LossInv, Known
<1>29. CASE Restart \/ Start
    <2>1. /\ pc' = "top" /\ pc \in {"down", "stopped"} /\ batch' = batch /\ meta' = meta
          /\ UNCHANGED <<delivery, received, queue, unsubmitted, recorded, lapsed, view, ready>>
        BY SMTT(20), <1>29 DEF Restart, Start
    <2>2. \/ UNCHANGED <<topo, unlearned>>
          \/ topo' = {} /\ unlearned' = unlearned \union meta
        BY Zenon, <1>29 DEF Restart, Start
    <2>3. HeldDebts'
        BY Zenon, <1>2, <1>3, <2>1, <2>2 DEF HeldDebts, Paid, Delivering
    <2>4. OwedByRing'
        BY Zenon, <1>3, <2>1, <2>2 DEF OwedByRing
    <2>5. NoLostDebt'
        BY Zenon, <1>4, <2>1, <2>2
    <2>6. Known'
        BY Zenon, <1>3, <2>1 DEF Known
    <2> QED
        BY Zenon, <2>3, <2>4, <2>5, <2>6 DEF LossInv, Known
<1>30. ASSUME NEW new \in SUBSET Pairs, TopologyChange(new) PROVE LossInv'
    <2>1. /\ lapsed' = lapsed \union {d \in meta : <<d.target, d.addr>> \in topo \ new}
          /\ topo' = new
          /\ UNCHANGED <<meta, queue, unsubmitted, batch, recorded, view, ready, pc, delivery,
                         unlearned>>
        BY Zenon, <1>30 DEF TopologyChange
    <2>2. OwedByRing'
        BY Zenon, <1>3, <2>1 DEF OwedByRing
    <2>3. Known'
        BY Zenon, <1>3, <2>1 DEF Known
    <2> QED
        BY Zenon, <1>4, <1>6, <2>1, <2>2, <2>3 DEF LossInv, Known
<1>31. CASE Invalidate \/ Rebuild
    <2>1. /\ UNCHANGED <<meta, queue, unsubmitted, batch, recorded, lapsed, unlearned, topo, pc, delivery>>
          /\ ready' => view' = topo
        BY Zenon, <1>31 DEF Invalidate, Rebuild
    <2>2. OwedByRing'
        BY Zenon, <1>3, <2>1 DEF OwedByRing
    <2>3. Known'
        BY Zenon, <1>3, <2>1 DEF Known
    <2> QED
        BY Zenon, <1>4, <1>6, <2>1, <2>2, <2>3 DEF LossInv, Known
<1>32. CASE \E t \in Targets : PeerDown(t) \/ PeerUp(t) \/ BackoffExpires(t)
    <2>1. Steady /\ UNCHANGED <<meta, pc, delivery>>
        BY Zenon, <1>32 DEF PeerDown, PeerUp, BackoffExpires
    <2> QED
        BY Zenon, <1>6, <1>14, <2>1
<1>33. CASE UNCHANGED vars
    BY Zenon, <1>6, <1>14, <1>33 DEF vars
<1> QED
    BY Zenon, <1>8, <1>9, <1>10, <1>11, <1>12, <1>13, <1>15, <1>16, <1>17, <1>18, <1>19,
       <1>20, <1>21, <1>22, <1>23, <1>24, <1>25, <1>26, <1>27, <1>28, <1>29, <1>30,
       <1>31, <1>32, <1>33
       DEF Next, NextUninterrupted, Worker, Producer, Environment

\* A debt leaves META only when its target has processed the version or has
\* stopped being a replica, stops of anti-entropy included, or when the node
\* restarted with it and without having learnt its members.
THEOREM NoDebtLost == Spec => []NoLostDebt
<1>1. Init => LossInv
    <2> SUFFICES ASSUME Init PROVE LossInv
        OBVIOUS
    <2>1. NoLostDebt /\ OwedByRing
        BY Zenon DEF Init, NoLostDebt, OwedByRing
    <2>2. HeldDebts
        BY Zenon DEF Init, HeldDebts, Delivering
    <2> QED
        BY Zenon, <2>1, <2>2, TypeInit DEF Init, LossInv
<1>2. LossInv /\ [Next]_vars => LossInv'
    <2>1. LossInv /\ [Next]_vars => TypeInv'
        BY TypeNext DEF LossInv
    <2> QED
        BY <2>1, LossNext
<1>3. Spec => []LossInv
    BY <1>1, <1>2, PTL DEF Spec
<1> QED
    BY <1>3, PTL DEF LossInv
=============================================================================
