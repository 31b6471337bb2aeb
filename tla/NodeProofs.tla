---------------------------- MODULE NodeProofs -----------------------------
(***************************************************************************)
(* Two parts of a node that work on what it holds alone: its clock and its  *)
(* collection worker.                                                       *)
(*                                                                         *)
(* A clock never returns a timestamp twice, and a node's writes advance     *)
(* within an incarnation and past the last keys it found at boot: from the  *)
(* invariant that the clock reads at least all that it returned or was      *)
(* shown.                                                                   *)
(*                                                                         *)
(* The status of the worker is that of the one pass there is, its queue is  *)
(* bounded and holds no address twice, and the worker sleeps on a queue     *)
(* that is not empty in two cases only.                                     *)
(***************************************************************************)
EXTENDS NodeClock, GarbageCollector, SequenceTheorems, WellFoundedInduction, TLAPS

----------------------------------------------------------------------------
(* The order of timestamps *)

Timestamp == [wall_ms : Int, counter : Int]

\* The order is transitive.
LEMMA BeforeTransitive ==
    ASSUME NEW r \in Timestamp, NEW s \in Timestamp, NEW t \in Timestamp,
           AtMost(r, s), Before(s, t)
    PROVE  Before(r, t)
  BY DEF AtMost, Before, Timestamp

\* So is its reflexive closure.
LEMMA AtMostTransitive ==
    ASSUME NEW r \in Timestamp, NEW s \in Timestamp, NEW t \in Timestamp,
           AtMost(r, s), AtMost(s, t)
    PROVE  AtMost(r, t)
  BY DEF AtMost, Before, Timestamp

\* Two timestamps that are not ordered are equal.
LEMMA NotBefore ==
    ASSUME NEW s \in Timestamp, NEW t \in Timestamp, ~Before(t, s)
    PROVE  AtMost(s, t)
  BY DEF AtMost, Before, Timestamp

\* Timestamps of the model are timestamps.
LEMMA StampsAreTimestamps ==
    /\ Stamps \subseteq Timestamp
    /\ ClockTypeOK => Current \in Stamps
  BY ClockAssumption DEF Stamps, Timestamp, ClockTypeOK, Current, Stamp

\* The largest of three numbers is one of them and at least each.
LEMMA Largest ==
    ASSUME NEW a \in Int, NEW b \in Int, NEW c \in Int
    PROVE  /\ LargestOf(a, b, c) \in {a, b, c}
           /\ LargestOf(a, b, c) >= a
           /\ LargestOf(a, b, c) >= b
           /\ LargestOf(a, b, c) >= c
  <1>1. \E m \in {a, b, c} : m >= a /\ m >= b /\ m >= c
    BY SMT
  <1> QED
    BY <1>1 DEF LargestOf

----------------------------------------------------------------------------
(* HLCClock *)

\* A tick moves the clock forward.
LEMMA TickAdvances ==
    ASSUME ClockTypeOK, tick
    PROVE  /\ Before(Current, Current')
           /\ wall_ms' \in 0..MaxWall /\ counter' \in 0..MaxCounter
  <1>1. CASE now_ms > wall_ms
    BY <1>1, ClockAssumption DEF tick, ClockTypeOK, Walls, Before, Current, Stamp
  <1>2. CASE ~(now_ms > wall_ms)
    BY <1>2, ClockAssumption DEF tick, ClockTypeOK, Walls, Before, Current, Stamp
  <1> QED
    BY <1>1, <1>2

\* An update moves the clock forward, beyond the remote timestamp.
LEMMA UpdateAdvances ==
    ASSUME ClockTypeOK, NEW r \in Stamps, Update(r)
    PROVE  /\ Before(Current, Current')
           /\ Before(r, Current')
           /\ wall_ms' \in 0..MaxWall /\ counter' \in 0..MaxCounter
  <1>1. /\ now_ms \in 1..MaxWall /\ wall_ms \in 0..MaxWall /\ r.wall_ms \in 0..MaxWall
        /\ counter \in 0..MaxCounter /\ r.counter \in 0..MaxCounter
        /\ counter < MaxCounter /\ r.counter < MaxCounter
        /\ MaxWall \in Nat /\ MaxCounter \in Nat
    BY ClockAssumption DEF ClockTypeOK, Walls, Stamps, Update
  <1>2. /\ wall_ms' \in {now_ms, r.wall_ms, wall_ms}
        /\ wall_ms' >= now_ms /\ wall_ms' >= r.wall_ms /\ wall_ms' >= wall_ms
    BY <1>1, Largest DEF Update
  <1>3. counter' = IF wall_ms' = wall_ms /\ wall_ms' = r.wall_ms
                   THEN (IF r.counter > counter THEN r.counter ELSE counter) + 1
                   ELSE IF wall_ms' = wall_ms THEN counter + 1
                   ELSE IF wall_ms' = r.wall_ms THEN r.counter + 1
                   ELSE 0
    BY DEF Update, Merged
  <1>4. wall_ms' \in 0..MaxWall /\ counter' \in 0..MaxCounter
    BY <1>1, <1>2, <1>3
  <1>5. Before(Current, Current')
    BY <1>1, <1>2, <1>3 DEF Before, Current, Stamp
  <1>6. Before(r, Current')
    BY <1>1, <1>2, <1>3 DEF Before, Current, Stamp
  <1> QED
    BY <1>4, <1>5, <1>6

\* Restoring never moves a clock back and reaches the restored timestamp.
LEMMA RestoredReaches ==
    ASSUME NEW w \in Nat, NEW c \in Nat, NEW r \in Stamps
    PROVE  LET s == Restored(w, c, r.wall_ms, r.counter) IN
           /\ AtMost(Stamp(w, c), s) /\ AtMost(r, s)
           /\ s \in {r, Stamp(w, c)}
  <1>1. r.wall_ms \in Nat /\ r.counter \in Nat /\ r = Stamp(r.wall_ms, r.counter)
    BY ClockAssumption DEF Stamps, Stamp
  <1>2. CASE r.wall_ms > w
    BY <1>1, <1>2 DEF Restored, AtMost, Before, Stamp
  <1>3. CASE r.wall_ms = w
    BY <1>1, <1>3 DEF Restored, AtMost, Before, Stamp
  <1>4. CASE r.wall_ms < w
    BY <1>1, <1>4 DEF Restored, AtMost, Before, Stamp
  <1> QED
    BY <1>1, <1>2, <1>3, <1>4

\* The clock's invariant: it has its type and reads at least all it has seen.
ClockInv == ClockTypeOK /\ ClockAhead

\* A forward move that adds at most the new reading keeps the clock ahead.
LEMMA AheadKept ==
    ASSUME ClockInv, Current' \in Stamps, AtMost(Current, Current'),
           NEW r \in Stamps, AtMost(r, Current'),
           returned' \union observed' \subseteq returned \union observed \union {Current', r}
    PROVE  ClockAhead'
  <1> SUFFICES ASSUME NEW s \in returned' \union observed'
               PROVE  AtMost(s, Current')
    BY DEF ClockAhead
  <1>1. CASE s \in returned \union observed
    <2>1. AtMost(s, Current) /\ s \in Stamps /\ Current \in Stamps
      BY <1>1, StampsAreTimestamps DEF ClockInv, ClockAhead, ClockTypeOK
    <2> QED
      BY <2>1, StampsAreTimestamps, AtMostTransitive
  <1>2. CASE s = Current'
    BY <1>2 DEF AtMost
  <1>3. CASE s = r
    BY <1>3
  <1> QED
    BY <1>1, <1>2, <1>3

\* A tick keeps the invariant and returns a timestamp above all seen.
LEMMA TickStep ==
    ASSUME ClockInv, Tick
    PROVE  /\ ClockInv'
           /\ \A s \in returned \union observed : Before(s, Current')
  <1>1. /\ Before(Current, Current') /\ Current' \in Stamps
        /\ wall_ms' \in 0..MaxWall /\ counter' \in 0..MaxCounter
    BY TickAdvances DEF ClockInv, Tick, Current, Stamp, Stamps
  <1>2. /\ calls' \in 0..MaxCalls /\ now_ms' = now_ms /\ observed' = observed
        /\ returned' = returned \union {Current'}
    BY ClockAssumption DEF Tick, Return, Current, ClockInv, ClockTypeOK
  <1>3. ClockTypeOK'
    BY <1>1, <1>2 DEF ClockInv, ClockTypeOK
  <1>4. ClockAhead'
    <2>1. AtMost(Current, Current') /\ AtMost(Current', Current')
      BY <1>1 DEF AtMost
    <2> QED
      BY <1>1, <1>2, <2>1, AheadKept
  <1>5. ASSUME NEW s \in returned \union observed
        PROVE  Before(s, Current')
    <2>1. AtMost(s, Current) /\ s \in Stamps /\ Current \in Stamps
      BY StampsAreTimestamps DEF ClockInv, ClockAhead, ClockTypeOK
    <2> QED
      BY <1>1, <2>1, StampsAreTimestamps, BeforeTransitive
  <1> QED
    BY <1>3, <1>4, <1>5 DEF ClockInv

\* So does an update, whose result is also above the remote timestamp.
LEMMA UpdateStep ==
    ASSUME ClockInv, NEW r \in Stamps, Update(r)
    PROVE  /\ ClockInv'
           /\ \A s \in returned \union observed' : Before(s, Current')
  <1>1. /\ Before(Current, Current') /\ Before(r, Current') /\ Current' \in Stamps
        /\ wall_ms' \in 0..MaxWall /\ counter' \in 0..MaxCounter
    BY UpdateAdvances DEF ClockInv, Current, Stamp, Stamps
  <1>2. /\ calls' \in 0..MaxCalls /\ now_ms' = now_ms
        /\ observed' = observed \union {r}
        /\ returned' = returned \union {Current'}
    BY ClockAssumption DEF Update, Return, Current, ClockInv, ClockTypeOK
  <1>3. ClockTypeOK'
    BY <1>1, <1>2 DEF ClockInv, ClockTypeOK
  <1>4. ClockAhead'
    <2>1. AtMost(Current, Current') /\ AtMost(r, Current')
      BY <1>1 DEF AtMost
    <2> QED
      BY <1>1, <1>2, <2>1, AheadKept
  <1>5. ASSUME NEW s \in returned \union observed'
        PROVE  Before(s, Current')
    <2>1. CASE s = r
      BY <1>1, <2>1
    <2>2. CASE s \in returned \union observed
      <3>1. AtMost(s, Current) /\ s \in Stamps /\ Current \in Stamps
        BY <2>2, StampsAreTimestamps DEF ClockInv, ClockAhead, ClockTypeOK
      <3> QED
        BY <1>1, <3>1, StampsAreTimestamps, BeforeTransitive
    <2> QED
      BY <1>2, <2>1, <2>2
  <1> QED
    BY <1>3, <1>4, <1>5 DEF ClockInv

\* The invariant holds initially.
LEMMA ClockInvInit == ClockInit => ClockInv
  BY ClockAssumption DEF ClockInit, ClockInv, ClockTypeOK, ClockAhead

\* Moving time leaves the clock alone.
LEMMA TimeMovesStep ==
    ASSUME ClockInv, NEW n \in Walls, TimeMoves(n)
    PROVE  ClockInv'
  <1>1. ClockTypeOK'
    BY DEF ClockInv, TimeMoves, clock, ClockTypeOK
  <1>2. ClockAhead'
    BY DEF ClockInv, TimeMoves, clock, ClockAhead, Current
  <1> QED
    BY <1>1, <1>2 DEF ClockInv

\* Every step of the clock keeps the invariant.
LEMMA ClockInvInductive == ClockInv /\ [ClockNext]_clockVars => ClockInv'
  <1> SUFFICES ASSUME ClockInv, [ClockNext]_clockVars PROVE ClockInv'
    OBVIOUS
  <1>1. CASE Tick
    BY <1>1, TickStep
  <1>2. ASSUME NEW r \in Stamps, Update(r) PROVE ClockInv'
    BY <1>2, UpdateStep
  <1>3. ASSUME NEW r \in Stamps, Restore(r) PROVE ClockInv'
    <2>1. wall_ms \in Nat /\ counter \in Nat /\ Current = Stamp(wall_ms, counter)
      BY ClockAssumption DEF ClockInv, ClockTypeOK, Current
    <2>2. /\ Current' = Restored(wall_ms, counter, r.wall_ms, r.counter)
          /\ observed' = observed \union {r} /\ UNCHANGED <<now_ms, calls, returned>>
          /\ wall_ms' = Current'.wall_ms /\ counter' = Current'.counter
      <3>1. Restored(wall_ms, counter, r.wall_ms, r.counter) \in {r, Current}
        BY <2>1, RestoredReaches
      <3>2. Current \in Stamps
        BY StampsAreTimestamps DEF ClockInv
      <3>3. Restored(wall_ms, counter, r.wall_ms, r.counter) \in Stamps
        BY <3>1, <3>2
      <3> QED
        BY <1>3, <3>3 DEF Restore, Current, Stamp, Stamps
    <2>3. AtMost(Current, Current') /\ AtMost(r, Current') /\ Current' \in Stamps
      BY <2>1, <2>2, RestoredReaches, StampsAreTimestamps DEF ClockInv
    <2>4. ClockAhead'
      BY <2>2, <2>3, AheadKept
    <2>5. ClockTypeOK'
      BY <2>2, <2>3 DEF ClockInv, ClockTypeOK, Stamps
    <2> QED
      BY <2>4, <2>5 DEF ClockInv
  <1>4. ASSUME NEW n \in Walls, TimeMoves(n) PROVE ClockInv'
    BY <1>4, TimeMovesStep
  <1>5. CASE UNCHANGED clockVars
    BY <1>5 DEF ClockInv, ClockTypeOK, ClockAhead, clockVars, Current
  <1> QED
    BY <1>1, <1>2, <1>3, <1>4, <1>5 DEF ClockNext

\* tick and update return timestamps that are strictly greater than any
\* returned before and than the remote timestamps shown to the clock.
THEOREM ClockStrictlyIncreasing == ClockSpec => StrictlyIncreasing
  <1>1. ClockInv /\ [ClockNext]_clockVars =>
            [calls' # calls =>
                \A s \in returned \union observed' : Before(s, Current')]_clockVars
    <2> SUFFICES ASSUME ClockInv, [ClockNext]_clockVars, calls' # calls
                 PROVE  \A s \in returned \union observed' : Before(s, Current')
      OBVIOUS
    <2>1. CASE Tick
      BY <2>1, TickStep DEF Tick
    <2>2. ASSUME NEW r \in Stamps, Update(r)
          PROVE  \A s \in returned \union observed' : Before(s, Current')
      BY <2>2, UpdateStep
    <2>3. \A r \in Stamps : ~Restore(r)
      BY DEF Restore
    <2>4. \A n \in Walls : ~TimeMoves(n)
      BY DEF TimeMoves
    <2>5. ~(UNCHANGED clockVars)
      BY DEF clockVars
    <2> QED
      BY <2>1, <2>2, <2>3, <2>4, <2>5 DEF ClockNext
  <1> QED
    BY <1>1, ClockInvInit, ClockInvInductive, PTL DEF ClockSpec, StrictlyIncreasing

----------------------------------------------------------------------------
(* NodeClock *)

\* A non-empty bounded set of natural numbers has a greatest element.
LEMMA GreatestNumber ==
    ASSUME NEW m \in Nat, NEW S \in SUBSET (0..m), S # {}
    PROVE  \E v \in S : \A w \in S : w <= v
  <1> DEFINE Gaps == {m - v : v \in S}
             R == OpToRel(<, Nat)
  <1>1. \A v \in S : v \in Nat /\ m - v \in Nat
    OBVIOUS
  <1>2. Gaps \subseteq Nat /\ Gaps # {}
    BY Zenon, <1>1
  <1>3. PICK g \in Gaps : \A h \in Gaps : <<h, g>> \notin R
    <2> HIDE DEF Gaps, R
    <2>1. IsWellFoundedOn(R, Nat)
      BY Zenon, NatLessThanWellFounded DEF R
    <2> QED
      BY Zenon, <1>2, <2>1, WFMin
  <1>4. \A h \in Gaps : ~(h < g)
    BY Zenon, <1>2, <1>3 DEF OpToRel
  <1>5. PICK v \in S : g = m - v
    BY Zenon, <1>3
  <1>6. ASSUME NEW w \in S PROVE w <= v
    <2>1. ~(m - w < m - v)
      BY <1>4, <1>5
    <2> HIDE DEF Gaps, R
    <2> QED
      BY <1>1, <2>1
  <1> QED
    BY <1>6

\* A non-empty set of timestamps has a latest one.
LEMMA LatestExists ==
    ASSUME NEW T \in SUBSET Stamps, T # {}
    PROVE  \E t \in T : \A s \in T : AtMost(s, t)
  <1> DEFINE W == {t.wall_ms : t \in T}
  <1>1. W \in SUBSET (0..MaxWall) /\ W # {}
    BY DEF Stamps
  <1>2. PICK w \in W : \A v \in W : v <= w
    <2> HIDE DEF W
    <2> QED
      BY <1>1, GreatestNumber, ClockAssumption
  <1> DEFINE C == {t.counter : t \in {u \in T : u.wall_ms = w}}
  <1>3. C \in SUBSET (0..MaxCounter) /\ C # {}
    BY DEF Stamps
  <1>4. PICK c \in C : \A d \in C : d <= c
    <2> HIDE DEF C
    <2> QED
      BY <1>3, GreatestNumber, ClockAssumption
  <1>5. PICK t \in T : t.wall_ms = w /\ t.counter = c
    OBVIOUS
  <1>6. ASSUME NEW s \in T PROVE AtMost(s, t)
    <2>1. /\ s.wall_ms \in 0..MaxWall /\ s.counter \in 0..MaxCounter
          /\ t.wall_ms \in 0..MaxWall /\ t.counter \in 0..MaxCounter
          /\ s = [wall_ms |-> s.wall_ms, counter |-> s.counter]
          /\ t = [wall_ms |-> t.wall_ms, counter |-> t.counter]
      BY DEF Stamps
    <2>2. s.wall_ms <= t.wall_ms
      BY <1>2, <1>5
    <2>3. s.wall_ms = t.wall_ms => s.counter <= t.counter
      BY <1>4, <1>5
    <2> QED
      BY <2>1, <2>2, <2>3, ClockAssumption DEF AtMost, Before
  <1> QED
    BY <1>6

\* The node's invariant: the clock's, and that it reads at least the last keys
\* found at boot.
NodeInv ==
    /\ ClockInv
    /\ NodeTypeOK
    /\ \A s \in floor : AtMost(s, Current)

\* What latest_hlc returns is at least the last key of every group.
LEMMA LatestIsLast ==
    ASSUME tags \subseteq Tagged
    PROVE  /\ latest_hlc \in Stamps
           /\ \A k \in LastKeys : AtMost(k.ts, latest_hlc) /\ k.ts \in Stamps
  <1> DEFINE Seen == {k.ts : k \in LastKeys} \union {Stamp(0, 0)}
  <1>1. Stamp(0, 0) \in Stamps
    BY ClockAssumption DEF Stamp, Stamps
  <1>2. \A k \in LastKeys : k.ts \in Stamps
    BY DEF LastKeys, Tagged, Stamps, Walls
  <1>3. Seen \in SUBSET Stamps /\ Seen # {}
    BY <1>1, <1>2
  <1>4. latest_hlc = CHOOSE t \in Seen : \A s \in Seen : AtMost(s, t)
    BY DEF latest_hlc
  <1>5. \A k \in LastKeys : k.ts \in Seen
    OBVIOUS
  <1> HIDE DEF Seen
  <1>6. \E t \in Seen : \A s \in Seen : AtMost(s, t)
    BY <1>3, LatestExists
  <1>7. latest_hlc \in Seen /\ \A s \in Seen : AtMost(s, latest_hlc)
    BY <1>4, <1>6
  <1> QED
    BY <1>2, <1>3, <1>5, <1>7

\* The clock only moves forward, so it stays ahead of the last keys.
LEMMA FloorKept ==
    ASSUME NodeInv, Current' \in Stamps, AtMost(Current, Current'), floor' = floor
    PROVE  (\A s \in floor : AtMost(s, Current))'
  <1>1. floor \subseteq Stamps /\ Current \in Stamps
    BY StampsAreTimestamps DEF NodeInv, NodeTypeOK
  <1> QED
    BY <1>1, StampsAreTimestamps, AtMostTransitive DEF NodeInv

\* A step that leaves the clock and the last keys alone.
LEMMA ClockUntouched ==
    ASSUME NodeInv, UNCHANGED <<clockVars, floor>>
    PROVE  ClockInv' /\ (\A s \in floor : AtMost(s, Current))'
  <1>1. ClockInv'
    BY DEF NodeInv, ClockInv, ClockTypeOK, ClockAhead, clockVars, Current
  <1>2. (\A s \in floor : AtMost(s, Current))'
    BY DEF NodeInv, clockVars, Current
  <1> QED
    BY <1>1, <1>2

\* A write advances the clock beyond all it returned and the last keys.
LEMMA WriteStep ==
    ASSUME NodeInv, NEW p \in Pids, NodeWrite(p)
    PROVE  /\ NodeInv'
           /\ \A s \in returned \union floor : Before(s, Current')
  <1>1. /\ ClockInv' /\ \A s \in returned \union observed : Before(s, Current')
    BY TickStep DEF NodeInv, NodeWrite
  <1>2. Before(Current, Current') /\ Current \in Stamps /\ Current' \in Stamps
    <2>1. ClockTypeOK /\ tick /\ Current \in Stamps
      BY StampsAreTimestamps DEF NodeInv, ClockInv, NodeWrite, Tick
    <2> QED
      BY <2>1, TickAdvances DEF Current, Stamp, Stamps
  <1>3. (\A s \in floor : AtMost(s, Current))'
    BY <1>2, FloorKept DEF AtMost, NodeWrite
  <1>4. ASSUME NEW s \in floor PROVE Before(s, Current')
    <2>1. AtMost(s, Current) /\ s \in Stamps
      BY DEF NodeInv, NodeTypeOK
    <2> QED
      BY <1>2, <2>1, StampsAreTimestamps, BeforeTransitive
  <1>5. [pid |-> p, ts |-> Current'] \in Tagged
    <2>1. wall_ms' \in Walls
      BY ClockAssumption DEF NodeWrite, Tick, tick, NodeInv, ClockInv, ClockTypeOK, Walls
    <2>2. counter' \in 0..MaxCounter
      BY <1>1 DEF ClockInv, ClockTypeOK
    <2> QED
      BY <2>1, <2>2 DEF Tagged, Current, Stamp
  <1>6. NodeTypeOK'
    <2>1. /\ UNCHANGED <<up, tags, own, floor, stores, restarts>>
          /\ stamped' = stamped \union {[pid |-> p, ts |-> Current']}
      BY DEF NodeWrite
    <2> QED
      BY <1>1, <1>5, <2>1 DEF NodeInv, NodeTypeOK, ClockInv
  <1> QED
    BY <1>1, <1>3, <1>4, <1>6 DEF NodeInv

\* A boot restores the clock to at least the last keys.
LEMMA BootStep ==
    ASSUME NodeInv, Boot
    PROVE  NodeInv'
  <1> DEFINE latest == latest_hlc
             s == Restored(0, 0, latest.wall_ms, latest.counter)
  <1>1. latest \in Stamps /\ \A k \in LastKeys : AtMost(k.ts, latest) /\ k.ts \in Stamps
    BY LatestIsLast DEF NodeInv, NodeTypeOK
  <1>2. /\ wall_ms' = s.wall_ms /\ counter' = s.counter
        /\ calls' = 0 /\ returned' = {} /\ observed' = {latest}
        /\ floor' = {k.ts : k \in LastKeys} /\ restarts' \in 0..MaxRestarts
        /\ up' = TRUE /\ UNCHANGED <<now_ms, stamped, tags, own, stores>>
    BY NodeAssumption DEF Boot, NodeInv, NodeTypeOK
  <1> HIDE DEF latest
  <1>3. s \in Stamps /\ AtMost(latest, s)
    <2>1. Stamp(0, 0) \in Stamps
      BY ClockAssumption DEF Stamp, Stamps
    <2> QED
      BY <1>1, <2>1, RestoredReaches
  <1>4. Current' = s
    BY <1>2, <1>3 DEF Current, Stamp, Stamps
  <1> HIDE DEF s
  <1>5. wall_ms' \in 0..MaxWall /\ counter' \in 0..MaxCounter
    BY <1>2, <1>3 DEF Stamps
  <1>6. ClockTypeOK'
    BY <1>1, <1>2, <1>5, ClockAssumption DEF ClockTypeOK, NodeInv, ClockInv
  <1>7. ClockAhead'
    BY <1>2, <1>3, <1>4 DEF ClockAhead
  <1>8. ASSUME NEW f \in floor' PROVE AtMost(f, Current') /\ f \in Stamps
    <2>1. AtMost(f, latest) /\ f \in Stamps
      BY <1>1, <1>2
    <2> QED
      BY <1>1, <1>3, <1>4, <2>1, StampsAreTimestamps, AtMostTransitive
  <1>9. NodeTypeOK'
    BY <1>2, <1>6, <1>8 DEF NodeInv, NodeTypeOK
  <1> QED
    BY <1>6, <1>7, <1>8, <1>9 DEF NodeInv, ClockInv

\* The node's invariant holds initially.
LEMMA NodeInvInit == NodeInit => NodeInv
  <1> SUFFICES ASSUME NodeInit PROVE NodeInv
    OBVIOUS
  <1>1. ClockInv
    BY ClockInvInit DEF NodeInit
  <1>2. stores \in 0..MaxStores /\ restarts \in 0..MaxRestarts
    BY NodeAssumption DEF NodeInit
  <1> QED
    BY <1>1, <1>2 DEF NodeInit, NodeInv, NodeTypeOK, ClockInv

\* Every step of the node keeps it.
LEMMA NodeInvInductive == NodeInv /\ [NodeNext]_nodeVars => NodeInv'
  <1> SUFFICES ASSUME NodeInv, [NodeNext]_nodeVars PROVE NodeInv'
    OBVIOUS
  <1>1. ASSUME NEW p \in Pids, NodeWrite(p) PROVE NodeInv'
    BY <1>1, WriteStep
  <1>2. ASSUME NEW k \in Tagged, Store(k) PROVE NodeInv'
    <2>1. ClockInv' /\ (\A s \in floor : AtMost(s, Current))'
      BY <1>2, ClockUntouched DEF Store
    <2>2. stores' \in 0..MaxStores
      BY <1>2, NodeAssumption DEF Store, NodeInv, NodeTypeOK
    <2> QED
      BY <1>2, <2>1, <2>2 DEF Store, NodeInv, NodeTypeOK, ClockInv
  <1>3. ASSUME NEW k \in Tagged, StoreElsewhere(k) PROVE NodeInv'
    <2>1. ClockInv' /\ (\A s \in floor : AtMost(s, Current))'
      BY <1>3, ClockUntouched DEF StoreElsewhere
    <2> QED
      BY <1>3, <2>1 DEF StoreElsewhere, NodeInv, NodeTypeOK, ClockInv
  <1>4. ASSUME NEW k \in Tagged, Replicate(k) PROVE NodeInv'
    <2>1. ClockInv' /\ (\A s \in floor : AtMost(s, Current))'
      BY <1>4, ClockUntouched DEF Replicate
    <2>2. stores' \in 0..MaxStores
      BY <1>4, NodeAssumption DEF Replicate, NodeInv, NodeTypeOK
    <2> QED
      BY <1>4, <2>1, <2>2 DEF Replicate, NodeInv, NodeTypeOK, ClockInv
  <1>5. CASE NodeCrash
    <2>1. ClockInv' /\ (\A s \in floor : AtMost(s, Current))'
      BY <1>5, ClockUntouched DEF NodeCrash
    <2> QED
      BY <1>5, <2>1 DEF NodeCrash, NodeInv, NodeTypeOK, ClockInv
  <1>6. CASE Boot
    BY <1>6, BootStep
  <1>7. CASE TimeStep
    <2>1. PICK n \in Walls : TimeMoves(n)
      BY <1>7 DEF TimeStep
    <2>2. ClockInv'
      BY <2>1, TimeMovesStep DEF NodeInv
    <2>3. (\A s \in floor : AtMost(s, Current))'
      BY <1>7, <2>1 DEF TimeStep, TimeMoves, clock, NodeInv, Current
    <2> QED
      BY <1>7, <2>2, <2>3 DEF TimeStep, NodeInv, NodeTypeOK, ClockInv
  <1>8. CASE UNCHANGED nodeVars
    <2>1. ClockInv' /\ (\A s \in floor : AtMost(s, Current))'
      BY <1>8, ClockUntouched DEF nodeVars
    <2> QED
      BY <1>8, <2>1 DEF nodeVars, NodeInv, NodeTypeOK, ClockInv
  <1> QED
    BY <1>1, <1>2, <1>3, <1>4, <1>5, <1>6, <1>7, <1>8 DEF NodeNext

\* Within an incarnation a node's writes get ever greater timestamps, above the
\* last key that every storage group held at boot.
THEOREM NodeWritesAdvance == NodeSpec => WritesAdvance
  <1>1. NodeInv =>
            [\A p \in Pids : NodeWrite(p) =>
                \A s \in returned \union floor : Before(s, Current')]_nodeVars
    BY WriteStep
  <1> QED
    BY <1>1, NodeInvInit, NodeInvInductive, PTL DEF NodeSpec, WritesAdvance

----------------------------------------------------------------------------
(* GarbageCollector *)

\* What is queued, and what the status says about the pass in progress.
Queue(q) ==
    /\ q \in Seq(Addrs) /\ Len(q) <= HotSize
    /\ \A i, j \in 1..Len(q) : q[i] = q[j] => i = j

Waits ==
    /\ pending \in BOOLEAN /\ wake \in BOOLEAN
    /\ pc \in {"stopped", "wait", "page", "hot"} /\ back \in {"wait", "page"}
    /\ pc = "hot" => address \in Addrs

CollectorInv == Waits /\ Queue(hot) /\ StatusTruthful

\* submit keeps the queue bounded, and an address in it once.
LEMMA SubmittedQueue ==
    ASSUME NEW q, Queue(q), NEW a \in Addrs
    PROVE  Queue(Submitted(a, q))
  <1>1. CASE Enters(a, q)
    <2> DEFINE r == Append(q, a)
    <2>1. /\ r \in Seq(Addrs) /\ Len(r) = Len(q) + 1 /\ Len(q) \in Nat
          /\ \A i \in 1..Len(q) : r[i] = q[i]
          /\ r[Len(q) + 1] = a
      BY AppendProperties, LenProperties DEF Queue
    <2>2. Len(q) < HotSize /\ \A i \in 1..Len(q) : q[i] # a
      BY <1>1, LenProperties DEF Enters, Elements, Queue
    <2> HIDE DEF r
    <2>3. \A i \in 1..Len(r) : r[i] = IF i = Len(q) + 1 THEN a ELSE q[i]
      BY <2>1
    <2>4. \A i, j \in 1..Len(r) : r[i] = r[j] => i = j
      BY <2>1, <2>2, <2>3 DEF Queue
    <2>5. Queue(r)
      BY <2>1, <2>2, <2>4, CollectorAssumption DEF Queue
    <2> QED
      BY <1>1, <2>5 DEF Submitted, r
  <1>2. CASE ~Enters(a, q)
    BY <1>2 DEF Submitted
  <1> QED
    BY <1>1, <1>2

\* Pop keeps them too.
LEMMA PoppedQueue ==
    ASSUME NEW q, Queue(q), q # <<>>
    PROVE  Head(q) \in Addrs /\ Queue(Tail(q))
  <1> DEFINE r == Tail(q)
  <1>1. /\ r \in Seq(Addrs) /\ Len(r) = Len(q) - 1 /\ Len(q) \in Nat \ {0}
        /\ \A i \in 1..Len(r) : r[i] = q[i + 1]
        /\ Head(q) \in Addrs
    BY HeadTailProperties, LenProperties, EmptySeq DEF Queue
  <1> HIDE DEF r
  <1>2. \A i \in 1..Len(r) : i + 1 \in 1..Len(q)
    BY <1>1
  <1>3. \A i, j \in 1..Len(r) : r[i] = r[j] => i = j
    BY <1>1, <1>2 DEF Queue
  <1>4. Queue(r)
    BY <1>1, <1>3, CollectorAssumption DEF Queue
  <1> QED
    BY <1>1, <1>4 DEF r

\* A hot step is entered with the head of the queue.
LEMMA HotStepStarts ==
    ASSUME CollectorInv, NEW from \in {"wait", "page"}, StartHotStep(from)
    PROVE  /\ Queue(hot')
           /\ \/ hot' = <<>> /\ hot = <<>> /\ pc' = from /\ UNCHANGED <<address, back>>
              \/ pc' = "hot" /\ back' = from /\ address' \in Addrs
  BY PoppedQueue DEF StartHotStep, Pop, CollectorInv, hotStep

\* A hot step returns to where it was entered from.
LEMMA HotStepEnds ==
    ASSUME CollectorInv, pc = "hot", NEW q, Queue(q), EndHotStep(q), UNCHANGED job
    PROVE  CollectorInv' /\ (Stranded' => Stranded)
  <1>1. /\ hot' = q /\ wake' = IF q # <<>> THEN TRUE ELSE wake
        /\ pc' = back /\ back' = "wait" /\ pending' = pending /\ state' = state
    BY DEF EndHotStep, job
  <1>2. Waits' /\ Queue(hot')
    BY <1>1 DEF CollectorInv, Waits
  <1>3. InPass <=> InPass'
    BY <1>1 DEF InPass, CollectorInv, Waits
  <1>4. StatusTruthful'
    BY <1>1, <1>3 DEF CollectorInv, StatusTruthful
  <1>5. ~Stranded'
    BY <1>1 DEF Stranded, CollectorInv, Waits
  <1> QED
    BY <1>2, <1>4, <1>5 DEF CollectorInv

\* The end of a pass. Only one that failed leaves a queue unannounced.
LEMMA PassEnds ==
    ASSUME CollectorInv, pc = "page", NEW outcome \in {"completed", "failed"},
           EndPass(outcome)
    PROVE  CollectorInv' /\ (Stranded' => state' = "failed")
  <1>1. /\ hot' = hot /\ pc' = "wait" /\ back' = back /\ address' = address
        /\ pending' = pending /\ state' = outcome
        /\ wake' = IF outcome = "completed" /\ hot # <<>> THEN TRUE ELSE wake
    BY DEF EndPass, hotStep
  <1>2. state = "running" /\ pending = FALSE
    BY DEF CollectorInv, Waits, StatusTruthful, InPass
  <1>3. Waits' /\ Queue(hot')
    BY <1>1 DEF CollectorInv, Waits
  <1>4. StatusTruthful'
    BY <1>1, <1>2 DEF StatusTruthful, InPass
  <1>5. outcome = "completed" => ~Stranded'
    BY <1>1 DEF Stranded
  <1> QED
    BY <1>1, <1>3, <1>4, <1>5 DEF CollectorInv

\* A page of a pass.
LEMMA PageStep ==
    ASSUME CollectorInv, NEW page \in SUBSET Keys, ScanPage(page)
    PROVE  CollectorInv' /\ ~Stranded'
  <1>1. pc = "page" /\ state = "running" /\ pending = FALSE
    BY DEF ScanPage, CollectorInv, Waits, StatusTruthful, InPass
  <1>2. CASE LastPage
    <2>1. CASE UNCHANGED <<queueVars, job, due, pc, hotStep>>
      BY <1>1, <2>1 DEF queueVars, job, hotStep, CollectorInv, Waits, StatusTruthful,
                        InPass, Stranded
    <2>2. CASE EndPass("completed")
      <3>1. state' = "completed"
        BY <2>2 DEF EndPass
      <3> QED
        BY <1>1, <2>2, <3>1, PassEnds
    <2> QED
      BY <1>2, <2>1, <2>2 DEF LastPage
  <1>3. CASE FullPage(page)
    <2>1. pending' = pending /\ state' = state /\ wake' = wake
      BY <1>3 DEF FullPage, job
    <2>2. CASE UNCHANGED <<hot, pc, hotStep>>
      BY <1>1, <2>1, <2>2 DEF hotStep, CollectorInv, Waits, StatusTruthful, InPass,
                              Stranded
    <2>3. CASE StartHotStep("page")
      <3>1. /\ Queue(hot')
            /\ \/ pc' = "page" /\ UNCHANGED <<address, back>>
               \/ pc' = "hot" /\ back' = "page" /\ address' \in Addrs
        BY <2>3, HotStepStarts
      <3>2. Waits' /\ InPass' /\ ~Stranded'
        BY <1>1, <2>1, <3>1 DEF CollectorInv, Waits, InPass, Stranded
      <3> QED
        BY <1>1, <2>1, <3>1, <3>2 DEF CollectorInv, StatusTruthful
    <2> QED
      BY <1>3, <2>2, <2>3 DEF FullPage
  <1> QED
    BY <1>2, <1>3 DEF ScanPage

\* A step that puts the worker to sleep on a queue that is not empty.
Strands == Stranded' => \/ Stranded
                        \/ pc = "page" /\ state' = "failed"
                        \/ pc = "stopped"

\* The worker.
LEMMA WorkerStep ==
    ASSUME CollectorInv, Worker \/ PassFails \/ HotStepFails
    PROVE  CollectorInv' /\ Strands
  <1>1. CASE BeginPass
    BY <1>1 DEF BeginPass, hotStep, CollectorInv, Waits, StatusTruthful, InPass, Strands,
                Stranded
  <1>2. CASE BeginHotStep
    <2>1. /\ pc = "wait" /\ pending' = pending /\ state' = state /\ wake' = FALSE
      BY <1>2 DEF BeginHotStep, job
    <2>2. /\ Queue(hot')
          /\ \/ hot' = <<>> /\ pc' = "wait" /\ UNCHANGED <<address, back>>
             \/ pc' = "hot" /\ back' = "wait" /\ address' \in Addrs
      BY <1>2, HotStepStarts DEF BeginHotStep
    <2>3. Waits' /\ ~InPass' /\ ~InPass /\ ~Stranded'
      BY <2>1, <2>2 DEF CollectorInv, Waits, InPass, Stranded
    <2> QED
      BY <2>1, <2>2, <2>3 DEF CollectorInv, StatusTruthful, Strands
  <1>3. CASE \E page \in SUBSET Keys : ScanPage(page)
    BY <1>3, PageStep DEF Strands
  <1>4. CASE \E page \in SUBSET Keys : CollectAddress(page)
    <2>1. PICK page \in SUBSET Keys : CollectAddress(page)
      BY <1>4
    <2>2. address \in Addrs /\ Queue(hot)
      BY <2>1 DEF CollectAddress, CollectorInv, Waits
    <2>3. Queue(IF Cardinality(Outside(page)) = BatchSize
                THEN Submitted(address, hot) ELSE hot)
      BY <2>2, SubmittedQueue
    <2> QED
      BY <2>1, <2>3, HotStepEnds DEF CollectAddress, Strands
  <1>5. CASE PassFails
    BY <1>5, PassEnds DEF PassFails, Strands
  <1>6. CASE HotStepFails
    BY <1>6, HotStepEnds DEF HotStepFails, CollectorInv, Strands
  <1> QED
    BY <1>1, <1>2, <1>3, <1>4, <1>5, <1>6 DEF Worker

\* The callers and the life of the worker.
LEMMA CallerStep ==
    ASSUME CollectorInv,
           \/ \E a \in Addrs, v \in Ts : Write(a, v)
           \/ \E a \in Addrs : Submit(a)
           \/ \E d \in BOOLEAN : Request(d)
           \/ Start \/ Stop \/ Crash \/ IntervalEnds
    PROVE  CollectorInv' /\ Strands
  <1>1. CASE \E a \in Addrs, v \in Ts : Write(a, v)
    BY <1>1 DEF Write, queueVars, job, hotStep, CollectorInv, Waits, StatusTruthful,
                InPass, Strands, Stranded
  <1>2. CASE \E a \in Addrs : Submit(a)
    <2>1. PICK a \in Addrs : Submit(a)
      BY <1>2
    <2>2. Queue(hot') /\ wake' = TRUE
      BY <2>1, SubmittedQueue DEF Submit, CollectorInv
    <2> QED
      BY <2>1, <2>2 DEF Submit, job, hotStep, CollectorInv, Waits, StatusTruthful, InPass,
                        Strands, Stranded
  <1>3. CASE \E d \in BOOLEAN : Request(d)
    BY <1>3 DEF Request, hotStep, CollectorInv, Waits, StatusTruthful, InPass, Strands,
                Stranded
  <1>4. CASE Start
    BY <1>4 DEF Start, queueVars, job, hotStep, CollectorInv, Waits, StatusTruthful,
                InPass, Strands
  <1>5. CASE Stop
    BY <1>5 DEF Stop, queueVars, CollectorInv, Waits, StatusTruthful, InPass, Strands,
                Stranded
  <1>6. CASE Crash
    <2>1. Queue(<<>>)
      BY CollectorAssumption DEF Queue
    <2> QED
      BY <1>6, <2>1 DEF Crash, CollectorInv, Waits, StatusTruthful, InPass, Strands,
                        Stranded
  <1>7. CASE IntervalEnds
    BY <1>7 DEF IntervalEnds, queueVars, job, hotStep, CollectorInv, Waits,
                StatusTruthful, InPass, Strands, Stranded
  <1> QED
    BY <1>1, <1>2, <1>3, <1>4, <1>5, <1>6, <1>7

\* A stopped worker with an empty queue.
LEMMA CollectorInvInit == Init => CollectorInv
  <1>1. Queue(<<>>)
    BY CollectorAssumption DEF Queue
  <1> QED
    BY <1>1 DEF Init, CollectorInv, Waits, StatusTruthful, InPass

\* Every step keeps the invariant, and strands the queue in the two cases only.
LEMMA CollectorStep ==
    ASSUME CollectorInv, [Next]_vars
    PROVE  CollectorInv' /\ [Strands]_vars
  <1>1. CASE Next
    BY <1>1, WorkerStep, CallerStep DEF Next
  <1>2. CASE UNCHANGED vars
    BY <1>2 DEF vars, queueVars, job, hotStep, CollectorInv, Waits, StatusTruthful, InPass
  <1> QED
    BY <1>1, <1>2

\* The queue of addresses (submit, _hot_step) never outgrows hotqueue_size and
\* never holds an address twice, also when a step submits its address again; and
\* the status is true: see StatusTruthful.
THEOREM CollectorTheorem == Spec => []CollectorInv
  BY CollectorInvInit, CollectorStep, PTL DEF Spec

\* The status that request consults says what the worker does: it is queued as
\* long as a request waits, and running as long as a pass is in progress,
\* whatever is stopped, crashes or fails (request, _pass, stop of gc.py).
THEOREM StatusTheorem == Spec => []StatusTruthful
  <1>1. CollectorInv => StatusTruthful
    BY DEF CollectorInv
  <1> QED
    BY <1>1, CollectorTheorem, PTL

\* Only a pass that failed and a start after a cancelled hot step leave the worker
\* asleep on a queue that is not empty (_wait, _hot_step, _pass of gc.py).
THEOREM AwakeTheorem == Spec => HotQueueAwake
  <1>1. CollectorInv /\ [Next]_vars => [Strands]_vars
    BY CollectorStep
  <1>2. Spec => [][Strands]_vars
    BY <1>1, CollectorTheorem, PTL DEF Spec
  <1> QED
    BY <1>2 DEF HotQueueAwake, Strands

============================================================================
