-------------------------------- MODULE Sync --------------------------------
(***************************************************************************)
(* Anti-entropy sessions between a node and one peer: PeerSync             *)
(* (core/ae/sync.py) descends from partition roots to buckets, ranges and  *)
(* keys, pushes and pulls what differs within a budget, and leaves an      *)
(* in-memory checkpoint; AntiEntropyResponder admits and serves its        *)
(* requests; AntiEntropyService runs the sessions of sweeps, handoffs,     *)
(* joins and drains and remembers what they achieved.                      *)
(*                                                                         *)
(* A version is its position in the order of TAGS keys; it has an address  *)
(* of its own, so retention keeps it.  A digest is the set of versions it  *)
(* covers.  A request and its answer are one step: only the two stores and *)
(* the two views move meanwhile, and they may move between any two steps.  *)
(***************************************************************************)
EXTENDS Integers, Sequences, FiniteSets, FiniteSetsExt, SequencesExt

CONSTANTS Versions,      \* 1 .. n, in key order
          Pid, Ms,       \* partition and millisecond of a version
          Span,          \* milliseconds of a bucket
          Grace,
          PidsPerRequest, PageSize, MaxKeys, MaxRepairs,
          Worlds,        \* bound: initial replica sets, with what the node does
          Now,           \* bound: the first and the last time
          MaxArrivals, MaxFaults

ASSUME SyncAssumption ==
  /\ Versions = 1 .. Cardinality(Versions)
  /\ {Span, PidsPerRequest, PageSize, MaxRepairs} \subseteq Nat \ {0}
  /\ MaxKeys \in Nat \ {0, 1}

VARIABLES store,     \* versions held by "self" and by "peer"
          view,      \* the node's view: replicas, serial of the ring
          pview,     \* the replicas in the peer's view
          ring,      \* what both will learn
          phase,     \* joining, ready or draining
          clock,
          sess,      \* the session in progress
          prog,      \* SyncProgress: positions, next_pid and its serial
          handed,    \* _handed: partition -> root handed off
          done,      \* goals reached: wait_joined or drain returned
          late,      \* versions a checkpoint may pass over: they arrived behind
                     \* it or during a session, or were too young for the
                     \* session that left it
          arrivals, faults

vars == <<store, view, pview, ring, phase, clock, sess, prog, handed, done,
          late, arrivals, faults>>

Nodes == {"self", "peer"}
Other(n) == IF n = "self" THEN "peer" ELSE "self"
Pids == {Pid[v] : v \in Versions}
NoKey == 0
NoBucket == -1
Bucket(v) == Ms[v] \div Span
InPid(s, pid) == {v \in s : Pid[v] = pid}
InBucket(s, pid, b) == {v \in InPid(s, pid) : Bucket(v) = b}
Buckets(s, pid) == {Bucket(v) : v \in InPid(s, pid)}
First(s, k) == {v \in s : Cardinality({w \in s : w < v}) < k}
Sorted(s) == SetToSortSeq(s, <)

Idle == [st |-> "idle", goal |-> "none", reps |-> {}, cutoff |-> 0, pids |-> <<>>,
         scope |-> {}, diffs |-> <<>>, after |-> NoBucket, theirs |-> {},
         mine |-> {}, cursor |-> NoBucket, todo |-> {}, bucket |-> NoBucket,
         range |-> {}, key |-> NoKey, next |-> NoKey, work |-> {},
         chunk |-> {}, fetched |-> {}, scanned |-> 0, repaired |-> 0, recent |-> {}, marks |-> {}]

-----------------------------------------------------------------------------
(* Checkpoints.                                                            *)

NoProgress(serial) == [positions |-> <<>>, next_pid |-> 0, serial |-> serial]

\* A view with another serial forgets the checkpoints of the last one.
_sync_progress(serial) == IF prog.serial = serial THEN prog ELSE NoProgress(serial)

Saved(g, pid) == IF pid \in DOMAIN g.positions THEN g.positions[pid]
                 ELSE [bucket |-> NoBucket, key |-> NoKey]

Save(g, pid, b, k) ==
  [g EXCEPT !.positions = [p \in DOMAIN @ \cup {pid} |->
                             IF p = pid THEN [bucket |-> b, key |-> k] ELSE @[p]]]

\* Mutant of Pop: the position of a finished partition is kept.
PopKept(g, pid) == [g EXCEPT !.next_pid = pid + 1]

Pop(g, pid) ==
  [g EXCEPT !.positions = [p \in DOMAIN @ \ {pid} |-> @[p]], !.next_pid = pid + 1]

\* Partitions from next_pid on come first.
Rotated(s, next) == Sorted({p \in s : p >= next}) \o Sorted({p \in s : p < next})

-----------------------------------------------------------------------------
(* What a session does between two requests.  Each operator takes the      *)
(* session and its checkpoints and returns both.                           *)

Ended(s, g, outcome) == [s |-> [s EXCEPT !.st = outcome], g |-> g]

To(s, g, st) == [s |-> [s EXCEPT !.st = st], g |-> g]

CutoffBucket(s) == s.cutoff \div Span

\* The next root page, or the end.
sync_roots(s, g) ==
  IF s.pids = <<>> THEN Ended(s, g, "ok") ELSE To(s, g, "roots")

\* The next differing partition.
NextPid(s, g) ==
  IF s.diffs = <<>> THEN sync_roots(s, g)
  ELSE To([s EXCEPT !.after = NoBucket], [g EXCEPT !.next_pid = Head(s.diffs)], "buckets")

\* Mutant of Pending: the bucket of the checkpoint counts as done.
PendingPast(s, g) ==
  {b \in s.todo : b <= CutoffBucket(s) /\ b > Saved(g, Head(s.diffs)).bucket}

\* The buckets of a page that are old enough and not behind the checkpoint.
Pending(s, g) ==
  {b \in s.todo : b <= CutoffBucket(s) /\ b >= Saved(g, Head(s.diffs)).bucket}

\* sync_pid after a page of buckets: equal ones are passed over, the first that
\* differs is compared, up to the cutoff when it straddles it.
NextBucket(s, g) ==
  LET pid == Head(s.diffs)
      saved == Saved(g, pid).bucket
      open == Pending(s, g)
      differ == {b \in open : InBucket(s.theirs, pid, b) # InBucket(s.mine, pid, b)}
      visited == IF differ = {} THEN open ELSE {b \in open : b <= Min(differ)}
      last == Max(visited \cup {saved})
      g2 == IF last > saved THEN Save(g, pid, last, NoKey) ELSE g
      b == Min(differ)
      s2 == [s EXCEPT !.todo = {c \in @ : c > b}, !.bucket = b,
               !.range = {v \in InBucket(Versions, pid, b) : Ms[v] <= s.cutoff},
               !.key = Saved(g2, pid).key]
  IN  IF differ # {}
      THEN To(s2, g2, IF (b + 1) * Span <= s.cutoff + 1 THEN "keys" ELSE "range")
      ELSE IF s.cursor = NoBucket \/ s.cursor > CutoffBucket(s)
      THEN NextPid([s EXCEPT !.diffs = Tail(@)], Pop(g2, pid))
      ELSE To([s EXCEPT !.after = s.cursor], g2, "buckets")

_spend_repairs(s) == s.repaired >= MaxRepairs

_direction(s, v) ==
  IF v \notin s.theirs /\ "peer" \in s.reps THEN "push"
  ELSE IF v \notin s.mine /\ "self" \in s.reps THEN "pull" ELSE "skip"

\* _merge_page: keys to skip advance the checkpoint; a run of keys in one
\* direction is cut to the page and to the repairs left.
_merge_page(s, g) ==
  LET pid == Head(s.diffs)
      moving == {v \in s.work : _direction(s, v) # "skip"}
      v == Min(moving)
      run == {w \in s.work : /\ w >= v
                             /\ \A x \in s.work : v <= x /\ x <= w
                                   => _direction(s, x) = _direction(s, v)}
      passed == {w \in s.work : w < v}
      g2 == IF passed = {} THEN g ELSE Save(g, pid, s.bucket, Max(passed))
      left == Max({1, MaxRepairs - s.repaired})
  IN  IF moving = {}
      THEN LET end == Save(g, pid, IF s.next = NoKey THEN s.bucket + 1 ELSE s.bucket, s.next)
           IN  IF s.next = NoKey THEN NextBucket([s EXCEPT !.work = {}], end)
               ELSE To([s EXCEPT !.work = {}, !.key = s.next], end, "keys")
      ELSE IF _spend_repairs(s) THEN Ended(s, g2, "budget_spent")
      ELSE To([s EXCEPT !.chunk = First(run, Min({PageSize, left})),
                        !.work = @ \ passed], g2, _direction(s, v))

\* Only a completed chunk advances the checkpoint.
_merge_chunk(s, g, moved, fresh) ==
  LET s2 == [s EXCEPT !.chunk = @ \ moved, !.fetched = {}, !.repaired = @ + fresh]
      last == Max(s.chunk)
  IN  IF s2.chunk # {}
      THEN IF _spend_repairs(s2) THEN Ended(s2, g, "budget_spent")
           ELSE To(s2, g, IF s.st = "apply" THEN "pull" ELSE s.st)
      ELSE _merge_page([s2 EXCEPT !.work = {w \in @ : w > last}],
                       Save(g, Head(s.diffs), s.bucket, last))

\* owned_keys: the page may stop at the end of the range.
OwnedKeys(held, s, limit) ==
  LET page == First({v \in InPid(held, Head(s.diffs)) : v > s.key
                       /\ v >= Min(InBucket(Versions, Head(s.diffs), s.bucket))}, limit)
  IN  [keys |-> page \intersect s.range,
       cursor |-> IF page \subseteq s.range /\ Cardinality(page) = limit
                  THEN Max(page) ELSE NoKey]

KeyLimit(s) == Min({PageSize, (MaxKeys - s.scanned) \div 2})

-----------------------------------------------------------------------------
(* The steps of a session.                                                 *)

\* _guard, _settle, and what a handoff, a join or a drain makes of the outcome.
Over == {"idle", "ok", "budget_spent", "view_changed", "failed"}
Finished(r) == r.s.st \in Over
Outcome(s) == [Idle EXCEPT !.st = s.st, !.goal = s.goal, !.reps = s.reps,
                           !.cutoff = s.cutoff, !.scope = s.scope]

Stale == sess.reps # view.reps \/ prog.serial # view.serial

\* A partition with versions inside the grace window does not count as reached.
_count_reached(s, p) == p \notin s.recent

\* wait_joined and drain return after a pass that met no failure, on a view
\* that is still the current one.
PassEnds(s) == s.goal \in {"join", "drain"} /\ s.st = "ok" /\ ~Stale

Commit(r) ==
  /\ sess' = IF Finished(r) THEN Outcome(r.s) ELSE r.s
  /\ prog' = r.g
  /\ handed' = [p \in Pids |->
       IF r.s.st = "ok" /\ r.s.goal = "handoff" /\ _count_reached(r.s, p)
          /\ \E m \in r.s.marks : m.pid = p
       THEN (CHOOSE m \in r.s.marks : m.pid = p).root ELSE handed[p]]
  /\ done' = IF PassEnds(r.s) THEN done \cup {r.s.goal} ELSE done
  /\ late' = IF Finished(r)
             THEN {v \in Versions : /\ Pid[v] \in DOMAIN r.g.positions
                                    /\ v \in late \/ Ms[v] > r.s.cutoff}
             ELSE late

\* One request: refused when the view is stale or the views differ.
Rpc(st) == sess.st = st /\ ~Stale /\ pview = sess.reps

RpcFails ==
  /\ sess.st \in {"rootsrpc", "buckets", "range", "keys", "push", "pull"}
  /\ sess.st = "keys" => MaxKeys - sess.scanned >= 2
  /\ \/ /\ Stale
        /\ Commit(Ended(sess, prog, "view_changed")) /\ UNCHANGED faults
     \/ /\ ~Stale
        /\ \/ pview # sess.reps /\ UNCHANGED faults
           \/ faults < MaxFaults /\ faults' = faults + 1
        /\ Commit(Ended(sess, prog, "failed"))
  /\ UNCHANGED <<store, view, pview, ring, phase, clock, arrivals>>

Quiet == UNCHANGED <<store, view, pview, ring, phase, clock, arrivals, faults>>

\* A session starts; a handoff covers the partitions not handed off yet.
Goals == CASE phase = "joining" -> {"join"}
           [] phase = "draining" -> {"drain"}
           [] OTHER -> IF "self" \in view.reps THEN {"sweep"} ELSE {"handoff"}

_session(goal) ==
  LET marks == IF goal # "handoff" THEN {}
               ELSE {m \in {[pid |-> p, root |-> InPid(store["self"], p)] : p \in Pids} :
                       m.root # {} /\ handed[m.pid] # m.root}
      pids == CASE goal = "handoff" -> {m.pid : m \in marks}
                [] goal = "drain" -> {Pid[v] : v \in store["self"]}
                [] OTHER -> Pids
      g == _sync_progress(view.serial)
      s == [Idle EXCEPT !.goal = goal, !.reps = view.reps, !.marks = marks,
              !.cutoff = IF goal \in {"join", "drain"} THEN clock ELSE clock - Grace,
              !.scope = pids, !.pids = Rotated(pids, g.next_pid)]
  IN
  /\ sess.st \in Over /\ goal \in Goals /\ goal \notin done
  /\ goal = "drain" => "self" \notin view.reps
  /\ goal = "join" => "self" \in view.reps
  /\ LET r == sync_roots(s, g) IN
     /\ sess' = IF Finished(r) THEN Outcome(r.s) ELSE r.s
     /\ prog' = g
     /\ done' = IF Finished(r) /\ goal = "drain" THEN done \cup {goal} ELSE done
     /\ late' = IF g = prog THEN late ELSE {}
  /\ UNCHANGED handed /\ Quiet

\* A join whose only source is found down has nothing left to try: it returns.
\* A drain starts another pass.
NoSource ==
  /\ sess.st \in Over /\ "join" \in Goals \ done /\ "self" \in view.reps
  /\ faults < MaxFaults /\ faults' = faults + 1
  /\ done' = done \cup {"join"}
  /\ UNCHANGED <<store, view, pview, ring, phase, clock, sess, prog, handed, late, arrivals>>

\* The local roots are read, then compared by the peer.
ReadRoots ==
  /\ sess.st = "roots"
  /\ LET page == SubSeq(sess.pids, 1, Min({PidsPerRequest, Len(sess.pids)}))
     IN  Commit(To([sess EXCEPT !.diffs = page, !.mine = store["self"]], prog, "rootsrpc"))
  /\ Quiet

_sync_root_page ==
  /\ Rpc("rootsrpc")
  /\ LET page == {sess.diffs[i] : i \in DOMAIN sess.diffs}
         diffs == {p \in page : InPid(sess.mine, p) # InPid(store["peer"], p)}
     IN  Commit(NextPid([sess EXCEPT !.diffs = Rotated(diffs, prog.next_pid), !.mine = {},
                           !.pids = SubSeq(@, Cardinality(page) + 1, Len(@))], prog))
  /\ Quiet

\* A page of the peer's buckets, then the local ones it covers.
BucketPage ==
  /\ Rpc("buckets")
  /\ LET pid == Head(sess.diffs)
         page == First({b \in Buckets(store["peer"], pid) : b > sess.after}, PageSize)
     IN  Commit(To([sess EXCEPT
           !.theirs = {v \in InPid(store["peer"], pid) : Bucket(v) \in page},
           !.cursor = IF Cardinality(page) = PageSize THEN Max(page) ELSE NoBucket],
           prog, "bread"))
  /\ Quiet

\* Mutant of _note_recent: the bucket at the cutoff does not count.
_note_recentPast(s, mine) ==
  \/ \E v \in mine : Bucket(v) > CutoffBucket(s)
  \/ s.cursor > CutoffBucket(s)

\* Versions at or past the cutoff bucket, or buckets that were not read.
_note_recent(s, mine) ==
  \/ \E v \in mine : Bucket(v) >= CutoffBucket(s)
  \/ s.cursor > CutoffBucket(s)

buckets_until ==
  /\ sess.st = "bread"
  /\ LET pid == Head(sess.diffs)
         mine == {v \in InPid(store["self"], pid) :
                    /\ Bucket(v) > sess.after
                    /\ sess.cursor = NoBucket \/ Bucket(v) <= sess.cursor}
     IN  Commit(NextBucket([sess EXCEPT !.mine = mine,
           !.todo = Buckets(mine \cup sess.theirs, pid),
           !.recent = IF _note_recent(sess, mine) THEN @ \cup {pid} ELSE @], prog))
  /\ Quiet

\* The bucket at the cutoff: digests of its eligible part.  The page of buckets
\* is put aside for as long as the range takes.
RangeDigest ==
  /\ Rpc("range")
  /\ Commit(To([sess EXCEPT !.chunk = store["peer"] \intersect sess.range], prog, "rread"))
  /\ Quiet

range_digest ==
  /\ sess.st = "rread"
  /\ LET s == [sess EXCEPT !.chunk = {}]
     IN  Commit(IF sess.chunk = store["self"] \intersect sess.range
                THEN NextBucket(s, prog) ELSE To(s, prog, "keys"))
  /\ Quiet

\* _sync_range: a page of the peer's keys, then of the local ones.
KeyPage ==
  /\ sess.st = "keys"
  /\ IF MaxKeys - sess.scanned < 2
     THEN Commit(Ended(sess, prog, "budget_spent"))
     ELSE /\ Rpc("keys")
          /\ LET page == OwnedKeys(store["peer"], sess, KeyLimit(sess))
             IN  Commit(To([sess EXCEPT !.chunk = page.keys, !.next = page.cursor],
                           prog, "kread"))
  /\ Quiet

_sync_range ==
  /\ sess.st = "kread"
  /\ LET page == OwnedKeys(store["self"], sess, KeyLimit(sess))
         ends == {sess.next, page.cursor} \ {NoKey}
         next == IF ends = {} THEN NoKey ELSE Min(ends)
         s == [sess EXCEPT
           !.scanned = @ + Cardinality(page.keys) + Cardinality(sess.chunk),
           !.theirs = {v \in @ : Bucket(v) > sess.bucket} \cup sess.chunk,
           !.mine = {v \in @ : Bucket(v) > sess.bucket} \cup page.keys,
           !.work = {v \in sess.chunk \cup page.keys : next = NoKey \/ v <= next},
           !.next = next, !.chunk = {}]
     IN  Commit(_merge_page(s, prog))
  /\ Quiet

\* Batches end where their bytes do: any prefix of the chunk.
Prefix(s, moved) == moved # {} /\ moved = First(s, Cardinality(moved))

\* The peer may store a push whose answer is lost.
_push(moved, answered) ==
  LET fresh == Cardinality(moved \ store["peer"]) IN
  /\ Rpc("push") /\ Prefix(sess.chunk, moved)
  /\ answered \/ faults < MaxFaults
  /\ store' = [store EXCEPT !["peer"] = @ \cup moved]
  /\ faults' = IF answered THEN faults ELSE faults + 1
  /\ Commit(IF answered THEN _merge_chunk(sess, prog, moved, fresh)
            ELSE Ended(sess, prog, "failed"))
  /\ UNCHANGED <<view, pview, ring, phase, clock, arrivals>>

\* Fetched records are applied in transactions of their own.
_pull(moved) ==
  /\ Rpc("pull") /\ Prefix(sess.chunk, moved)
  /\ Commit(To([sess EXCEPT !.fetched = moved], prog, "apply"))
  /\ Quiet

_apply ==
  LET moved == sess.fetched IN
  /\ sess.st = "apply"
  /\ store' = [store EXCEPT !["self"] = @ \cup moved]
  /\ Commit(_merge_chunk(sess, prog, moved, Cardinality(moved \ store["self"])))
  /\ UNCHANGED <<view, pview, ring, phase, clock, arrivals, faults>>

-----------------------------------------------------------------------------
(* The rest of the system.                                                 *)

\* A write, a hint or an obligation lands; a draining node takes none.
Arrive(n, v) ==
  /\ arrivals < MaxArrivals /\ v \notin store[n] /\ Ms[v] <= clock
  /\ n = "self" => phase # "draining"
  /\ arrivals' = arrivals + 1
  /\ store' = [store EXCEPT ![n] = @ \cup {v}]
  /\ late' = IF sess.st \notin Over \/ Pid[v] \in DOMAIN prog.positions
             THEN late \cup {v} ELSE late
  /\ UNCHANGED <<view, pview, ring, phase, clock, sess, prog, handed, done, faults>>

Tick ==
  /\ clock < Now[2] /\ clock' = clock + 1
  /\ UNCHANGED <<store, view, pview, ring, phase, sess, prog, handed, done, late,
                 arrivals, faults>>

\* Draining changes the replicas, not the tokens the serial is made of.
StartDrain ==
  /\ phase = "ready" /\ ring = [reps |-> Nodes, serial |-> 0]
  /\ phase' = "draining" /\ ring' = [ring EXCEPT !.reps = {"peer"}]
  /\ UNCHANGED <<store, view, pview, clock, sess, prog, handed, done, late,
                 arrivals, faults>>

RingMoves ==
  /\ phase = "ready" /\ ring.serial = 0
  /\ ring' = [ring EXCEPT !.serial = 1]
  /\ UNCHANGED <<store, view, pview, phase, clock, sess, prog, handed, done, late,
                 arrivals, faults>>

\* Each side's tracker rebuilds its view in its own time.
Rebuild(n) ==
  /\ IF n = "self" THEN view # ring /\ view' = ring /\ UNCHANGED pview
                   ELSE pview # ring.reps /\ pview' = ring.reps /\ UNCHANGED view
  /\ UNCHANGED <<store, ring, phase, clock, sess, prog, handed, done, late,
                 arrivals, faults>>

Init ==
  /\ store \in [Nodes -> SUBSET {v \in Versions : Ms[v] <= Now[1]}]
  /\ \E w \in Worlds : /\ view = [reps |-> w.reps, serial |-> 0]
                       /\ pview = w.reps /\ phase = w.phase
  /\ ring = view
  /\ clock = Now[1]
  /\ sess = Idle
  /\ prog = NoProgress(0)
  /\ handed = [p \in Pids |-> {}]
  /\ done = {} /\ late = {} /\ arrivals = 0 /\ faults = 0

Session ==
  \/ \E goal \in {"sweep", "handoff", "join", "drain"} : _session(goal)
  \/ ReadRoots \/ _sync_root_page \/ BucketPage \/ buckets_until
  \/ RangeDigest \/ range_digest \/ KeyPage \/ _sync_range \/ _apply \/ RpcFails
  \/ \E moved \in SUBSET sess.chunk :
       _pull(moved) \/ \E answered \in BOOLEAN : _push(moved, answered)

Next == \/ Session
        \/ \E n \in Nodes : Rebuild(n) \/ \E v \in Versions : Arrive(n, v)
        \/ NoSource \/ Tick \/ StartDrain \/ RingMoves

Spec == Init /\ [][Next]_vars

\* The worker goes on with its sessions and both trackers rebuild; faults,
\* arrivals and ring changes are bounded.  The first conjunct is the weak
\* fairness of Session, whose steps are those that move sess or prog: CanStep
\* is when one is enabled.
CanStep == \/ sess.st \notin Over
           \/ \E goal \in Goals \ done :
                /\ goal = "drain" => "self" \notin view.reps /\ store["self"] # {}
                /\ goal = "join" => "self" \in view.reps
                /\ goal = "handoff" => \E p \in Pids :
                     InPid(store["self"], p) \notin {{}, handed[p]}

Fairness == /\ []<>~CanStep \/ []<><<TRUE>>_<<sess, prog>>
            /\ WF_vars(\E n \in Nodes : Rebuild(n))
FairSpec == Spec /\ Fairness

-----------------------------------------------------------------------------
(* Properties.                                                             *)

\* A session that ends ok has reconciled every version of its partitions older
\* than its cutoff, in the direction its view allows, whatever checkpoint it
\* resumed from; it may only have passed over a version that arrived behind the
\* checkpoint or while it ran, or was too young for the session that left the
\* checkpoint (late; sync.py sync_roots).
Reconciled ==
  [][sess.st \notin Over /\ sess'.st = "ok" =>
       \A n \in sess.reps : \A v \in store'[Other(n)] \ late :
         Pid[v] \in sess.scope /\ Ms[v] <= sess.cutoff => v \in store'[n]]_vars

\* A partition is remembered as handed off only with a root whose versions all
\* reached the peer, those inside the grace window included: that root will not
\* be offered again (antientropy.py _handoff, _count_reached). Only the versions a
\* checkpoint passed over, which Reconciled excepts too (late), may be missing.
HandedTruthful ==
  [][\A p \in Pids : handed'[p] # handed[p]
       => handed'[p] \subseteq store'["peer"] \cup late]_vars

\* The same without exception: no version of a remembered root is kept from the
\* peer for ever (antientropy.py _count_reached: "marking it handed now would
\* skip them forever").
HandedReached == \A p \in Pids : handed[p] \subseteq store["peer"]

\* Sweeps under budgets too small for one session, interrupted by failures and
\* ring changes, still make two replicas agree on everything older than the
\* grace period (sync.py SyncProgress).
Agreed == phase = "ready" /\ view.reps = Nodes =>
            \A v \in Versions : Ms[v] <= clock - Grace
              => (v \in store["self"] <=> v \in store["peer"])
Converges == <>[]Agreed

=============================================================================
