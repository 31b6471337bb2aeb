# A formal model of Tourillon

Tourillon is a leaderless, replicated key-value store: a consistent-hash ring of
nodes, versions stamped by a hybrid logical clock, quorum reads and writes, durable
replication debts, data anti-entropy between replicas, gossip membership and local
collection of old versions over LMDB. A node runs on one asyncio loop, so the
concurrency that matters is the interleaving of coroutines at their `await`s, the
threads of the LMDB executors, the messages between nodes, and crashes.

This directory holds TLA+ modules for its parts, TLC configurations that check them
on small instances, and TLAPS proofs for all instances. `PROJECT.json` lists the
components, the runs, a mutant for every property, the source lines of every
definition, the findings, the hazards and the theorems.

Conventions: a step is the code between two awaits that really suspend; definitions
keep the source's names where they can; a bound is a constant commented `bound:` that
appears in a guard; history variables are marked as such; an operator commented
`Mutant:` is a plausible bug, kept to show that a property would notice it, and part of
no specification.

## The parts, and the modules that model them

| Part (under `src/`) | Module | What the properties say |
|---|---|---|
| Obligation queue and delivery (`ae/obligations.py`, `services/antientropy.py`, `_oblige` of `services/store.py`) | `Obligations` | no debt is lost, forgotten or unpayable, and all settle |
| Store service (`services/store.py`) | `Store`, `QuorumStore` | acknowledged writes are held by their quorum, reads that meet it see them, missed owners are owed, a drain ends quiet |
| Gossip, registry, ring state, bootstrap, view tracker (`gossip/`, `services/gossip.py`, `ae/tracker.py`) | `Membership` | records never go back, ring and view follow the registry, nodes agree in the end |
| Ring, partitions, preference lists, replica views (`spaces/`, `partition/`, `ae/view.py`) | `Ring`, `Handover` | the read, write and replication paths agree on owners; plans of joins and drains cover |
| Sync sessions (`ae/sync.py`, `local.py`, `responder.py`, `services/antientropy.py`) | `Sync` | a session that ends ok reconciled what it was asked to; replicas converge |
| Node lifecycle (`services/lifecycle.py`, `Manager.start/stop`, the state file) | `Lifecycle` | what is served matches what was announced, one operation at a time, one record per epoch |
| Peer pool, client, failure detector (`peer/pool.py`, `transports/client.py`, `tourlib/transport.py`, `probe/`) | `Links` | limits, leases and the eviction order are exact; temporary connections end with their leases |
| Group session, digests, retention (`storage/session.py`, `retention.py`) | `GroupStorage` | digests equal contents, the X newest versions stay |
| LMDB sessions and thread pools (`lmdb_*.py`, `threadpool.py`) | `LmdbSessions`, `LmdbCursor` | transactions are whole, paged walks complete, close is safe |
| Garbage collector (`services/gc.py`) | `GarbageCollector` | the status is true, histories shrink, queued addresses are served |
| Clock and its restore (`models/clock.py`, `ts.py`, `latest_hlc`) | `HLCClock`, `NodeClock`, `Timestamps` | timestamps and a node's writes advance |

How they meet. A client request reaches the store of any node, the coordinator. It takes
a preference list from the ring, asks the peers through the pool, and records a debt
for every owner that missed a write, in the transaction that stores the version when it
can. The delivery worker pays those debts; sync sessions repair what no debt names. Both
follow the view of the tracker, which follows the ring, which follows the registry that
gossip maintains. The lifecycle decides which of these services run and which record
of the node is gossiped. `NodeClock` composes the clock with boots and storage groups,
`Membership` composes registry, ring, tracker and the operators of `Handover` and `Ring`,
`LmdbSessions` composes pools, sessions and cursors. Elsewhere the neighbour is an input:
`Store` is given any preference list that its assumption allows, `Obligations` any change
of the ring, `Sync` any move of the two views.

**Obligations**: the delivery worker of one node, the queue, the producers and the world
they meet. `versions` and `meta` are durable; everything else is lost in `Crash`. `pc` is
the await the worker stands at: `top` (wait_ready), `reload` (obligation_page), `wait`
(queue.wait), `load` (latest_records), `targets` and `pids` (the loops of `deliver` and
`_deliver_to`), `push`, `forget` and `drop` (remove_obligations), `stopped`, `down`.
`Encoded` is the order of the LOGS keys of an address, by which `latest_records` and the
retention find its newest versions. `Restart` may leave the node alone on its ring.
`Oblige` and `ObligeSubmit` are the two halves of `_oblige`. A push is one step at the
target (`PushProcessed`) and an answer that arrives (`PushAccepted`) or not
(`PushFailed`). `recorded`, `lapsed` and `unlearned` (the debts found by a restart alone)
are history. Each partition holds one address.

**Store**: one key, several nodes. An operation is a table of tasks, one per node of its
preference list, each sent, answered, failing, failed or dropped; it finishes at its
quorum or at its deadline, which may strike at any moment; writes still running are left
behind and settle late. A replica answers with the version whose key sorts last
(`Encoded`), as `session.get` does; the coordinator compares timestamps.
`ops[o].floor` is history: the versions a read may not miss.
**QuorumStore** is the promise to clients; `Promise` in `Store` instantiates it with
copies, deletes, acknowledged writes and reads computed from the disks and operations.

**Membership**: several nodes, each with its state file (`own`), its topology (`top`:
registry, ring, fingerprint), its tracker and its gossip tasks. Pushes may be lost,
relayed up to the hop limit, and overtaken by exchanges; nodes crash and bootstrap again.

**Sync**: one initiator and one peer. `sess` is the descent (roots, buckets, ranges, keys,
pulls, pushes) with its page cursors; `prog` is the checkpoint it leaves; `handed` is what
the service believes it handed over. The stores and both views move between any two steps.

**Lifecycle**: each asyncio task of a node is the sequence of steps it still has to take;
the tasks interleave, each may fail at every await, and a crash leaves only the file. The
peer listener serves commands from the first moment of `start()`, which does not hold
the membership lock: `overtaken` is history, and says whether a command was accepted
while the present process, or an earlier one, was still starting.

**Links**: `pool[p]` is the entry of a peer (table, address, reference count, leases of
retired clients), `lru` the eviction order, `lease[c]` what a caller holds or waits for,
`busy` the acquisition that holds the pool lock while its connection opens. `fd` is the
detector of the peer: the client it probes next (`at`) and the one the probe on its way
went to (`probe`). A connection that is lost, or closed by a request that could not be
sent, fails the requests of everybody who waits on it.

**GroupStorage**: a write transaction on a group. A digest is the set of keys folded into
it, and folding twice removes, as xor does (hash collisions are left out).
`known`/`before` are `_stored`, `touched`/`deltas` are `_deltas`. The order of timestamps
and the order of their bytes differ (`Encoded`); `Timestamps` gives the real encoding.

**LmdbSessions**: tasks of the loop borrow single-threaded executors and post work to
them; a task may be cancelled at every await, LMDB may raise, the storage may be closed.

**GarbageCollector**: `pc` is again the await of the worker; the transaction of a page or
of a hot address is one step; `due` is `loop.time() >= next_pass`.

**HLCClock** is the clock; **NodeClock** adds writes that are stamped now and stored later,
replicated versions (which the code does not show to the clock), crashes and the restore.

The `MC...` modules give the functions among the constants their values.

## Runs

Every run finishes within four minutes on two workers.

| Run | Properties | Distinct states | Bounds, and why they are enough |
|---|---|---|---|
| obligations | `EventsMatchQueue`, `NoLostDebt`, `DebtCovered`, `NoForgottenDebt`, `SleepOnlyWhenSettled`, `DebtsSettle` | 159,281 | one target, two addresses in two groups, two timestamps, which sort by bytes the other way round for one address, queue and batch of one, two writes, one fault: overflow, paging over groups, overtaking versions and every single fault happen; anti-entropy is not stopped inside the process |
| storage | `DigestExact`, `NewestRetained` | 5,310 | one address, four timestamps of two nodes with ids of different length, X = 2, three calls per transaction: insert, remove and insert again in one |
| node_clock | `WritesAdvance` | 14,242 | two partitions in one group, two times, counter to 1, two stores, two boots |
| node_clock_restart | violates `NeverBackwards` | | the same instance |
| collector | `StatusTruthful`, `HotQueueAwake`, `HistoryBounded`, `HotServed` | 125,791 | three addresses for a hot queue of two, one with keys that sort against its timestamps, two groups, pages of one, two requests, one fault |
| membership | `TopologyFollows`, `NeverRegresses`, `PlacementsAgree`, `SegmentsMatchRouting`, `HandoversCover` | 159,506 | two founders and a node that joins, eight ring positions, four partitions, two replicas, two hops, fan-out one: a push is relayed, and rings of one vnode, of one, two and three nodes and arcs that wrap around occur; `PlacementsAgree` also looks at every such topology with a fourth node, so that every set of up to three other nodes is suspected and stand-ins must be told apart |
| convergence | `ViewsFollow`, `Converges` | 240,425 | two founders; the second joins again or drains, and may crash; every push may be lost; both trackers |
| store | `MissedOwnersOwed`, `QuietAfterDrain`, `ImplementsPromise`, `DrainEnds` | 324,404 | three nodes, two replicas, three scripts of three requests, three versions of which the last two sort by bytes the other way round, one node drains, one fault: overlapping and disjoint quorums, coordinators that disagree on who is suspect, stand-ins and late writes occur |
| sync | `Reconciled`, `HandedTruthful`, `Converges` | 1,184,834 | three versions in two partitions, buckets of two milliseconds, pages of one, one repair per session, one arrival, one fault: every level of the descent is paged and cut short by the budget |
| lifecycle | `ServiceMatchesPhase`, `OneOperation`, `OneRecordPerEpoch`, `OperationsEnd` | 450,643 | four commands and two faults (a command during `start()` counts as one): a join, a drain, a crash in either and the recovery, also after a start that was overtaken; no configured seeds |
| links | `TypeOK`, `LeasesCovered`, `LruListsPermanents`, `TemporaryLeased` | 1,725,873 | three peers, three callers, tables of one each, two addresses per peer, two faults: every table overflows, a client is refreshed under its user and the last lease to end may be on either client |
| lmdb | `PairsWhole`, `ScanComplete`, `CursorsExact`, `ClosedWhenQuiet`, `SessionsEnd` | 1,118,236 | two writers, one reader of three pages, two records, one worker per pool, pages of one, two cancellations, one error |

Deadlock is checked for storage, the clocks, the collector and the links. The others
may rest: a worker without work sleeps, and nodes or sessions whose bounded inputs are
used up have nothing to do.

Fairness. Asyncio runs what is ready, so the steps of running tasks are weakly fair;
timers fire. Beyond that:

- `Obligations`: a peer that is down comes back and a crashed node is restarted, without
  which no debt could be paid. Faults are bounded: this speaks of the time after them.
- `GarbageCollector`: a stopped collector is started again; serving the hot queue is
  strongly fair, since the interval is at least 10 ms and a woken worker is not
  overtaken by the timer for ever. Requests are bounded: every pass, an estimate too,
  postpones the next periodic one, so endless estimates do postpone collection for ever.
- `Membership`: every node goes on starting exchanges, and no push need ever arrive. The
  two nodes of `convergence` know each other from the start. That is needed: a READY
  node whose bootstrap runs out of retries goes on alone, and if none of its records had
  reached the others before it crashed, nobody has its address and nothing brings the
  two together.
- `Store`: every coordinator goes on, and a request on the wire is delivered or refused.
- `Sync`: sessions go on whenever one can step, and views are rebuilt.
- `Lifecycle`: a supervisor restarts a process that ended, and another node of the
  cluster keeps gossiping, so that a lone node hears of it in the end.
- `Links`: in `Links_suspect.cfg` the probe loop of the watched peer runs, as `run` does
  until it is stopped, and every probe ends. The run itself checks safety only.
- `LmdbSessions`: executor threads and tasks go on whenever one can step.

## Refinement

`ImplementsPromise` says that `Store` implements `QuorumStore`: copies are only added; a
write is acknowledged only when as many nodes as its quorum hold it; a strict read that
began after the acknowledgement of a write whose quorum meets its own, `r + w > Rf`, does
not miss it, and never answers with a value where the version it found is a delete. Not to
miss a version means to answer with one as new, or as new as some stored version whose key
sorts after it (`Supersedes`): a replica reads the last key of an address, so where keys
sort against their timestamps the answer may be older than the write, as `Store_order.cfg`
shows, and where they do not the promise is the usual one. TLC checks it on the instance
of the run; `PromiseTheorem` proves it for every set of nodes, requests, placements,
quorums, versions and order of their keys.

## What is proved

Every theorem holds for all values of the constants that satisfy the named assumption of
its module (`ConstantsAssumption`, `StorageAssumption`, `ClockAssumption`,
`NodeAssumption`, `CollectorAssumption`, `RingAssumption`, `MembershipAssumption`,
`StoreAssumption`, `LinksAssumption`, `LifecycleAssumption`): finite sets of nodes, peers,
callers and addresses, positive sizes, injective orders of keys, and for the store
placements of at most `Rf` owners, of which the strict ones agree. The bounds (`Max...`)
are arbitrary too.

- **ObligationsProofs**. `TypeCorrect`, from `TypeOK` with the fact that the worker holds
  a batch only while delivering and a chunk only while pushing it; `EventsTruthful` on top
  of it; `DebtsCovered`, because a version is collected only when X >= 1 newer ones are
  stored. `NoDebtForgotten` and `SleepsWhenSettled`, for `SpecUninterrupted`: a debt of
  the batch must count only while the worker still holds it as owed or obsolete, so that
  the end of the batch leaves nothing unaccounted for, and a wait without a timeout on an
  empty queue must find the flag clear. `NoDebtLost`: the ring, and the view while there
  is one, count as a replica the target of every debt in META that has not lapsed and was
  not found by a restart alone; an obsolete debt of a batch has lapsed or is paid; the
  version about to be sent covers every owed debt; a processed chunk is paid.
- **GroupStorageProofs**. `StorageTypeCorrect`, `DigestsExact`, `NewestVersionsRetained`:
  a cell the transaction has read still has its committed value, the delta of every cell
  is the difference between what the transaction sees and what is committed, and what is
  missing has X newer versions among those offered.
- **NodeProofs**, for the two parts of a node that work on their own data.
  `ClockStrictlyIncreasing` and `NodeWritesAdvance`, from: the clock reads at least every
  timestamp it returned or was shown. `CollectorTheorem`, `StatusTheorem` and `AwakeTheorem`, from
  `CollectorInv`: where the worker stands determines the pass there is, the status is that
  pass's, and the queue is bounded and holds no address twice.
- **MembershipProofs**. `TopologyTheorem`, `ViewsTheorem`, `NeverRegressesTheorem`. Every
  topology is `Sound` (ring and fingerprint are functions of the registry) and a merge
  makes it `Evolve`: epochs grow, and a merge that raises no change leaves the replica
  view as it was. The view in use is therefore that of the topology unless a change is
  pending.
- **StoreProofs** and **StorePromise**. `StoreTheorem` proves `StoreInv`: an answered write is
  on the disk of who answered; a failed target is owed by a node that holds the version;
  a repair's count is backed by copies; and, for a read in progress, the owners that hold
  a version of its floor and are still to answer or have answered are more than
  `Rf - q`. One lemma per action shows `Progress`, what every step does to requests,
  disks and messages, and `Progress` keeps the invariant. From it: `OwedTheorem`;
  `QuietTheorem`, with what a draining coordinator may still have in flight; and
  `PromiseTheorem`.
- **LinksProofs**. `LinksTheorem` proves `LinksInv`; from it `LimitsTheorem`,
  `LeasesTheorem`, `LruTheorem` and, entry by entry, `TemporaryTheorem`. The limits are
  not inductive alone: while a connection is being opened, other callers release and the
  reaper runs, so the invariant must say that the place the acquisition made stays
  reserved (`Reserved`). What `Without` leaves of the eviction list is proved for the
  function that computes it, from its least counterexample (`WellFoundedInduction`).
- **LifecycleProofs**. `LifeTheorem` proves `NodeInv`: what holds in every process, and `LifeInv`
  in one whose `start()` no command overtook; from it `OneOperationTheorem`, `ServiceTheorem`
  and `EpochTheorem`. `LifeInv` says of the one
  operation that runs which phase the file has, what was announced last, which services
  are on and whether the record it carries is the one in the file, by the step it is
  about to take; that a stopping process is not starting; and that every record announced
  is older than the file, or the file's own. Each action is shown to move its task along a
  script and to keep these facts; tasks that do not move keep theirs because the steps
  of others touch nothing they rely on.

The last three name their exception themselves. In a process whose `start()` was overtaken
by a command, the start goes on from the state it loaded: it and a join can mint the
same epoch, or serve what was drained, as `Lifecycle_hasty.cfg` shows. The next process
reads the file again, and from there on the properties are back, except
`OneRecordPerEpoch`: the file may stay behind a record that was announced.

## What is only model-checked, and why

- Liveness (`DebtsSettle`, `HistoryBounded`, `HotServed`, `Converges`, `DrainEnds`,
  `OperationsEnd`, `SessionsEnd`): fairness and ENABLED are outside the proof system as
  used here.
- `PlacementsAgree`, `SegmentsMatchRouting`, `HandoversCover`: they compare walks around the ring,
  defined by recursion on positions, and need induction over them.
- `ScanComplete`, `CursorsExact`: what a recursive scan of a keyspace returns.
- `PairsWhole`, `ClosedWhenQuiet`: not proved yet. They need the history of each executor's
  queue, and a cursor module without recursive operators.
- `Reconciled`, `HandedTruthful`: the descent keeps its work in sequences of pages whose
  meaning is again recursive.
- The encoding of timestamps (`Timestamps`), whose order the instances compute.

## Where the code and a statement about it part

One run is kept as a violation. `node_clock_restart`: `latest_hlc` sees only the greatest
partition of each group, so a restart with the wall clock set back can stamp below an
older version of the node (`lmdb_storage.py:42`, against `docs/architecture.md:568`).

The others are not among the runs. Each has its configuration here, and
`tlc -config <cfg> <module>` reproduces the counterexample.

| Configuration, module | Violated | What happens |
|---|---|---|
| `Obligations_seedless.cfg`, `MCObligations` | `OnlyLeaversDropped` | a READY node that restarts without learning its members drops its durable debts (`lifecycle.py:407`, `antientropy.py:848`) |
| `Obligations_order.cfg`, `MCObligations` | `AllDebtsSettle` | a debt names a version whose key sorts before that of an older one (`ts.py:64`): `latest_records` finds the older one, which does not cover the debt, and every reload puts it off again |
| `Obligations_stop.cfg`, `MCObligations` | `SleepOnlyWhenSettled` | a stop in the middle of a batch leaves debts in META with the backlog flag clear; a start in the same process sleeps over them (`antientropy.py:424`) |
| `GroupStorage_order.cfg`, `MCGroupStorage` | `ReadsNewest` | the length prefix of `node_id` makes the byte order of timestamps differ from their order (`ts.py:64`); `NewestRetained` holds nevertheless, since the policy compares timestamps |
| `GarbageCollector_order.cfg`, `MCGarbageCollector` | `HistoryAlwaysBounded` | for the same reason `_outside` does not count a newer version that is not among the last X keys, and the history of the address stays longer than X |
| `Store_order.cfg`, `MCStore` | `NeverOlder` | for the same reason a replica that holds an acknowledged write answers a read with an older version |
| `Store_repair.cfg`, `MCStore` | `RepairDurability` | the quorum a repair reports may count the copy of a stand-in |
| `Sync_handoff.cfg`, `MCSync` | `HandedReached` | a partition is marked handed with a version the peer does not hold, which `_count_reached` means to prevent ("would skip them forever") |
| `Lifecycle_hasty.cfg`, `Lifecycle` | `WritesRefused` | a command served during `start()` leaves writes on after a drain ("writes are refused from now on") |
| `Lifecycle_ready.cfg`, `Lifecycle` | `ReadyAnnounced` | a join from READY finds the client listener running; the join task dies and READY is never announced |
| `Links_lease.cfg`, `MCLinks` | `LeasesReleased` | a caller cancelled while it waits to release, because another caller's acquisition holds the pool lock, leaves its count behind ("always release it on exit") |
| `Links_suspect.cfg`, `MCLinks` | `SuspicionLifts` | the pool moves to the new address of a peer, and the detector goes on probing the client that failed (`_may_refresh_peer` does not tell it): a peer that answers stays suspect as long as its old address is dark |
| `LmdbSessions_cancel.cfg`, `MCLmdbSessions` | `BegunIsHeld` | a task cancelled while its begin runs leaves a transaction nobody ends ("If it runs, we get the transaction.") |

Properties that hold with exceptions name them. `NoLostDebt`: the debts found by a restart
alone. `DebtsSettle`, `HistoryBounded` and `ImplementsPromise`: versions whose keys sort
against their timestamps. `ServiceMatchesPhase`, `OneOperation`, `OneRecordPerEpoch` and
`OperationsEnd`: a command that overtook `start()`. `HotQueueAwake`: a pass that fails
returns before it looks at the hot queue, and a stop that cancels a hot step leaves the
rest of the queue with its event clear. `SessionsEnd`: a leaked write transaction, and a
permit lost by a task cancelled while its executor stops in a closed pool.
`OperationsEnd`: a drain that its process gave up. `Reconciled` and `HandedTruthful`:
versions a checkpoint may pass over, since they arrived behind it or during the session,
or were too young for the session that left it (`late`). In `Sync`, a join whose only
source is down returns having copied nothing (`NoSource`). In `MissedOwnersOwed`, a
storage error of the coordinator itself.

## Not modelled

- The server side of the transport, streams and one-way sends: framing and in-flight
  limits. Every module that talks to a peer lets a request be lost, refused or answered
  late, which is what its callers observe.
- `shutdown` of the pool, which ends the process's use of it. (It leaves `_lru` as it was.)
- A write of the READY state that fails at the end of a join.
- The statistics of the phi detector: what its users meet is whether it has enough
  samples, and an answer just now. The verdict in `Store` and `Membership` is an input.
- Codecs, `view_hash` and the hashes behind digests: values are taken as they are, and
  collisions are left out.
- Several sync sessions in parallel, their statistics and progress reports.
- The creation of a group's LMDB environment; configuration, certificates, telemetry, the
  client library and the command line, which are sequential I/O or change no state.
