---------------------------- MODULE Obligations ----------------------------
(***************************************************************************)
(* Replication obligations of one node: the durable debts kept in META     *)
(* beside the versions (StoreService._oblige), the bounded in-memory       *)
(* hotqueue that schedules them (ae/obligations.py, ObligationQueue) and   *)
(* the delivery worker of anti-entropy that pays them                      *)
(* (services/antientropy.py, _deliver_loop and below).                     *)
(*                                                                         *)
(* The node runs on one asyncio loop: a step of this model is the code     *)
(* between two awaits, and every other coroutine may run between two       *)
(* steps. Each partition holds one address, so an address also stands for  *)
(* its partition and for the one chunk a push of that partition makes.     *)
(* The submission order of the queue is left open: `take' may hand out any *)
(* of the queued debts, and an overflow may refuse any of those submitted. *)
(***************************************************************************)
EXTENDS Integers, FiniteSets

CONSTANTS
    Targets,       \* the peers a debt may name
    Addrs,         \* addresses, one per partition
    MaxTs,         \* versions carry timestamps 1..MaxTs
    Capacity,      \* hotqueue_size
    Batch,         \* debts per delivery batch and per META page
    Versions,      \* X of the retention policy
    NumGroups,     \* storage groups
    Group,         \* the group of an address
    Rank,          \* the order of the META keys inside a group
    Encoded,       \* the order of the LOGS keys of an address, by version
    MaxWrites,     \* bound: versions written, with or without a debt
    MaxFaults      \* bound: membership changes, crashes, stops and failures

Ts == 1..MaxTs

\* ObligationKey: `target' must process `addr' at least through `ts'.
Debts == [target : Targets, addr : Addrs, ts : Ts]

Pairs == Targets \X Addrs

ASSUME ConstantsAssumption ==
    /\ IsFiniteSet(Targets)
    /\ IsFiniteSet(Addrs)
    /\ MaxTs \in Nat
    /\ Capacity \in Nat \ {0}
    /\ Batch \in Nat \ {0}
    /\ Versions \in Nat \ {0}
    /\ NumGroups \in Nat \ {0}
    /\ Group \in [Addrs -> 1..NumGroups]
    /\ Rank \in [Debts -> Nat \ {0}]
    /\ \A d, e \in Debts : Rank[d] = Rank[e] => d = e
    /\ Encoded \in [Addrs -> [Ts -> Nat]]
    /\ \A a \in Addrs : \A v, w \in Ts : Encoded[a][v] = Encoded[a][w] => v = w
    /\ MaxWrites \in Nat
    /\ MaxFaults \in Nat

VARIABLES
    \* durable, in the storage groups
    versions,      \* the versions stored per address
    meta,          \* the debts persisted in META
    \* ObligationQueue
    queue, inflight, backlog, wake, idle,
    \* producers: debts committed by _oblige and not submitted yet
    unsubmitted,
    \* the delivery worker: where it waits, and its locals
    pc, batch, owed, obsolete, records, target, chunk, processed,
    group, after, pending, timed,
    \* PeerBackoff: peers whose deferral has not expired
    deferred,
    \* the ring as TopologyManager knows it, and the view built from it
    topo, changed, view, ready,
    \* the peers that answer, and what each one has processed
    up, received,
    \* bounds
    writes, faults,
    \* history: every debt ever recorded, and those whose target was not a
    \* replica, for the ring or the view of the moment, when they were
    \* recorded, or left the replicas later, and those in META when a restart
    \* came up without having learnt the members
    recorded, lapsed, unlearned

durable   == <<versions, meta>>
events    == <<wake, idle>>
queueVars == <<queue, inflight, backlog, wake, idle>>
delivery  == <<batch, owed, obsolete, records, target, chunk, processed>>
reload    == <<group, after, pending, timed>>
tracker   == <<topo, changed, view, ready>>
peers     == <<up, received>>
history   == <<recorded, lapsed, unlearned>>
vars == <<durable, queueVars, unsubmitted, pc, delivery, reload, deferred,
          tracker, peers, writes, faults, history>>

\* The worker waits in one of these places of _deliver_loop. `down': the
\* process is not running; `stopped': it runs and anti-entropy does not.
Delivering == {"load", "targets", "pids", "push", "forget", "drop"}
PCs == {"down", "stopped", "top", "reload", "wait"} \union Delivering

NoTarget == "none"
NoRecords == [a \in Addrs |-> 0]

\* The cursor of a reload before its first page.
RewindScan == group' = 1 /\ after' = 0 /\ pending' = FALSE

\* session.get and latest_identities_many read the LOGS keys of an address from
\* the last one backwards. Their bytes order two versions as their timestamps do,
\* unless only the node ids differ, and in length: to_bytes writes the length
\* before the node id.
Later(a, v) == {w \in versions[a] : Encoded[a][w] > Encoded[a][v]}
Newest(a) == CHOOSE v \in versions[a] : Later(a, v) = {}
Latest(a) == {v \in versions[a] : Cardinality(Later(a, v)) < Versions}

----------------------------------------------------------------------------
(* ObligationQueue *)

\* submit: what is already queued is skipped; the rest enters while it fits.
Accepted(debts) ==
    {acc \in SUBSET (debts \ queue) :
        /\ Cardinality(queue \union acc) <= Capacity
        /\ acc # debts \ queue => Cardinality(queue \union acc) = Capacity}

\* Anything accepted wakes the worker and ends the idle state.
Enqueue(acc) ==
    /\ queue' = queue \union acc
    /\ wake' = IF acc # {} THEN TRUE ELSE wake
    /\ idle' = IF acc # {} THEN FALSE ELSE idle

\* What does not fit raises the backlog flag.
submit(debts) ==
    \E acc \in Accepted(debts) :
        /\ Enqueue(acc)
        /\ backlog' = IF acc # debts \ queue THEN TRUE ELSE backlog

\* take: pop up to Batch debts.
take ==
    /\ batch' \in SUBSET queue
    /\ Cardinality(batch') <= Batch
    /\ batch' # queue => Cardinality(batch') = Batch
    /\ queue' = queue \ batch'
    /\ inflight' = inflight + Cardinality(batch')
    /\ wake' = IF queue' = {} THEN FALSE ELSE wake

\* Mutant: idle as soon as nothing is in delivery.
settleEarly ==
    LET left == inflight - Cardinality(batch) IN
    /\ inflight' = IF left < 0 THEN 0 ELSE left
    /\ idle' = IF inflight' = 0 THEN TRUE ELSE idle
    /\ batch' = {}

\* settle: hand the batch back once delivered or abandoned.
settle ==
    LET left == inflight - Cardinality(batch) IN
    /\ inflight' = IF left < 0 THEN 0 ELSE left
    /\ idle' = IF queue = {} /\ inflight' = 0 THEN TRUE ELSE idle
    /\ batch' = {}

\* The locals of deliver go out of scope.
LeaveDeliver ==
    /\ owed' = {} /\ obsolete' = {} /\ chunk' = {}
    /\ records' = NoRecords
    /\ target' = NoTarget
    /\ processed' = FALSE

----------------------------------------------------------------------------
(* Producers: StoreService on the same loop *)

running == pc # "down"

\* _oblige, the write transaction: the version and the debt land together.
Oblige(t, a, v) ==
    LET d == [target |-> t, addr |-> a, ts |-> v] IN
    /\ running
    /\ writes < MaxWrites
    /\ writes' = writes + 1
    /\ versions' = [versions EXCEPT ![a] = @ \union {v}]
    /\ meta' = meta \union {d}
    /\ unsubmitted' = unsubmitted \union {d}
    /\ recorded' = recorded \union {d}
    /\ lapsed' = IF <<t, a>> \in topo /\ (ready => <<t, a>> \in view)
                 THEN lapsed ELSE lapsed \union {d}
    /\ UNCHANGED <<queueVars, pc, delivery, reload, deferred, tracker, peers,
                   faults, unlearned>>

\* _oblige, after the commit: the hotqueue is told.
ObligeSubmit(d) ==
    /\ d \in unsubmitted
    /\ unsubmitted' = unsubmitted \ {d}
    /\ submit({d})
    /\ UNCHANGED <<durable, inflight, pc, delivery, reload, deferred, tracker,
                   peers, writes, faults, history>>

\* _local_write: a version without a debt.
LocalWrite(a, v) ==
    /\ running
    /\ writes < MaxWrites
    /\ writes' = writes + 1
    /\ versions' = [versions EXCEPT ![a] = @ \union {v}]
    /\ UNCHANGED <<meta, queueVars, unsubmitted, pc, delivery, reload,
                   deferred, tracker, peers, faults, history>>

\* Mutant: one version too few is kept.
CollectOneMore(a, v) ==
    /\ running
    /\ v \in versions[a]
    /\ Cardinality({w \in Latest(a) : w > v}) >= Versions - 1
    /\ versions' = [versions EXCEPT ![a] = @ \ {v}]
    /\ UNCHANGED <<meta, queueVars, unsubmitted, pc, delivery, reload,
                   deferred, tracker, peers, writes, faults, history>>

\* RetentionPolicy.collect: a version older than the X that LOGS lists last is
\* removed.
Collect(a, v) ==
    /\ running
    /\ v \in versions[a]
    /\ Cardinality({w \in Latest(a) : w > v}) >= Versions
    /\ versions' = [versions EXCEPT ![a] = @ \ {v}]
    /\ UNCHANGED <<meta, queueVars, unsubmitted, pc, delivery, reload,
                   deferred, tracker, peers, writes, faults, history>>

----------------------------------------------------------------------------
(* _deliver_loop *)

\* _deliver_step with a queued debt: take a batch and split it by the view
\* (_owed), up to the await of latest_records.
DeliverBatch ==
    /\ pc = "top" /\ ready
    /\ queue # {}
    /\ take
    /\ owed' = {d \in batch' : <<d.target, d.addr>> \in view}
    /\ obsolete' = batch' \ owed'
    /\ pc' = "load"
    /\ UNCHANGED <<durable, backlog, idle, unsubmitted, records, target, chunk,
                   processed, reload, deferred, tracker, peers, writes, faults,
                   history>>

\* _deliver_step with an empty queue and a raised flag: _reload begins.
StartReload ==
    /\ pc = "top" /\ ready
    /\ queue = {} /\ backlog
    /\ backlog' = FALSE
    /\ RewindScan
    /\ pc' = "reload"
    /\ UNCHANGED <<durable, queue, inflight, events, unsubmitted, delivery,
                   timed, deferred, tracker, peers, writes, faults, history>>

\* _deliver_step with nothing to do: wait without a timeout.
StartWait ==
    /\ pc = "top" /\ ready
    /\ queue = {} /\ ~backlog
    /\ pc' = "wait"
    /\ timed' = FALSE
    /\ UNCHANGED <<durable, queueVars, unsubmitted, delivery, group, after,
                   pending, deferred, tracker, peers, writes, faults, history>>

\* Mutant: the retry delay does not end the wait.
EndWaitWoken ==
    /\ pc = "wait"
    /\ wake
    /\ pc' = "top"
    /\ UNCHANGED <<durable, queueVars, unsubmitted, delivery, reload, deferred,
                   tracker, peers, writes, faults, history>>

\* ObligationQueue.wait returns: woken, or at the retry delay.
EndWait ==
    /\ pc = "wait"
    /\ wake \/ timed
    /\ pc' = "top"
    /\ UNCHANGED <<durable, queueVars, unsubmitted, delivery, reload, deferred,
                   tracker, peers, writes, faults, history>>

\* obligation_page: the next `Batch' debts of the group after the cursor.
IsPage(page) ==
    LET left == {d \in meta : Group[d.addr] = group /\ Rank[d] > after}
    IN /\ page \subseteq left
       /\ Cardinality(page) <= Batch
       /\ page # left => Cardinality(page) = Batch
       /\ \A d \in page, e \in left \ page : Rank[d] < Rank[e]

\* Mutant: the retry delay is forgotten.
EndReloadUntimed ==
    /\ pc' = IF queue' = {} THEN "wait" ELSE "top"
    /\ timed' = IF queue' = {} THEN FALSE ELSE timed
    /\ RewindScan

\* The end of _deliver_step after a reload: wait only on an empty queue, with
\* a timeout while the flag is raised.
EndReload ==
    /\ pc' = IF queue' = {} THEN "wait" ELSE "top"
    /\ timed' = IF queue' = {} THEN backlog' ELSE timed
    /\ RewindScan

\* Debts of deferred peers are left in META for a later reload.
Undeferred(page) == {d \in page : d.target \notin deferred}

\* Mutant: the debts of deferred peers are not remembered.
LeftBehindUnnoticed(page) == pending

LeftBehind(page) == IF Undeferred(page) # page THEN TRUE ELSE pending

\* The flag after the submission of a page of which `acc' was accepted.
Raised(page, acc) == backlog \/ acc # Undeferred(page) \ queue

\* _reload_group and _reload return as soon as the flag is raised.
ReloadGivesUp(page, acc) ==
    /\ Raised(page, acc)
    /\ backlog' = TRUE
    /\ EndReload

\* A full page: the cursor moves to its last debt.
ReloadNextPage(page, acc) ==
    /\ ~Raised(page, acc)
    /\ Cardinality(page) = Batch
    /\ \E last \in page : /\ \A d \in page : Rank[d] <= Rank[last]
                          /\ after' = Rank[last]
    /\ pending' = LeftBehind(page)
    /\ UNCHANGED <<backlog, pc, group, timed>>

\* The group is exhausted: the next one starts from its first debt.
ReloadNextGroup(page, acc) ==
    /\ ~Raised(page, acc)
    /\ Cardinality(page) # Batch
    /\ group < NumGroups
    /\ group' = group + 1 /\ after' = 0
    /\ pending' = LeftBehind(page)
    /\ UNCHANGED <<backlog, pc, timed>>

\* The last group is exhausted: the flag stays raised for the debts left.
ReloadEnds(page, acc) ==
    /\ ~Raised(page, acc)
    /\ Cardinality(page) # Batch
    /\ group = NumGroups
    /\ backlog' = LeftBehind(page)
    /\ EndReload

\* One turn of _reload_group: read a page, submit it, and go on.
ReloadPage(page) ==
    /\ pc = "reload"
    /\ IsPage(page)
    /\ \E acc \in Accepted(Undeferred(page)) :
        /\ Enqueue(acc)
        /\ \/ ReloadGivesUp(page, acc)
           \/ ReloadNextPage(page, acc)
           \/ ReloadNextGroup(page, acc)
           \/ ReloadEnds(page, acc)
    /\ UNCHANGED <<durable, inflight, unsubmitted, delivery, deferred, tracker,
                   peers, writes, faults, history>>

----------------------------------------------------------------------------
(* deliver *)

\* latest_records: one latest version per owed address. A debt it does not
\* cover stays in META behind the flag.
LoadRecords ==
    LET wanted == {a \in Addrs : \E d \in owed : d.addr = a} IN
    /\ pc = "load"
    /\ records' = [a \in Addrs |->
                      IF a \in wanted /\ versions[a] # {} THEN Newest(a) ELSE 0]
    /\ owed' = {d \in owed : records'[d.addr] >= d.ts}
    /\ backlog' = IF owed' # owed THEN TRUE ELSE backlog
    /\ pc' = "targets"
    /\ UNCHANGED <<durable, queue, inflight, events, unsubmitted, batch,
                   obsolete, target, chunk, processed, reload, deferred,
                   tracker, peers, writes, faults, history>>

OwedTo(t) == {d \in owed : d.target = t}

\* _deliver_to: a peer that is deferred, in no session phase or not alive is
\* parked (_park), its debts left in META behind the flag.
Park(t) ==
    /\ pc = "targets" /\ OwedTo(t) # {}
    /\ t \in deferred \/ t \notin up
    /\ deferred' = deferred \union {t}
    /\ backlog' = TRUE
    /\ owed' = owed \ OwedTo(t)
    /\ UNCHANGED <<durable, queue, inflight, events, unsubmitted, pc, batch,
                   obsolete, records, target, chunk, processed, reload,
                   tracker, peers, writes, faults, history>>

DeliverTo(t) ==
    /\ pc = "targets" /\ OwedTo(t) # {}
    /\ t \notin deferred /\ t \in up
    /\ target' = t
    /\ pc' = "pids"
    /\ UNCHANGED <<durable, queueVars, unsubmitted, batch, owed, obsolete,
                   records, chunk, processed, reload, deferred, tracker, peers,
                   writes, faults, history>>

\* _push_obligations: send the latest version for every debt it covers.
Push(a) ==
    /\ pc = "pids"
    /\ chunk' = {d \in OwedTo(target) : d.addr = a}
    /\ chunk' # {}
    /\ pc' = "push"
    /\ UNCHANGED <<durable, queueVars, unsubmitted, batch, owed, obsolete,
                   records, target, processed, reload, deferred, tracker,
                   peers, writes, faults, history>>

\* Every partition of the target was pushed: the backoff forgets the peer.
TargetDone ==
    /\ pc = "pids" /\ OwedTo(target) = {}
    /\ deferred' = deferred \ {target}
    /\ target' = NoTarget
    /\ pc' = "targets"
    /\ UNCHANGED <<durable, queueVars, unsubmitted, batch, owed, obsolete,
                   records, chunk, processed, reload, tracker, peers, writes,
                   faults, history>>

\* The target handles antientropy.push: applied, already present or ignored
\* by its retention, it has processed the address through that version.
PushProcessed ==
    /\ pc = "push" /\ ~processed /\ target \in up
    /\ processed' = TRUE
    /\ received' = [p \in Pairs |->
          IF p[1] = target /\ (\E d \in chunk : d.addr = p[2])
                           /\ records[p[2]] > received[p]
          THEN records[p[2]] ELSE received[p]]
    /\ UNCHANGED <<durable, queueVars, unsubmitted, pc, batch, owed, obsolete,
                   records, target, chunk, reload, deferred, tracker, up,
                   writes, faults, history>>

\* The acknowledgement of every record arrives.
PushAccepted ==
    /\ pc = "push" /\ processed
    /\ pc' = "forget"
    /\ UNCHANGED <<durable, queueVars, unsubmitted, delivery, reload, deferred,
                   tracker, peers, writes, faults, history>>

\* A timeout, a lost connection or answer, a rejection (_failed): the peer is
\* deferred and the rest of its debts stay in META behind the flag.
PushFailed ==
    /\ pc = "push"
    /\ \/ target \notin up /\ UNCHANGED faults
       \/ target \in up /\ faults < MaxFaults /\ faults' = faults + 1
    /\ deferred' = deferred \union {target}
    /\ backlog' = TRUE
    /\ owed' = owed \ OwedTo(target)
    /\ chunk' = {}
    /\ processed' = FALSE
    /\ target' = NoTarget
    /\ pc' = "targets"
    /\ UNCHANGED <<durable, queue, inflight, events, unsubmitted, batch,
                   obsolete, records, reload, tracker, peers, writes, history>>

\* Mutant: every debt of the target for the address, also those recorded since.
ForgetAll ==
    /\ pc = "forget"
    /\ meta' = {d \in meta : ~(d.target = target /\ \E e \in chunk : e.addr = d.addr)}
    /\ owed' = owed \ chunk
    /\ chunk' = {}
    /\ processed' = FALSE
    /\ pc' = "pids"
    /\ UNCHANGED <<versions, queueVars, unsubmitted, batch, obsolete, records,
                   target, reload, deferred, tracker, peers, writes, faults,
                   history>>

\* remove_obligations after the acknowledgement: exactly the captured debts.
Forget ==
    /\ pc = "forget"
    /\ meta' = meta \ chunk
    /\ owed' = owed \ chunk
    /\ chunk' = {}
    /\ processed' = FALSE
    /\ pc' = "pids"
    /\ UNCHANGED <<versions, queueVars, unsubmitted, batch, obsolete, records,
                   target, reload, deferred, tracker, peers, writes, faults,
                   history>>

\* Every target was served; what the view does not owe is dropped next.
StartDrop ==
    /\ pc = "targets" /\ owed = {} /\ obsolete # {}
    /\ pc' = "drop"
    /\ UNCHANGED <<durable, queueVars, unsubmitted, delivery, reload, deferred,
                   tracker, peers, writes, faults, history>>

EndBatch ==
    /\ pc = "targets" /\ owed = {} /\ obsolete = {}
    /\ settle
    /\ LeaveDeliver
    /\ pc' = "top"
    /\ UNCHANGED <<durable, queue, backlog, wake, unsubmitted, reload,
                   deferred, tracker, peers, writes, faults, history>>

\* remove_obligations of the obsolete debts, one transaction per group.
Drop(g) ==
    LET dropped == {d \in obsolete : Group[d.addr] = g} IN
    /\ pc = "drop" /\ dropped # {}
    /\ meta' = meta \ dropped
    /\ \/ /\ dropped = obsolete
          /\ settle
          /\ LeaveDeliver
          /\ pc' = "top"
       \/ /\ dropped # obsolete
          /\ obsolete' = obsolete \ dropped
          /\ UNCHANGED <<inflight, idle, batch, owed, records, target, chunk,
                         processed, pc>>
    /\ UNCHANGED <<versions, queue, backlog, wake, unsubmitted, reload,
                   deferred, tracker, peers, writes, faults, history>>

----------------------------------------------------------------------------
(* Errors, stops and restarts *)

\* Leaving _deliver_step by an exception or a cancellation: the finally clause
\* settles a batch; a reload or a wait has nothing to hand back.
Abandon ==
    /\ IF pc \in Delivering THEN settle ELSE UNCHANGED <<inflight, idle, batch>>
    /\ LeaveDeliver
    /\ RewindScan /\ timed' = FALSE

\* A storage error escapes the step: the loop logs it and raises the flag.
StepFailed ==
    /\ pc \in {"reload", "load", "forget", "drop"}
    /\ faults < MaxFaults
    /\ faults' = faults + 1
    /\ Abandon
    /\ backlog' = TRUE
    /\ pc' = "top"
    /\ UNCHANGED <<durable, queue, wake, unsubmitted, deferred, tracker, peers,
                   writes, history>>

\* AntiEntropyService.stop cancels the worker and invalidates the view. The
\* queue and the backoff outlive it.
Stop ==
    /\ pc \notin {"down", "stopped"}
    /\ faults < MaxFaults
    /\ faults' = faults + 1
    /\ Abandon
    /\ pc' = "stopped"
    /\ view' = {} /\ ready' = FALSE
    /\ UNCHANGED <<durable, queue, backlog, wake, unsubmitted, deferred, topo,
                   changed, peers, writes, history>>

Start ==
    /\ pc = "stopped"
    /\ pc' = "top"
    /\ UNCHANGED <<durable, queueVars, unsubmitted, delivery, reload, deferred,
                   tracker, peers, writes, faults, history>>

\* The process ends: only the storage groups survive. A new ObligationQueue
\* starts empty with its flag raised.
Crash ==
    /\ running
    /\ faults < MaxFaults
    /\ faults' = faults + 1
    /\ queue' = {} /\ inflight' = 0 /\ backlog' = TRUE
    /\ wake' = FALSE /\ idle' = TRUE
    /\ unsubmitted' = {}
    /\ batch' = {} /\ LeaveDeliver
    /\ RewindScan /\ timed' = FALSE
    /\ deferred' = {}
    /\ view' = {} /\ ready' = FALSE /\ changed' = FALSE
    /\ pc' = "down"
    /\ UNCHANGED <<durable, topo, peers, writes, history>>

\* _start_ready: the members come from the seeds of the state file. Without a
\* seed (a founder has none), or when the bootstrap fails (its result is not
\* looked at), the ring holds this node alone until gossip reaches it.
Restart ==
    /\ pc = "down"
    /\ pc' = "top"
    /\ \/ UNCHANGED <<topo, unlearned>>
       \/ topo' = {} /\ unlearned' = unlearned \union meta
    /\ UNCHANGED <<durable, queueVars, unsubmitted, delivery, reload, deferred,
                   changed, view, ready, peers, writes, faults, recorded, lapsed>>

----------------------------------------------------------------------------
(* Membership, the view tracker, peers and time *)

\* TopologyManager applies a member: <<t, a>> is in topo when t is a target
\* replica of the partition of a.
TopologyChange(new) ==
    /\ running
    /\ new # topo
    /\ faults < MaxFaults
    /\ faults' = faults + 1
    /\ topo' = new
    /\ changed' = TRUE
    /\ lapsed' = lapsed \union {d \in meta : <<d.target, d.addr>> \in topo \ new}
    /\ UNCHANGED <<durable, queueVars, unsubmitted, pc, delivery, reload,
                   deferred, view, ready, peers, writes, recorded, unlearned>>

\* ViewTracker._run wakes up on a change.
Invalidate ==
    /\ ready /\ changed
    /\ view' = {} /\ ready' = FALSE
    /\ UNCHANGED <<durable, queueVars, unsubmitted, pc, delivery, reload,
                   deferred, topo, changed, peers, writes, faults, history>>

\* _rebuild, at start and once the ring is quiet.
Rebuild ==
    /\ pc \notin {"down", "stopped"}
    /\ ~ready
    /\ view' = topo /\ ready' = TRUE /\ changed' = FALSE
    /\ UNCHANGED <<durable, queueVars, unsubmitted, pc, delivery, reload,
                   deferred, topo, peers, writes, faults, history>>

PeerDown(t) ==
    /\ t \in up
    /\ faults < MaxFaults
    /\ faults' = faults + 1
    /\ up' = up \ {t}
    /\ UNCHANGED <<durable, queueVars, unsubmitted, pc, delivery, reload,
                   deferred, tracker, received, writes, history>>

PeerUp(t) ==
    /\ t \notin up
    /\ up' = up \union {t}
    /\ UNCHANGED <<durable, queueVars, unsubmitted, pc, delivery, reload,
                   deferred, tracker, received, writes, faults, history>>

\* PeerBackoff: the deferral of a peer runs out.
BackoffExpires(t) ==
    /\ t \in deferred
    /\ deferred' = deferred \ {t}
    /\ UNCHANGED <<durable, queueVars, unsubmitted, pc, delivery, reload,
                   tracker, peers, writes, faults, history>>

----------------------------------------------------------------------------

Init ==
    /\ versions = [a \in Addrs |-> {}] /\ meta = {}
    /\ queue = {} /\ inflight = 0 /\ backlog = TRUE /\ wake = FALSE /\ idle = TRUE
    /\ unsubmitted = {}
    /\ pc = "top"
    /\ batch = {} /\ owed = {} /\ obsolete = {} /\ chunk = {}
    /\ records = NoRecords /\ target = NoTarget /\ processed = FALSE
    /\ group = 1 /\ after = 0 /\ pending = FALSE /\ timed = FALSE
    /\ deferred = {}
    /\ topo = Pairs /\ changed = FALSE /\ view = {} /\ ready = FALSE
    /\ up = Targets /\ received = [p \in Pairs |-> 0]
    /\ writes = 0 /\ faults = 0
    /\ recorded = {} /\ lapsed = {} /\ unlearned = {}

\* The steps of the delivery worker, and the answers it waits for.
Worker ==
    \/ DeliverBatch \/ StartReload \/ StartWait \/ EndWait
    \/ \E page \in SUBSET meta : ReloadPage(page)
    \/ LoadRecords \/ StartDrop \/ EndBatch
    \/ \E t \in Targets : Park(t) \/ DeliverTo(t)
    \/ \E a \in Addrs : Push(a)
    \/ TargetDone \/ PushProcessed \/ PushAccepted \/ PushFailed \/ Forget
    \/ \E g \in 1..NumGroups : Drop(g)

Producer ==
    \/ \E t \in Targets, a \in Addrs, v \in Ts : Oblige(t, a, v)
    \/ \E d \in unsubmitted : ObligeSubmit(d)
    \/ \E a \in Addrs, v \in Ts : LocalWrite(a, v) \/ Collect(a, v)

Environment ==
    \/ StepFailed \/ Crash \/ Restart
    \/ \E new \in SUBSET Pairs : TopologyChange(new)
    \/ Invalidate \/ Rebuild
    \/ \E t \in Targets : PeerDown(t) \/ PeerUp(t) \/ BackoffExpires(t)

\* Anti-entropy is never stopped inside a process: the life of a READY node
\* between its start and its shutdown.
NextUninterrupted == Worker \/ Producer \/ Environment

SpecUninterrupted == Init /\ [][NextUninterrupted]_vars

\* With the stops and starts of a drain, a failed join and a later join.
Next == NextUninterrupted \/ Stop \/ Start

Spec == Init /\ [][Next]_vars

\* asyncio runs every ready callback, timers fire, a peer that is up answers,
\* the tracker rebuilds once the ring is quiet and a crashed node is restarted.
Fairness ==
    /\ WF_vars(Worker)
    /\ \A d \in Debts : WF_vars(ObligeSubmit(d))
    /\ WF_vars(Restart) /\ WF_vars(Invalidate) /\ WF_vars(Rebuild)
    /\ \A t \in Targets : WF_vars(PeerUp(t)) /\ WF_vars(BackoffExpires(t))

FairSpec == SpecUninterrupted /\ Fairness

----------------------------------------------------------------------------
(* Properties *)

\* Type correctness; the pieces of a batch stay inside it, and the cursor of a
\* reload inside the storage groups.
TypeOK ==
    /\ versions \in [Addrs -> SUBSET Ts]
    /\ meta \subseteq Debts
    /\ queue \subseteq Debts
    /\ inflight \in Nat
    /\ backlog \in BOOLEAN /\ wake \in BOOLEAN /\ idle \in BOOLEAN
    /\ unsubmitted \subseteq Debts
    /\ pc \in PCs
    /\ batch \subseteq Debts
    /\ owed \subseteq batch /\ obsolete \subseteq batch /\ chunk \subseteq owed
    /\ records \in [Addrs -> 0..MaxTs]
    /\ target \in Targets \union {NoTarget}
    /\ processed \in BOOLEAN
    /\ group \in 1..NumGroups /\ after \in Nat
    /\ pending \in BOOLEAN /\ timed \in BOOLEAN
    /\ deferred \subseteq Targets
    /\ topo \subseteq Pairs /\ view \subseteq Pairs
    /\ changed \in BOOLEAN /\ ready \in BOOLEAN
    /\ up \subseteq Targets
    /\ received \in [Pairs -> 0..MaxTs]
    /\ writes \in 0..MaxWrites /\ faults \in 0..MaxFaults
    /\ recorded \subseteq Debts /\ lapsed \subseteq Debts /\ unlearned \subseteq Debts

\* The events the waiters rely on tell the truth: the worker is woken exactly
\* when something is queued, and a sweep unit (wait_idle) proceeds exactly
\* when nothing is queued or in delivery. The queue respects its capacity.
EventsMatchQueue ==
    /\ wake <=> queue # {}
    /\ inflight = Cardinality(batch)
    /\ idle <=> (queue = {} /\ batch = {})
    /\ Cardinality(queue) <= Capacity

\* The debts a reload in progress still has to read.
Ahead(d) ==
    /\ pc = "reload"
    /\ \/ Group[d.addr] > group
       \/ Group[d.addr] = group /\ Rank[d] > after

\* No durable debt is forgotten: at every moment a debt in META is queued,
\* in delivery, about to be submitted by the operation that recorded it, still
\* ahead of the reload that is reading META, or covered by the backlog flag
\* (raised, or going to be raised by the reload that met a deferred peer).
NoForgottenDebt ==
    \A d \in meta :
        \/ d \in queue \/ d \in batch \/ d \in unsubmitted
        \/ backlog
        \/ Ahead(d)
        \/ pc = "reload" /\ pending

\* The worker goes to sleep without a timeout only when META holds nothing
\* but debts whose submission, which will wake it, is on its way.
SleepOnlyWhenSettled ==
    pc = "wait" /\ ~timed /\ ~wake => meta \subseteq unsubmitted

\* A debt leaves META only because its target has processed the address at
\* least through the required timestamp, because the target was out of the
\* replicas of the partition when the debt was recorded or left them since
\* (deliver: "only a target no longer in the preference list makes a debt
\* obsolete without delivery"), or because the node restarted with the debt and
\* without its members: alone on its ring it takes every target for one that left.
NoLostDebt ==
    \A d \in recorded :
        \/ d \in meta
        \/ received[<<d.target, d.addr>>] >= d.ts
        \/ d \in lapsed
        \/ d \in unlearned

\* Without the exception of the restart alone: Obligations_seedless.cfg shows that
\* the code does not give this.
OnlyLeaversDropped ==
    \A d \in recorded :
        \/ d \in meta
        \/ received[<<d.target, d.addr>>] >= d.ts
        \/ d \in lapsed

\* Every durable debt can be paid from this node: a version at least as new as
\* the one it names is stored, whatever garbage collection removed since.
DebtCovered ==
    \A d \in meta : \E v \in versions[d.addr] : v >= d.ts

\* The version latest_records finds for the address is older than the debt's.
Hidden(d) == versions[d.addr] # {} /\ Newest(d.addr) < d.ts

\* Once writes, faults and membership changes cease, every durable debt is
\* eventually delivered or dropped, unless it is hidden: the LOGS key of an older
\* version sorts last, so that latest_records never covers the debt and every
\* reload puts it off again.
DebtsSettle == \A d \in Debts : d \in meta ~> (d \notin meta \/ Hidden(d))

\* Without the exception: Obligations_order.cfg shows that the code does not give
\* this.
AllDebtsSettle == \A d \in Debts : d \in meta ~> d \notin meta

============================================================================
