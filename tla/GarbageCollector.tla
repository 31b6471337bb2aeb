-------------------------- MODULE GarbageCollector --------------------------
(***************************************************************************)
(* The collection worker (services/gc.py): periodic and requested passes    *)
(* over every storage group, page by page, and a bounded hot queue of       *)
(* addresses that is served between them. A step is the code between two    *)
(* awaits; the transaction of a page or of a hot address is one step, what  *)
(* it removes is decided inside it. Each partition holds one address.       *)
(***************************************************************************)
EXTENDS Integers, FiniteSets, Sequences

CONSTANTS
    Addrs,         \* addresses, one per partition
    MaxTs,         \* versions carry timestamps 1..MaxTs
    Versions,      \* X of the retention policy
    BatchSize,     \* batch_size
    HotSize,       \* hotqueue_size
    NumGroups,     \* storage groups
    Group,         \* the group of an address
    Order,         \* the order of the addresses in TAGS
    Encoded,       \* the order of the keys of an address in TAGS and LOGS
    MaxWrites,     \* bound: versions written
    MaxRequests,   \* bound: requested passes
    MaxFaults      \* bound: storage errors, stops and crashes

Ts == 1..MaxTs

ASSUME CollectorAssumption ==
    /\ IsFiniteSet(Addrs)
    /\ MaxTs \in Nat
    /\ Versions \in Nat \ {0} /\ BatchSize \in Nat \ {0} /\ HotSize \in Nat \ {0}
    /\ NumGroups \in Nat \ {0} /\ Group \in [Addrs -> 1..NumGroups]
    /\ Order \in [Addrs -> Nat]
    /\ \A a, b \in Addrs : Order[a] = Order[b] => a = b
    /\ Encoded \in [Addrs -> [Ts -> 0..MaxTs]]
    /\ \A a \in Addrs : \A v, w \in Ts : Encoded[a][v] = Encoded[a][w] => v = w
    /\ MaxWrites \in Nat /\ MaxRequests \in Nat /\ MaxFaults \in Nat

VARIABLES
    versions,      \* the versions stored per address
    hot,           \* _hot: distinct addresses, oldest first
    wake,          \* _wake
    pending,       \* _pending
    state, dry,    \* _status.state, _status.dry_run
    due,           \* loop.time() >= next_pass
    pc,            \* where the worker waits
    address, back, \* the address a hot step popped, and where it returns to
    group, after,  \* the cursor of a scan
    writes, requests, faults \* bounds

queueVars == <<hot, wake>>
job       == <<pending, state, dry>>
hotStep   == <<address, back>>
cursor    == <<group, after>>
bounds    == <<writes, requests, faults>>
vars == <<versions, queueVars, job, due, pc, hotStep, cursor, bounds>>

States == {"idle", "queued", "running", "completed", "failed", "cancelled"}
NoAddress == "none"
Elements(s) == {s[i] : i \in DOMAIN s}

----------------------------------------------------------------------------
(* Storage *)

Keys == Addrs \X Ts

\* TAGS is ordered by partition, then by the bytes of the timestamp: these order
\* two versions as the timestamps do, unless only the node ids differ, and in
\* length (to_bytes writes the length before the node id).
Rank(k) == 1 + Order[k[1]] * (MaxTs + 1) + Encoded[k[1]][k[2]]

\* latest_identities_many: the X versions whose LOGS keys come last.
Latest(a) ==
    {v \in versions[a] :
        Cardinality({w \in versions[a] : Encoded[a][w] > Encoded[a][v]}) < Versions}

\* RetentionPolicy.collect: of the candidates, those with X newer among these.
Outside(S) ==
    {k \in S : Cardinality({v \in Latest(k[1]) : v > k[2]}) >= Versions}

Without(S) == [a \in Addrs |-> {v \in versions[a] : <<a, v>> \notin S}]

\* The first BatchSize of a set of keys.
IsFirst(page, left) ==
    /\ page \subseteq left
    /\ Cardinality(page) <= BatchSize
    /\ page # left => Cardinality(page) = BatchSize
    /\ \A k \in page, j \in left \ page : Rank(k) < Rank(j)

\* log_page after the cursor; oldest_keys of an address.
LogPage == {k \in Keys : /\ k[2] \in versions[k[1]]
                         /\ Group[k[1]] = group /\ Rank(k) > after}
KeysOf(a) == {a} \X versions[a]

----------------------------------------------------------------------------
(* The hot queue *)

\* submit: the queue and the event after it. An address that is queued or does
\* not fit changes nothing.
Enters(a, q) == a \notin Elements(q) /\ Len(q) < HotSize
Submitted(a, q) == IF Enters(a, q) THEN Append(q, a) ELSE q

\* Mutant: the newest address is served first.
PopNewest(q) ==
    /\ address' = q[Len(q)]
    /\ hot' = SubSeq(q, 1, Len(q) - 1)

\* popitem(last=False)
Pop(q) ==
    /\ address' = Head(q)
    /\ hot' = Tail(q)

\* A hot step entered from `from': without an address it returns at once.
StartHotStep(from) ==
    \/ /\ hot = <<>>
       /\ pc' = from
       /\ UNCHANGED <<hot, hotStep>>
    \/ /\ hot # <<>>
       /\ Pop(hot)
       /\ back' = from
       /\ pc' = "hot"

----------------------------------------------------------------------------
(* Callers *)

\* The store writes a version, whatever the retention.
Write(a, v) ==
    /\ writes < MaxWrites
    /\ writes' = writes + 1
    /\ v \notin versions[a]
    /\ versions' = [versions EXCEPT ![a] = @ \union {v}]
    /\ UNCHANGED <<queueVars, job, due, pc, hotStep, cursor, requests, faults>>

\* Anti-entropy notifies of an address it wrote or read.
Submit(a) ==
    /\ Enters(a, hot)
    /\ hot' = Submitted(a, hot)
    /\ wake' = TRUE
    /\ UNCHANGED <<versions, job, due, pc, hotStep, cursor, bounds>>

\* Mutant: only a queued request excludes another one.
RequestRunning(d) ==
    /\ pc # "stopped"
    /\ ~pending
    /\ requests < MaxRequests /\ requests' = requests + 1
    /\ state' = "queued" /\ dry' = d /\ pending' = TRUE
    /\ wake' = TRUE
    /\ UNCHANGED <<versions, hot, due, pc, hotStep, cursor, writes, faults>>

Request(d) ==
    /\ pc # "stopped"
    /\ ~pending /\ state # "running"
    /\ requests < MaxRequests /\ requests' = requests + 1
    /\ state' = "queued" /\ dry' = d /\ pending' = TRUE
    /\ wake' = TRUE
    /\ UNCHANGED <<versions, hot, due, pc, hotStep, cursor, writes, faults>>

Start ==
    /\ pc = "stopped"
    /\ pc' = "wait"
    /\ due' = FALSE
    /\ UNCHANGED <<versions, queueVars, job, hotStep, cursor, bounds>>

\* Cancellation at any await. A popped address is gone; the queue stays.
Stop ==
    /\ pc # "stopped"
    /\ faults < MaxFaults /\ faults' = faults + 1
    /\ pc' = "stopped"
    /\ state' = IF state \in {"queued", "running"} THEN "cancelled" ELSE state
    /\ pending' = IF state \in {"queued", "running"} THEN FALSE ELSE pending
    /\ address' = NoAddress /\ back' = "wait"
    /\ group' = 1 /\ after' = 0
    /\ UNCHANGED <<versions, queueVars, dry, due, writes, requests>>

\* The process ends; the next one makes a new collector.
Crash ==
    /\ faults < MaxFaults /\ faults' = faults + 1
    /\ pc' = "stopped"
    /\ hot' = <<>> /\ wake' = FALSE
    /\ pending' = FALSE /\ state' = "idle" /\ dry' = FALSE
    /\ address' = NoAddress /\ back' = "wait"
    /\ group' = 1 /\ after' = 0
    /\ UNCHANGED <<versions, due, writes, requests>>

\* The interval since the last pass, or since the start, is over.
IntervalEnds ==
    /\ pc # "stopped" /\ ~due
    /\ due' = TRUE
    /\ UNCHANGED <<versions, queueVars, job, pc, hotStep, cursor, bounds>>

----------------------------------------------------------------------------
(* The worker *)

\* _wait returns and _pass begins: a requested one, or a periodic one.
BeginPass ==
    /\ pc = "wait"
    /\ due \/ (wake /\ pending)
    /\ wake' = FALSE
    /\ dry' = IF pending THEN dry ELSE FALSE
    /\ pending' = FALSE /\ state' = "running"
    /\ group' = 1 /\ after' = 0
    /\ pc' = "page"
    /\ UNCHANGED <<versions, hot, due, hotStep, bounds>>

\* _wait returns for the hot queue.
BeginHotStep ==
    /\ pc = "wait"
    /\ wake /\ ~due /\ ~pending
    /\ wake' = FALSE
    /\ StartHotStep("wait")
    /\ UNCHANGED <<versions, job, due, cursor, bounds>>

\* The end of _pass, and the next interval. Only a completed one looks at the
\* hot queue.
EndPass(outcome) ==
    /\ state' = outcome
    /\ wake' = IF outcome = "completed" /\ hot # <<>> THEN TRUE ELSE wake
    /\ due' = FALSE
    /\ pc' = "wait"
    /\ group' = 1 /\ after' = 0
    /\ UNCHANGED <<hot, pending, dry, hotStep>>

\* Mutant: the last group is left out.
LastPageEarly ==
    \/ /\ group + 1 < NumGroups
       /\ group' = group + 1 /\ after' = 0
       /\ UNCHANGED <<queueVars, job, due, pc, hotStep>>
    \/ /\ group + 1 >= NumGroups
       /\ EndPass("completed")

\* The last page of a group: the next group, or the end.
LastPage ==
    \/ /\ group < NumGroups
       /\ group' = group + 1 /\ after' = 0
       /\ UNCHANGED <<queueVars, job, due, pc, hotStep>>
    \/ /\ group = NumGroups
       /\ EndPass("completed")

\* A full page: the cursor moves to its last key, which may be gone by now.
\* A collecting pass serves one hot address before the next page.
FullPage(page) ==
    /\ \E k \in page : (\A j \in page : Rank(j) <= Rank(k)) /\ after' = Rank(k)
    /\ \/ dry /\ UNCHANGED <<hot, pc, hotStep>>
       \/ ~dry /\ StartHotStep("page")
    /\ UNCHANGED <<wake, job, due, group>>

\* One page of _scan, in one transaction.
ScanPage(page) ==
    /\ pc = "page"
    /\ IsFirst(page, LogPage)
    /\ versions' = IF dry THEN versions ELSE Without(Outside(page))
    /\ \/ Cardinality(page) < BatchSize /\ LastPage
       \/ Cardinality(page) = BatchSize /\ FullPage(page)
    /\ UNCHANGED bounds

\* _session: the transaction fails, and the error is raised to its user.
SessionFails == faults < MaxFaults /\ faults' = faults + 1

\* A storage error ends the pass; what is queued waits for the next one, or
\* for another submission.
PassFails ==
    /\ pc = "page" /\ SessionFails
    /\ EndPass("failed")
    /\ UNCHANGED <<versions, writes, requests>>

\* Mutant: the rest of the queue is not announced.
EndHotStepQuietly(q) ==
    /\ hot' = q
    /\ UNCHANGED wake
    /\ pc' = back
    /\ address' = NoAddress /\ back' = "wait"

\* _hot_step returns, with the queue as it is now.
EndHotStep(q) ==
    /\ hot' = q
    /\ wake' = IF q # <<>> THEN TRUE ELSE wake
    /\ pc' = back
    /\ address' = NoAddress /\ back' = "wait"

\* _collect_address: the oldest versions, again if all of them were collected.
CollectAddress(page) ==
    /\ pc = "hot"
    /\ IsFirst(page, KeysOf(address))
    /\ versions' = Without(Outside(page))
    /\ EndHotStep(IF Cardinality(Outside(page)) = BatchSize
                  THEN Submitted(address, hot) ELSE hot)
    /\ UNCHANGED <<job, due, cursor, bounds>>

\* A storage error: the address is left to the next pass.
HotStepFails ==
    /\ pc = "hot" /\ SessionFails
    /\ EndHotStep(hot)
    /\ UNCHANGED <<versions, job, due, cursor, writes, requests>>

----------------------------------------------------------------------------

Init ==
    /\ versions = [a \in Addrs |-> {}]
    /\ hot = <<>> /\ wake = FALSE
    /\ pending = FALSE /\ state = "idle" /\ dry = FALSE
    /\ due = FALSE
    /\ pc = "stopped"
    /\ address = NoAddress /\ back = "wait"
    /\ group = 1 /\ after = 0
    /\ writes = 0 /\ requests = 0 /\ faults = 0

Worker ==
    \/ BeginPass \/ BeginHotStep
    \/ \E page \in SUBSET Keys : ScanPage(page) \/ CollectAddress(page)

Next ==
    \/ Worker
    \/ PassFails \/ HotStepFails
    \/ \E a \in Addrs, v \in Ts : Write(a, v)
    \/ \E a \in Addrs : Submit(a)
    \/ \E d \in BOOLEAN : Request(d)
    \/ Start \/ Stop \/ Crash \/ IntervalEnds

Spec == Init /\ [][Next]_vars

\* The loop runs what is ready, timers fire, and a node that stopped is started
\* again. The interval is at least 10 ms: a worker that was woken is not for ever
\* overtaken by the next one.
FairSpec ==
    /\ Spec
    /\ WF_vars(Worker) /\ SF_vars(BeginHotStep)
    /\ WF_vars(IntervalEnds) /\ WF_vars(Start)

----------------------------------------------------------------------------
(* Properties *)

\* A pass is in progress: scanning, or serving a hot address between two pages.
InPass == pc = "page" \/ (pc = "hot" /\ back = "page")

\* The status that `request' consults tells the truth, so that an accepted job
\* never overwrites one that is queued or running.
StatusTruthful ==
    /\ pending <=> state = "queued"
    /\ state = "running" <=> InPass

\* The worker waits with its event clear although addresses are queued.
Stranded == pc = "wait" /\ hot # <<>> /\ ~wake

\* Two things only put the worker to sleep on a queue that is not empty, until
\* the next submission or pass: a pass that failed, which returns before it looks
\* at the queue, and a start after a stop that cancelled a hot step. No other
\* order of submissions, passes, estimates and hot steps does.
HotQueueAwake ==
    [][Stranded' => \/ Stranded
                    \/ pc = "page" /\ state' = "failed"
                    \/ pc = "stopped"]_vars

\* Two stored versions whose keys sort against their timestamps.
Inverted(a) ==
    \E v, w \in versions[a] : v < w /\ Encoded[a][v] > Encoded[a][w]

\* Once writes and requests cease, every address is brought to X versions, also
\* when its notification was lost to a full queue, an error or a restart. The
\* exception is an address with versions whose keys sort against their
\* timestamps: _outside counts the newer ones among the X last keys only, and
\* keeps more than X of them for good.
HistoryBounded ==
    \A a \in Addrs : <>[](Cardinality(versions[a]) <= Versions \/ Inverted(a))

\* Without the exception: GarbageCollector_order.cfg shows that the code does not
\* give this.
HistoryAlwaysBounded ==
    \A a \in Addrs : <>[](Cardinality(versions[a]) <= Versions)

\* Every address in the hot queue is served.
HotServed == \A a \in Addrs : a \in Elements(hot) ~> a \notin Elements(hot)

============================================================================
