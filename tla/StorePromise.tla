---------------------------- MODULE StorePromise ----------------------------
(***************************************************************************)
(* What a client and an operator may rely on, proved from the invariant of *)
(* StoreProofs: a drained node is quiet, and the store implements its      *)
(* promise, QuorumStore.                                                   *)
(***************************************************************************)
EXTENDS StoreProofs

-----------------------------------------------------------------------------
(* Draining.                                                               *)

Late == {"drained", "closing", "closed"}
NoneLive(n) ==
  \A o \in Requests : ops[o].coord = n /\ ops[o].kind \in Mutations =>
    \A t \in DOMAIN ops[o].tasks : ~Live(ops[o].tasks[t])

DrainInv ==
  /\ DOMAIN mode = Nodes /\ DOMAIN snap = Nodes
  /\ \A n \in Nodes :
       /\ mode[n] \in {"draining"} \cup Late =>
            \A o \in Requests : ops[o].coord = n /\ ops[o].kind \in Mutations =>
              ops[o].st \in {"new", "done"}
       /\ mode[n] = "draining" =>
            \A o \in Requests : ops[o].coord = n /\ ops[o].kind \in Mutations =>
              \A t \in DOMAIN ops[o].tasks :
                Live(ops[o].tasks[t]) => <<o, t>> \in snap[n].tasks
       /\ mode[n] \in Late => NoneLive(n)
       /\ mode[n] = "closed" => _repairs_of(n) = {}

\* Only an open node starts a write, and only one that is not closing a repair.
StartsOpen ==
  /\ \A o \in Requests : ops[o].kind \in Mutations /\ ops[o].st = "new" /\ ops'[o].st # "new"
       => mode[ops[o].coord] = "open"
  /\ \A r \in repairs' : r \in repairs \/ mode[r.coord] \notin {"closing", "closed"}

\* A step that starts work only on open nodes keeps drained ones drained.
LEMMA StartsKeep ==
  ASSUME StoreInv', Progress, DrainInv, StartsOpen, UNCHANGED <<mode, snap>>
  PROVE  DrainInv'
PROOF
  <1>1. \A o \in Requests : Evolves(ops[o], ops'[o]) /\ Shape(ops'[o])
    BY DEF Progress, OpOK
  <1> SUFFICES ASSUME NEW n \in Nodes
               PROVE  /\ mode[n] \in {"draining"} \cup Late =>
                           \A o \in Requests : ops'[o].coord = n /\ ops'[o].kind \in Mutations =>
                             ops'[o].st \in {"new", "done"}
                      /\ mode[n] = "draining" =>
                           \A o \in Requests : ops'[o].coord = n /\ ops'[o].kind \in Mutations =>
                             \A t \in DOMAIN ops'[o].tasks :
                               Live(ops'[o].tasks[t]) => <<o, t>> \in snap[n].tasks
                      /\ mode[n] \in Late => NoneLive(n)'
                      /\ mode[n] = "closed" => _repairs_of(n)' = {}
    BY DEF DrainInv
  <1>2. ASSUME mode[n] \in {"draining"} \cup Late, NEW o \in Requests,
               ops'[o].coord = n, ops'[o].kind \in Mutations
        PROVE  /\ ops'[o].st \in {"new", "done"}
               /\ \A t \in DOMAIN ops'[o].tasks : Live(ops'[o].tasks[t]) =>
                    t \in DOMAIN ops[o].tasks /\ Live(ops[o].tasks[t])
               /\ ops[o].coord = n /\ ops[o].kind \in Mutations
    <2>1. ops[o].coord = n /\ ops[o].kind \in Mutations /\ mode[n] # "open"
      BY <1>1, <1>2 DEF Evolves, Late
    <2>2. ops[o].st \in {"new", "done"}
      BY <1>2, <2>1 DEF DrainInv
    <2>3. CASE ops[o].st = "new"
      <3>1. ops'[o].st = "new"
        BY <2>1, <2>3 DEF StartsOpen
      <3> QED BY <1>1, <2>1, <3>1 DEF Shape
    <2>4. CASE ops[o].st = "done"
      BY <1>1, <2>1, <2>4 DEF Evolves
    <2> QED BY <2>2, <2>3, <2>4
  <1>3. mode[n] = "draining" =>
          \A o \in Requests : ops'[o].coord = n /\ ops'[o].kind \in Mutations =>
            \A t \in DOMAIN ops'[o].tasks :
              Live(ops'[o].tasks[t]) => <<o, t>> \in snap[n].tasks
    BY <1>2 DEF DrainInv
  <1>4. mode[n] \in Late => NoneLive(n)'
    BY <1>2 DEF DrainInv, NoneLive
  <1>5. mode[n] = "closed" => _repairs_of(n)' = {}
    BY DEF DrainInv, StartsOpen, _repairs_of
  <1> QED BY <1>2, <1>3, <1>4, <1>5

\* A step that changes one request, which has begun, and adds no repair.
LEMMA BegunStarts ==
  ASSUME StoreInv, NEW o \in Requests, NEW r, ops' = [ops EXCEPT ![o] = r],
         \/ ops[o].st # "new"
         \/ ops[o].kind = "get"
         \/ mode[ops[o].coord] = "open"
  PROVE  \A p \in Requests : ops[p].kind \in Mutations /\ ops[p].st = "new" /\ ops'[p].st # "new"
           => mode[ops[p].coord] = "open"
PROOF BY DEF StoreInv, Typed, Mutations

\* A request is admitted by an open coordinator only.
LEMMA RequestStarts ==
  ASSUME StoreInv, NEW o \in Requests, Request(o)
  PROVE  StartsOpen /\ UNCHANGED <<mode, snap>>
PROOF
  <1>1. ASSUME NEW ts \in Versions, put(o, ts)
        PROVE  StartsOpen /\ UNCHANGED <<mode, snap>>
    <2> DEFINE r == begin(ops[o], ts, "writing", {_write_target(ops[o].pref, n) :
                                                    n \in _write_targets(ops[o].pref)})
    <2>1. ops' = [ops EXCEPT ![o] = r] /\ mode[ops[o].coord] = "open"
          /\ repairs' = repairs /\ UNCHANGED <<mode, snap>>
      BY <1>1 DEF put, _admit, StoreInv, Typed
    <2> HIDE DEF r
    <2> QED BY <2>1, BegunStarts DEF StartsOpen
  <1>2. ASSUME get(o)
        PROVE  StartsOpen /\ UNCHANGED <<mode, snap>>
    <2> DEFINE r == begin(ops[o], NoVersion, "reading", UNION {_sources(ops[o].pref, n) :
                                                n \in _replication_targets(ops[o].pref)})
    <2>1. ops' = [ops EXCEPT ![o] = r] /\ ops[o].kind = "get"
          /\ repairs' = repairs /\ UNCHANGED <<mode, snap>>
      BY <1>2 DEF get, StoreInv, Typed
    <2> HIDE DEF r
    <2> QED BY Zenon, <2>1, BegunStarts DEF StartsOpen
  <1>3. ASSUME NEW w \in Requests, repair(o, w)
        PROVE  StartsOpen /\ UNCHANGED <<mode, snap>>
    <2> DEFINE r == begin(ops[o], ops[w].ts, "looking", {_write_target(ops[o].pref, n) :
                                                    n \in _repair_fanout(ops[o].pref)})
    <2>1. ops' = [ops EXCEPT ![o] = r] /\ mode[ops[o].coord] = "open"
          /\ repairs' = repairs /\ UNCHANGED <<mode, snap>>
      BY <1>3 DEF repair, _admit, StoreInv, Typed
    <2> HIDE DEF r
    <2> QED BY <2>1, BegunStarts DEF StartsOpen
  <1> QED BY <1>1, <1>2, <1>3, StampsAre DEF Request

\* The steps of a coordinator start nothing a drain does not wait for.
LEMMA CoordinateStarts ==
  ASSUME StoreInv, NEW o \in Requests, Coordinate(o)
  PROVE  StartsOpen /\ UNCHANGED <<mode, snap>>
PROOF
  <1> DEFINE op == ops[o]
             One == \E r : ops' = [ops EXCEPT ![o] = r]
  <1>1. Shape(op) /\ ops \in [Requests -> Op]
    BY DEF StoreInv, OpOK, Typed
  <1>2. One /\ op.st # "new" /\ UNCHANGED <<mode, snap>>
    <2>1. ASSUME _ensure_quorum(o)
          PROVE  One /\ op.st # "new" /\ UNCHANGED <<mode, snap>>
      BY Zenon, <2>1 DEF _ensure_quorum
    <2>2. ASSUME _get(o)
          PROVE  One /\ op.st # "new" /\ UNCHANGED <<mode, snap>>
      BY Zenon, <2>2 DEF _get
    <2>3. ASSUME _run_repair(o)
          PROVE  One /\ op.st # "new" /\ UNCHANGED <<mode, snap>>
      BY Zenon, <2>3 DEF _run_repair
    <2>4. ASSUME NEW t \in Nodes, WriteFails(o, t)
          PROVE  One /\ op.st # "new" /\ UNCHANGED <<mode, snap>>
      BY Zenon, <1>1, <2>4 DEF WriteFails, Shape
    <2>5. ASSUME NEW t \in Nodes, read(o, t) \/ lookup(o, t)
          PROVE  One /\ op.st # "new" /\ UNCHANGED <<mode, snap>>
      BY Zenon, <1>1, <2>5 DEF read, lookup, Answers, Shape
    <2>6. ASSUME NEW t \in Nodes, NEW stored \in BOOLEAN, _record_obligation(o, t, stored)
          PROVE  One /\ op.st # "new" /\ UNCHANGED <<mode, snap>>
      BY Zenon, <1>1, <2>6 DEF _record_obligation, Shape
    <2> HIDE DEF One
    <2> QED BY <2>1, <2>2, <2>3, <2>4, <2>5, <2>6, Zenon DEF Coordinate
  <1>3. \A r \in repairs' : r \in repairs \/ mode[r.coord] \notin {"closing", "closed"}
    <2>1. CASE _get(o)
      BY <2>1 DEF _get, _schedule_read_repair
    <2>2. CASE repairs' = repairs
      BY <2>2
    <2> QED BY <2>1, <2>2, Zenon DEF Coordinate, _ensure_quorum, _run_repair, WriteFails,
               read, lookup, Answers, _record_obligation
  <1> QED BY <1>2, <1>3, BegunStarts DEF StartsOpen

\* Nor do the steps of a message.
LEMMA MessageStarts ==
  ASSUME StoreInv, NEW m \in wire, Refuse(m) \/ \E answered \in BOOLEAN : Deliver(m, answered)
  PROVE  StartsOpen /\ UNCHANGED <<mode, snap>>
PROOF
  <1>1. UNCHANGED <<mode, snap>> /\ \A r \in repairs' : r \in repairs
    BY DEF Refuse, Deliver
  <1>2. (\E st : Answered(m, st)) \/ ops' = ops
    BY DEF Refuse, Deliver
  <1>3. MessageOK(m, ops)
    BY DEF StoreInv
  <1>4. \A p \in Requests : ops[p].kind \in Mutations /\ ops[p].st = "new" /\ ops'[p].st # "new"
          => mode[ops[p].coord] = "open"
    <2>1. CASE ops' = ops
      BY <2>1
    <2>2. ASSUME NEW st, Answered(m, st), ops' # ops
          PROVE  m.op \in Requests /\ ops[m.op].st # "new"
                 /\ \E r : ops' = [ops EXCEPT ![m.op] = r]
      BY <1>3, <2>2 DEF Answered, MessageOK
    <2> QED BY <1>2, <2>1, <2>2, BegunStarts
  <1> QED BY <1>1, <1>4 DEF StartsOpen

\* The drain waits for everything it found.
LEMMA DrainKeeps ==
  ASSUME StoreInv, DrainInv, NEW n, pause(n) \/ Drain(n)
  PROVE  DrainInv'
PROOF
  <1>1. ops' = ops /\ repairs' = repairs
    BY DEF pause, Drain, DrainMutations, DrainPending, stop_read_repairs, close
  <1>2. \A o \in Requests : Shape(ops[o]) /\ DOMAIN ops[o].tasks \subseteq Nodes
    BY Zenon, OpType, TasksType DEF StoreInv, OpOK, Shape, Typed
  <1>3. DOMAIN mode' = Nodes /\ DOMAIN snap' = Nodes
    BY Zenon DEF DrainInv, pause, Drain, DrainMutations, DrainPending, stop_read_repairs, close, move
  <1>4. ASSUME NEW k \in Nodes, k # n
        PROVE  mode'[k] = mode[k] /\ snap'[k] = snap[k]
    BY Zenon, <1>4 DEF DrainInv, pause, Drain, DrainMutations, DrainPending, stop_read_repairs, close, move
  <1> DEFINE Settled == \A o \in Requests : ops[o].coord = n /\ ops[o].kind \in Mutations =>
                          ops[o].st \in {"new", "done"}
             Captured(s) == \A o \in Requests : ops[o].coord = n /\ ops[o].kind \in Mutations =>
                              \A t \in DOMAIN ops[o].tasks : Live(ops[o].tasks[t]) => <<o, t>> \in s
  <1>5. ASSUME Settled PROVE Captured(_pending_writes(n))
    BY Zenon, <1>2, <1>5 DEF _pending_writes, Shape
  <1>6. ASSUME n \in Nodes
        PROVE  /\ mode'[n] \in {"draining"} \cup Late => Settled
               /\ mode'[n] = "draining" => Captured(snap'[n].tasks)
               /\ mode'[n] \in Late => NoneLive(n)
               /\ mode'[n] = "closed" => _repairs_of(n) = {}
    <2>1. CASE pause(n)
      <3>1. mode'[n] = "paused"
        BY Zenon, <1>6, <2>1 DEF pause, move, DrainInv
      <3> QED BY <3>1 DEF Late
    <2>2. CASE DrainMutations(n)
      <3>1. mode'[n] = "draining" /\ Settled /\ snap'[n].tasks = _pending_writes(n)
        BY <1>6, <2>2 DEF DrainMutations, move, DrainInv
      <3> HIDE DEF Captured, Settled
      <3> QED BY <1>5, <3>1 DEF Late
    <2>3. CASE DrainPending(n)
      <3>1. /\ mode[n] = "draining" /\ mode'[n] = "drained"
            /\ snap[n].tasks \intersect _pending_writes(n) = {}
        BY <1>6, <2>3 DEF DrainPending, move, DrainInv
      <3>2. Settled /\ Captured(snap[n].tasks)
        BY <1>6, <3>1 DEF DrainInv, Late
      <3>3. NoneLive(n)
        BY Zenon, <1>5, <3>1, <3>2 DEF NoneLive
      <3> QED BY <3>1, <3>2, <3>3
    <2>4. CASE stop_read_repairs(n)
      BY <1>6, <2>4 DEF stop_read_repairs, move, DrainInv, Late
    <2>5. CASE close(n)
      BY Zenon, <1>6, <2>5 DEF close, move, DrainInv, Late
    <2> QED BY Zenon, <2>1, <2>2, <2>3, <2>4, <2>5 DEF Drain
  <1>7. ASSUME NEW k \in Nodes
        PROVE  /\ mode'[k] \in {"draining"} \cup Late =>
                    \A o \in Requests : ops[o].coord = k /\ ops[o].kind \in Mutations =>
                      ops[o].st \in {"new", "done"}
               /\ mode'[k] = "draining" =>
                    \A o \in Requests : ops[o].coord = k /\ ops[o].kind \in Mutations =>
                      \A t \in DOMAIN ops[o].tasks :
                        Live(ops[o].tasks[t]) => <<o, t>> \in snap'[k].tasks
               /\ mode'[k] \in Late => NoneLive(k)
               /\ mode'[k] = "closed" => _repairs_of(k) = {}
    <2>1. CASE k = n
      BY <1>6, <2>1
    <2>2. CASE k # n
      BY Zenon, <1>4, <2>2 DEF DrainInv
    <2> QED BY Zenon, <2>1, <2>2
  <1>8. \A k \in Nodes : NoneLive(k)' = NoneLive(k) /\ _repairs_of(k)' = _repairs_of(k)
    BY <1>1 DEF NoneLive, _repairs_of
  <1> QED BY <1>1, <1>3, <1>7, <1>8 DEF DrainInv

\* After drain() nothing of the node runs any more: for every set of requests,
\* whenever their writes were detached (store.py drain, stop_read_repairs, close).
THEOREM QuietTheorem == Spec => []QuietAfterDrain
PROOF
  <1>1. Init => DrainInv
    BY DEF Init, DrainInv, Late
  <1>2. ASSUME StoreInv, DrainInv, [Next]_vars PROVE DrainInv'
    <2>1. Progress /\ StoreInv'
      BY <1>2, StepProgress, ProgressKeeps
    <2>2. ASSUME NEW o \in Requests, Request(o) \/ Coordinate(o) PROVE DrainInv'
      BY <1>2, <2>1, <2>2, RequestStarts, CoordinateStarts, StartsKeep
    <2>3. ASSUME NEW m \in wire, Refuse(m) \/ \E answered \in BOOLEAN : Deliver(m, answered)
          PROVE  DrainInv'
      BY <1>2, <2>1, <2>3, MessageStarts, StartsKeep
    <2>4. ASSUME NEW r \in repairs, ReadRepairFails(r) PROVE DrainInv'
      <3>1. StartsOpen /\ UNCHANGED <<mode, snap>>
        BY <2>4 DEF ReadRepairFails, StartsOpen
      <3> QED BY <1>2, <2>1, <3>1, StartsKeep
    <2>5. ASSUME NEW n \in Draining, pause(n) \/ Drain(n) PROVE DrainInv'
      BY <1>2, <2>5, DrainKeeps
    <2>6. CASE UNCHANGED vars
      <3>1. StartsOpen /\ UNCHANGED <<mode, snap>>
        BY <2>6 DEF vars, StartsOpen
      <3> QED BY <1>2, <2>1, <3>1, StartsKeep
    <2> QED BY <1>2, <2>2, <2>3, <2>4, <2>5, <2>6, Zenon DEF Next
  <1>3. DrainInv => QuietAfterDrain
    BY Zenon DEF DrainInv, QuietAfterDrain, NoneLive, Late
  <1> QED BY <1>1, <1>2, <1>3, StoreTheorem, PTL DEF Spec

-----------------------------------------------------------------------------
(* The promise to clients.                                                 *)

\* A write is no read.
LEMMA WriteIsNoRead ==
  ASSUME NEW op, Shape(op), op.kind \in Mutations
  PROVE  Read(op) = Promise!Unread
PROOF BY Zenon DEF Shape, Read, Mutations, Promise!Unread, Promise!Reading, Promise!NoVersion, NoVersion

\* A step that begins neither a read nor a delete, and ends no read.
Calm ==
  \A p \in Requests :
    \/ ops'[p] = ops[p]
    \/ ops[p].kind \in Mutations /\ (ops[p].kind = "delete" => ops[p].st # "new")
    \/ ops[p].kind = "get" /\ Read(ops'[p]) = Read(ops[p])

\* Steps a client does not see.
LEMMA CalmView ==
  ASSUME StoreInv, Progress, Calm
  PROVE  Reads' = Reads /\ Deletes' = Deletes
PROOF
  <1>1. \A p \in Requests : /\ Shape(ops[p]) /\ Shape(ops'[p]) /\ Evolves(ops[p], ops'[p])
                            /\ ops'[p].kind = ops[p].kind
    BY Zenon DEF StoreInv, Progress, OpOK, Evolves
  <1>2. \A p \in Requests : Read(ops'[p]) = Read(ops[p])
    BY Zenon, <1>1, WriteIsNoRead DEF Calm
  <1>3. \A p \in Requests : ops[p].kind = "delete" => ops'[p].ts = ops[p].ts
    BY Zenon, <1>1 DEF Calm, Evolves, Mutations
  <1>4. Reads' = Reads
    BY <1>2, Zenon DEF Reads
  <1>5. Deletes' = Deletes
    <2>1. {p \in Requests : ops'[p].kind = "delete"} = {p \in Requests : ops[p].kind = "delete"}
      BY <1>1
    <2>2. Deletes' = {ops'[p].ts : p \in {k \in Requests : ops[k].kind = "delete"}} \ {NoVersion}
      BY <2>1 DEF Deletes
    <2> QED BY Zenon, <1>3, <2>2 DEF Deletes
  <1> QED BY <1>4, <1>5

\* A step of one request that no client sees.
LEMMA CalmOne ==
  ASSUME StoreInv, NEW o \in Requests, NEW r, ops' = [ops EXCEPT ![o] = r],
         \/ ops[o].kind \in Mutations /\ (ops[o].kind = "delete" => ops[o].st # "new")
         \/ ops[o].kind = "get" /\ Read(r) = Read(ops[o])
  PROVE  Calm
PROOF BY Zenon DEF StoreInv, Typed, Calm

\* The copies change only with the disks.
LEMMA SameCopies ==
  ASSUME disk' = disk
  PROVE  Copies' = Copies
PROOF BY Zenon DEF Copies

Implements == Promise!QNext \/ UNCHANGED Promise!qvars

\* A step no client sees is a stutter of the promise.
LEMMA QuietImplements ==
  ASSUME StoreInv, Progress, Calm, UNCHANGED <<disk, acked>>
  PROVE  Implements
PROOF BY CalmView, SameCopies DEF Implements, Promise!qvars

\* Storing a version is one step of the promise.
LEMMA HoldImplements ==
  ASSUME StoreInv, Progress, Calm, acked' = acked, NEW n \in Nodes, NEW v \in Versions,
         disk' = [disk EXCEPT ![n] = @ \cup {v}]
  PROVE  Implements
PROOF
  <1>1. disk \in [Nodes -> SUBSET Versions]
    BY DEF StoreInv, Typed, Disks
  <1>2. \A k \in Nodes : \A w \in Versions : w \in disk'[k] <=> w \in disk[k] \/ (k = n /\ w = v)
    BY <1>1
  <1>3. Copies' = [Copies EXCEPT ![v] = Copies[v] \cup {n}]
    <2>1. \A w \in Versions : Copies'[w] = IF w = v THEN Copies[w] \cup {n} ELSE Copies[w]
      BY <1>2 DEF Copies
    <2> QED BY Zenon, <2>1 DEF Copies
  <1>4. Promise!Hold(v, n)
    BY <1>3, CalmView DEF Promise!Hold
  <1> QED BY <1>4 DEF Implements, Promise!QNext

\* Both modules count alike.
LEMMA SameCardinality ==
  ASSUME NEW s
  PROVE  Promise!Cardinality(s) = Cardinality(s)
PROOF BY Zenon DEF Cardinality, Promise!Cardinality

\* Acknowledging what enough nodes hold is one step of the promise.
LEMMA AckImplements ==
  ASSUME StoreInv, Progress, Calm, disk' = disk, NEW v \in Versions, NEW q \in 1 .. Rf,
         NEW strict \in BOOLEAN, acked' = acked \cup {[ts |-> v, q |-> q, strict |-> strict]},
         Cardinality({n \in Nodes : v \in disk[n]}) >= q
  PROVE  Implements
PROOF
  <1>1. Cardinality(Copies[v]) >= q
    BY DEF Copies
  <1>2. Promise!Acknowledge(v, q, strict)
    <2>1. Copies' = Copies /\ Deletes' = Deletes /\ Reads' = Reads
      BY Zenon, CalmView, SameCopies
    <2> QED BY Zenon, <1>1, <2>1, SameCardinality DEF Promise!Acknowledge
  <1> QED BY Zenon, <1>2 DEF Implements, Promise!QNext

\* A version not yet given to a write is held nowhere.
LEMMA PutImplements ==
  ASSUME StoreInv, Progress, NEW o \in Requests, NEW ts \in Versions, put(o, ts)
  PROVE  Implements
PROOF
  <1> DEFINE op == ops[o]
             r == begin(op, ts, "writing", {_write_target(op.pref, n) :
                                              n \in _write_targets(op.pref)})
  <1>1. /\ op.kind \in {"put", "delete"} /\ ts \notin Issued /\ op.st = "new"
        /\ ops' = [ops EXCEPT ![o] = r] /\ UNCHANGED <<disk, acked>>
    BY Zenon DEF put, _admit, StoreInv, Typed
  <1>2. /\ op \in Op /\ op.pref \in Placements /\ Shape(op) /\ ops \in [Requests -> Op]
    BY Zenon, OpType DEF StoreInv, Typed, OpOK
  <1>3. r.ts = ts /\ r.kind = op.kind
    <2>1. {_write_target(op.pref, n) : n \in _write_targets(op.pref)} \in SUBSET Nodes
      BY <1>2, TargetsAreNodes DEF _write_targets
    <2> QED BY <1>2, <2>1, Beginning DEF StoreInv, Typed
  <1> HIDE DEF r
  <1>4. CASE op.kind = "put"
    <2>1. Calm
      BY Zenon, <1>1, <1>4, CalmOne DEF Mutations
    <2> QED BY <1>1, <2>1, QuietImplements
  <1>5. CASE op.kind = "delete"
    <2>1. \A p \in Requests : /\ ops'[p].kind = ops[p].kind
                              /\ ops'[p].ts = IF p = o THEN ts ELSE ops[p].ts
      BY <1>1, <1>2, <1>3
    <2>2. op.ts = NoVersion /\ ts # NoVersion
      BY Zenon, <1>1, <1>2, NoVersionApart DEF Shape
    <2>3. Deletes' = Deletes \cup {ts}
      <3>1. Deletes' = {ops'[p].ts : p \in {k \in Requests : ops[k].kind = "delete"}} \ {NoVersion}
        BY <2>1 DEF Deletes
      <3>2. ASSUME NEW v PROVE v \in Deletes' <=> v \in Deletes \cup {ts}
        BY <1>5, <2>1, <2>2, <3>1 DEF Deletes
      <3> QED BY <3>2
    <2>4. Reads' = Reads
      <3>1. \A p \in Requests : Read(ops'[p]) = Read(ops[p])
        <4>1. \A p \in Requests \ {o} : ops'[p] = ops[p]
          BY <1>1, <1>2
        <4>2. Shape(ops'[o]) /\ ops'[o].kind \in Mutations /\ Shape(op) /\ op.kind \in Mutations
          BY Zenon, <1>2, <1>5, <2>1 DEF Progress, OpOK, Mutations
        <4> QED BY Zenon, <4>1, <4>2, WriteIsNoRead
      <3> QED BY <3>1, Zenon DEF Reads
    <2>5. Copies[ts] = {}
      <3>1. \A n \in Nodes : ts \notin disk[n]
        BY <1>1 DEF StoreInv, Written, Issued
      <3> QED BY <3>1 DEF Copies
    <2>6. Promise!Delete(ts)
      BY Zenon, <1>1, <2>3, <2>4, <2>5, SameCopies DEF Promise!Delete
    <2> QED BY <2>6 DEF Implements, Promise!QNext
  <1> QED BY <1>1, <1>4, <1>5

\* A read begins with the floor the promise asks for, or fails for want of targets.
LEMMA GetImplements ==
  ASSUME StoreInv, Progress, NEW o \in Requests, get(o)
  PROVE  Implements
PROOF
  <1> DEFINE op == ops[o]
             targets == UNION {_sources(op.pref, n) : n \in _replication_targets(op.pref)}
             r == begin(op, NoVersion, "reading", targets)
             strict == Strict(op.pref)
             f == {a.ts : a \in {b \in acked : /\ op.kind = "get" /\ targets # {} /\ b.strict
                                              /\ strict /\ b.q + op.q > Rf}}
  <1>1. /\ op.kind = "get" /\ op.st = "new"
        /\ ops' = [ops EXCEPT ![o] = r] /\ UNCHANGED <<disk, acked>>
    BY Zenon DEF get, _admit, StoreInv, Typed
  <1>2. op \in Op /\ Shape(op) /\ ops \in [Requests -> Op] /\ op.q \in 1 .. Rf
    BY Zenon, OpType DEF StoreInv, Typed, OpOK
  <1>3. strict \in BOOLEAN
    BY DEF Strict
  <1>4. r = [op EXCEPT !.ts = NoVersion, !.st = IF targets = {} THEN "done" ELSE "reading",
                       !.tasks = [t \in targets |-> Sent], !.floor = f,
                       !.result = IF targets = {} THEN "error" ELSE "none"]
    BY DEF begin
  <1>5. targets = {} => f = {}
    OBVIOUS
  <1>6. targets # {} => f = Promise!Floor(op.q, strict)
    BY Zenon, <1>1 DEF Promise!Floor
  <1> HIDE DEF f, targets, strict
  <1>7. /\ r.kind = "get" /\ r.ts = NoVersion /\ r.floor = f
        /\ r.st = (IF targets = {} THEN "done" ELSE "reading")
        /\ r.result = IF targets = {} THEN "error" ELSE "none"
    BY Zenon, <1>1, <1>2, <1>4 DEF Op
  <1> HIDE DEF r
  <1>8. Read(op) = Promise!Unread /\ Reads[o] = Read(op)
    BY Zenon, <1>1, <1>2 DEF Read, Reads, Shape, Promise!Unread, Promise!Reading, Promise!NoVersion, NoVersion
  <1>9. Reads' = [Reads EXCEPT ![o] = Read(r)]
    BY Zenon, <1>1, <1>2 DEF Reads
  <1>10. Deletes' = Deletes /\ Copies' = Copies
    <2>1. \A p \in Requests : ops'[p].kind = ops[p].kind
                              /\ (ops[p].kind = "delete" => ops'[p].ts = ops[p].ts)
      BY <1>1, <1>2, <1>7
    <2>2. Deletes' = {ops'[p].ts : p \in {k \in Requests : ops[k].kind = "delete"}} \ {NoVersion}
      BY <2>1 DEF Deletes
    <2> QED BY <1>1, <2>1, <2>2, SameCopies DEF Deletes
  <1>11. CASE targets = {}
    <2>1. Read(r) = [st |-> "failed", floor |-> {}, answer |-> NoVersion, absent |-> FALSE]
      BY Zenon, <1>5, <1>7, <1>11 DEF Read
    <2>2. Promise!Fail(o)
      BY <1>1, <1>8, <1>9, <1>10, <2>1
         DEF Promise!Fail, Promise!Unread, Promise!Reading, Promise!NoVersion, NoVersion
    <2> QED BY <2>2 DEF Implements, Promise!QNext
  <1>12. CASE targets # {}
    <2>1. Read(r) = Promise!Reading("open", Promise!Floor(op.q, strict), Promise!NoVersion, FALSE)
      BY Zenon, <1>6, <1>7, <1>12 DEF Read, Promise!Reading, Promise!NoVersion, NoVersion
    <2>2. Promise!Begin(o, op.q, strict)
      BY <1>1, <1>8, <1>9, <1>10, <2>1 DEF Promise!Begin
    <2> QED BY <1>2, <1>3, <2>2 DEF Implements, Promise!QNext
  <1> QED BY <1>11, <1>12

\* The tombstones are the versions deletes have written.
LEMMA Tombstones ==
  ASSUME NEW v, v # NoVersion
  PROVE  _is_tombstone(v) <=> v \in Deletes
PROOF BY DEF _is_tombstone, Deletes

\* A read answers with the newest version it was told of, and misses none of its
\* floor, or fails.
LEMMA GetEndImplements ==
  ASSUME StoreInv, Progress, NEW o \in Requests, _get(o)
  PROVE  Implements
PROOF
  <1> DEFINE op == ops[o]
             answers == Succeeded(o)
             winner == Newest(_visible_versions(o, answers))
             enough == _read_response_count(op.pref, answers) >= op.q
             result == IF ~enough THEN "error"
                       ELSE IF winner = NoVersion \/ _is_tombstone(winner) THEN "absent" ELSE "ok"
             ts == IF enough THEN winner ELSE NoVersion
             r == [finish(op, result) EXCEPT !.ts = ts]
  <1>1. /\ op.st = "reading" /\ OpOK(op, disk, debts) /\ UNCHANGED <<disk, acked>>
        /\ ops' = [ops EXCEPT ![o] = r]
    BY DEF _get, StoreInv, Typed
  <1>2. /\ winner \in Versions \cup {NoVersion}
        /\ winner # NoVersion => \E t \in Nodes : winner \in disk[t]
        /\ enough => \A w \in op.floor : \E x \in Versions :
             /\ Encoded[w] <= Encoded[x] /\ x <= winner /\ \E t \in Nodes : x \in disk[t]
    BY <1>1, Winner
  <1> HIDE DEF winner, enough
  <1>3. winner # NoVersion => (_is_tombstone(winner) <=> winner \in Deletes)
    BY Tombstones
  <1>4. result \in {"ok", "error", "absent"} /\ ts \in Versions \cup {NoVersion}
    BY <1>2
  <1>5. /\ enough => ts = winner /\ result # "error"
        /\ enough => (result = "absent" <=> winner \in Deletes \cup {NoVersion})
        /\ ~enough => ts = NoVersion /\ result = "error"
    BY <1>3
  <1> HIDE DEF result, ts
  <1>6. /\ r.kind = "get" /\ r.st = "done" /\ r.result = result /\ r.ts = ts /\ r.floor = op.floor
    <2> DEFINE f == finish(op, result)
    <2>1. op \in Op /\ op.kind = "get"
      BY <1>1 DEF OpOK, Shape
    <2>2. /\ f \in Op /\ f.kind = op.kind /\ f.st = "done" /\ f.result = result
          /\ f.floor = op.floor
      BY <1>4, <2>1, Finishing
    <2> HIDE DEF f
    <2>3. r = [f EXCEPT !.ts = ts]
      BY DEF f
    <2> QED BY <1>4, <2>1, <2>2, <2>3 DEF Op
  <1>7. /\ ops \in [Requests -> Op] /\ op.kind = "get" /\ op.ts = NoVersion /\ op.result = "none"
    BY Zenon, <1>1 DEF StoreInv, Typed, OpOK, Shape
  <1> HIDE DEF r
  <1>8. Reads[o] = [st |-> "open", floor |-> op.floor, answer |-> NoVersion, absent |-> FALSE]
    BY Zenon, <1>1, <1>7 DEF Reads, Read
  <1>9. Reads' = [Reads EXCEPT ![o] = Read(r)]
    BY Zenon, <1>1, <1>7 DEF Reads
  <1>10. Deletes' = Deletes /\ Copies' = Copies
    <2>1. \A p \in Requests : ops'[p].kind = ops[p].kind
                              /\ (ops[p].kind = "delete" => ops'[p].ts = ops[p].ts)
      BY <1>1, <1>6, <1>7
    <2>2. Deletes' = {ops'[p].ts : p \in {k \in Requests : ops[k].kind = "delete"}} \ {NoVersion}
      BY <2>1 DEF Deletes
    <2> QED BY <1>1, <2>1, <2>2, SameCopies DEF Deletes
  <1>11. CASE ~enough
    <2>1. Read(r) = [st |-> "failed", floor |-> op.floor, answer |-> NoVersion, absent |-> FALSE]
      BY Zenon, <1>5, <1>6, <1>11 DEF Read
    <2>2. Promise!Fail(o)
      BY <1>1, <1>8, <1>9, <1>10, <2>1 DEF Promise!Fail, Promise!Reading
    <2> QED BY <2>2 DEF Implements, Promise!QNext
  <1>12. CASE enough
    <2>1. Read(r) = [st |-> "closed", floor |-> op.floor, answer |-> winner,
                     absent |-> winner \in Deletes \cup {NoVersion}]
      BY <1>5, <1>6, <1>12 DEF Read
    <2>2. winner = NoVersion \/ Copies[winner] # {}
      BY <1>2 DEF Copies
    <2>3. \A w \in op.floor : Promise!Supersedes(winner, w)
      <3>1. \A x \in Versions, t \in Nodes : x \in disk[t] => Copies[x] # {}
        BY DEF Copies
      <3> QED BY Zenon, <1>2, <1>12, <3>1 DEF Promise!Supersedes
    <2>4. Promise!Answer(o, winner)
      BY <1>1, <1>2, <1>8, <1>9, <1>10, <1>12, <2>1, <2>2, <2>3
         DEF Promise!Answer, Promise!Reading, Promise!NoVersion, NoVersion
    <2> QED BY Zenon, <1>2, <2>4 DEF Implements, Promise!QNext, Promise!NoVersion, NoVersion
  <1> QED BY <1>11, <1>12

\* _ensure_quorum implements Acknowledge, or a stutter.
LEMMA EnsureImplements ==
  ASSUME StoreInv, Progress, NEW o \in Requests, _ensure_quorum(o)
  PROVE  Implements
PROOF
  <1> DEFINE op == ops[o]
             count == op.base + Cardinality(Succeeded(o))
             result == IF count >= op.q THEN "ok" ELSE IF count = 0 THEN "error" ELSE "short"
             a == [ts |-> op.ts, q |-> op.q, strict |-> Strict(op.pref)]
             r == finish(op, result)
  <1>1. /\ op.st = "writing" /\ OpOK(op, disk, debts) /\ disk' = disk
        /\ ops' = [ops EXCEPT ![o] = r]
        /\ acked' = IF count < op.q THEN acked ELSE acked \cup {a}
    BY Zenon DEF _ensure_quorum, StoreInv, Typed
  <1>2. op \in Op /\ op.kind \in Mutations /\ op.ts \in Versions /\ op.q \in 1 .. Rf
    BY Zenon, <1>1, OpType DEF OpOK, Shape
  <1>3. DOMAIN op.tasks \subseteq Nodes /\ DOMAIN op.pref \subseteq Nodes
    BY <1>2, OpType, TasksType, PlacementsType
  <1>4. /\ count \in Nat /\ Cardinality({n \in Nodes : op.ts \in disk[n]}) \in Nat
        /\ Cardinality({n \in Nodes : op.ts \in disk[n]}) >= count
    BY Zenon, <1>1, <1>3, QuorumHeld DEF Succeeded
  <1> HIDE DEF r, count
  <1>5. Calm
    BY Zenon, <1>1, <1>2, CalmOne
  <1>6. CASE count < op.q
    BY <1>1, <1>5, <1>6, QuietImplements
  <1>7. CASE ~(count < op.q)
    <2>1. Cardinality({n \in Nodes : op.ts \in disk[n]}) >= op.q /\ Strict(op.pref) \in BOOLEAN
      BY <1>2, <1>4, <1>7 DEF Strict
    <2> QED BY Zenon, <1>1, <1>2, <1>5, <1>7, <2>1, AckImplements
  <1> QED BY <1>6, <1>7

\* _run_repair implements Acknowledge when enough owners hold the version, or a stutter.
LEMMA RunRepairImplements ==
  ASSUME StoreInv, Progress, NEW o \in Requests, _run_repair(o)
  PROVE  Implements
PROOF
  <1> DEFINE op == ops[o]
             holders == _repair_holders(o)
             a == [ts |-> op.ts, q |-> op.q, strict |-> Strict(op.pref)]
  <1>1. /\ op.st = "looking" /\ OpOK(op, disk, debts) /\ disk' = disk
        /\ \E r : ops' = [ops EXCEPT ![o] = r]
        /\ acked' = acked \/ (acked' = acked \cup {a} /\ Cardinality(holders) >= op.q)
    BY Zenon DEF _run_repair, StoreInv
  <1>2. /\ op \in Op /\ op.kind = "repair" /\ op.ts \in Versions /\ op.q \in 1 .. Rf
        /\ op.pref \in Placements
    BY Zenon, <1>1, OpType DEF OpOK, Shape, Mutations
  <1>3. Calm
    BY Zenon, <1>1, <1>2, CalmOne DEF Mutations
  <1>4. CASE acked' = acked
    BY Zenon, <1>1, <1>3, <1>4, QuietImplements
  <1>5. CASE acked' = acked \cup {a} /\ Cardinality(holders) >= op.q
    <2> DEFINE copies == {n \in Nodes : op.ts \in disk[n]}
    <2>1. holders \subseteq copies /\ copies \subseteq Nodes /\ Cardinality(holders) \in Nat
      BY Zenon, <1>1, <1>2, RepairHolders, PlacementsType
    <2> HIDE DEF holders
    <2>2. Cardinality(copies) >= op.q /\ Strict(op.pref) \in BOOLEAN
      <3>1. IsFiniteSet(copies) /\ Cardinality(copies) \in Nat
        BY Zenon, <2>1, StoreAssumption, FS_Subset, FS_CardinalityType
      <3> HIDE DEF copies
      <3>2. Cardinality(holders) <= Cardinality(copies)
        BY <2>1, <3>1, FS_Subset
      <3> QED BY <1>2, <1>5, <2>1, <3>1, <3>2 DEF Strict
    <2> QED BY Zenon, <1>1, <1>2, <1>3, <1>5, <2>2, AckImplements
  <1> QED BY <1>1, <1>4, <1>5

\* The steps of a coordinator.
LEMMA CoordinateImplements ==
  ASSUME StoreInv, Progress, NEW o \in Requests, Coordinate(o)
  PROVE  Implements
PROOF
  <1> DEFINE op == ops[o]
  <1>1. op \in Op /\ Shape(op) /\ Held(op, disk, debts)
    BY Zenon DEF StoreInv, Typed, OpOK
  <1>2. ASSUME NEW t \in Nodes, WriteFails(o, t)
        PROVE  Implements
    <2>1. /\ op.kind \in Mutations /\ op.st # "new" /\ \E r : ops' = [ops EXCEPT ![o] = r]
          /\ UNCHANGED <<disk, acked>>
      BY Zenon, <1>1, <1>2 DEF WriteFails, Shape
    <2> QED BY Zenon, <2>1, CalmOne, QuietImplements
  <1>3. ASSUME NEW t \in Nodes, read(o, t) \/ lookup(o, t)
        PROVE  Implements
    <2>1. PICK task : ops' = [ops EXCEPT ![o] = update(op, t, task)] /\ task \in Task
      <3>1. /\ _local_read(t) \in Versions \cup {NoVersion}
            /\ _lookup_local(t, op.ts) \in Versions \cup {NoVersion}
        <4>1. disk[t] \in SUBSET Versions /\ disk[t] \intersect {op.ts} \in SUBSET Versions
          BY Zenon DEF StoreInv, Typed, Disks
        <4> QED BY Zenon, <4>1, LastIs, NewestIs DEF _lookup_local
      <3>2. \A got \in Versions \cup {NoVersion} : [st |-> "ok", got |-> got] \in Task
        BY DEF Task
      <3>3. PICK got \in Versions \cup {NoVersion} :
              ops' = [ops EXCEPT ![o] = update(ops[o], t, [st |-> "ok", got |-> got])]
        <4> HIDE DEF _local_read, _lookup_local, update
        <4>1. CASE read(o, t)
          BY Zenon, <3>1, <4>1 DEF read, Answers
        <4>2. CASE lookup(o, t)
          BY Zenon, <3>1, <4>2 DEF lookup, Answers
        <4> QED BY Zenon, <1>3, <4>1, <4>2
      <3> QED BY Zenon, <3>2, <3>3
    <2>2. t \in DOMAIN op.tasks /\ UNCHANGED <<disk, acked>> /\ op.st # "new"
      BY Zenon, <1>3 DEF read, lookup, Answers
    <2> DEFINE r == update(op, t, task)
    <2>3. /\ r.kind = op.kind /\ r.ts = op.ts /\ r.st = op.st /\ r.floor = op.floor
          /\ r.result = op.result
      BY <1>1, <2>1, <2>2, Updating
    <2> HIDE DEF r
    <2>4. Read(r) = Read(op)
      BY Zenon, <2>3 DEF Read
    <2>5. op.kind \in Mutations \/ op.kind = "get"
      BY Zenon, <1>1, OpType DEF Kinds
    <2>6. Calm
      BY Zenon, <2>1, <2>2, <2>4, <2>5, CalmOne DEF r
    <2> QED BY <2>2, <2>6, QuietImplements
  <1>4. ASSUME NEW t \in Nodes, NEW stored \in BOOLEAN, _record_obligation(o, t, stored)
        PROVE  Implements
    <2>1. /\ op.kind \in Mutations /\ op.st \in {"writing", "done"}
          /\ \E r : ops' = [ops EXCEPT ![o] = r] /\ acked' = acked
          /\ IF stored THEN _oblige(op.coord, op.ts, {t}) ELSE UNCHANGED <<disk, debts>>
      BY Zenon, <1>1, <1>4 DEF _record_obligation, Shape
    <2>2. Calm
      BY Zenon, <2>1, CalmOne
    <2>3. op.coord \in Nodes /\ op.ts \in Versions
      BY Zenon, <1>1, <2>1, OpType DEF Shape
    <2>4. disk' = [disk EXCEPT ![op.coord] = @ \cup {op.ts}] \/ disk' = disk
      BY Zenon, <2>1 DEF _oblige
    <2> QED BY Zenon, <2>1, <2>2, <2>3, <2>4, QuietImplements, HoldImplements
  <1> QED BY <1>2, <1>3, <1>4, GetEndImplements, EnsureImplements, RunRepairImplements, Zenon
          DEF Coordinate

\* The steps of a message.
LEMMA MessageImplements ==
  ASSUME StoreInv, Progress, NEW m \in wire,
         Refuse(m) \/ \E answered \in BOOLEAN : Deliver(m, answered)
  PROVE  Implements
PROOF
  <1>1. MessageOK(m, ops) /\ m.target \in Nodes /\ m.ts \in Versions
    BY Zenon DEF StoreInv, MessageOK, Message
  <1>2. acked' = acked /\ (disk' = disk \/ disk' = [disk EXCEPT ![m.target] = @ \cup {m.ts}])
    BY Zenon DEF Refuse, Deliver, _oblige
  <1>3. (\E st : Answered(m, st)) \/ ops' = ops
    BY Zenon DEF Refuse, Deliver
  <1>4. Calm
    <2>1. CASE ops' = ops
      BY <2>1 DEF Calm
    <2>2. ASSUME NEW st, Answered(m, st), ops' # ops
          PROVE  /\ m.op \in Requests /\ ops[m.op].st # "new" /\ ops[m.op].kind \in Mutations
                 /\ \E r : ops' = [ops EXCEPT ![m.op] = r]
      BY Zenon, <1>1, <2>2 DEF Answered, MessageOK
    <2> QED BY Zenon, <1>3, <2>1, <2>2, CalmOne
  <1> QED BY <1>1, <1>2, <1>4, QuietImplements, HoldImplements

\* Every step of the store is one of the promise, or a stutter.
LEMMA StepImplements ==
  ASSUME StoreInv, [Next]_vars
  PROVE  Implements
PROOF
  <1>1. Progress
    BY StepProgress
  <1>2. ASSUME NEW o \in Requests, Request(o) PROVE Implements
    <2>1. ASSUME NEW w \in Requests, repair(o, w) PROVE Implements
      <3>1. /\ ops[o].kind = "repair" /\ \E r : ops' = [ops EXCEPT ![o] = r]
            /\ UNCHANGED <<disk, acked>>
        BY Zenon, <2>1 DEF repair
      <3> QED BY Zenon, <1>1, <3>1, CalmOne, QuietImplements DEF Mutations
    <2> QED BY <1>1, <1>2, <2>1, StampsAre, PutImplements, GetImplements DEF Request
  <1>3. ASSUME NEW o \in Requests, Coordinate(o) PROVE Implements
    BY <1>1, <1>3, CoordinateImplements
  <1>4. ASSUME NEW m \in wire, Refuse(m) \/ \E answered \in BOOLEAN : Deliver(m, answered)
        PROVE  Implements
    BY <1>1, <1>4, MessageImplements
  <1>5. ASSUME UNCHANGED <<disk, ops, acked>> PROVE Implements
    BY Zenon, <1>1, <1>5, QuietImplements DEF Calm
  <1>6. ASSUME NEW r \in repairs, ReadRepairFails(r) PROVE Implements
    BY Zenon, <1>5, <1>6 DEF ReadRepairFails
  <1>7. ASSUME NEW n \in Draining, pause(n) \/ Drain(n) PROVE Implements
    BY <1>5, <1>7, Zenon DEF pause, Drain, DrainMutations, DrainPending, stop_read_repairs, close
  <1>8. CASE UNCHANGED vars
    BY <1>5, <1>8 DEF vars
  <1> QED BY <1>2, <1>3, <1>4, <1>6, <1>7, <1>8, Zenon DEF Next

\* An initial store is an initial promise.
LEMMA InitImplements ==
  ASSUME Init
  PROVE  Promise!QInit
PROOF
  <1>1. PICK script \in Scripts : ops = [o \in Requests |-> Asked(script[o])]
    BY DEF Init
  <1>2. \A o \in Requests : /\ Asked(script[o]).ts = NoVersion /\ Asked(script[o]).st = "new"
                            /\ Asked(script[o]).floor = {} /\ Asked(script[o]).result = "none"
    BY Zenon DEF Asked
  <1>3. \A o \in Requests : Read(ops[o]) = Promise!Unread
    BY Zenon, <1>1, <1>2 DEF Read, Promise!Unread, Promise!Reading, Promise!NoVersion, NoVersion
  <1>4. Deletes = {}
    BY Zenon, <1>1, <1>2 DEF Deletes
  <1>5. Copies = [v \in Versions |-> {}]
    BY Zenon DEF Init, Copies
  <1>6. Reads = [o \in Requests |-> Promise!Unread]
    BY <1>3, Zenon DEF Reads
  <1> QED BY <1>4, <1>5, <1>6 DEF Init, Promise!QInit

\* Where the keys of the versions that nodes hold sort by timestamp, an answer that
\* misses no version of its floor is no older than any of them.
LEMMA SortedKeys ==
  ASSUME StoreInv, NEW v \in Versions \cup {NoVersion}, NEW w \in Versions,
         \A x \in Versions : Copies[x] # {} /\ Encoded[w] <= Encoded[x] => w <= x,
         Promise!Supersedes(v, w)
  PROVE  w <= v
PROOF
  <1>1. PICK x \in Versions : w <= x /\ x <= v
    BY Zenon DEF Promise!Supersedes
  <1>2. v \in Nat /\ w \in Nat /\ x \in Nat
    BY Zenon, NoVersionApart
  <1> QED BY <1>1, <1>2

\* The coordinators keep the promise to clients for every set of nodes, requests,
\* placements and quorums, whatever is lost, late or refused and however the keys
\* of the versions sort: an acknowledged write is on as many nodes as its quorum,
\* and a read whose quorum meets it answers no older, or as new as a version that
\* some replica lists after it, and resurrects no delete it was told of
\* (store.py _ensure_quorum, _get; session.get).
THEOREM PromiseTheorem == Spec => ImplementsPromise
PROOF
  <1>1. Init => Promise!QInit
    BY InitImplements
  <1>2. StoreInv /\ [Next]_vars => [Promise!QNext]_(Promise!qvars)
    BY StepImplements DEF Implements
  <1> QED BY <1>1, <1>2, StoreTheorem, PTL DEF Spec, ImplementsPromise, Promise!QSpec

=============================================================================
