------------------------------- MODULE Store -------------------------------
(***************************************************************************)
(* Client operations on one key (services/store.py): a coordinator fans a  *)
(* put, delete, get or repair out to the nodes of a preference list, keeps *)
(* what they answer until its quorum or deadline, and leaves late writes   *)
(* running; read repair and failed writes leave obligations behind; a      *)
(* draining node pauses, waits for its writes and closes.                  *)
(*                                                                         *)
(* A version is its timestamp. A replica answers a read with the version   *)
(* whose key sorts last, the coordinator takes the newest answer. A        *)
(* deadline may strike at any moment, so an operation may finish whatever  *)
(* has been answered so far.                                               *)
(***************************************************************************)
EXTENDS Integers, FiniteSets, FiniteSetsExt

CONSTANTS Nodes,
          Requests,    \* bound: client requests, numbered
          Scripts,     \* bound: what each request asks (kind, coordinator,
                       \* quorum) and the preference list it will be given:
                       \* owner -> [readable, writable, handoff]
          Versions,    \* bound: timestamps
          Encoded,     \* the order of their LOGS keys
          Stamps,      \* bound: the timestamps that a request may be given
          Rf,
          Draining,    \* bound: the nodes that may be drained
          MaxFaults    \* bound: lost answers, early timeouts, storage errors

VARIABLES disk,     \* versions each node holds
          debts,    \* obligations each node holds: <<target, version>>
          ops,      \* requests being coordinated
          wire,     \* replication.write and replication.hint in flight
          repairs,  \* read repairs in flight (_repairs_inflight)
          mode,     \* open, paused, draining, drained, closing, closed
          snap,     \* background writes drain() waits for
          acked,    \* writes acknowledged to a client
          faults

vars == <<disk, debts, ops, wire, repairs, mode, snap, acked, faults>>

NoNode == "none"
NoVersion == 0
Newest(s) == IF s = {} THEN NoVersion ELSE Max(s)

-----------------------------------------------------------------------------
(* Targets of a preference list.                                           *)

_write_target(pref, n) == IF pref[n].handoff # NoNode THEN pref[n].handoff ELSE n

_write_targets(pref) ==
  {n \in DOMAIN pref : pref[n].handoff # NoNode \/ pref[n].writable}

\* Nodes asked on behalf of an owner.
_sources(pref, n) ==
  {m \in {n, pref[n].handoff} : m # NoNode /\ (m = n => pref[n].readable)}

_replication_targets(pref) == {n \in DOMAIN pref : _sources(pref, n) # {}}

_repair_fanout(pref) ==
  {n \in DOMAIN pref : pref[n].handoff # NoNode \/ pref[n].readable}

Strict(pref) ==
  \A n \in DOMAIN pref : pref[n].handoff = NoNode /\ pref[n].readable /\ pref[n].writable

-----------------------------------------------------------------------------
Sent == [st |-> "sent", got |-> NoVersion]
NoTasks == [t \in {} |-> Sent]

Asked(r) == [kind |-> r.kind, coord |-> r.coord, q |-> r.q, pref |-> r.pref,
             ts |-> NoVersion, st |-> "new", tasks |-> NoTasks, base |-> 0,
             floor |-> {}, result |-> "none"]

Mutations == {"put", "delete", "repair"}

Messages(o, coord, ts, pref, owners) ==
  {[op |-> o, coord |-> coord, ts |-> ts, target |-> _write_target(pref, n),
    intent |-> IF pref[n].handoff = NoNode THEN NoNode ELSE n] : n \in owners}

Live(task) == task.st \in {"sent", "failing"}

\* Background writes of a node: detached write tasks and read repairs.
_pending_writes(n) ==
  {p \in Requests \X Nodes :
     LET op == ops[p[1]] IN
     /\ op.coord = n /\ op.st = "done" /\ op.kind \in Mutations
     /\ p[2] \in DOMAIN op.tasks /\ Live(op.tasks[p[2]])}

_repairs_of(n) == {r \in repairs : r.coord = n}

_admit(o) ==
  /\ ops[o].st = "new"
  /\ mode[ops[o].coord] \in IF ops[o].kind = "get"
                            THEN {"open", "paused", "draining", "drained", "closing"}
                            ELSE {"open"}

\* floor: the acknowledged versions that a read starting now cannot miss.
begin(op, ts, st, targets) ==
  [op EXCEPT
    !.ts = ts,
    !.st = IF targets = {} THEN "done" ELSE st,
    !.tasks = [t \in targets |-> Sent],
    !.floor = {a.ts : a \in {b \in acked : /\ op.kind = "get" /\ targets # {} /\ b.strict
                                          /\ Strict(op.pref) /\ b.q + op.q > Rf}},
    !.result = IF targets = {} THEN "error" ELSE "none"]

finish(op, result) == [op EXCEPT !.st = "done", !.result = result]
update(op, t, task) == [op EXCEPT !.tasks = [@ EXCEPT ![t] = task]]
settle(op, t, st) == update(op, t, [st |-> st, got |-> op.tasks[t].got])

-----------------------------------------------------------------------------
(* put and delete.                                                         *)

Issued == {ops[o].ts : o \in Requests}

put(o, ts) ==
  LET owners == _write_targets(ops[o].pref) IN
  /\ _admit(o) /\ ops[o].kind \in {"put", "delete"} /\ ts \notin Issued
  /\ ops' = [ops EXCEPT ![o] =
       begin(@, ts, "writing", {_write_target(ops[o].pref, n) : n \in owners})]
  /\ wire' = wire \cup Messages(o, ops[o].coord, ts, ops[o].pref, owners)
  /\ UNCHANGED <<disk, debts, repairs, mode, snap, acked, faults>>

\* The version, and the obligation of a hint, land in one transaction.
_oblige(n, ts, intents) ==
  /\ disk' = [disk EXCEPT ![n] = @ \cup {ts}]
  /\ debts' = [debts EXCEPT ![n] = @ \cup {<<i, ts>> : i \in intents \ {n}}]

\* The task of a message ends, unless it gave up before.
Answered(m, st) ==
  IF m.op \in Requests /\ ops[m.op].tasks[m.target].st = "sent"
  THEN ops' = [ops EXCEPT ![m.op] = settle(@, m.target, st)] ELSE UNCHANGED ops

\* A direct write that failed is owed by the coordinator, unless it is its own.
Failure(m) ==
  IF m.intent = NoNode /\ m.target # m.coord THEN "failing" ELSE "failed"

Fault(spent) == /\ spent => faults < MaxFaults
                /\ faults' = IF spent THEN faults + 1 ELSE faults

\* StoreService.write and hint, or the local write: the answer may be lost.
Deliver(m, answered) ==
  /\ m \in wire
  /\ m.target = m.coord \/ mode[m.target] = "open"
  /\ m.target = m.coord => answered
  /\ Fault(~answered)
  /\ wire' = wire \ {m}
  /\ _oblige(m.target, m.ts, {m.intent} \ {NoNode})
  /\ IF answered THEN Answered(m, "ok") ELSE UNCHANGED ops
  /\ repairs' = IF answered
                THEN repairs \ {[coord |-> m.coord, target |-> m.intent, ts |-> m.ts,
                                 via |-> m.op]} ELSE repairs
  /\ UNCHANGED <<mode, snap, acked>>

Refuse(m) ==
  /\ m \in wire /\ m.target # m.coord /\ mode[m.target] # "open"
  /\ wire' = wire \ {m}
  /\ Answered(m, Failure(m))
  /\ repairs' = repairs \ {[coord |-> m.coord, target |-> m.intent, ts |-> m.ts,
                            via |-> m.op]}
  /\ UNCHANGED <<disk, debts, mode, snap, acked, faults>>

InFlight(o, t) == \E m \in wire : m.op = o /\ m.target = t

\* Mutant of WriteFails: no obligation is recorded.
WriteFailsUnowed(o, t) ==
  /\ ops[o].kind \in Mutations /\ t \in DOMAIN ops[o].tasks
  /\ ops[o].st # "looking" /\ ops[o].tasks[t].st = "sent"
  /\ Fault(InFlight(o, t))
  /\ ops' = [ops EXCEPT ![o] = settle(@, t, "failed")]
  /\ UNCHANGED <<disk, debts, wire, repairs, mode, snap, acked>>

\* Mutant of WriteFails: a detached write has no timeout.
WriteFailsAttached(o, t) ==
  /\ ops[o].kind \in Mutations /\ ops[o].st = "writing"
  /\ t \in DOMAIN ops[o].tasks /\ ops[o].tasks[t].st = "sent"
  /\ Fault(InFlight(o, t))
  /\ ops' = [ops EXCEPT ![o] = settle(@, t,
       IF t # ops[o].coord /\ t \in DOMAIN ops[o].pref THEN "failing" ELSE "failed")]
  /\ UNCHANGED <<disk, debts, wire, repairs, mode, snap, acked>>

\* No answer, or a storage error; a request in flight may still land.
WriteFails(o, t) ==
  /\ ops[o].kind \in Mutations /\ t \in DOMAIN ops[o].tasks
  /\ ops[o].st # "looking" /\ ops[o].tasks[t].st = "sent"
  /\ Fault(InFlight(o, t))
  /\ \E n \in DOMAIN ops[o].pref :
       /\ _write_target(ops[o].pref, n) = t
       /\ ops' = [ops EXCEPT ![o] = settle(@, t,
                    IF t = n /\ t # ops[o].coord THEN "failing" ELSE "failed")]
  /\ UNCHANGED <<disk, debts, wire, repairs, mode, snap, acked>>

\* A storage error here loses the obligation.
_record_obligation(o, t, stored) ==
  /\ t \in DOMAIN ops[o].tasks /\ ops[o].tasks[t].st = "failing"
  /\ Fault(~stored)
  /\ IF stored THEN _oblige(ops[o].coord, ops[o].ts, {t})
               ELSE UNCHANGED <<disk, debts>>
  /\ ops' = [ops EXCEPT ![o] = settle(@, t, IF stored THEN "failed" ELSE "dropped")]
  /\ UNCHANGED <<wire, repairs, mode, snap, acked>>

Succeeded(o) == {t \in DOMAIN ops[o].tasks : ops[o].tasks[t].st = "ok"}

\* Mutant of _ensure_quorum: targets that have not answered count.
_ensure_quorumEarly(o) ==
  LET count == ops[o].base + Cardinality({t \in DOMAIN ops[o].tasks :
                                            ops[o].tasks[t].st \in {"sent", "ok"}}) IN
  /\ ops[o].st = "writing" /\ count >= ops[o].q
  /\ ops' = [ops EXCEPT ![o] = finish(@, "ok")]
  /\ acked' = acked \cup {[ts |-> ops[o].ts, q |-> ops[o].q,
                           strict |-> Strict(ops[o].pref)]}
  /\ UNCHANGED <<disk, debts, wire, repairs, mode, snap, faults>>

\* The quorum is verified; writes still running are detached.
_ensure_quorum(o) ==
  LET count == ops[o].base + Cardinality(Succeeded(o)) IN
  /\ ops[o].st = "writing"
  /\ ops' = [ops EXCEPT ![o] = finish(@,
       IF count >= ops[o].q THEN "ok" ELSE IF count = 0 THEN "error" ELSE "short")]
  /\ acked' = IF count < ops[o].q THEN acked
              ELSE acked \cup {[ts |-> ops[o].ts, q |-> ops[o].q,
                                strict |-> Strict(ops[o].pref)]}
  /\ UNCHANGED <<disk, debts, wire, repairs, mode, snap, faults>>

-----------------------------------------------------------------------------
(* get.                                                                    *)

get(o) ==
  /\ _admit(o) /\ ops[o].kind = "get"
  /\ ops' = [ops EXCEPT ![o] = begin(@, NoVersion, "reading",
       UNION {_sources(ops[o].pref, n) : n \in _replication_targets(ops[o].pref)})]
  /\ UNCHANGED <<disk, debts, wire, repairs, mode, snap, acked, faults>>

\* session.get reads the last LOGS key of the address. The bytes order two
\* versions as their timestamps do, unless only the node ids differ, and in length.
_local_read(n) ==
  IF disk[n] = {} THEN NoVersion
  ELSE CHOOSE v \in disk[n] : \A w \in disk[n] : Encoded[w] <= Encoded[v]

_lookup_local(n, ts) == Newest(disk[n] \intersect {ts})

\* A node answers, local or remote, even when draining.
Answers(o, t, st, got) ==
  /\ ops[o].st = st /\ t \in DOMAIN ops[o].tasks /\ ops[o].tasks[t].st = "sent"
  /\ ops' = [ops EXCEPT ![o] = update(@, t, [st |-> "ok", got |-> got])]
  /\ UNCHANGED <<disk, debts, wire, repairs, mode, snap, acked, faults>>

read(o, t) == Answers(o, t, "reading", _local_read(t))

lookup(o, t) == Answers(o, t, "looking", _lookup_local(t, ops[o].ts))

_visible_versions(o, answers) == {ops[o].tasks[t].got : t \in answers} \ {NoVersion}

_is_tombstone(ts) == \E o \in Requests : ops[o].kind = "delete" /\ ops[o].ts = ts

_read_response_count(pref, answers) ==
  Cardinality({n \in DOMAIN pref : _sources(pref, n) \intersect answers # {}})

_repair_targets(pref, answers, got, winner) ==
  {n \in answers \intersect DOMAIN pref :
     pref[n].handoff = NoNode /\ pref[n].readable /\ got[n].got < winner}

\* A holder of the winner will owe the laggards; sampling may skip them all.
_schedule_read_repair(o, answers, winner) ==
  LET op == ops[o]
      holders == {n \in answers : op.tasks[n].got = winner}
      holder == IF op.coord \in holders THEN op.coord ELSE CHOOSE n \in holders : TRUE
      new == {[coord |-> op.coord, target |-> n, ts |-> winner, via |-> 0] :
                n \in _repair_targets(op.pref, answers, op.tasks, winner)} \ repairs
  IN  \/ UNCHANGED <<repairs, wire>>
      \/ /\ winner # NoVersion /\ mode[op.coord] \notin {"closing", "closed"}
         /\ repairs' = repairs \cup new
         /\ wire' = wire \cup {[op |-> 0, coord |-> op.coord, ts |-> winner,
                                target |-> holder, intent |-> r.target] : r \in new}

\* The newest answer wins if enough owners answered; a delete answers nothing.
_get(o) ==
  LET answers == Succeeded(o)
      winner == Newest(_visible_versions(o, answers))
      enough == _read_response_count(ops[o].pref, answers) >= ops[o].q
  IN
  /\ ops[o].st = "reading"
  /\ ops' = [ops EXCEPT ![o] =
       [finish(@, IF ~enough THEN "error"
                  ELSE IF winner = NoVersion \/ _is_tombstone(winner) THEN "absent" ELSE "ok")
          EXCEPT !.ts = IF enough THEN winner ELSE NoVersion]]
  /\ IF enough THEN _schedule_read_repair(o, answers, winner)
               ELSE UNCHANGED <<repairs, wire>>
  /\ UNCHANGED <<disk, debts, mode, snap, acked, faults>>

\* _repair_target gives up; its request may still land.
ReadRepairFails(r) ==
  /\ r \in repairs
  /\ Fault(\E m \in wire : m.op = r.via /\ m.coord = r.coord /\ m.intent = r.target
                           /\ m.ts = r.ts)
  /\ repairs' = repairs \ {r}
  /\ UNCHANGED <<disk, debts, ops, wire, mode, snap, acked>>

-----------------------------------------------------------------------------
(* repair: copy the version of a token to the owners that lack it.         *)

repair(o, w) ==
  /\ _admit(o) /\ ops[o].kind = "repair"
  /\ ops[w].kind \in Mutations /\ ops[w].result = "short"
  /\ ops' = [ops EXCEPT ![o] = begin(@, ops[w].ts, "looking",
       {_write_target(ops[o].pref, n) : n \in _repair_fanout(ops[o].pref)})]
  /\ UNCHANGED <<disk, debts, wire, repairs, mode, snap, acked, faults>>

_repair_holders(o) ==
  {n \in _repair_fanout(ops[o].pref) :
     /\ _write_target(ops[o].pref, n) = n
     /\ ops[o].tasks[n].st = "ok" /\ ops[o].tasks[n].got = ops[o].ts}

_run_repair(o) ==
  LET op == ops[o]
      holders == _repair_holders(o)
      missing == _repair_fanout(op.pref) \ holders
      found == \E t \in Succeeded(o) : op.tasks[t].got = op.ts
  IN
  /\ op.st = "looking"
  /\ IF found /\ missing # {}
     THEN /\ ops' = [ops EXCEPT ![o] =
               [@ EXCEPT !.st = "writing", !.base = Cardinality(holders),
                         !.tasks = [t \in {_write_target(op.pref, n) : n \in missing} |-> Sent]]]
          /\ wire' = wire \cup Messages(o, op.coord, op.ts, op.pref, missing)
          /\ UNCHANGED acked
     ELSE /\ ops' = [ops EXCEPT ![o] =
               [finish(@, IF ~found THEN "error"
                          ELSE IF Cardinality(holders) >= op.q THEN "ok" ELSE "short")
                  EXCEPT !.tasks = NoTasks]]
          /\ acked' = IF found /\ Cardinality(holders) >= op.q
                      THEN acked \cup {[ts |-> op.ts, q |-> op.q,
                                        strict |-> Strict(op.pref)]}
                      ELSE acked
          /\ UNCHANGED wire
  /\ UNCHANGED <<disk, debts, repairs, mode, snap, faults>>

-----------------------------------------------------------------------------
(* Draining: pause, drain, stop_read_repairs, close.                       *)

move(n, from, to) == mode[n] = from /\ mode' = [mode EXCEPT ![n] = to]

pause(n) ==
  /\ move(n, "open", "paused")
  /\ UNCHANGED <<disk, debts, ops, wire, repairs, snap, acked, faults>>

\* Once admitted mutations settled, the background writes are captured.
DrainMutations(n) ==
  /\ move(n, "paused", "draining")
  /\ \A o \in Requests : ops[o].coord = n /\ ops[o].kind \in Mutations
                           => ops[o].st \in {"new", "done"}
  /\ snap' = [snap EXCEPT ![n] = [tasks |-> _pending_writes(n), reps |-> _repairs_of(n)]]
  /\ UNCHANGED <<disk, debts, ops, wire, repairs, acked, faults>>

\* Mutant of DrainPending: background writes are not waited for.
DrainPendingAny(n) ==
  /\ move(n, "draining", "drained")
  /\ UNCHANGED <<disk, debts, ops, wire, repairs, snap, acked, faults>>

DrainPending(n) ==
  /\ move(n, "draining", "drained")
  /\ snap[n].tasks \intersect _pending_writes(n) = {}
  /\ snap[n].reps \intersect repairs = {}
  /\ snap' = [snap EXCEPT ![n] = [tasks |-> {}, reps |-> {}]]
  /\ UNCHANGED <<disk, debts, ops, wire, repairs, acked, faults>>

stop_read_repairs(n) ==
  /\ move(n, "drained", "closing")
  /\ UNCHANGED <<disk, debts, ops, wire, repairs, snap, acked, faults>>

close(n) ==
  /\ move(n, "closing", "closed")
  /\ _pending_writes(n) = {} /\ _repairs_of(n) = {}
  /\ UNCHANGED <<disk, debts, ops, wire, repairs, snap, acked, faults>>

-----------------------------------------------------------------------------
Placements == UNION {[owners -> [readable : BOOLEAN, writable : BOOLEAN,
                                 handoff : Nodes \cup {NoNode}]] : owners \in SUBSET Nodes}

\* Stand-ins are no owners (placement.py); the placements without stand-ins are
\* those of one ring.
ASSUME StoreAssumption ==
  /\ IsFiniteSet(Nodes) /\ NoNode \notin Nodes /\ IsFiniteSet(Versions)
  /\ Rf \in Nat /\ MaxFaults \in Nat
  /\ Versions \subseteq Nat \ {NoVersion} /\ Requests \subseteq Nat \ {0}
  /\ Encoded \in [Versions -> Nat] /\ Stamps \in [Requests -> SUBSET Versions]
  /\ \A v, w \in Versions : Encoded[v] = Encoded[w] => v = w
  /\ \A script \in Scripts :
       /\ script \in [Requests -> [kind : Mutations \cup {"get"}, coord : Nodes,
                                 q : 1 .. Rf, pref : Placements]]
       /\ \A o \in Requests, n \in Nodes : LET pref == script[o].pref IN
            n \in DOMAIN pref => pref[n].handoff \notin DOMAIN pref
       /\ \A o, p \in Requests : Strict(script[o].pref) /\ Strict(script[p].pref) =>
            /\ DOMAIN script[o].pref = DOMAIN script[p].pref
            /\ Cardinality(DOMAIN script[o].pref) <= Rf

Init ==
  /\ disk = [n \in Nodes |-> {}]
  /\ debts = [n \in Nodes |-> {}]
  /\ \E script \in Scripts : ops = [o \in Requests |-> Asked(script[o])]
  /\ wire = {}
  /\ repairs = {}
  /\ mode = [n \in Nodes |-> "open"]
  /\ snap = [n \in Nodes |-> [tasks |-> {}, reps |-> {}]]
  /\ acked = {}
  /\ faults = 0

Request(o) ==
  \/ \E ts \in Stamps[o] : put(o, ts)
  \/ get(o)
  \/ \E w \in Requests : repair(o, w)

Coordinate(o) ==
  \/ _ensure_quorum(o) \/ _get(o) \/ _run_repair(o)
  \/ \E t \in Nodes : \/ WriteFails(o, t) \/ read(o, t) \/ lookup(o, t)
                      \/ \E stored \in BOOLEAN : _record_obligation(o, t, stored)

Drain(n) == DrainMutations(n) \/ DrainPending(n) \/ stop_read_repairs(n) \/ close(n)

Next ==
  \/ \E o \in Requests : Request(o) \/ Coordinate(o)
  \/ \E m \in wire : Refuse(m) \/ \E answered \in BOOLEAN : Deliver(m, answered)
  \/ \E r \in repairs : ReadRepairFails(r)
  \/ \E n \in Draining : pause(n) \/ Drain(n)

Spec == Init /\ [][Next]_vars

\* Every task ends in an answer, a timeout or an error, and asyncio resumes
\* what waits for it.
Fairness == /\ \A o \in Requests : WF_vars(Coordinate(o))
            /\ WF_vars(\E m \in wire : Refuse(m) \/ Deliver(m, TRUE))
            /\ WF_vars(\E r \in repairs : ReadRepairFails(r))
            /\ \A n \in Draining : WF_vars(Drain(n))

FairSpec == Spec /\ Fairness

-----------------------------------------------------------------------------
(* Properties.                                                             *)

\* What clients see of the coordinators.
Copies == [v \in Versions |-> {n \in Nodes : v \in disk[n]}]
Deletes == {ops[o].ts : o \in {p \in Requests : ops[p].kind = "delete"}} \ {NoVersion}
Read(op) ==
  [st |-> IF op.kind # "get" \/ op.st = "new" THEN "none"
          ELSE IF op.st # "done" THEN "open"
          ELSE IF op.result = "error" THEN "failed" ELSE "closed",
   floor |-> op.floor,
   answer |-> IF op.kind = "get" THEN op.ts ELSE NoVersion,
   absent |-> op.kind = "get" /\ op.result = "absent"]
Reads == [o \in Requests |-> Read(ops[o])]

Promise == INSTANCE QuorumStore WITH copies <- Copies, deletes <- Deletes, reads <- Reads

\* The coordinator implements the promise to clients: an acknowledged write is
\* on as many nodes as its quorum, and a read whose quorum meets it never misses
\* it, nor answers with a value that was deleted. The answer is as new as the
\* write, or as a version that a replica lists after it though it is older
\* (store.py _ensure_quorum, _select_version; session.get).
ImplementsPromise == Promise!QSpec

\* Once the tasks of a write are over, every owner it wrote to directly holds
\* the version or is owed it by a node that holds it, late or lost answers
\* included; only a storage error of the coordinator itself escapes
\* (store.py _write_to_target, _record_obligation, _oblige).
MissedOwnersOwed ==
  \A o \in Requests : ops[o].kind \in Mutations /\ ops[o].st = "done" =>
    \A t \in DOMAIN ops[o].tasks :
      ops[o].tasks[t].st = "failed" /\ t # ops[o].coord /\ t \in DOMAIN ops[o].pref
        => \/ ops[o].ts \in disk[t]
           \/ \E n \in Nodes : <<t, ops[o].ts>> \in debts[n] /\ ops[o].ts \in disk[n]

\* After drain() no write of this node is still running, whenever it was
\* detached; once read repairs are stopped and closed none is left either, and
\* none starts again, though reads go on (store.py drain, stop_read_repairs).
QuietAfterDrain ==
  \A n \in Nodes :
    /\ mode[n] \in {"drained", "closing", "closed"} =>
         \A o \in Requests : ops[o].coord = n /\ ops[o].kind \in Mutations =>
           \A t \in DOMAIN ops[o].tasks : ~Live(ops[o].tasks[t])
    /\ mode[n] = "closed" => _repairs_of(n) = {}

\* A drain ends even while reads keep scheduling repairs (store.py drain waits
\* for a snapshot of the background writes).
DrainEnds == \A n \in Draining : mode[n] = "paused" ~> mode[n] = "closed"

\* What the promise would be if keys sorted by timestamp: a read whose quorum
\* meets that of an earlier write never answers with an older version.
\* Store_order.cfg shows that the code does not give this.
NeverOlder ==
  \A o \in Requests : ops[o].kind = "get" /\ ops[o].result \in {"ok", "absent"} =>
    \A w \in ops[o].floor : w <= ops[o].ts

\* A repair that reports its quorum has put the version on as many owners: a
\* copy held by a stand-in never counts (docs/architecture.md).
RepairDurability ==
  \A o \in Requests : ops[o].kind = "repair" /\ ops[o].result = "ok" =>
    Cardinality({n \in DOMAIN ops[o].pref : ops[o].ts \in disk[n]}) >= ops[o].q

=============================================================================
