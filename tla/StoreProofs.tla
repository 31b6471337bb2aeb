---------------------------- MODULE StoreProofs ----------------------------
(***************************************************************************)
(* The store implements its promise to clients, whatever the requests, the *)
(* versions, the quorums and the placements: theorems about Store.         *)
(***************************************************************************)
EXTENDS Store, FiniteSetTheorems, TLAPS

Kinds == Mutations \cup {"get"}
Task == [st : {"sent", "ok", "failing", "failed", "dropped"}, got : Versions \cup {NoVersion}]
TaskTables == UNION {[targets -> Task] : targets \in SUBSET Nodes}
Op == [kind : Kinds, coord : Nodes, q : 1 .. Rf, pref : Placements,
       ts : Versions \cup {NoVersion}, st : {"new", "writing", "reading", "looking", "done"},
       tasks : TaskTables, base : Nat, floor : SUBSET Versions,
       result : {"none", "ok", "error", "short", "absent"}]
Message == [op : Requests \cup {0}, coord : Nodes, ts : Versions, target : Nodes,
            intent : Nodes \cup {NoNode}]
Ack == [ts : Versions, q : 1 .. Rf, strict : BOOLEAN]

-----------------------------------------------------------------------------
(* What holds of one request, given the disks d and the debts b.           *)

Shape(op) ==
  /\ op \in Op
  /\ op.st = "new" => /\ op.ts = NoVersion /\ DOMAIN op.tasks = {} /\ op.floor = {}
                      /\ op.base = 0
  /\ op.st # "done" => op.result = "none"
  /\ op.st = "writing" => op.kind \in Mutations
  /\ op.st = "reading" => op.kind = "get"
  /\ op.st = "looking" =>
       /\ op.kind = "repair"
       /\ DOMAIN op.tasks = {_write_target(op.pref, n) : n \in _repair_fanout(op.pref)}
  /\ op.kind \in Mutations => /\ op.floor = {}
                              /\ op.st # "new" => op.ts \in Versions
                              /\ \A t \in DOMAIN op.tasks : \E n \in DOMAIN op.pref :
                                   t = _write_target(op.pref, n)
  /\ op.kind = "get" /\ op.st # "done" => op.ts = NoVersion
  /\ \A n \in DOMAIN op.pref : op.pref[n].handoff \notin DOMAIN op.pref
  /\ \A t \in DOMAIN op.tasks : op.tasks[t].st = "failing" =>
       op.kind \in Mutations /\ op.st \in {"writing", "done"}

\* A task that ended ok left the version at its target; a direct one that failed
\* left it owed.
Owed(t, ts, d, b) == ts \in d[t] \/ \E n \in Nodes : <<t, ts>> \in b[n] /\ ts \in d[n]
Held(op, d, b) ==
  op.kind \in Mutations /\ op.st \in {"writing", "done"} => \A t \in DOMAIN op.tasks :
    /\ op.tasks[t].st = "ok" => op.ts \in d[t]
    /\ op.tasks[t].st = "failing" => t # op.coord
    /\ op.tasks[t].st = "failed" /\ t # op.coord /\ t \in DOMAIN op.pref
         => Owed(t, op.ts, d, b)

\* An answer names a version its node holds.
Seen(op, d) ==
  op.st \in {"looking", "reading"} => \A t \in DOMAIN op.tasks :
    op.tasks[t].got # NoVersion => op.tasks[t].got \in d[t]

\* The copies a repair counts without writing them.
Based(op, d) ==
  op.st = "writing" => \E found \in SUBSET (DOMAIN op.pref) :
    /\ Cardinality(found) = op.base /\ found \cap DOMAIN op.tasks = {}
    /\ \A n \in found : op.ts \in d[n]

\* Version v is no other than w, or its key sorts after that of w.
Covers(v, w) == v \in Versions /\ Encoded[w] <= Encoded[v]

\* The owners from which a read has learnt, or will learn, of version w or of one
\* that they list after it.
Informed(op, d, w) ==
  {n \in DOMAIN op.pref : /\ w \in d[n]
                          /\ n \in DOMAIN op.tasks /\ op.tasks[n].st = "ok"
                               => Covers(op.tasks[n].got, w)}
Fresh(op, d) ==
  op.st = "reading" => \A w \in op.floor :
    Strict(op.pref) /\ Cardinality(Informed(op, d, w)) + op.q > Rf

OpOK(op, d, b) == Shape(op) /\ Held(op, d, b) /\ Seen(op, d) /\ Based(op, d) /\ Fresh(op, d)

Disks == [Nodes -> SUBSET Versions]
Debts == [Nodes -> SUBSET (Nodes \X Versions)]
Grows(d, e) == \A n \in Nodes : d[n] \subseteq e[n]

-----------------------------------------------------------------------------
(* Types.                                                                  *)

\* A table of tasks is a function from some of the nodes.
LEMMA TasksType ==
  ASSUME NEW f \in TaskTables
  PROVE  /\ DOMAIN f \subseteq Nodes /\ f \in [DOMAIN f -> Task]
         /\ \A t \in DOMAIN f : f[t] \in Task
PROOF
  <1>1. PICK targets \in SUBSET Nodes : f \in [targets -> Task]
    BY Zenon DEF TaskTables
  <1>2. DOMAIN f = targets
    BY <1>1
  <1> HIDE DEF Task
  <1> QED BY <1>1, <1>2

\* Any function from nodes to tasks is a table of tasks.
LEMMA TasksAre ==
  ASSUME NEW targets \in SUBSET Nodes, NEW f \in [targets -> Task]
  PROVE  f \in TaskTables
PROOF BY Zenon DEF TaskTables

\* The owners of a placement and their hints are nodes.
LEMMA PlacementsType ==
  ASSUME NEW pref \in Placements
  PROVE  /\ DOMAIN pref \subseteq Nodes
         /\ \A n \in DOMAIN pref : /\ pref[n].handoff \in Nodes \cup {NoNode}
                                   /\ pref[n].readable \in BOOLEAN
                                   /\ pref[n].writable \in BOOLEAN
PROOF
  <1>1. PICK owners \in SUBSET Nodes :
          pref \in [owners -> [readable : BOOLEAN, writable : BOOLEAN,
                               handoff : Nodes \cup {NoNode}]]
    BY Zenon DEF Placements
  <1> QED BY <1>1

\* The owners of a placement are finitely many, and so are parts of them.
LEMMA OwnersFinite ==
  ASSUME NEW pref \in Placements, NEW s \in SUBSET (DOMAIN pref)
  PROVE  IsFiniteSet(s) /\ Cardinality(s) \in Nat
PROOF
  <1>1. s \subseteq Nodes
    BY PlacementsType
  <1> QED BY <1>1, StoreAssumption, FS_Subset, FS_CardinalityType

\* The fields of a request have their types.
LEMMA OpType ==
  ASSUME NEW op \in Op
  PROVE  /\ op.kind \in Kinds /\ op.coord \in Nodes /\ op.q \in 1 .. Rf /\ op.q \in Nat
         /\ op.pref \in Placements /\ op.ts \in Versions \cup {NoVersion}
         /\ op.tasks \in TaskTables /\ op.base \in Nat /\ op.floor \subseteq Versions
PROOF BY DEF Op

\* A request is given one of the versions.
LEMMA StampsAre ==
  ASSUME NEW o \in Requests, NEW ts \in Stamps[o]
  PROVE  ts \in Versions
PROOF
  <1>1. Stamps \in [Requests -> SUBSET Versions]
    BY StoreAssumption
  <1> QED BY <1>1

\* The value that stands for no version is older than every version.
LEMMA NoVersionApart ==
  /\ NoVersion \notin Versions /\ Versions \subseteq Nat
  /\ \A v \in Versions : v \in Nat \ {0}
  /\ \A v \in Versions \cup {NoVersion} : v \in Nat
PROOF
  <1>1. Versions \subseteq Nat \ {NoVersion}
    BY StoreAssumption
  <1> QED BY <1>1 DEF NoVersion

-----------------------------------------------------------------------------
(* Disks that grow keep what holds of a request.                           *)

\* More holders, no fewer copies counted.
LEMMA MoreCopies ==
  ASSUME NEW pref \in Placements, NEW s \in SUBSET (DOMAIN pref),
         NEW u \in SUBSET (DOMAIN pref), s \subseteq u
  PROVE  Cardinality(s) <= Cardinality(u)
PROOF BY OwnersFinite, FS_Subset

\* What holds of a request still holds once more versions and debts are stored.
LEMMA GrowKeeps ==
  ASSUME NEW op, NEW d, NEW e, NEW b, NEW c, OpOK(op, d, b), Grows(d, e), Grows(b, c)
  PROVE  OpOK(op, e, c)
PROOF
  <1>1. op \in Op /\ op.tasks \in TaskTables /\ op.pref \in Placements /\ op.q \in 1 .. Rf
    BY OpType DEF OpOK, Shape
  <1>2. DOMAIN op.tasks \subseteq Nodes /\ DOMAIN op.pref \subseteq Nodes
    BY <1>1, TasksType, PlacementsType
  <1>3. Held(op, e, c)
    BY <1>2 DEF OpOK, Held, Owed, Grows
  <1>4. Seen(op, e)
    BY <1>2 DEF OpOK, Seen, Grows
  <1>5. Based(op, e)
    BY <1>2 DEF OpOK, Based, Grows
  <1>6. Fresh(op, e)
    <2> SUFFICES ASSUME op.st = "reading", NEW w \in op.floor
                 PROVE  Strict(op.pref) /\ Cardinality(Informed(op, e, w)) + op.q > Rf
      BY DEF Fresh
    <2>1. Strict(op.pref) /\ Cardinality(Informed(op, d, w)) + op.q > Rf
      BY DEF OpOK, Fresh
    <2>2. /\ Informed(op, d, w) \subseteq Informed(op, e, w)
          /\ Informed(op, e, w) \subseteq DOMAIN op.pref
      BY <1>2 DEF Informed, Grows
    <2>3. /\ Cardinality(Informed(op, d, w)) <= Cardinality(Informed(op, e, w))
          /\ Cardinality(Informed(op, d, w)) \in Nat /\ Cardinality(Informed(op, e, w)) \in Nat
      BY <1>1, <2>2, MoreCopies, OwnersFinite
    <2> QED BY <1>1, <2>1, <2>3, StoreAssumption
  <1> QED BY <1>3, <1>4, <1>5, <1>6 DEF OpOK

-----------------------------------------------------------------------------
(* How a request may change in a step.                                     *)

Evolves(p, r) ==
  /\ r.kind = p.kind /\ r.coord = p.coord /\ r.q = p.q /\ r.pref = p.pref
  /\ p.kind \in Mutations /\ p.st # "new" => r.ts = p.ts /\ r.st # "new"
  /\ p.kind \in Mutations /\ p.st \in {"writing", "done"} =>
       r.st \in {"writing", "done"} /\ DOMAIN r.tasks = DOMAIN p.tasks
  /\ p.st = "done" => r.st = "done" /\ \A t \in DOMAIN r.tasks :
       Live(r.tasks[t]) => t \in DOMAIN p.tasks /\ Live(p.tasks[t])

\* A task that was just sent has no answer.
LEMMA SentType == Sent \in Task /\ Sent.st = "sent" /\ Sent.got = NoVersion
PROOF BY DEF Sent, Task

\* The fields of a request after `begin' (the coordinator fans out).
LEMMA Beginning ==
  ASSUME NEW op \in Op, NEW ts \in Versions \cup {NoVersion},
         NEW st \in {"writing", "reading", "looking"}, NEW targets \in SUBSET Nodes,
         acked \subseteq Ack
  PROVE  LET r == begin(op, ts, st, targets) IN
         /\ r \in Op /\ r.kind = op.kind /\ r.coord = op.coord /\ r.q = op.q
         /\ r.pref = op.pref /\ r.ts = ts /\ r.base = op.base
         /\ r.st = (IF targets = {} THEN "done" ELSE st)
         /\ DOMAIN r.tasks = targets /\ \A t \in targets : r.tasks[t] = Sent
         /\ r.result = (IF targets = {} THEN "error" ELSE "none")
         /\ op.kind # "get" => r.floor = {}
         /\ \A w \in r.floor : \E a \in acked :
              a.ts = w /\ a.strict /\ Strict(op.pref) /\ a.q + op.q > Rf
PROOF
  <1> DEFINE f == {a.ts : a \in {b \in acked : /\ op.kind = "get" /\ targets # {}
                                               /\ b.strict /\ Strict(op.pref)
                                               /\ b.q + op.q > Rf}}
             table == [t \in targets |-> Sent]
             r == begin(op, ts, st, targets)
  <1>1. f \subseteq Versions
    BY DEF Ack
  <1>a. /\ op.kind # "get" => f = {}
        /\ \A w \in f : \E a \in acked :
             a.ts = w /\ a.strict /\ Strict(op.pref) /\ a.q + op.q > Rf
    OBVIOUS
  <1>2. table \in TaskTables
    BY SentType, TasksAre
  <1>3. r = [op EXCEPT !.ts = ts, !.st = IF targets = {} THEN "done" ELSE st, !.tasks = table,
                       !.floor = f, !.result = IF targets = {} THEN "error" ELSE "none"]
    BY DEF begin
  <1>4. DOMAIN table = targets /\ \A t \in targets : table[t] = Sent
    OBVIOUS
  <1> HIDE DEF f, table, r
  <1>5. /\ r \in Op /\ r.kind = op.kind /\ r.coord = op.coord /\ r.q = op.q
        /\ r.pref = op.pref /\ r.ts = ts /\ r.base = op.base
        /\ r.st = (IF targets = {} THEN "done" ELSE st)
        /\ r.tasks = table /\ r.floor = f
        /\ r.result = (IF targets = {} THEN "error" ELSE "none")
    BY Zenon, <1>1, <1>2, <1>3 DEF Op
  <1> QED BY <1>4, <1>5, <1>a DEF r

\* The fields of a request after `update' (one task of it changes).
LEMMA Updating ==
  ASSUME NEW op \in Op, NEW t \in DOMAIN op.tasks, NEW task \in Task
  PROVE  LET r == update(op, t, task) IN
         /\ r \in Op /\ r.kind = op.kind /\ r.coord = op.coord /\ r.q = op.q
         /\ r.pref = op.pref /\ r.ts = op.ts /\ r.base = op.base /\ r.st = op.st
         /\ r.floor = op.floor /\ r.result = op.result
         /\ DOMAIN r.tasks = DOMAIN op.tasks /\ r.tasks[t] = task
         /\ \A u \in DOMAIN op.tasks \ {t} : r.tasks[u] = op.tasks[u]
PROOF
  <1> DEFINE table == [op.tasks EXCEPT ![t] = task]
             r == update(op, t, task)
  <1>1. op.tasks \in TaskTables
    BY OpType
  <1>2. op.tasks \in [DOMAIN op.tasks -> Task] /\ DOMAIN op.tasks \in SUBSET Nodes
    BY <1>1, TasksType
  <1>3. /\ table \in [DOMAIN op.tasks -> Task] /\ DOMAIN table = DOMAIN op.tasks
        /\ table[t] = task /\ \A u \in DOMAIN op.tasks \ {t} : table[u] = op.tasks[u]
    BY <1>2
  <1>4. r = [op EXCEPT !.tasks = table]
    BY DEF update
  <1> HIDE DEF table, r
  <1>5. table \in TaskTables
    BY <1>2, <1>3, TasksAre
  <1>6. /\ r \in Op /\ r.kind = op.kind /\ r.coord = op.coord /\ r.q = op.q
        /\ r.pref = op.pref /\ r.ts = op.ts /\ r.base = op.base /\ r.st = op.st
        /\ r.floor = op.floor /\ r.result = op.result /\ r.tasks = table
    BY <1>4, <1>5 DEF Op
  <1> QED BY <1>3, <1>6 DEF r

\* The fields of a request after `finish' (the coordinator answers).
LEMMA Finishing ==
  ASSUME NEW op \in Op, NEW result \in {"none", "ok", "error", "short", "absent"}
  PROVE  LET r == finish(op, result) IN
         /\ r \in Op /\ r.kind = op.kind /\ r.coord = op.coord /\ r.q = op.q
         /\ r.pref = op.pref /\ r.ts = op.ts /\ r.base = op.base /\ r.st = "done"
         /\ r.floor = op.floor /\ r.result = result /\ r.tasks = op.tasks
PROOF BY Zenon DEF Op, finish

-----------------------------------------------------------------------------
(* What holds of a request keeps holding, change by change.                *)

\* Writes are sent to nodes.
LEMMA TargetsAreNodes ==
  ASSUME NEW pref \in Placements, NEW owners \in SUBSET (DOMAIN pref)
  PROVE  {_write_target(pref, n) : n \in owners} \in SUBSET Nodes
PROOF BY PlacementsType DEF _write_target

\* A write that fans out.
LEMMA BeginWrites ==
  ASSUME NEW op, NEW d, NEW b, NEW ts \in Versions, NEW owners \in SUBSET (DOMAIN op.pref),
         OpOK(op, d, b), op.st = "new", op.kind \in {"put", "delete"}, acked \subseteq Ack
  PROVE  LET r == begin(op, ts, "writing", {_write_target(op.pref, n) : n \in owners}) IN
         OpOK(r, d, b) /\ Evolves(op, r)
PROOF
  <1> DEFINE targets == {_write_target(op.pref, n) : n \in owners}
             r == begin(op, ts, "writing", targets)
  <1>1. op \in Op /\ op.pref \in Placements
    BY OpType DEF OpOK, Shape
  <1>2. targets \in SUBSET Nodes /\ \A t \in targets : \E n \in DOMAIN op.pref :
          t = _write_target(op.pref, n)
    BY <1>1, TargetsAreNodes
  <1> HIDE DEF targets
  <1>3. /\ r \in Op /\ r.kind = op.kind /\ r.coord = op.coord /\ r.q = op.q
        /\ r.pref = op.pref /\ r.ts = ts /\ r.base = op.base
        /\ r.st = (IF targets = {} THEN "done" ELSE "writing")
        /\ DOMAIN r.tasks = targets /\ \A t \in targets : r.tasks[t] = Sent
        /\ r.result = (IF targets = {} THEN "error" ELSE "none")
        /\ r.floor = {}
    BY <1>1, <1>2, Beginning
  <1> HIDE DEF r
  <1>4. Shape(r)
    BY <1>2, <1>3, NoVersionApart DEF Shape, OpOK, Mutations
  <1>5. Held(r, d, b) /\ Seen(r, d) /\ Fresh(r, d)
    BY <1>3, SentType DEF Held, Seen, Fresh
  <1>6. Based(r, d)
    <2>1. {} \in SUBSET (DOMAIN r.pref) /\ Cardinality({}) = 0
      BY FS_EmptySet
    <2>2. r.base = 0
      BY <1>3 DEF OpOK, Shape
    <2> QED BY <2>1, <2>2 DEF Based
  <1>7. Evolves(op, r)
    BY <1>3 DEF Evolves
  <1> QED BY <1>4, <1>5, <1>6, <1>7 DEF OpOK, r, targets

\* A repair that looks for its version.
LEMMA BeginLooks ==
  ASSUME NEW op, NEW d, NEW b, NEW ts \in Versions,
         OpOK(op, d, b), op.st = "new", op.kind = "repair", acked \subseteq Ack
  PROVE  LET r == begin(op, ts, "looking",
                        {_write_target(op.pref, n) : n \in _repair_fanout(op.pref)}) IN
         OpOK(r, d, b) /\ Evolves(op, r)
PROOF
  <1> DEFINE targets == {_write_target(op.pref, n) : n \in _repair_fanout(op.pref)}
             r == begin(op, ts, "looking", targets)
  <1>1. op \in Op /\ op.pref \in Placements
    BY OpType DEF OpOK, Shape
  <1>2. targets \in SUBSET Nodes /\ \A t \in targets : \E n \in DOMAIN op.pref :
          t = _write_target(op.pref, n)
    BY <1>1, TargetsAreNodes DEF _repair_fanout
  <1>a. targets = {_write_target(op.pref, n) : n \in _repair_fanout(op.pref)}
    OBVIOUS
  <1> HIDE DEF targets
  <1>3. /\ r \in Op /\ r.kind = op.kind /\ r.coord = op.coord /\ r.q = op.q
        /\ r.pref = op.pref /\ r.ts = ts /\ r.base = op.base
        /\ r.st = (IF targets = {} THEN "done" ELSE "looking")
        /\ DOMAIN r.tasks = targets /\ \A t \in targets : r.tasks[t] = Sent
        /\ r.result = (IF targets = {} THEN "error" ELSE "none")
        /\ r.floor = {}
    BY <1>1, <1>2, Beginning
  <1> HIDE DEF r
  <1>4. Shape(r)
    BY <1>2, <1>3, <1>a, NoVersionApart, SentType DEF Shape, OpOK, Mutations
  <1>5. Held(r, d, b) /\ Seen(r, d) /\ Fresh(r, d) /\ Based(r, d)
    BY <1>3, SentType DEF Held, Seen, Fresh, Based
  <1>7. Evolves(op, r)
    BY <1>3 DEF Evolves
  <1> QED BY <1>4, <1>5, <1>7 DEF OpOK, r, targets

\* The owners of an acknowledged version are too many for a quorum to avoid them.
LEMMA BeginReads ==
  ASSUME NEW op, NEW d, NEW b, NEW targets \in SUBSET Nodes,
         NEW ts \in Versions \cup {NoVersion}, ts = NoVersion,
         OpOK(op, d, b), op.st = "new", op.kind = "get", acked \subseteq Ack,
         \A a \in acked : a.strict /\ Strict(op.pref) =>
           Cardinality({n \in DOMAIN op.pref : a.ts \in d[n]}) >= a.q
  PROVE  LET r == begin(op, ts, "reading", targets) IN
         OpOK(r, d, b) /\ Evolves(op, r)
PROOF
  <1> DEFINE r == begin(op, ts, "reading", targets)
  <1>1. op \in Op /\ op.pref \in Placements /\ op.q \in 1 .. Rf
    BY OpType DEF OpOK, Shape
  <1>3. /\ r \in Op /\ r.kind = op.kind /\ r.coord = op.coord /\ r.q = op.q
        /\ r.pref = op.pref /\ r.ts = ts /\ r.base = op.base
        /\ r.st = (IF targets = {} THEN "done" ELSE "reading")
        /\ DOMAIN r.tasks = targets /\ \A t \in targets : r.tasks[t] = Sent
        /\ r.result = (IF targets = {} THEN "error" ELSE "none")
        /\ \A w \in r.floor : \E a \in acked :
             a.ts = w /\ a.strict /\ Strict(op.pref) /\ a.q + op.q > Rf
    BY <1>1, Beginning
  <1> HIDE DEF r
  <1>4. Shape(r)
    BY <1>3, SentType DEF Shape, OpOK, Mutations
  <1>5. Held(r, d, b) /\ Seen(r, d) /\ Based(r, d)
    BY <1>3, SentType DEF Held, Seen, Based, Mutations
  <1>6. Fresh(r, d)
    <2> SUFFICES ASSUME NEW w \in r.floor
                 PROVE  Strict(r.pref) /\ Cardinality(Informed(r, d, w)) + r.q > Rf
      BY DEF Fresh
    <2>1. PICK a \in acked : a.ts = w /\ a.strict /\ Strict(op.pref) /\ a.q + op.q > Rf
      BY <1>3
    <2>2. Informed(r, d, w) = {n \in DOMAIN op.pref : a.ts \in d[n]}
      BY <1>3, <2>1, SentType DEF Informed
    <2>3. Cardinality({n \in DOMAIN op.pref : a.ts \in d[n]}) \in Nat
      BY <1>1, OwnersFinite
    <2>4. Cardinality({n \in DOMAIN op.pref : a.ts \in d[n]}) >= a.q /\ a.q \in Nat
      BY <2>1 DEF Ack
    <2> QED BY <1>1, <1>3, <2>1, <2>2, <2>3, <2>4, StoreAssumption
  <1>7. Evolves(op, r)
    BY <1>3 DEF Evolves, Mutations
  <1> QED BY <1>4, <1>5, <1>6, <1>7 DEF OpOK, r

\* The same request with task t ended.
LEMMA SettleKeeps ==
  ASSUME NEW op, NEW d, NEW b, NEW t \in DOMAIN op.tasks,
         NEW st \in {"ok", "failing", "failed", "dropped"},
         OpOK(op, d, b), op.kind \in Mutations, op.st \in {"writing", "done"},
         Live(op.tasks[t]),
         st = "ok" => op.ts \in d[t],
         st = "failing" => t # op.coord,
         st = "failed" /\ t # op.coord /\ t \in DOMAIN op.pref => Owed(t, op.ts, d, b)
  PROVE  LET r == settle(op, t, st) IN OpOK(r, d, b) /\ Evolves(op, r)
PROOF
  <1> DEFINE task == [st |-> st, got |-> op.tasks[t].got]
             r == update(op, t, task)
  <1>1. op \in Op
    BY DEF OpOK, Shape
  <1>2. task \in Task /\ task.st = st
    BY <1>1, OpType, TasksType DEF Task
  <1> HIDE DEF task
  <1>3. /\ r \in Op /\ r.kind = op.kind /\ r.coord = op.coord /\ r.q = op.q
        /\ r.pref = op.pref /\ r.ts = op.ts /\ r.base = op.base /\ r.st = op.st
        /\ r.floor = op.floor /\ r.result = op.result
        /\ DOMAIN r.tasks = DOMAIN op.tasks /\ r.tasks[t] = task
        /\ \A u \in DOMAIN op.tasks \ {t} : r.tasks[u] = op.tasks[u]
    BY <1>1, <1>2, Updating
  <1> HIDE DEF r
  <1>4. Shape(r)
    BY <1>3 DEF Shape, OpOK
  <1>5. Held(r, d, b)
    BY Zenon, <1>2, <1>3 DEF Held, OpOK
  <1>6. Seen(r, d) /\ Fresh(r, d)
    BY <1>3 DEF Seen, Fresh
  <1>7. Based(r, d)
    BY <1>3 DEF Based, OpOK
  <1>8. Evolves(op, r)
    BY <1>3 DEF Evolves
  <1> QED BY <1>4, <1>5, <1>6, <1>7, <1>8 DEF OpOK, r, task, settle

\* The same request with the answer of t, which tells of all that t holds.
LEMMA AnswerKeeps ==
  ASSUME NEW op, NEW d, NEW b, NEW t \in DOMAIN op.tasks,
         NEW got \in Versions \cup {NoVersion},
         OpOK(op, d, b), op.st \in {"reading", "looking"}, op.tasks[t].st = "sent",
         got # NoVersion => got \in d[t],
         op.st = "reading" => \A w \in d[t] : Covers(got, w)
  PROVE  LET r == update(op, t, [st |-> "ok", got |-> got]) IN
         OpOK(r, d, b) /\ Evolves(op, r)
PROOF
  <1> DEFINE task == [st |-> "ok", got |-> got]
             r == update(op, t, task)
  <1>1. op \in Op /\ op.pref \in Placements /\ op.q \in 1 .. Rf
    BY OpType DEF OpOK, Shape
  <1>2. task \in Task /\ task.st = "ok" /\ task.got = got
    BY DEF Task
  <1> HIDE DEF task
  <1>3. /\ r \in Op /\ r.kind = op.kind /\ r.coord = op.coord /\ r.q = op.q
        /\ r.pref = op.pref /\ r.ts = op.ts /\ r.base = op.base /\ r.st = op.st
        /\ r.floor = op.floor /\ r.result = op.result
        /\ DOMAIN r.tasks = DOMAIN op.tasks /\ r.tasks[t] = task
        /\ \A u \in DOMAIN op.tasks \ {t} : r.tasks[u] = op.tasks[u]
    BY <1>1, <1>2, Updating
  <1> HIDE DEF r
  <1>4. Shape(r)
    BY <1>2, <1>3 DEF Shape, OpOK
  <1>5. Held(r, d, b) /\ Based(r, d)
    BY <1>3 DEF Held, Based
  <1>6. Seen(r, d)
    BY <1>2, <1>3 DEF Seen, OpOK
  <1>7. Fresh(r, d)
    <2> SUFFICES ASSUME op.st = "reading", NEW w \in op.floor
                 PROVE  Strict(op.pref) /\ Cardinality(Informed(r, d, w)) + op.q > Rf
      BY <1>3 DEF Fresh
    <2>1. Strict(op.pref) /\ Cardinality(Informed(op, d, w)) + op.q > Rf
      BY DEF OpOK, Fresh
    <2>2. /\ Informed(op, d, w) \subseteq Informed(r, d, w)
          /\ Informed(r, d, w) \subseteq DOMAIN op.pref
      BY <1>2, <1>3 DEF Informed
    <2>3. /\ Cardinality(Informed(op, d, w)) <= Cardinality(Informed(r, d, w))
          /\ Cardinality(Informed(op, d, w)) \in Nat /\ Cardinality(Informed(r, d, w)) \in Nat
      BY <1>1, <2>2, MoreCopies, OwnersFinite
    <2> QED BY <1>1, <2>1, <2>3, StoreAssumption
  <1>8. Evolves(op, r)
    BY Zenon, <1>3 DEF Evolves, OpOK, Shape, Live
  <1> QED BY <1>4, <1>5, <1>6, <1>7, <1>8 DEF OpOK, r, task

\* A write that ends.
LEMMA FinishWriteKeeps ==
  ASSUME NEW op, NEW d, NEW b, NEW result \in {"ok", "error", "short"},
         OpOK(op, d, b), op.st = "writing"
  PROVE  LET r == finish(op, result) IN OpOK(r, d, b) /\ Evolves(op, r)
PROOF
  <1> DEFINE r == finish(op, result)
  <1>1. op \in Op
    BY DEF OpOK, Shape
  <1>3. /\ r \in Op /\ r.kind = op.kind /\ r.coord = op.coord /\ r.q = op.q
        /\ r.pref = op.pref /\ r.ts = op.ts /\ r.base = op.base /\ r.st = "done"
        /\ r.floor = op.floor /\ r.result = result /\ r.tasks = op.tasks
    BY <1>1, Finishing
  <1> HIDE DEF r
  <1>4. Shape(r)
    BY Zenon, <1>3 DEF Shape, OpOK
  <1>5. Held(r, d, b) /\ Based(r, d) /\ Seen(r, d) /\ Fresh(r, d)
    BY <1>3 DEF Held, Based, Seen, Fresh, OpOK
  <1>8. Evolves(op, r)
    BY <1>3 DEF Evolves
  <1> QED BY <1>4, <1>5, <1>8 DEF OpOK, r

\* A read that ends.
LEMMA FinishReadKeeps ==
  ASSUME NEW op, NEW d, NEW b, NEW result \in {"ok", "error", "absent"},
         NEW ts \in Versions \cup {NoVersion}, OpOK(op, d, b), op.st = "reading"
  PROVE  LET r == [finish(op, result) EXCEPT !.ts = ts] IN
         /\ OpOK(r, d, b) /\ Evolves(op, r) /\ r.kind = "get" /\ r.st = "done"
         /\ r.result = result /\ r.ts = ts /\ r.floor = op.floor
PROOF
  <1> DEFINE f == finish(op, result)
             r == [f EXCEPT !.ts = ts]
  <1>1. op \in Op /\ op.kind = "get"
    BY DEF OpOK, Shape
  <1>2. /\ f \in Op /\ f.kind = op.kind /\ f.coord = op.coord /\ f.q = op.q
        /\ f.pref = op.pref /\ f.base = op.base /\ f.st = "done"
        /\ f.floor = op.floor /\ f.result = result /\ f.tasks = op.tasks
    BY <1>1, Finishing
  <1> HIDE DEF f
  <1>3. /\ r \in Op /\ r.kind = op.kind /\ r.coord = op.coord /\ r.q = op.q
        /\ r.pref = op.pref /\ r.ts = ts /\ r.base = op.base /\ r.st = "done"
        /\ r.floor = op.floor /\ r.result = result /\ r.tasks = op.tasks
    BY <1>2 DEF Op
  <1> HIDE DEF r
  <1>4. Shape(r)
    BY Zenon, <1>1, <1>3 DEF Shape, OpOK, Mutations
  <1>5. Held(r, d, b) /\ Based(r, d) /\ Seen(r, d) /\ Fresh(r, d)
    BY <1>1, <1>3 DEF Held, Based, Seen, Fresh, Mutations
  <1>8. Evolves(op, r)
    BY <1>1, <1>3 DEF Evolves, Mutations
  <1> QED BY <1>1, <1>3, <1>4, <1>5, <1>8 DEF OpOK, r, f

\* The owners a repair counts are owners that hold the version.
LEMMA RepairHolders ==
  ASSUME NEW o, NEW d, NEW b, OpOK(ops[o], d, b), ops[o].st = "looking"
  PROVE  /\ _repair_holders(o) \in SUBSET (DOMAIN ops[o].pref)
         /\ \A n \in _repair_holders(o) : ops[o].ts \in d[n]
         /\ Cardinality(_repair_holders(o)) \in Nat
         /\ \A n \in _repair_fanout(ops[o].pref) \ _repair_holders(o) :
              _write_target(ops[o].pref, n) \notin _repair_holders(o)
PROOF
  <1> DEFINE op == ops[o]
  <1>1. op \in Op /\ op.pref \in Placements /\ op.ts \in Versions
    BY Zenon, OpType DEF OpOK, Shape, Mutations
  <1>2. _repair_holders(o) \in SUBSET (DOMAIN op.pref)
    BY DEF _repair_holders, _repair_fanout
  <1>3. \A n \in _repair_holders(o) : op.ts \in d[n]
    <2> SUFFICES ASSUME NEW n \in _repair_holders(o) PROVE op.ts \in d[n]
      OBVIOUS
    <2>1. n \in _repair_fanout(op.pref) /\ _write_target(op.pref, n) = n /\ op.tasks[n].got = op.ts
      BY DEF _repair_holders
    <2>2. n \in DOMAIN op.tasks
      BY Zenon, <2>1 DEF OpOK, Shape
    <2> QED BY <1>1, <2>1, <2>2, NoVersionApart DEF OpOK, Seen
  <1>4. \A n \in _repair_fanout(op.pref) \ _repair_holders(o) :
          _write_target(op.pref, n) \notin _repair_holders(o)
    BY Zenon, <1>2 DEF OpOK, Shape, _write_target, _repair_fanout
  <1> QED BY <1>1, <1>2, <1>3, <1>4, OwnersFinite

\* A repair that found its version and writes it.
LEMMA RepairWriteKeeps ==
  ASSUME NEW o, NEW d, NEW b, OpOK(ops[o], d, b), ops[o].st = "looking",
         NEW missing, missing = _repair_fanout(ops[o].pref) \ _repair_holders(o)
  PROVE  LET r == [ops[o] EXCEPT
                     !.st = "writing", !.base = Cardinality(_repair_holders(o)),
                     !.tasks = [t \in {_write_target(ops[o].pref, n) : n \in missing} |-> Sent]]
         IN  /\ OpOK(r, d, b) /\ Evolves(ops[o], r) /\ r.st = "writing"
             /\ DOMAIN r.tasks = {_write_target(ops[o].pref, n) : n \in missing}
PROOF
  <1> DEFINE op == ops[o]
             targets == {_write_target(op.pref, n) : n \in missing}
             base == Cardinality(_repair_holders(o))
             table == [t \in targets |-> Sent]
             r == [op EXCEPT !.st = "writing", !.base = base, !.tasks = table]
  <1>1. op \in Op /\ op.pref \in Placements /\ op.kind = "repair" /\ op.ts \in Versions
    BY Zenon, OpType DEF OpOK, Shape, Mutations
  <1>2. targets \in SUBSET Nodes /\ \A t \in targets : \E n \in DOMAIN op.pref :
          t = _write_target(op.pref, n)
    BY <1>1, TargetsAreNodes DEF _repair_fanout
  <1>3. _repair_holders(o) \cap targets = {} /\ base \in Nat
    BY Zenon, RepairHolders
  <1>4. table \in TaskTables /\ DOMAIN table = targets /\ \A t \in targets : table[t] = Sent
    <2>1. table \in [targets -> Task]
      BY SentType
    <2> QED BY <1>2, <2>1, TasksAre
  <1>a. base = Cardinality(_repair_holders(o))
    OBVIOUS
  <1> HIDE DEF base, table, targets
  <1>5. /\ r \in Op /\ r.kind = op.kind /\ r.coord = op.coord /\ r.q = op.q
        /\ r.pref = op.pref /\ r.ts = op.ts /\ r.base = base /\ r.st = "writing"
        /\ r.floor = op.floor /\ r.result = op.result /\ r.tasks = table
    BY Zenon, <1>1, <1>3, <1>4 DEF Op
  <1> HIDE DEF r
  <1>6. Shape(r)
    BY Zenon, <1>1, <1>2, <1>4, <1>5 DEF Shape, OpOK, Mutations
  <1>7. Held(r, d, b) /\ Seen(r, d) /\ Fresh(r, d)
    BY Zenon, <1>4, <1>5, SentType DEF Held, Seen, Fresh
  <1>8. Based(r, d)
    BY Zenon, <1>3, <1>4, <1>5, <1>a, RepairHolders DEF Based
  <1>9. Evolves(op, r)
    BY <1>5 DEF Evolves
  <1> QED BY <1>4, <1>5, <1>6, <1>7, <1>8, <1>9 DEF OpOK, r, base, table, targets

\* A repair that ends without writing.
LEMMA RepairEndKeeps ==
  ASSUME NEW op, NEW d, NEW b, NEW result \in {"ok", "error", "short"},
         OpOK(op, d, b), op.st = "looking"
  PROVE  LET r == [finish(op, result) EXCEPT !.tasks = NoTasks] IN
         OpOK(r, d, b) /\ Evolves(op, r) /\ r.st = "done" /\ DOMAIN r.tasks = {}
PROOF
  <1> DEFINE f == finish(op, result)
             r == [f EXCEPT !.tasks = NoTasks]
  <1>1. op \in Op /\ op.kind = "repair"
    BY DEF OpOK, Shape
  <1>2. /\ f \in Op /\ f.kind = op.kind /\ f.coord = op.coord /\ f.q = op.q
        /\ f.pref = op.pref /\ f.base = op.base /\ f.st = "done" /\ f.ts = op.ts
        /\ f.floor = op.floor /\ f.result = result
    BY <1>1, Finishing
  <1>a. NoTasks \in TaskTables /\ DOMAIN NoTasks = {}
    <2>1. NoTasks \in [{} -> Task] /\ {} \in SUBSET Nodes
      BY DEF NoTasks
    <2> QED BY Zenon, <2>1, TasksAre
  <1> HIDE DEF f
  <1>3. /\ r \in Op /\ r.kind = op.kind /\ r.coord = op.coord /\ r.q = op.q
        /\ r.pref = op.pref /\ r.ts = op.ts /\ r.base = op.base /\ r.st = "done"
        /\ r.floor = op.floor /\ r.result = result /\ DOMAIN r.tasks = {}
    BY <1>2, <1>a DEF Op
  <1> HIDE DEF r
  <1>4. Shape(r)
    BY Zenon, <1>1, <1>3 DEF Shape, OpOK, Mutations
  <1>5. Held(r, d, b) /\ Based(r, d) /\ Seen(r, d) /\ Fresh(r, d)
    BY Zenon, <1>3 DEF Held, Based, Seen, Fresh
  <1>8. Evolves(op, r)
    BY <1>1, <1>3 DEF Evolves
  <1> QED BY <1>3, <1>4, <1>5, <1>8 DEF OpOK, r, f

-----------------------------------------------------------------------------
(* The newest version, and quorums that meet.                              *)

\* Of finitely many versions, not none, one has the greatest number under f: the
\* versions numbered above x are fewest for some x, and then none.
LEMMA Greatest ==
  ASSUME NEW f \in [Versions -> Nat], NEW s \in SUBSET Versions, s # {}
  PROVE  \E x \in s : \A y \in s : f[y] <= f[x]
PROOF
  <1> DEFINE above(x) == {y \in s : f[y] > f[x]}
             tops == {above(x) : x \in s}
  <1>1. IsFiniteSet(s)
    BY Zenon, StoreAssumption, FS_Subset
  <1>2. tops \subseteq FiniteSubsetsOf(s) /\ tops # {}
    <2>1. \A x \in s : above(x) \in SUBSET s
      OBVIOUS
    <2>2. \A x \in s : IsFiniteSet(above(x))
      <3> HIDE DEF above
      <3> QED BY <1>1, <2>1, FS_Subset
    <2> HIDE DEF above
    <2> QED BY <2>1, <2>2 DEF FiniteSubsetsOf
  <1>3. PICK top \in tops : \A u \in tops : ~(<<u, top>> \in StrictSubsetOrdering(s))
    <2> HIDE DEF tops
    <2> QED BY <1>2, FS_StrictSubsetOrderingWellFounded, WFMin
  <1>4. PICK x \in s : top = above(x)
    OBVIOUS
  <1>5. \A y \in s : f[y] <= f[x]
    <2> SUFFICES ASSUME NEW y \in s, ~(f[y] <= f[x]) PROVE FALSE
      OBVIOUS
    <2>1. f[y] > f[x] /\ \A z \in s : f[z] \in Nat
      OBVIOUS
    <2>2. /\ above(y) \in SUBSET s /\ above(x) \in SUBSET s
          /\ above(y) \subseteq above(x) /\ y \in above(x) /\ y \notin above(y)
      <3>1. \A z \in s : f[z] > f[y] => f[z] > f[x]
        BY <2>1
      <3>2. ~(f[y] > f[y])
        BY <2>1
      <3> QED BY <2>1, <3>1, <3>2, Zenon
    <2>3. above(y) \in tops
      OBVIOUS
    <2> HIDE DEF above, tops
    <2>4. <<above(y), above(x)>> \in StrictSubsetOrdering(s)
      BY <2>2 DEF StrictSubsetOrdering
    <2> QED BY <1>3, <1>4, <2>3, <2>4
  <1> QED BY <1>5

\* The newest of finitely many versions.
LEMMA NewestIs ==
  ASSUME NEW s \in SUBSET Versions
  PROVE  /\ s = {} => Newest(s) = NoVersion
         /\ s # {} => Newest(s) \in s
         /\ Newest(s) \in Versions \cup {NoVersion}
         /\ \A v \in s : Newest(s) >= v
PROOF
  <1>1. CASE s = {}
    BY <1>1 DEF Newest
  <1>2. CASE s # {}
    <2> DEFINE f == [v \in Versions |-> v]
    <2>1. f \in [Versions -> Nat] /\ s \subseteq Nat /\ \A v \in s : f[v] = v
      BY NoVersionApart
    <2> HIDE DEF f
    <2>2. PICK x \in s : \A y \in s : f[y] <= f[x]
      BY <1>2, <2>1, Greatest
    <2>3. \A y \in s : x >= y
      BY <2>1, <2>2
    <2>4. Max(s) \in s /\ \A y \in s : Max(s) >= y
      BY <2>3 DEF Max
    <2> QED BY <1>2, <2>4 DEF Newest
  <1> QED BY <1>1, <1>2

\* A replica answers with a version it holds that covers all it holds.
LEMMA LastIs ==
  ASSUME NEW n, disk[n] \in SUBSET Versions
  PROVE  /\ _local_read(n) \in Versions \cup {NoVersion}
         /\ _local_read(n) # NoVersion => _local_read(n) \in disk[n]
         /\ \A w \in disk[n] : Covers(_local_read(n), w)
PROOF
  <1>1. CASE disk[n] = {}
    BY <1>1 DEF _local_read
  <1>2. CASE disk[n] # {}
    <2>1. Encoded \in [Versions -> Nat]
      BY StoreAssumption
    <2>2. \E x \in disk[n] : \A y \in disk[n] : Encoded[y] <= Encoded[x]
      BY <1>2, <2>1, Greatest
    <2>3. /\ _local_read(n) \in disk[n]
          /\ \A w \in disk[n] : Encoded[w] <= Encoded[_local_read(n)]
      BY Zenon, <1>2, <2>2 DEF _local_read
    <2> QED BY <2>3 DEF Covers
  <1> QED BY <1>1, <1>2

\* Enough owners hold w for one of those that answered to have told of it.
LEMMA ReadMeets ==
  ASSUME NEW op, NEW d, NEW answers, NEW w \in op.floor,
         op \in Op, Fresh(op, d), op.st = "reading", Cardinality(DOMAIN op.pref) <= Rf,
         answers = {t \in DOMAIN op.tasks : op.tasks[t].st = "ok"},
         _read_response_count(op.pref, answers) >= op.q
  PROVE  \E n \in answers : Covers(op.tasks[n].got, w)
PROOF
  <1> DEFINE owners == DOMAIN op.pref
             heard == {n \in owners : _sources(op.pref, n) \intersect answers # {}}
             told == Informed(op, d, w)
  <1>1. op.pref \in Placements /\ op.q \in 1 .. Rf /\ NoNode \notin Nodes /\ Rf \in Nat
    BY OpType, StoreAssumption
  <1>2. Strict(op.pref) /\ Cardinality(told) + op.q > Rf
    BY DEF Fresh
  <1>3. Cardinality(heard) >= op.q
    BY DEF _read_response_count
  <1>4. heard \in SUBSET owners /\ told \in SUBSET owners
    BY DEF Informed
  <1>5. \A n \in heard : n \in answers
    BY <1>2 DEF Strict, _sources
  <1> HIDE DEF heard, told
  <1>6. /\ IsFiniteSet(owners) /\ Cardinality(owners) \in Nat
        /\ Cardinality(heard) \in Nat /\ Cardinality(told) \in Nat
    BY <1>1, <1>4, OwnersFinite
  <1>7. Cardinality(heard) + Cardinality(told) > Cardinality(owners)
    BY <1>1, <1>2, <1>3, <1>6
  <1>8. PICK n : n \in heard /\ n \in told
    <2> HIDE DEF owners
    <2>1. heard \cap told # {}
      BY <1>4, <1>6, <1>7, FS_MajoritiesIntersect
    <2> QED BY <2>1
  <1> QED BY <1>5, <1>8 DEF told, Informed

\* The tasks that ended ok and the copies found without them are on as many nodes.
LEMMA QuorumHeld ==
  ASSUME NEW op, NEW d, NEW b, NEW done, NEW where \in SUBSET Nodes,
         OpOK(op, d, b), op.st = "writing",
         done = {t \in DOMAIN op.tasks : op.tasks[t].st = "ok"},
         DOMAIN op.pref \subseteq where, DOMAIN op.tasks \subseteq where
  PROVE  /\ op.base + Cardinality(done) \in Nat
         /\ Cardinality({n \in where : op.ts \in d[n]}) \in Nat
         /\ Cardinality({n \in where : op.ts \in d[n]}) >= op.base + Cardinality(done)
PROOF
  <1> DEFINE holders == {n \in where : op.ts \in d[n]}
  <1>1. op \in Op /\ op.base \in Nat /\ op.kind \in Mutations
    BY Zenon, OpType DEF OpOK, Shape
  <1>2. PICK found \in SUBSET (DOMAIN op.pref) :
          /\ Cardinality(found) = op.base /\ found \cap DOMAIN op.tasks = {}
          /\ \A n \in found : op.ts \in d[n]
    BY Zenon DEF OpOK, Based
  <1>4. \A t \in done : op.ts \in d[t]
    BY Zenon, <1>1 DEF OpOK, Held
  <1>5. /\ found \subseteq Nodes /\ done \subseteq Nodes /\ holders \subseteq Nodes
        /\ found \cup done \subseteq holders /\ found \cap done = {}
    BY <1>2, <1>4
  <1> HIDE DEF holders
  <1>6. IsFiniteSet(found) /\ IsFiniteSet(done) /\ IsFiniteSet(holders)
    BY Zenon, <1>5, StoreAssumption, FS_Subset
  <1>7. /\ Cardinality(holders) \in Nat /\ Cardinality(done) \in Nat
        /\ Cardinality(found \cup done) <= Cardinality(holders)
    BY <1>5, <1>6, FS_Subset, FS_CardinalityType
  <1>8. Cardinality(found \cup done) = Cardinality(found) + Cardinality(done)
    <2>1. Cardinality(found \cap done) = 0
      BY Zenon, <1>5, FS_EmptySet
    <2>2. Cardinality(found \cup done)
            = Cardinality(found) + Cardinality(done) - Cardinality(found \cap done)
      BY <1>6, FS_Union
    <2> QED BY <1>1, <1>2, <1>7, <2>1, <2>2
  <1> QED BY <1>1, <1>2, <1>7, <1>8 DEF holders

\* Without stand-ins the tasks of a write go to owners.
LEMMA StrictTargets ==
  ASSUME NEW op, Shape(op), op.kind \in Mutations, Strict(op.pref)
  PROVE  DOMAIN op.tasks \subseteq DOMAIN op.pref
PROOF BY DEF Shape, Strict, _write_target

-----------------------------------------------------------------------------
(* The invariant.                                                          *)

Typed == disk \in Disks /\ debts \in Debts /\ ops \in [Requests -> Op] /\ acked \subseteq Ack

\* Requests without stand-ins see the owners of one ring.
OneRing(f) ==
  \A o, p \in Requests : Strict(f[o].pref) /\ Strict(f[p].pref) =>
    DOMAIN f[o].pref = DOMAIN f[p].pref /\ Cardinality(DOMAIN f[o].pref) <= Rf

\* Version v was chosen by a write.
Written(v, f) == \E o \in Requests : f[o].kind \in Mutations /\ f[o].ts = v

\* A message is one of its task, or the obligation of a read repair.
MessageOK(m, f) ==
  /\ m \in Message /\ Written(m.ts, f)
  /\ m.op \in Requests =>
       /\ f[m.op].kind \in Mutations /\ f[m.op].st \in {"writing", "done"}
       /\ f[m.op].coord = m.coord /\ f[m.op].ts = m.ts /\ m.target \in DOMAIN f[m.op].tasks
       /\ m.intent # NoNode => m.target \notin DOMAIN f[m.op].pref

\* An acknowledged write without stand-ins is on as many owners as its quorum.
AckOK(a, f, d) ==
  a.strict => \A o \in Requests : Strict(f[o].pref) =>
    Cardinality({n \in DOMAIN f[o].pref : a.ts \in d[n]}) >= a.q

StoreInv ==
  /\ Typed
  /\ \A o \in Requests : OpOK(ops[o], disk, debts)
  /\ OneRing(ops)
  /\ \A m \in wire : MessageOK(m, ops)
  /\ \A a \in acked : AckOK(a, ops, disk)
  /\ \A n \in Nodes : \A v \in disk[n] : Written(v, ops)

\* What every step does.
Progress ==
  /\ Typed'
  /\ \A o \in Requests : OpOK(ops'[o], disk', debts') /\ Evolves(ops[o], ops'[o])
  /\ Grows(disk, disk')
  /\ \A m \in wire' : m \in wire \/ MessageOK(m, ops')
  /\ \A a \in acked' : a \in acked \/ AckOK(a, ops', disk')
  /\ \A n \in Nodes : \A v \in disk'[n] : v \in disk[n] \/ Written(v, ops)

\* A version chosen by a write stays so.
LEMMA WrittenStays ==
  ASSUME NEW f, NEW g, NEW v \in Versions, Written(v, f),
         \A o \in Requests : Shape(f[o]) /\ Evolves(f[o], g[o])
  PROVE  Written(v, g)
PROOF
  <1>1. PICK o \in Requests : f[o].kind \in Mutations /\ f[o].ts = v
    BY DEF Written
  <1>2. f[o].st # "new"
    BY Zenon, <1>1, NoVersionApart DEF Shape
  <1> QED BY <1>1, <1>2 DEF Written, Evolves

\* A message stays justified by the request it belongs to.
LEMMA MessageStays ==
  ASSUME NEW f, NEW g, NEW m, MessageOK(m, f),
         \A o \in Requests : Shape(f[o]) /\ Evolves(f[o], g[o])
  PROVE  MessageOK(m, g)
PROOF
  <1>1. m \in Message /\ m.ts \in Versions
    BY DEF MessageOK, Message
  <1>2. Written(m.ts, g)
    BY <1>1, WrittenStays DEF MessageOK
  <1>3. ASSUME m.op \in Requests
        PROVE  /\ g[m.op].kind \in Mutations /\ g[m.op].st \in {"writing", "done"}
               /\ g[m.op].coord = m.coord /\ g[m.op].ts = m.ts
               /\ m.target \in DOMAIN g[m.op].tasks
               /\ m.intent # NoNode => m.target \notin DOMAIN g[m.op].pref
    BY Zenon, <1>3 DEF MessageOK, Evolves
  <1> QED BY Zenon, <1>1, <1>2, <1>3 DEF MessageOK

\* An acknowledged write stays on as many owners as its quorum.
LEMMA AckStays ==
  ASSUME NEW f, NEW g, NEW d, NEW e, NEW a \in Ack, AckOK(a, f, d), Grows(d, e),
         \A o \in Requests : Shape(f[o]) /\ Evolves(f[o], g[o])
  PROVE  AckOK(a, g, e)
PROOF
  <1> SUFFICES ASSUME a.strict, NEW o \in Requests, Strict(g[o].pref)
               PROVE  Cardinality({n \in DOMAIN g[o].pref : a.ts \in e[n]}) >= a.q
    BY DEF AckOK
  <1> DEFINE pref == f[o].pref
             before == {n \in DOMAIN pref : a.ts \in d[n]}
             after == {n \in DOMAIN pref : a.ts \in e[n]}
  <1>1. g[o].pref = pref /\ pref \in Placements /\ a.q \in Nat
    BY OpType DEF Evolves, Shape, Ack
  <1>2. Cardinality(before) >= a.q
    BY Zenon, <1>1 DEF AckOK
  <1>3. before \in SUBSET (DOMAIN pref) /\ after \in SUBSET (DOMAIN pref) /\ before \subseteq after
    BY Zenon, <1>1, PlacementsType DEF Grows
  <1> HIDE DEF before, after
  <1>4. /\ Cardinality(before) <= Cardinality(after)
        /\ Cardinality(before) \in Nat /\ Cardinality(after) \in Nat
    BY Zenon, <1>1, <1>3, MoreCopies, OwnersFinite
  <1>5. Cardinality(after) >= a.q
    BY <1>1, <1>2, <1>4
  <1> QED BY Zenon, <1>1, <1>5 DEF after

\* The invariant is preserved by every step that makes progress in this sense.
LEMMA ProgressKeeps ==
  ASSUME StoreInv, Progress
  PROVE  StoreInv'
PROOF
  <1>1. \A o \in Requests : Shape(ops[o]) /\ Evolves(ops[o], ops'[o])
    BY Zenon DEF StoreInv, OpOK, Progress
  <1>2. OneRing(ops')
    BY <1>1 DEF StoreInv, OneRing, Evolves
  <1>3. \A m \in wire' : MessageOK(m, ops')
    BY Zenon, <1>1, MessageStays DEF StoreInv, Progress
  <1>4. \A a \in acked' : AckOK(a, ops', disk')
    BY Zenon, <1>1, AckStays DEF StoreInv, Progress, Typed
  <1>5. \A n \in Nodes : \A v \in disk'[n] : Written(v, ops')
    <2> SUFFICES ASSUME NEW n \in Nodes, NEW v \in disk'[n] PROVE Written(v, ops')
      OBVIOUS
    <2>1. v \in Versions
      BY Zenon DEF Progress, Typed, Disks
    <2>2. Written(v, ops)
      BY Zenon DEF Progress, StoreInv
    <2> QED BY <1>1, <2>1, <2>2, WrittenStays
  <1> QED BY Zenon, <1>2, <1>3, <1>4, <1>5 DEF StoreInv, Progress

\* A request that does not change evolves.
LEMMA Reflexive ==
  ASSUME NEW op
  PROVE  Evolves(op, op)
PROOF BY DEF Evolves

-----------------------------------------------------------------------------
(* Every action makes progress.                                            *)

\* A step that changes one request.
LEMMA OneRequest ==
  ASSUME StoreInv, NEW o \in Requests, NEW r, ops' = [ops EXCEPT ![o] = r],
         OpOK(r, disk', debts'), Evolves(ops[o], r),
         disk' \in Disks, debts' \in Debts, acked' \subseteq Ack,
         Grows(disk, disk'), Grows(debts, debts')
  PROVE  /\ Typed' /\ ops'[o] = r
         /\ \A p \in Requests : OpOK(ops'[p], disk', debts') /\ Evolves(ops[p], ops'[p])
PROOF
  <1>1. ops \in [Requests -> Op] /\ r \in Op
    BY Zenon DEF StoreInv, Typed, OpOK, Shape
  <1>2. ops' \in [Requests -> Op] /\ ops'[o] = r
        /\ \A p \in Requests \ {o} : ops'[p] = ops[p]
    BY <1>1
  <1>3. \A p \in Requests : OpOK(ops[p], disk', debts')
    BY GrowKeeps DEF StoreInv
  <1> QED BY <1>2, <1>3, Reflexive DEF Typed

\* A step that changes no request.
LEMMA NoRequest ==
  ASSUME StoreInv, ops' = ops, disk' \in Disks, debts' \in Debts, acked' \subseteq Ack,
         Grows(disk, disk'), Grows(debts, debts')
  PROVE  /\ Typed'
         /\ \A p \in Requests : OpOK(ops'[p], disk', debts') /\ Evolves(ops[p], ops'[p])
PROOF
  <1>1. \A p \in Requests : OpOK(ops[p], disk', debts')
    BY Zenon, GrowKeeps DEF StoreInv
  <1> QED BY Zenon, <1>1, Reflexive DEF Typed, StoreInv

\* The common case: the disks, the debts and the acknowledgements stay.
LEMMA SameDisks ==
  ASSUME StoreInv, UNCHANGED <<disk, debts, acked>>
  PROVE  /\ disk' \in Disks /\ debts' \in Debts /\ acked' \subseteq Ack
         /\ Grows(disk, disk') /\ Grows(debts, debts')
         /\ \A a \in acked' : a \in acked
         /\ \A n \in Nodes : \A v \in disk'[n] : v \in disk[n]
PROOF BY Zenon DEF StoreInv, Typed, Grows

\* put and delete.
LEMMA PutProgress ==
  ASSUME StoreInv, NEW o \in Requests, NEW ts \in Versions, put(o, ts)
  PROVE  Progress
PROOF
  <1> DEFINE op == ops[o]
             owners == _write_targets(op.pref)
             r == begin(op, ts, "writing", {_write_target(op.pref, n) : n \in owners})
  <1>1. /\ op.st = "new" /\ op.kind \in {"put", "delete"} /\ OpOK(op, disk, debts)
        /\ op.pref \in Placements /\ op \in Op
    BY Zenon, OpType DEF put, _admit, StoreInv, Typed
  <1>2. /\ ops' = [ops EXCEPT ![o] = r] /\ UNCHANGED <<disk, debts, acked>>
        /\ wire' = wire \cup Messages(o, op.coord, ts, op.pref, owners)
    BY Zenon DEF put, StoreInv, Typed
  <1>3. owners \in SUBSET (DOMAIN op.pref)
    BY DEF _write_targets
  <1>4. OpOK(r, disk', debts') /\ Evolves(op, r)
    BY Zenon, <1>1, <1>2, <1>3, BeginWrites DEF StoreInv, Typed
  <1>5. /\ Typed' /\ ops'[o] = r
        /\ \A p \in Requests : OpOK(ops'[p], disk', debts') /\ Evolves(ops[p], ops'[p])
    <2> HIDE DEF r
    <2> QED BY Zenon, <1>2, <1>4, SameDisks, OneRequest
  <1>6. /\ r.ts = ts /\ r.kind = op.kind /\ r.coord = op.coord /\ r.pref = op.pref
        /\ r.st \in {"writing", "done"}
        /\ DOMAIN r.tasks = {_write_target(op.pref, n) : n \in owners}
    <2>1. {_write_target(op.pref, n) : n \in owners} \in SUBSET Nodes
      BY Zenon, <1>1, <1>3, TargetsAreNodes
    <2>2. /\ r.ts = ts /\ r.kind = op.kind /\ r.coord = op.coord /\ r.pref = op.pref
          /\ DOMAIN r.tasks = {_write_target(op.pref, n) : n \in owners}
          /\ r.st = IF {_write_target(op.pref, n) : n \in owners} = {} THEN "done" ELSE "writing"
      <3>1. op \in Op /\ acked \subseteq Ack
        BY Zenon, <1>1 DEF StoreInv, Typed
      <3>2. ASSUME NEW targets \in SUBSET Nodes
            PROVE  LET b == begin(op, ts, "writing", targets) IN
                   /\ b.ts = ts /\ b.kind = op.kind /\ b.coord = op.coord /\ b.pref = op.pref
                   /\ DOMAIN b.tasks = targets
                   /\ b.st = IF targets = {} THEN "done" ELSE "writing"
        <4> HIDE DEF op
        <4> QED BY <3>1, Beginning
      <3> QED BY Zenon, <2>1, <3>2
    <2> QED BY Zenon, <2>2
  <1>7. \A m \in wire' : m \in wire \/ MessageOK(m, ops')
    <2> SUFFICES ASSUME NEW m \in Messages(o, op.coord, ts, op.pref, owners)
                 PROVE  MessageOK(m, ops')
      BY Zenon, <1>2
    <2>1. PICK n \in owners :
            m = [op |-> o, coord |-> op.coord, ts |-> ts, target |-> _write_target(op.pref, n),
                 intent |-> IF op.pref[n].handoff = NoNode THEN NoNode ELSE n]
      BY Zenon DEF Messages
    <2> HIDE DEF r
    <2>2. m \in Message
      BY Zenon, <1>1, <1>3, <2>1, OpType, PlacementsType DEF Message, _write_target
    <2>3. Written(m.ts, ops')
      BY Zenon, <1>1, <1>5, <1>6, <2>1 DEF Written, Mutations
    <2>4. m.intent # NoNode => m.target \notin DOMAIN op.pref
      BY Zenon, <1>1, <1>3, <2>1 DEF OpOK, Shape, _write_target
    <2>5. m.target \in DOMAIN r.tasks
      BY Zenon, <1>6, <2>1
    <2> QED BY Zenon, <1>1, <1>5, <1>6, <2>1, <2>2, <2>3, <2>4, <2>5 DEF MessageOK, Mutations
  <1> HIDE DEF r
  <1> QED BY Zenon, <1>2, <1>5, <1>7, SameDisks DEF Progress

\* get.
LEMMA GetProgress ==
  ASSUME StoreInv, NEW o \in Requests, get(o)
  PROVE  Progress
PROOF
  <1> DEFINE op == ops[o]
             targets == UNION {_sources(op.pref, n) : n \in _replication_targets(op.pref)}
             r == begin(op, NoVersion, "reading", targets)
  <1>1. /\ op.st = "new" /\ op.kind = "get" /\ OpOK(op, disk, debts)
        /\ op.pref \in Placements /\ op \in Op
    BY Zenon, OpType DEF get, _admit, StoreInv, Typed
  <1>2. /\ ops' = [ops EXCEPT ![o] = r] /\ UNCHANGED <<disk, debts, acked, wire>>
    BY Zenon DEF get, StoreInv, Typed
  <1>3. targets \in SUBSET Nodes
    BY <1>1, PlacementsType DEF _sources, _replication_targets
  <1>4. OpOK(r, disk, debts) /\ Evolves(op, r)
    <2> HIDE DEF targets
    <2>1. \A a \in acked : a.strict /\ Strict(op.pref) =>
            Cardinality({n \in DOMAIN op.pref : a.ts \in disk[n]}) >= a.q
      BY Zenon DEF StoreInv, AckOK
    <2> QED BY Zenon, <1>1, <1>3, <2>1, BeginReads DEF StoreInv, Typed
  <1> HIDE DEF r
  <1>5. /\ Typed'
        /\ \A p \in Requests : OpOK(ops'[p], disk', debts') /\ Evolves(ops[p], ops'[p])
    BY Zenon, <1>2, <1>4, SameDisks, OneRequest
  <1> QED BY Zenon, <1>2, <1>5, SameDisks DEF Progress

\* repair.
LEMMA RepairProgress ==
  ASSUME StoreInv, NEW o \in Requests, NEW w \in Requests, repair(o, w)
  PROVE  Progress
PROOF
  <1> DEFINE op == ops[o]
             r == begin(op, ops[w].ts, "looking",
                        {_write_target(op.pref, n) : n \in _repair_fanout(op.pref)})
  <1>1. op.st = "new" /\ op.kind = "repair" /\ OpOK(op, disk, debts)
    BY DEF repair, _admit, StoreInv
  <1>2. /\ ops' = [ops EXCEPT ![o] = r] /\ UNCHANGED <<disk, debts, acked, wire>>
    BY Zenon DEF repair, StoreInv, Typed
  <1>3. ops[w].ts \in Versions
    <2>1. Shape(ops[w]) /\ ops[w].kind \in Mutations /\ ops[w].result = "short"
      BY DEF repair, StoreInv, OpOK
    <2> QED BY Zenon, <2>1 DEF Shape
  <1>4. OpOK(r, disk, debts) /\ Evolves(op, r)
    BY Zenon, <1>1, <1>3, BeginLooks DEF StoreInv, Typed
  <1> HIDE DEF r
  <1>5. /\ Typed'
        /\ \A p \in Requests : OpOK(ops'[p], disk', debts') /\ Evolves(ops[p], ops'[p])
    BY Zenon, <1>2, <1>4, SameDisks, OneRequest
  <1> QED BY Zenon, <1>2, <1>5, SameDisks DEF Progress

\* The version, and the obligation, are stored.
LEMMA Obliging ==
  ASSUME StoreInv, NEW n \in Nodes, NEW ts \in Versions, NEW intents \in SUBSET Nodes,
         _oblige(n, ts, intents)
  PROVE  /\ disk' \in Disks /\ debts' \in Debts /\ Grows(disk, disk') /\ Grows(debts, debts')
         /\ ts \in disk'[n] /\ \A k \in Nodes : \A v \in disk'[k] : v \in disk[k] \/ v = ts
         /\ \A i \in intents \ {n} : <<i, ts>> \in debts'[n]
PROOF
  <1> DEFINE new == {<<i, ts>> : i \in intents \ {n}}
  <1>1. disk \in [Nodes -> SUBSET Versions] /\ debts \in [Nodes -> SUBSET (Nodes \X Versions)]
    BY DEF StoreInv, Typed, Disks, Debts
  <1>2. disk' = [disk EXCEPT ![n] = disk[n] \cup {ts}] /\ debts' = [debts EXCEPT ![n] = debts[n] \cup new]
    BY <1>1 DEF _oblige
  <1>3. new \subseteq Nodes \X Versions /\ \A i \in intents \ {n} : <<i, ts>> \in new
    OBVIOUS
  <1> HIDE DEF new
  <1>4. disk' \in Disks /\ debts' \in Debts /\ Grows(disk, disk') /\ Grows(debts, debts')
    BY <1>1, <1>2, <1>3 DEF Disks, Debts, Grows
  <1>5. ts \in disk'[n] /\ \A k \in Nodes : \A v \in disk'[k] : v \in disk[k] \/ v = ts
    BY <1>1, <1>2
  <1>6. \A i \in intents \ {n} : <<i, ts>> \in debts'[n]
    BY <1>1, <1>2, <1>3
  <1> QED BY <1>4, <1>5, <1>6

\* The task of a message ends, or has ended before.
LEMMA AnsweredProgress ==
  ASSUME StoreInv, NEW m \in wire, NEW st \in {"ok", "failing", "failed"}, Answered(m, st),
         disk' \in Disks, debts' \in Debts, Grows(disk, disk'), Grows(debts, debts'),
         acked' = acked,
         st = "ok" => m.ts \in disk'[m.target],
         st = "failing" => m.target # m.coord,
         st = "failed" => m.target = m.coord \/ m.intent # NoNode
  PROVE  /\ Typed'
         /\ \A p \in Requests : OpOK(ops'[p], disk', debts') /\ Evolves(ops[p], ops'[p])
PROOF
  <1>1. MessageOK(m, ops) /\ acked' \subseteq Ack
    BY Zenon DEF StoreInv, Typed
  <1>2. CASE m.op \in Requests /\ ops[m.op].tasks[m.target].st = "sent"
    <2> DEFINE o == m.op
               op == ops[o]
               r == settle(op, m.target, st)
    <2>1. ops' = [ops EXCEPT ![o] = r]
      BY Zenon, <1>2 DEF Answered, StoreInv, Typed
    <2>2. OpOK(op, disk, debts)
      BY Zenon, <1>2 DEF StoreInv
    <2>3. OpOK(op, disk', debts')
      BY <2>2, GrowKeeps
    <2>4. OpOK(r, disk', debts') /\ Evolves(op, r)
      <3>1. Live(op.tasks[m.target])
        BY <1>2 DEF Live
      <3> QED BY Zenon, <1>1, <1>2, <2>3, <3>1, SettleKeeps DEF MessageOK
    <2> HIDE DEF r
    <2> QED BY Zenon, <1>1, <1>2, <2>1, <2>4, OneRequest
  <1>3. CASE ~(m.op \in Requests /\ ops[m.op].tasks[m.target].st = "sent")
    BY Zenon, <1>1, <1>3, NoRequest DEF Answered
  <1> QED BY Zenon, <1>2, <1>3

\* A replica stores a write and answers.
LEMMA DeliverProgress ==
  ASSUME StoreInv, NEW m \in wire, NEW answered \in BOOLEAN, Deliver(m, answered)
  PROVE  Progress
PROOF
  <1>1. /\ m \in Message /\ m.target \in Nodes /\ m.ts \in Versions /\ Written(m.ts, ops)
        /\ {m.intent} \ {NoNode} \in SUBSET Nodes
    BY Zenon DEF StoreInv, MessageOK, Message
  <1>2. /\ disk' \in Disks /\ debts' \in Debts /\ Grows(disk, disk') /\ Grows(debts, debts')
        /\ m.ts \in disk'[m.target]
        /\ \A k \in Nodes : \A v \in disk'[k] : v \in disk[k] \/ v = m.ts
    BY <1>1, Obliging DEF Deliver
  <1>3. acked' = acked /\ wire' = wire \ {m}
    BY Zenon DEF Deliver
  <1>4. /\ Typed'
        /\ \A p \in Requests : OpOK(ops'[p], disk', debts') /\ Evolves(ops[p], ops'[p])
    <2>1. CASE answered
      <3>1. Answered(m, "ok")
        BY Zenon, <2>1 DEF Deliver
      <3> QED BY Zenon, <1>2, <1>3, <3>1, AnsweredProgress
    <2>2. CASE ~answered
      <3>1. ops' = ops
        BY Zenon, <2>2 DEF Deliver
      <3> QED BY Zenon, <1>2, <1>3, <3>1, NoRequest DEF StoreInv, Typed
    <2> QED BY Zenon, <2>1, <2>2
  <1>5. \A n \in Nodes : \A v \in disk'[n] : v \in disk[n] \/ Written(v, ops)
    BY <1>1, <1>2
  <1> QED BY Zenon, <1>2, <1>3, <1>4, <1>5 DEF Progress

\* A replica that drains refuses a write.
LEMMA RefuseProgress ==
  ASSUME StoreInv, NEW m \in wire, Refuse(m)
  PROVE  Progress
PROOF
  <1>1. /\ m.target # m.coord /\ Answered(m, Failure(m)) /\ wire' = wire \ {m}
        /\ UNCHANGED <<disk, debts, acked>>
    BY Zenon DEF Refuse
  <1>2. /\ Failure(m) \in {"ok", "failing", "failed"} /\ Failure(m) # "ok"
        /\ Failure(m) = "failed" => m.intent # NoNode
    BY <1>1 DEF Failure
  <1> HIDE DEF Failure
  <1>3. /\ Typed'
        /\ \A p \in Requests : OpOK(ops'[p], disk', debts') /\ Evolves(ops[p], ops'[p])
    BY Zenon, <1>1, <1>2, SameDisks, AnsweredProgress
  <1> QED BY Zenon, <1>1, <1>3, SameDisks DEF Progress

\* A write that failed is turned into a debt.
LEMMA WriteFailsProgress ==
  ASSUME StoreInv, NEW o \in Requests, NEW t, WriteFails(o, t)
  PROVE  Progress
PROOF
  <1> DEFINE op == ops[o]
  <1>1. /\ op.kind \in Mutations /\ t \in DOMAIN op.tasks /\ op.st # "looking"
        /\ op.tasks[t].st = "sent" /\ UNCHANGED <<disk, debts, acked, wire>>
        /\ OpOK(op, disk, debts)
    BY DEF WriteFails, StoreInv
  <1>2. PICK n \in DOMAIN op.pref :
          /\ _write_target(op.pref, n) = t
          /\ ops' = [ops EXCEPT ![o] = settle(op, t,
                       IF t = n /\ t # op.coord THEN "failing" ELSE "failed")]
    BY Zenon DEF WriteFails, StoreInv, Typed
  <1> DEFINE st == IF t = n /\ t # op.coord THEN "failing" ELSE "failed"
             r == settle(op, t, st)
  <1>3. op.st \in {"writing", "done"} /\ Live(op.tasks[t])
    BY Zenon, <1>1 DEF OpOK, Shape, Op, Live, Mutations
  <1>4. /\ st \in {"ok", "failing", "failed", "dropped"} /\ st # "ok"
        /\ st = "failing" => t # op.coord
        /\ ~(st = "failed" /\ t # op.coord /\ t \in DOMAIN op.pref)
    BY Zenon, <1>1, <1>2 DEF OpOK, Shape, _write_target
  <1>a. ops' = [ops EXCEPT ![o] = r]
    BY <1>2
  <1> HIDE DEF st
  <1>5. OpOK(r, disk', debts') /\ Evolves(op, r)
    BY Zenon, <1>1, <1>3, <1>4, SettleKeeps
  <1> HIDE DEF r
  <1>6. /\ Typed'
        /\ \A p \in Requests : OpOK(ops'[p], disk', debts') /\ Evolves(ops[p], ops'[p])
    BY Zenon, <1>1, <1>5, <1>a, SameDisks, OneRequest
  <1> QED BY Zenon, <1>1, <1>6, SameDisks DEF Progress

\* The debt of a failed write is stored, or is not.
LEMMA RecordProgress ==
  ASSUME StoreInv, NEW o \in Requests, NEW t, NEW stored \in BOOLEAN,
         _record_obligation(o, t, stored)
  PROVE  Progress
PROOF
  <1> DEFINE op == ops[o]
             st == IF stored THEN "failed" ELSE "dropped"
             r == settle(op, t, st)
  <1>1. /\ t \in DOMAIN op.tasks /\ op.tasks[t].st = "failing" /\ UNCHANGED <<acked, wire>>
        /\ OpOK(op, disk, debts) /\ ops' = [ops EXCEPT ![o] = r]
    BY Zenon DEF _record_obligation, StoreInv, Typed
  <1>2. /\ op.kind \in Mutations /\ op.st \in {"writing", "done"} /\ Live(op.tasks[t])
        /\ op.ts \in Versions /\ op.coord \in Nodes /\ t \in Nodes
        /\ t # op.coord
    BY Zenon, <1>1, OpType, TasksType DEF OpOK, Shape, Live, Held
  <1>3. /\ disk' \in Disks /\ debts' \in Debts /\ Grows(disk, disk') /\ Grows(debts, debts')
        /\ \A k \in Nodes : \A v \in disk'[k] : v \in disk[k] \/ v = op.ts
        /\ stored => op.ts \in disk'[op.coord] /\ <<t, op.ts>> \in debts'[op.coord]
    <2>1. CASE stored
      <3>1. _oblige(op.coord, op.ts, {t}) /\ {t} \in SUBSET Nodes
        BY Zenon, <1>2, <2>1 DEF _record_obligation
      <3> QED BY <1>2, <3>1, Obliging
    <2>2. CASE ~stored
      BY Zenon, <1>1, <2>2, SameDisks DEF _record_obligation
    <2> QED BY Zenon, <2>1, <2>2
  <1>4. /\ st \in {"ok", "failing", "failed", "dropped"} /\ st # "ok" /\ st # "failing"
        /\ st = "failed" => Owed(t, op.ts, disk', debts')
    BY Zenon, <1>2, <1>3 DEF Owed
  <1> HIDE DEF st
  <1>5. OpOK(op, disk', debts')
    BY Zenon, <1>1, <1>3, GrowKeeps
  <1>6. OpOK(r, disk', debts') /\ Evolves(op, r)
    BY Zenon, <1>1, <1>2, <1>4, <1>5, SettleKeeps
  <1> HIDE DEF r
  <1>7. /\ Typed'
        /\ \A p \in Requests : OpOK(ops'[p], disk', debts') /\ Evolves(ops[p], ops'[p])
    <2>1. acked' \subseteq Ack
      BY Zenon, <1>1 DEF StoreInv, Typed
    <2> QED BY Zenon, <1>1, <1>3, <1>6, <2>1, OneRequest
  <1>8. \A n \in Nodes : \A v \in disk'[n] : v \in disk[n] \/ Written(v, ops)
    BY Zenon, <1>2, <1>3 DEF Written
  <1> QED BY Zenon, <1>1, <1>3, <1>7, <1>8 DEF Progress

\* Versions that enough owners hold may be acknowledged.
LEMMA AckFits ==
  ASSUME StoreInv, NEW o \in Requests, NEW k \in Nat, k >= ops[o].q, ops[o].ts \in Versions,
         Strict(ops[o].pref) =>
           Cardinality({n \in DOMAIN ops[o].pref : ops[o].ts \in disk[n]}) >= k
  PROVE  LET a == [ts |-> ops[o].ts, q |-> ops[o].q, strict |-> Strict(ops[o].pref)] IN
         a \in Ack /\ AckOK(a, ops, disk)
PROOF
  <1> DEFINE op == ops[o]
             a == [ts |-> op.ts, q |-> op.q, strict |-> Strict(op.pref)]
  <1>1. op \in Op /\ op.q \in 1 .. Rf /\ op.pref \in Placements
    BY Zenon, OpType DEF StoreInv, Typed
  <1>2. Strict(op.pref) \in BOOLEAN
    BY Zenon DEF Strict
  <1>3. a \in Ack
    BY Zenon, <1>1, <1>2 DEF Ack
  <1>4. ASSUME a.strict, NEW p \in Requests, Strict(ops[p].pref)
        PROVE  Cardinality({n \in DOMAIN ops[p].pref : a.ts \in disk[n]}) >= a.q
    <2>1. Strict(op.pref) /\ DOMAIN ops[p].pref = DOMAIN op.pref
      BY Zenon, <1>4 DEF StoreInv, OneRing
    <2>2. Cardinality({n \in DOMAIN op.pref : op.ts \in disk[n]}) \in Nat
      BY Zenon, <1>1, OwnersFinite
    <2> QED BY <1>1, <2>1, <2>2
  <1> QED BY Zenon, <1>3, <1>4 DEF AckOK

\* _ensure_quorum: the write is acknowledged, or fails.
LEMMA EnsureProgress ==
  ASSUME StoreInv, NEW o \in Requests, _ensure_quorum(o)
  PROVE  Progress
PROOF
  <1> DEFINE op == ops[o]
             count == op.base + Cardinality(Succeeded(o))
             result == IF count >= op.q THEN "ok" ELSE IF count = 0 THEN "error" ELSE "short"
             a == [ts |-> op.ts, q |-> op.q, strict |-> Strict(op.pref)]
             r == finish(op, result)
  <1>1. /\ op.st = "writing" /\ OpOK(op, disk, debts) /\ UNCHANGED <<disk, debts, wire>>
        /\ ops' = [ops EXCEPT ![o] = r]
        /\ acked' = IF count < op.q THEN acked ELSE acked \cup {a}
    BY Zenon DEF _ensure_quorum, StoreInv, Typed
  <1>2. op \in Op /\ op.kind \in Mutations /\ op.ts \in Versions /\ op.q \in Nat
        /\ op.pref \in Placements
    <2>1. Shape(op)
      BY Zenon, <1>1 DEF OpOK
    <2>2. op \in Op /\ op.kind \in Mutations /\ op.ts \in Versions
      BY Zenon, <1>1, <2>1 DEF Shape
    <2> QED BY Zenon, <2>2, OpType
  <1>3. DOMAIN op.tasks \subseteq Nodes /\ DOMAIN op.pref \subseteq Nodes
    BY <1>2, OpType, TasksType, PlacementsType
  <1>4. count \in Nat /\ (Strict(op.pref) =>
          Cardinality({n \in DOMAIN op.pref : op.ts \in disk[n]}) >= count)
    <2>1. count \in Nat
      BY Zenon, <1>1, <1>3, QuorumHeld DEF Succeeded
    <2>2. Strict(op.pref) => DOMAIN op.tasks \subseteq DOMAIN op.pref
      BY Zenon, <1>1, <1>2, StrictTargets DEF OpOK
    <2>3. Strict(op.pref) =>
            Cardinality({n \in DOMAIN op.pref : op.ts \in disk[n]}) >= count
      BY Zenon, <1>1, <1>3, <2>2, QuorumHeld DEF Succeeded
    <2> QED BY <2>1, <2>3
  <1> HIDE DEF count
  <1>5. count >= op.q => a \in Ack /\ AckOK(a, ops, disk)
    BY Zenon, <1>2, <1>4, AckFits
  <1>6. OpOK(r, disk, debts) /\ Evolves(op, r)
    BY Zenon, <1>1, FinishWriteKeeps
  <1> HIDE DEF r, a
  <1>7. acked' \subseteq Ack /\ \A x \in acked' : x \in acked \/ (x = a /\ AckOK(a, ops, disk))
    BY <1>1, <1>2, <1>4, <1>5 DEF StoreInv, Typed
  <1>8. disk' \in Disks /\ debts' \in Debts /\ Grows(disk, disk') /\ Grows(debts, debts')
    BY Zenon, <1>1 DEF StoreInv, Typed, Grows
  <1>9. /\ Typed'
        /\ \A p \in Requests : OpOK(ops'[p], disk', debts') /\ Evolves(ops[p], ops'[p])
    BY Zenon, <1>1, <1>6, <1>7, <1>8, OneRequest
  <1>10. \A x \in acked' : x \in acked \/ AckOK(x, ops', disk')
    <2>1. \A p \in Requests : Shape(ops[p]) /\ Evolves(ops[p], ops'[p])
      BY Zenon, <1>9 DEF StoreInv, OpOK
    <2> QED BY <1>7, <1>8, <2>1, AckStays
  <1> QED BY Zenon, <1>1, <1>8, <1>9, <1>10 DEF Progress

\* A replica answers a read or a lookup with what it holds.
LEMMA AnswersProgress ==
  ASSUME StoreInv, NEW o \in Requests, NEW t, NEW st \in {"reading", "looking"},
         NEW got \in Versions \cup {NoVersion}, Answers(o, t, st, got),
         t \in Nodes => (got # NoVersion => got \in disk[t]),
         t \in Nodes /\ st = "reading" => \A w \in disk[t] : Covers(got, w)
  PROVE  Progress
PROOF
  <1> DEFINE op == ops[o]
             r == update(op, t, [st |-> "ok", got |-> got])
  <1>1. /\ op.st = st /\ t \in DOMAIN op.tasks /\ op.tasks[t].st = "sent"
        /\ OpOK(op, disk, debts) /\ ops' = [ops EXCEPT ![o] = r]
        /\ UNCHANGED <<disk, debts, wire, acked>>
    BY Zenon DEF Answers, StoreInv, Typed
  <1>2. t \in Nodes
    BY Zenon, <1>1, OpType, TasksType DEF OpOK, Shape
  <1>3. OpOK(r, disk, debts) /\ Evolves(op, r)
    BY Zenon, <1>1, <1>2, AnswerKeeps
  <1> HIDE DEF r
  <1>4. /\ Typed'
        /\ \A p \in Requests : OpOK(ops'[p], disk', debts') /\ Evolves(ops[p], ops'[p])
    BY Zenon, <1>1, <1>3, SameDisks, OneRequest
  <1> QED BY Zenon, <1>1, <1>4, SameDisks DEF Progress

\* read and lookup.
LEMMA ReadProgress ==
  ASSUME StoreInv, NEW o \in Requests, NEW t \in Nodes, read(o, t) \/ lookup(o, t)
  PROVE  Progress
PROOF
  <1>1. disk[t] \in SUBSET Versions /\ disk[t] \intersect {ops[o].ts} \in SUBSET Versions
    BY DEF StoreInv, Typed, Disks
  <1>2. CASE read(o, t)
    <2>1. /\ _local_read(t) \in Versions \cup {NoVersion}
          /\ _local_read(t) # NoVersion => _local_read(t) \in disk[t]
          /\ \A w \in disk[t] : Covers(_local_read(t), w)
      BY Zenon, <1>1, LastIs
    <2> HIDE DEF _local_read
    <2> QED BY Zenon, <1>2, <2>1, AnswersProgress DEF read
  <1>3. CASE lookup(o, t)
    <2> DEFINE got == _lookup_local(t, ops[o].ts)
    <2>1. /\ got \in Versions \cup {NoVersion} /\ (got # NoVersion => got \in disk[t])
      BY Zenon, <1>1, NewestIs DEF _lookup_local
    <2>2. Answers(o, t, "looking", got)
      BY <1>3 DEF lookup
    <2> HIDE DEF got
    <2> QED BY Zenon, <2>1, <2>2, AnswersProgress
  <1> QED BY <1>2, <1>3

\* What a read that ends has learnt: its winner is held somewhere, and as new as a
\* version held somewhere that covers what its quorum had to see.
LEMMA Winner ==
  ASSUME StoreInv, NEW o \in Requests, ops[o].st = "reading"
  PROVE  LET answers == Succeeded(o)
             winner == Newest(_visible_versions(o, answers))
         IN  /\ winner \in Versions \cup {NoVersion}
             /\ winner # NoVersion => \E t \in answers : /\ ops[o].tasks[t].got = winner
                                                        /\ t \in Nodes /\ winner \in disk[t]
             /\ _read_response_count(ops[o].pref, answers) >= ops[o].q =>
                  \A w \in ops[o].floor : \E x \in Versions :
                    /\ Encoded[w] <= Encoded[x] /\ x <= winner
                    /\ \E t \in Nodes : x \in disk[t]
PROOF
  <1> DEFINE op == ops[o]
             answers == Succeeded(o)
             seen == _visible_versions(o, answers)
             winner == Newest(seen)
  <1>1. /\ op \in Op /\ op.tasks \in TaskTables /\ OpOK(op, disk, debts)
        /\ op.floor \subseteq Versions
    BY Zenon, OpType DEF StoreInv, Typed
  <1>2. /\ answers = {t \in DOMAIN op.tasks : op.tasks[t].st = "ok"}
        /\ answers \subseteq Nodes /\ \A t \in answers : op.tasks[t].got \in Versions \cup {NoVersion}
    BY Zenon, <1>1, TasksType DEF Succeeded, Task
  <1>3. /\ seen \in SUBSET Versions /\ \A v \in seen : \E t \in answers : op.tasks[t].got = v
        /\ \A t \in answers : op.tasks[t].got # NoVersion => op.tasks[t].got \in seen
    BY Zenon, <1>2 DEF _visible_versions
  <1> HIDE DEF seen
  <1>4. /\ winner \in Versions \cup {NoVersion}
        /\ winner # NoVersion => winner \in seen
        /\ \A v \in seen : winner >= v
    BY Zenon, <1>3, NewestIs
  <1> HIDE DEF winner, answers
  <1>5. winner # NoVersion => \E t \in answers : /\ op.tasks[t].got = winner
                                                 /\ t \in Nodes /\ winner \in disk[t]
    <2> SUFFICES ASSUME winner # NoVersion
                 PROVE  \E t \in answers : /\ op.tasks[t].got = winner
                                           /\ t \in Nodes /\ winner \in disk[t]
      BY Zenon
    <2>1. PICK t \in answers : op.tasks[t].got = winner
      BY <1>3, <1>4
    <2> QED BY Zenon, <1>1, <1>2, <2>1 DEF OpOK, Seen
  <1>6. ASSUME _read_response_count(op.pref, answers) >= op.q, NEW w \in op.floor
        PROVE  \E x \in Versions : /\ Encoded[w] <= Encoded[x] /\ x <= winner
                                   /\ \E t \in Nodes : x \in disk[t]
    <2>1. Strict(op.pref) /\ Fresh(op, disk)
      BY Zenon, <1>1, <1>6 DEF OpOK, Fresh
    <2>2. Cardinality(DOMAIN op.pref) <= Rf
      BY Zenon, <2>1 DEF StoreInv, OneRing
    <2>3. PICK n \in answers : Covers(op.tasks[n].got, w)
      BY <1>1, <1>2, <1>6, <2>1, <2>2, ReadMeets
    <2> DEFINE x == op.tasks[n].got
    <2>4. x \in Versions /\ Encoded[w] <= Encoded[x]
      BY Zenon, <2>3 DEF Covers
    <2>5. n \in Nodes /\ x \in disk[n]
      BY Zenon, <1>1, <1>2, <2>4, NoVersionApart DEF OpOK, Seen
    <2>6. winner >= x
      BY Zenon, <1>3, <1>4, <2>4, NoVersionApart
    <2>7. x <= winner
      <3>1. x \in Nat /\ winner \in Nat
        BY Zenon, <1>4, <2>4, NoVersionApart
      <3> HIDE DEF x
      <3> QED BY <2>6, <3>1
    <2> QED BY Zenon, <2>4, <2>5, <2>7
  <1> QED BY Zenon, <1>4, <1>5, <1>6 DEF winner, answers, seen

\* _get ends: a version is selected, repairs are scheduled.
LEMMA GetEndProgress ==
  ASSUME StoreInv, NEW o \in Requests, _get(o)
  PROVE  Progress
PROOF
  <1> DEFINE op == ops[o]
             answers == Succeeded(o)
             winner == Newest(_visible_versions(o, answers))
             enough == _read_response_count(op.pref, answers) >= op.q
             result == IF ~enough THEN "error"
                       ELSE IF winner = NoVersion \/ _is_tombstone(winner) THEN "absent" ELSE "ok"
             ts == IF enough THEN winner ELSE NoVersion
             r == [finish(op, result) EXCEPT !.ts = ts]
  <1>1. /\ op.st = "reading" /\ OpOK(op, disk, debts) /\ UNCHANGED <<disk, debts, acked>>
        /\ ops' = [ops EXCEPT ![o] = r]
        /\ IF enough THEN _schedule_read_repair(o, answers, winner)
                     ELSE UNCHANGED <<repairs, wire>>
    BY DEF _get, StoreInv, Typed
  <1>2. /\ winner \in Versions \cup {NoVersion}
        /\ winner # NoVersion => \E t \in answers : /\ op.tasks[t].got = winner
                                                   /\ t \in Nodes /\ winner \in disk[t]
    BY <1>1, Winner
  <1> HIDE DEF winner
  <1>3. OpOK(r, disk, debts) /\ Evolves(op, r)
    <2>1. result \in {"ok", "error", "absent"} /\ ts \in Versions \cup {NoVersion}
      BY Zenon, <1>2
    <2> HIDE DEF result, ts
    <2> QED BY <1>1, <2>1, FinishReadKeeps
  <1> HIDE DEF r
  <1>4. /\ Typed'
        /\ \A p \in Requests : OpOK(ops'[p], disk', debts') /\ Evolves(ops[p], ops'[p])
    BY Zenon, <1>1, <1>3, SameDisks, OneRequest
  <1>5. ASSUME NEW m \in wire', m \notin wire
        PROVE  MessageOK(m, ops')
    <2> DEFINE holders == {n \in answers : op.tasks[n].got = winner}
               holder == IF op.coord \in holders THEN op.coord ELSE CHOOSE n \in holders : TRUE
               new == {[coord |-> op.coord, target |-> n, ts |-> winner, via |-> 0] :
                         n \in _repair_targets(op.pref, answers, op.tasks, winner)} \ repairs
    <2>1. /\ winner # NoVersion
          /\ wire' = wire \cup {[op |-> 0, coord |-> op.coord, ts |-> winner,
                                 target |-> holder, intent |-> q.target] : q \in new}
      BY Zenon, <1>1, <1>5 DEF _schedule_read_repair
    <2>2. PICK t \in answers : op.tasks[t].got = winner /\ t \in Nodes /\ winner \in disk[t]
      BY Zenon, <1>2, <2>1
    <2>3. op \in Op /\ op.coord \in Nodes /\ DOMAIN op.tasks \subseteq Nodes
      BY Zenon, <1>1, OpType, TasksType DEF OpOK, Shape
    <2>4. holder \in Nodes
      <3>1. holders # {} /\ holders \subseteq Nodes
        BY Zenon, <2>2, <2>3 DEF Succeeded
      <3> HIDE DEF holders
      <3> QED BY <3>1
    <2> HIDE DEF holder
    <2>5. PICK q \in new : m = [op |-> 0, coord |-> op.coord, ts |-> winner,
                                target |-> holder, intent |-> q.target]
      BY Zenon, <1>5, <2>1
    <2>6. q.target \in Nodes
      BY <2>3 DEF _repair_targets, Succeeded
    <2> HIDE DEF new
    <2>7. winner \in Versions
      BY Zenon, <1>2, <2>1
    <2>8. m \in Message /\ m.ts = winner /\ m.op \notin Requests
      BY Zenon, <2>3, <2>4, <2>5, <2>6, <2>7, StoreAssumption DEF Message
    <2>9. Written(winner, ops')
      <3>1. Written(winner, ops)
        BY Zenon, <2>2 DEF StoreInv
      <3>2. \A p \in Requests : Shape(ops[p]) /\ Evolves(ops[p], ops'[p])
        BY Zenon, <1>4 DEF StoreInv, OpOK
      <3> QED BY <2>7, <3>1, <3>2, WrittenStays
    <2> QED BY Zenon, <2>8, <2>9 DEF MessageOK
  <1> QED BY Zenon, <1>1, <1>4, <1>5, SameDisks DEF Progress

\* _run_repair ends, or writes what it found.
LEMMA RunRepairProgress ==
  ASSUME StoreInv, NEW o \in Requests, _run_repair(o)
  PROVE  Progress
PROOF
  <1> DEFINE op == ops[o]
             holders == _repair_holders(o)
             missing == _repair_fanout(op.pref) \ holders
             found == \E t \in Succeeded(o) : op.tasks[t].got = op.ts
             targets == {_write_target(op.pref, n) : n \in missing}
             a == [ts |-> op.ts, q |-> op.q, strict |-> Strict(op.pref)]
  <1>1. op.st = "looking" /\ OpOK(op, disk, debts) /\ UNCHANGED <<disk, debts>>
    BY DEF _run_repair, StoreInv
  <1>2. /\ op \in Op /\ op.kind = "repair" /\ op.ts \in Versions /\ op.q \in 1 .. Rf
        /\ op.pref \in Placements /\ op.coord \in Nodes
    BY Zenon, <1>1, OpType DEF OpOK, Shape, Mutations
  <1>3. /\ holders \in SUBSET (DOMAIN op.pref) /\ \A n \in holders : op.ts \in disk[n]
        /\ Cardinality(holders) \in Nat
    BY Zenon, <1>1, RepairHolders
  <1>4. disk' \in Disks /\ debts' \in Debts /\ Grows(disk, disk') /\ Grows(debts, debts')
    BY Zenon, <1>1 DEF StoreInv, Typed, Grows
  <1>5. CASE found /\ missing # {}
    <2> DEFINE r == [op EXCEPT !.st = "writing", !.base = Cardinality(holders),
                               !.tasks = [t \in targets |-> Sent]]
    <2>1. /\ ops' = [ops EXCEPT ![o] = r] /\ acked' = acked
          /\ wire' = wire \cup Messages(o, op.coord, op.ts, op.pref, missing)
      BY Zenon, <1>5 DEF _run_repair, StoreInv, Typed
    <2>2. OpOK(r, disk, debts) /\ Evolves(op, r) /\ r.st = "writing" /\ DOMAIN r.tasks = targets
      BY Zenon, <1>1, RepairWriteKeeps
    <2> HIDE DEF r
    <2>3. /\ Typed' /\ ops'[o] = r
          /\ \A p \in Requests : OpOK(ops'[p], disk', debts') /\ Evolves(ops[p], ops'[p])
      <3>1. acked' \subseteq Ack
        BY Zenon, <2>1 DEF StoreInv, Typed
      <3> QED BY Zenon, <1>1, <1>4, <2>1, <2>2, <3>1, OneRequest
    <2>4. /\ r.ts = op.ts /\ r.kind = op.kind /\ r.coord = op.coord /\ r.pref = op.pref
      BY Zenon, <1>1, <1>2, <2>2 DEF Evolves, Mutations
    <2>5. ASSUME NEW m \in Messages(o, op.coord, op.ts, op.pref, missing)
          PROVE  MessageOK(m, ops')
      <3>1. PICK n \in missing :
              m = [op |-> o, coord |-> op.coord, ts |-> op.ts,
                   target |-> _write_target(op.pref, n),
                   intent |-> IF op.pref[n].handoff = NoNode THEN NoNode ELSE n]
        BY Zenon, <2>5 DEF Messages
      <3>2. n \in DOMAIN op.pref
        BY Zenon DEF _repair_fanout
      <3>3. m \in Message
        BY Zenon, <1>2, <3>1, <3>2, PlacementsType DEF Message, _write_target
      <3>4. Written(m.ts, ops')
        BY Zenon, <1>2, <2>3, <2>4, <3>1 DEF Written, Mutations
      <3>5. m.intent # NoNode => m.target \notin DOMAIN op.pref
        BY Zenon, <1>1, <3>1, <3>2 DEF OpOK, Shape, _write_target
      <3>6. m.target \in DOMAIN r.tasks
        BY Zenon, <2>2, <3>1
      <3> QED BY Zenon, <1>2, <2>2, <2>3, <2>4, <3>1, <3>3, <3>4, <3>5, <3>6 DEF MessageOK, Mutations
    <2> HIDE DEF missing, holders
    <2> QED BY Zenon, <1>1, <1>4, <2>1, <2>3, <2>5 DEF Progress
  <1>6. CASE ~(found /\ missing # {})
    <2> DEFINE result == IF ~found THEN "error"
                         ELSE IF Cardinality(holders) >= op.q THEN "ok" ELSE "short"
               r == [finish(op, result) EXCEPT !.tasks = NoTasks]
    <2>1. /\ ops' = [ops EXCEPT ![o] = r] /\ wire' = wire
          /\ acked' = IF found /\ Cardinality(holders) >= op.q THEN acked \cup {a} ELSE acked
      BY Zenon, <1>6 DEF _run_repair, StoreInv, Typed
    <2>2. OpOK(r, disk, debts) /\ Evolves(op, r)
      <3>1. result \in {"ok", "error", "short"}
        BY Zenon
      <3> HIDE DEF result
      <3> QED BY Zenon, <1>1, <3>1, RepairEndKeeps
    <2> HIDE DEF r
    <2>3. Cardinality(holders) >= op.q => a \in Ack /\ AckOK(a, ops, disk)
      <3> DEFINE copies == {n \in DOMAIN op.pref : op.ts \in disk[n]}
      <3>1. copies \in SUBSET (DOMAIN op.pref) /\ holders \subseteq copies
        BY Zenon, <1>3
      <3> HIDE DEF holders
      <3>2. Cardinality(copies) >= Cardinality(holders)
        <4> HIDE DEF copies
        <4>1. Cardinality(holders) <= Cardinality(copies) /\ Cardinality(copies) \in Nat
          BY Zenon, <1>2, <1>3, <3>1, MoreCopies, OwnersFinite
        <4> QED BY <1>3, <4>1
      <3> QED BY Zenon, <1>2, <1>3, <3>2, AckFits
    <2> HIDE DEF a, holders
    <2>4. acked' \subseteq Ack /\ \A x \in acked' : x \in acked \/ (x = a /\ AckOK(a, ops, disk))
      BY Zenon, <2>1, <2>3 DEF StoreInv, Typed
    <2>5. /\ Typed'
          /\ \A p \in Requests : OpOK(ops'[p], disk', debts') /\ Evolves(ops[p], ops'[p])
      BY Zenon, <1>1, <1>4, <2>1, <2>2, <2>4, OneRequest
    <2>6. \A x \in acked' : x \in acked \/ AckOK(x, ops', disk')
      <3>1. \A p \in Requests : Shape(ops[p]) /\ Evolves(ops[p], ops'[p])
        BY Zenon, <2>5 DEF StoreInv, OpOK
      <3> QED BY Zenon, <1>4, <2>4, <3>1, AckStays
    <2> QED BY Zenon, <1>1, <1>4, <2>1, <2>5, <2>6 DEF Progress
  <1> QED BY Zenon, <1>5, <1>6

\* Draining, and a read repair given up, touch no request.
LEMMA QuietProgress ==
  ASSUME StoreInv, UNCHANGED <<disk, debts, ops, wire, acked>>
  PROVE  Progress
PROOF
  <1>1. /\ Typed'
        /\ \A p \in Requests : OpOK(ops'[p], disk', debts') /\ Evolves(ops[p], ops'[p])
    BY Zenon, SameDisks, NoRequest
  <1> QED BY Zenon, <1>1, SameDisks DEF Progress

\* Every step makes progress.
LEMMA StepProgress ==
  ASSUME StoreInv, [Next]_vars
  PROVE  Progress
PROOF
  <1>1. ASSUME NEW o \in Requests, Request(o)
        PROVE  Progress
    BY <1>1, StampsAre, PutProgress, GetProgress, RepairProgress DEF Request
  <1>2. ASSUME NEW o \in Requests, Coordinate(o)
        PROVE  Progress
    BY <1>2, EnsureProgress, GetEndProgress, RunRepairProgress, WriteFailsProgress,
       ReadProgress, RecordProgress DEF Coordinate
  <1>3. ASSUME NEW m \in wire, Refuse(m) \/ \E answered \in BOOLEAN : Deliver(m, answered)
        PROVE  Progress
    BY <1>3, RefuseProgress, DeliverProgress
  <1>4. ASSUME NEW r \in repairs, ReadRepairFails(r)
        PROVE  Progress
    BY <1>4, QuietProgress DEF ReadRepairFails
  <1>5. ASSUME NEW n \in Draining, pause(n) \/ Drain(n)
        PROVE  Progress
    BY <1>5, QuietProgress, Zenon
       DEF pause, Drain, DrainMutations, DrainPending, stop_read_repairs, close
  <1>6. CASE UNCHANGED vars
    BY <1>6, QuietProgress DEF vars
  <1> QED BY <1>1, <1>2, <1>3, <1>4, <1>5, <1>6, Zenon DEF Next

\* The invariant holds initially.
LEMMA StoreInit ==
  ASSUME Init
  PROVE  StoreInv
PROOF
  <1>1. PICK script \in Scripts : ops = [o \in Requests |-> Asked(script[o])]
    BY DEF Init
  <1>2. /\ disk = [n \in Nodes |-> {}] /\ debts = [n \in Nodes |-> {}] /\ wire = {} /\ acked = {}
    BY DEF Init
  <1>a. NoTasks \in TaskTables /\ DOMAIN NoTasks = {}
    <2>1. NoTasks \in [{} -> Task] /\ {} \in SUBSET Nodes
      BY DEF NoTasks
    <2> QED BY Zenon, <2>1, TasksAre
  <1>3. ASSUME NEW o \in Requests
        PROVE  OpOK(ops[o], disk, debts)
    <2> DEFINE op == ops[o]
    <2>1. script[o] \in [kind : Mutations \cup {"get"}, coord : Nodes, q : 1 .. Rf,
                         pref : Placements]
      BY StoreAssumption
    <2>2. \A n \in Nodes : n \in DOMAIN script[o].pref =>
            script[o].pref[n].handoff \notin DOMAIN script[o].pref
      BY StoreAssumption
    <2>3. op = Asked(script[o])
      BY <1>1
    <2>4. /\ op.kind = script[o].kind /\ op.coord = script[o].coord /\ op.q = script[o].q
          /\ op.pref = script[o].pref /\ op.ts = NoVersion /\ op.st = "new"
          /\ op.tasks = NoTasks /\ op.base = 0 /\ op.floor = {} /\ op.result = "none"
      BY <2>3 DEF Asked
    <2>5. op \in Op
      BY <2>1, <2>3, <1>a DEF Op, Asked, Kinds
    <2> HIDE DEF op
    <2>6. Shape(op)
      BY Zenon, <1>a, <2>1, <2>2, <2>4, <2>5, PlacementsType DEF Shape
    <2>7. Held(op, disk, debts) /\ Seen(op, disk) /\ Based(op, disk) /\ Fresh(op, disk)
      BY Zenon, <2>4 DEF Held, Seen, Based, Fresh
    <2> QED BY <2>6, <2>7 DEF OpOK, op
  <1>4. Typed
    BY Zenon, <1>1, <1>2, <1>3 DEF Typed, Disks, Debts, OpOK, Shape
  <1>5. OneRing(ops)
    <2>1. \A o \in Requests : ops[o].pref = script[o].pref
      BY Zenon, <1>1 DEF Asked
    <2>2. \A o, p \in Requests : Strict(script[o].pref) /\ Strict(script[p].pref) =>
            /\ DOMAIN script[o].pref = DOMAIN script[p].pref
            /\ Cardinality(DOMAIN script[o].pref) <= Rf
      BY Zenon, StoreAssumption
    <2> QED BY <2>1, <2>2, Zenon DEF OneRing
  <1> QED BY <1>2, <1>3, <1>4, <1>5 DEF StoreInv

\* What makes the store correct, for every request: see StoreInv.
THEOREM StoreTheorem == Spec => []StoreInv
PROOF
  <1>1. Init => StoreInv
    BY StoreInit
  <1>2. StoreInv /\ [Next]_vars => StoreInv'
    BY StepProgress, ProgressKeeps
  <1> QED BY <1>1, <1>2, PTL DEF Spec

\* Whatever the placement, the losses and the timeouts, an owner that a finished
\* write missed is owed its version (store.py _write_to_target, _record_obligation).
THEOREM OwedTheorem == Spec => []MissedOwnersOwed
PROOF
  <1>1. StoreInv => MissedOwnersOwed
    BY Zenon DEF StoreInv, OpOK, Held, Owed, MissedOwnersOwed
  <1> QED BY <1>1, StoreTheorem, PTL
=============================================================================
