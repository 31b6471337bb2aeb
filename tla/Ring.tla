------------------------------- MODULE Ring -------------------------------
(***************************************************************************)
(* The hash ring (spaces/ring.py), the partitions (partition/              *)
(* partitioner.py), the preference lists of the read and write paths       *)
(* (partition/placement.py) and the replica map of anti-entropy            *)
(* (ae/view.py), as operators.  A ring is the set of its vnodes; they are  *)
(* kept sorted by token in the code and tokens are distinct, so the set    *)
(* determines the list.                                                    *)
(***************************************************************************)
EXTENDS Integers, FiniteSets, Sequences

CONSTANTS Nodes,    \* node ids
          Bits,     \* bits of the hash space
          PShift,   \* bits of a partition id
          Rf        \* replication factor

ASSUME RingAssumption == /\ Bits \in Nat /\ PShift \in 0 .. (Bits - 1)
                         /\ Rf \in Nat \ {0}

NoNode == "none"
Space == 2 ^ Bits
Pids == 0 .. (2 ^ PShift - 1)
Step == 2 ^ (Bits - PShift)

RING_PHASES == {"joining", "ready", "paused", "draining"}

vnodes(id, member) == {[token |-> t, node |-> id] : t \in member.tokens}

drop_nodes(ring, ids) == {v \in ring : v.node \notin ids}

-----------------------------------------------------------------------------
(* Ring: clockwise distance gives successor, predecessor and iter_from.    *)

Ahead(v, token) == (v.token - token) % Space

successor(ring, token) ==
  CHOOSE v \in ring : \A w \in ring : Ahead(v, token) <= Ahead(w, token)

predecessor(ring, token) ==
  CHOOSE v \in ring :
    \A w \in ring : (token - 1 - v.token) % Space <= (token - 1 - w.token) % Space

\* Clockwise distance from a token to the first vnode of a node.
FirstAt(ring, token, id) ==
  LET ahead == {Ahead(v, token) : v \in {w \in ring : w.node = id}}
  IN  CHOOSE d \in ahead : \A e \in ahead : d <= e

\* The first k nodes of known met on a clockwise walk from a token, each once.
_walk(ring, token, known, k) ==
  LET met == {<<FirstAt(ring, token, n), n>> :
                n \in {v.node : v \in ring} \intersect known}
      nth(i) == CHOOSE m \in met : Cardinality({o \in met : o[1] < m[1]}) = i - 1
      size == IF Cardinality(met) < k THEN Cardinality(met) ELSE k
  IN  SubSeq([i \in 1 .. size |-> nth(i)[2]], 1, size)

Elements(seq) == {seq[i] : i \in DOMAIN seq}

-----------------------------------------------------------------------------
(* Partitioner.                                                            *)

pid_for_hash(h) == h \div Step

PartitionEnd(pid) == ((pid + 1) * Step) % Space

NoArc == <<-1, -1>>

\* Mutant of _arc_for: pids counted from the one holding the token.
_arc_forShifted(pred, succ) ==
  LET from == pid_for_hash(pred.token)
      to == pid_for_hash(succ.token)
  IN  IF pred.token = succ.token \/ (pred.token < succ.token /\ from = to)
      THEN NoArc ELSE <<from, to>>

_arc_for(pred, succ) ==
  LET from == pid_for_hash(pred.token)
      to == pid_for_hash(succ.token)
      total == Cardinality(Pids)
  IN  IF pred.token = succ.token \/ (pred.token < succ.token /\ from = to)
      THEN NoArc
      ELSE <<(from - 1) % total, (to - 1) % total>>

\* The arc (start, end] of partitions each vnode owns.
ranges_for(ring, v) ==
  IF Cardinality(ring) = 1
  THEN LET pid == (pid_for_hash(v.token) - 1) % Cardinality(Pids) IN <<pid, pid>>
  ELSE _arc_for(predecessor(ring, v.token), v)

\* PartitionRange.linear: the partitions of an arc; equal bounds are the ring.
linear(arc) ==
  IF arc = NoArc THEN {}
  ELSE IF arc[1] = arc[2] THEN Pids
  ELSE IF arc[1] < arc[2] THEN {p \in Pids : arc[1] < p /\ p <= arc[2]}
  ELSE {p \in Pids : p <= arc[2] \/ arc[1] < p}

arc_count(arc) ==
  IF arc = NoArc THEN 0
  ELSE IF arc[1] = arc[2] THEN Cardinality(Pids)
  ELSE IF arc[1] < arc[2] THEN arc[2] - arc[1]
  ELSE (Cardinality(Pids) - arc[1]) + arc[2]

-----------------------------------------------------------------------------
(* Placement: owners of a partition and their substitutes.                 *)

Known(registry) == {n \in Nodes : registry[n].epoch >= 0}

_placement(ring, pid) == successor(ring, PartitionEnd(pid))

Owners(registry, ring, pid) ==
  _walk(ring, _placement(ring, pid).token,
        {n \in Known(registry) : registry[n].phase \notin {"idle", "failed"}}, Rf)

\* READY nodes found alive, clockwise from the vnode of the last owner.
_handoff_candidates(registry, ring, pid, owners, dead) ==
  LET start == _placement(ring, pid).token
      last == (start + FirstAt(ring, start, owners[Len(owners)])) % Space
  IN  _walk(ring, last, {n \in Known(registry) : registry[n].phase = "ready"}
                          \ (Elements(owners) \cup dead), Len(owners))

NeedsHandoff(registry, n, dead) ==
  \/ registry[n].phase \in {"joining", "draining", "paused"}
  \/ registry[n].phase = "ready" /\ n \in dead

\* Mutant of preference_list: every owner is given the first candidate.
preference_listFirst(registry, ring, pid, dead) ==
  LET owners == Owners(registry, ring, pid)
      candidates == _handoff_candidates(registry, ring, pid, owners, dead)
      preference(i) ==
        [node |-> owners[i],
         readable |-> registry[owners[i]].phase \in {"ready", "draining"},
         writable |-> registry[owners[i]].phase = "ready",
         handoff |-> IF NeedsHandoff(registry, owners[i], dead) /\ candidates # <<>>
                     THEN candidates[1] ELSE NoNode]
  IN  SubSeq([i \in DOMAIN owners |-> preference(i)], 1, Len(owners))

preference_list(registry, ring, pid, dead) ==
  LET owners == Owners(registry, ring, pid)
      candidates == _handoff_candidates(registry, ring, pid, owners, dead)
      rank(i) == Cardinality({j \in 1 .. i : NeedsHandoff(registry, owners[j], dead)})
      preference(i) ==
        [node |-> owners[i],
         readable |-> registry[owners[i]].phase \in {"ready", "draining"},
         writable |-> registry[owners[i]].phase = "ready",
         handoff |-> IF /\ NeedsHandoff(registry, owners[i], dead)
                        /\ rank(i) <= Len(candidates)
                     THEN candidates[rank(i)] ELSE NoNode]
  IN  SubSeq([i \in DOMAIN owners |-> preference(i)], 1, Len(owners))

-----------------------------------------------------------------------------
(* Replica view: the target replicas and the current sources of every pid. *)

build_view(registry, ring) ==
  IF ring = {} THEN [p \in Pids |-> [replicas |-> <<>>, sources |-> <<>>]]
  ELSE
  LET members == {n \in Known(registry) : \E v \in ring : v.node = n}
      targets == {n \in members : registry[n].phase # "draining"}
      serving == {n \in members : registry[n].phase # "joining"}
  IN  [p \in Pids |->
         [replicas |-> _walk(ring, PartitionEnd(p), targets, Rf),
          sources |-> _walk(ring, PartitionEnd(p), serving, Rf)]]

=============================================================================
