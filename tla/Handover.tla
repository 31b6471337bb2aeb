------------------------------ MODULE Handover ------------------------------
(***************************************************************************)
(* Which peers a joining node copies from and a draining node hands over   *)
(* to (ae/view.py, services/antientropy.py), as operators on a replica     *)
(* view.  A plan is a set of <<peer, pid>> pairs: one session per peer over *)
(* its pids.  The outcome of every session is a parameter.                 *)
(***************************************************************************)
EXTENDS Ring

\* What may become of the sessions of a node with the peers of its view.
Outcomes(view, node) ==
  LET peers == UNION {Elements(view[pid].replicas) \cup Elements(view[pid].sources) : pid \in Pids}
  IN  [peers \ {node} -> {"ok", "failed", "down"}]

\* Node ids are strings; any fixed order of them will do.
Order == CHOOSE f \in [Nodes -> 1 .. Cardinality(Nodes)] :
           \A m, n \in Nodes : m # n => f[m] # f[n]
index(n, ids) == Cardinality({m \in ids : Order[m] < Order[n]})

\* Entering and leaving replicas are paired; a node left unpaired takes a
\* source by hash, here any of them.
primary_source(view, node, pid) ==
  LET current == Elements(view[pid].sources)
      candidates == current \ {node}
      entering == Elements(view[pid].replicas) \ current
      leaving == candidates \ Elements(view[pid].replicas)
  IN  IF node \in entering /\ index(node, entering) < Cardinality(leaving)
      THEN {n \in leaving : index(n, leaving) = index(node, entering)}
      ELSE candidates

\* The plans that give every owned partition one primary source, if it has any.
_join_sources(view, node) ==
  LET owned == {pid \in Pids : /\ node \in Elements(view[pid].replicas)
                               /\ primary_source(view, node, pid) # {}}
  IN  {{<<pick[pid], pid>> : pid \in owned} :
         pick \in {f \in [owned -> Nodes] :
                     \A pid \in owned : f[pid] \in primary_source(view, node, pid)}}

_fallback_sources(view, node, primaries, down) ==
  UNION {{<<peer, t[2]>> : peer \in Elements(view[t[2]].sources) \ {t[1], node}} :
           t \in {u \in primaries : u[1] \in down}}

_targets(view, pids) ==
  UNION {{<<peer, pid>> : peer \in Elements(view[pid].replicas)} : pid \in pids}

\* Peers found down are skipped; a session that does not end ok fails.
_exchange(plan, outcome) ==
  [skipped |-> {t[1] : t \in {u \in plan : outcome[u[1]] = "down"}},
   failed |-> {t[1] : t \in {u \in plan : outcome[u[1]] = "failed"}},
   reached |-> {t \in plan : outcome[t[1]] = "ok"}]

_handed_all(view, pids, result) ==
  \A pid \in pids :
    LET needed == Elements(view[pid].replicas) \ result.skipped
    IN  /\ needed # {}
        /\ Cardinality({t \in result.reached : t[2] = pid}) >= Cardinality(needed)

\* Mutant of _join_pass: a failure of the second exchange is forgotten.
_join_passOnce(view, node, primaries, first, second) ==
  LET result == _exchange(primaries, first)
      again == _exchange(_fallback_sources(view, node, primaries, result.skipped), second)
  IN  [failed |-> result.failed # {}, reached |-> result.reached \cup again.reached]

\* The peers may come and go between the two exchanges of a join pass.
_join_pass(view, node, primaries, first, second) ==
  LET result == _exchange(primaries, first)
      again == _exchange(_fallback_sources(view, node, primaries, result.skipped), second)
  IN  [failed |-> result.failed \cup again.failed # {},
       reached |-> result.reached \cup again.reached]

_drain_pass(view, pids, outcome) ==
  _handed_all(view, pids, _exchange(_targets(view, pids), outcome))

=============================================================================
