---------------------------- MODULE QuorumStore ----------------------------
(***************************************************************************)
(* What the store promises its clients: an acknowledged write is held by   *)
(* as many nodes as its quorum, and a read whose quorum meets that of an   *)
(* earlier acknowledged write never misses it, nor answers with a value    *)
(* where the version it found is a delete. Not missing a write means an    *)
(* answer that is as new, or as new as a version held by some node whose   *)
(* key sorts after it: the same thing where keys sort by timestamp.        *)
(***************************************************************************)
EXTENDS Integers, FiniteSets

CONSTANTS Nodes, Versions, Requests,
          Encoded,  \* the order of the keys of the versions
          Rf        \* replication factor: quorums of r + w > Rf meet

VARIABLES copies,   \* copies[v]: the nodes that hold version v
          deletes,  \* the versions that are deletes
          acked,    \* acknowledged writes: version, quorum, strict placement
          reads     \* floor and answer of each read

qvars == <<copies, deletes, acked, reads>>

NoVersion == 0
Reading(st, floor, answer, absent) ==
  [st |-> st, floor |-> floor, answer |-> answer, absent |-> absent]
Unread == Reading("none", {}, NoVersion, FALSE)

\* The versions a strict read of quorum q may not miss.
Floor(q, strict) ==
  {a.ts : a \in {b \in acked : strict /\ b.strict /\ b.q + q > Rf}}

QInit == /\ copies = [v \in Versions |-> {}]
         /\ deletes = {}
         /\ acked = {}
         /\ reads = [r \in Requests |-> Unread]

\* A version is a delete from the start.
Delete(v) == /\ copies[v] = {}
             /\ deletes' = deletes \cup {v}
             /\ UNCHANGED <<copies, acked, reads>>

Hold(v, n) == /\ copies' = [copies EXCEPT ![v] = @ \cup {n}]
              /\ UNCHANGED <<deletes, acked, reads>>

Acknowledge(v, q, strict) ==
  /\ Cardinality(copies[v]) >= q
  /\ acked' = acked \cup {[ts |-> v, q |-> q, strict |-> strict]}
  /\ UNCHANGED <<copies, deletes, reads>>

Begin(r, q, strict) ==
  /\ reads[r] = Unread
  /\ reads' = [reads EXCEPT ![r] =
                 Reading("open", Floor(q, strict), NoVersion, FALSE)]
  /\ UNCHANGED <<copies, deletes, acked>>

\* Answering v does not miss w.
Supersedes(v, w) ==
  \E x \in Versions : copies[x] # {} /\ Encoded[w] <= Encoded[x] /\ x <= v

Answer(r, v) ==
  /\ reads[r].st = "open"
  /\ \A w \in reads[r].floor : Supersedes(v, w)
  /\ v = NoVersion \/ copies[v] # {}
  /\ reads' = [reads EXCEPT ![r] =
                 Reading("closed", @.floor, v, v \in deletes \cup {NoVersion})]
  /\ UNCHANGED <<copies, deletes, acked>>

Fail(r) ==
  /\ reads[r].st \in {"none", "open"}
  /\ reads' = [reads EXCEPT ![r] = Reading("failed", @.floor, @.answer, @.absent)]
  /\ UNCHANGED <<copies, deletes, acked>>

QNext ==
  \/ \E v \in Versions : Delete(v) \/ \E n \in Nodes : Hold(v, n)
  \/ \E v \in Versions, q \in 1 .. Rf, strict \in BOOLEAN : Acknowledge(v, q, strict)
  \/ \E r \in Requests, q \in 1 .. Rf, strict \in BOOLEAN : Begin(r, q, strict)
  \/ \E r \in Requests, v \in Versions \cup {NoVersion} : Answer(r, v)
  \/ \E r \in Requests : Fail(r)

QSpec == QInit /\ [][QNext]_qvars

=============================================================================
