---------------------------- MODULE Timestamps ----------------------------
(***************************************************************************)
(* HLCTimestamp (tourlib/models/ts.py): its order and its encoding, which   *)
(* the LOGS and TAGS keyspaces use as an ordered index key. A node id is a  *)
(* sequence of characters, each of them one byte; an integer field of the  *)
(* encoding is one fixed-width element, so that comparing two encodings    *)
(* element by element is comparing their bytes.                            *)
(***************************************************************************)
EXTENDS Integers, Sequences

\* Lexicographic order of two sequences of integers, a proper prefix first.
LexLess(s, t) ==
    \E n \in 0..Len(s) :
        /\ n <= Len(t)
        /\ \A i \in 1..n : s[i] = t[i]
        /\ \/ n = Len(s) /\ n < Len(t)
           \/ n < Len(s) /\ n < Len(t) /\ s[n + 1] < t[n + 1]

\* The order the dataclass generates: (wall_ms, counter, node_id).
Less(s, t) ==
    \/ s.wall_ms < t.wall_ms
    \/ s.wall_ms = t.wall_ms /\ s.counter < t.counter
    \/ /\ s.wall_ms = t.wall_ms /\ s.counter = t.counter
       /\ LexLess(s.node_id, t.node_id)

\* The counter has two bytes: to_bytes raises beyond them.
CounterLimit == 65535
Encodable(s) == s.counter <= CounterLimit

\* wall_ms | counter | node_id_len | node_id
to_bytes(s) == <<s.wall_ms, s.counter, Len(s.node_id)>> \o s.node_id

===========================================================================
