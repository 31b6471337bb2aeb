-------------------------- MODULE MCGroupStorage --------------------------
(* Small instances of GroupStorage. *)
EXTENDS GroupStorage, Timestamps

CONSTANTS p1, a1, a2

\* Every address in one partition.
MCPid == [a \in Addrs |-> p1]

\* Timestamps of one node, which differ in wall_ms.
MCOneNode == <<[wall_ms |-> 1, counter |-> 0, node_id |-> <<1>>],
               [wall_ms |-> 2, counter |-> 0, node_id |-> <<1>>],
               [wall_ms |-> 3, counter |-> 0, node_id |-> <<1>>],
               [wall_ms |-> 3, counter |-> 1, node_id |-> <<1>>]>>

\* Two nodes whose ids have different lengths write in the same millisecond.
MCTwoNodes == <<[wall_ms |-> 1, counter |-> 0, node_id |-> <<1>>],
                [wall_ms |-> 2, counter |-> 0, node_id |-> <<1, 1>>],
                [wall_ms |-> 2, counter |-> 0, node_id |-> <<2>>],
                [wall_ms |-> 3, counter |-> 0, node_id |-> <<1>>]>>

Sorted(stamps) == \A i, j \in DOMAIN stamps : i < j => Less(stamps[i], stamps[j])

ASSUME MCStampsAssumption ==
    \A stamps \in {MCOneNode, MCTwoNodes} :
        Sorted(stamps) /\ \A i \in DOMAIN stamps : Encodable(stamps[i])

Positions(stamps) ==
    [i \in 1..MaxTs |->
        Cardinality({j \in 1..MaxTs : LexLess(to_bytes(stamps[j]), to_bytes(stamps[i]))})]

MCEncodedOneNode  == Positions(MCOneNode)
MCEncodedTwoNodes == Positions(MCTwoNodes)

\* Buckets of two milliseconds.
MCBucketOneNode  == [i \in 1..MaxTs |-> MCOneNode[i].wall_ms \div 2]
MCBucketTwoNodes == [i \in 1..MaxTs |-> MCTwoNodes[i].wall_ms \div 2]

===========================================================================
