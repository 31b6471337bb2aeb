--------------------------- MODULE MCMembership ---------------------------
EXTENDS Membership

\* n3 joins n1 and n2; n4 is met by the placements only, as one who would join next.
\* n3 is alone on its ring, with one vnode, until it has met its seed.
MCNodes == {"n1", "n2", "n3", "n4"}
MCSeedOf == [n1 |-> NoNode, n2 |-> "n1", n3 |-> "n1", n4 |-> "n1"]
MCTokens == [n1 |-> <<{1}>>, n2 |-> <<{4, 6}>>, n3 |-> <<{2}, {2}>>, n4 |-> <<{7}>>]
MCMaxEpoch == [n1 |-> 1, n2 |-> 1, n3 |-> 2, n4 |-> 0]
MCFounders == {"n1", "n2"}

\* Two nodes: the second joins, drains and may crash at any point.
MCPair == {"n1", "n2"}
MCPairSeed == [n1 |-> NoNode, n2 |-> "n1"]
MCPairTokens == [n1 |-> <<{1}, {1}, {1}, {1}>>, n2 |-> <<{4}, {4}, {4}, {4}>>]
MCPairEpochs == [n1 |-> 1, n2 |-> 3]
MCPairFounders == {"n1", "n2"}
=============================================================================
