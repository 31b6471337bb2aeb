------------------------------ MODULE MCStore ------------------------------
EXTENDS Store

MCNodes == {"a", "b", "c"}
Direct == [readable |-> TRUE, writable |-> TRUE, handoff |-> NoNode]
\* Owners a and b; c stands in for the one that a coordinator suspects.
Healthy == [n \in {"a", "b"} |-> Direct]
Suspects(n) == [Healthy EXCEPT ![n].handoff = "c"]
\* The keys of versions 2 and 3 sort against their timestamps. The second of two
\* writes is the newer, or the older, or older though its key sorts last.
MCVersions == 1 .. 3
MCEncoded == <<1, 3, 2>>
MCStamps == <<{1, 3}, {1, 2}, {}>>
MCRequests == 1 .. 3
Ask(kind, coord, q, pref) == [kind |-> kind, coord |-> coord, q |-> q, pref |-> pref]
\* Two writes racing a read, the second by a coordinator that suspects the
\* first; a short write repaired through a stand-in while it is read.
MCScripts == {<<Ask("put", "a", 2, Healthy), Ask("delete", "b", 1, Suspects("a")),
                Ask("get", "a", 1, Healthy)>>,
              <<Ask("put", "a", 2, Healthy), Ask("repair", "a", 2, Suspects("b")),
                Ask("get", "a", 1, Suspects("b"))>>,
              <<Ask("put", "a", 2, Suspects("b")), Ask("repair", "a", 2, Healthy),
                Ask("get", "a", 2, Healthy)>>}
MCRepairScripts == {<<Ask("put", "a", 2, Healthy), Ask("repair", "a", 2, Suspects("b"))>>}
MCRepairRequests == 1 .. 2
MCRepairStamps == <<{1}, {}>>
=============================================================================
