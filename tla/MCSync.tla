------------------------------- MODULE MCSync -------------------------------
EXTENDS Sync

MCVersions == 1 .. 3
MCPid == <<0, 0, 1>>
MCMs == <<0, 3, 2>>
MCNow == <<3, 4>>
MCWorlds == {[reps |-> Nodes, phase |-> "ready"],
             [reps |-> {"peer"}, phase |-> "ready"],
             [reps |-> {"self"}, phase |-> "joining"]}
MCHandoffMs == <<2, 3, 2>>
MCHandoffNow == <<3, 5>>
MCHandoffWorlds == {[reps |-> {"peer"}, phase |-> "ready"]}
=============================================================================
