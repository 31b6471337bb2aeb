---------------------------- MODULE MCNodeClock ----------------------------
(* Two partitions that share a storage group. *)
EXTENDS NodeClock

MCGroup == [p \in Pids |-> 0]

============================================================================
