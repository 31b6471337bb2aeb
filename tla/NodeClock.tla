------------------------------ MODULE NodeClock ------------------------------
(***************************************************************************)
(* The clock of a node over its life (core/manager.py start,                *)
(* Storage.latest_hlc, the store's write path): every write the node        *)
(* coordinates ticks the clock, the version reaches the node's own storage  *)
(* later if at all, the storage also receives versions that other nodes     *)
(* stamped, and a restart restores the clock from what the storage holds.   *)
(*                                                                         *)
(* A stored version is [pid, ts]. Collection is left out: it keeps the     *)
(* newest version of every address, so it removes no last key of TAGS.     *)
(***************************************************************************)
EXTENDS HLCClock

CONSTANTS
    Pids,          \* partitions: natural numbers, as they sort in TAGS
    GroupOf,       \* the storage group of a partition
    MaxStores,     \* bound on the versions stored
    MaxRestarts    \* bound on the restarts

ASSUME NodeAssumption ==
    /\ Pids \subseteq Nat /\ GroupOf \in [Pids -> Nat]
    /\ MaxStores \in Nat /\ MaxRestarts \in Nat

VARIABLES
    up,            \* the process runs
    stamped,       \* versions stamped, their local write not committed
    tags,          \* the keys of TAGS, over all groups
    own,           \* history: the keys of TAGS that this node stamped
    floor,         \* history: the last keys of the groups at the last boot
    stores, restarts

nodeVars == <<clockVars, up, stamped, tags, own, floor, stores, restarts>>

----------------------------------------------------------------------------

\* TAGS is ordered by pid first: the last key of a group is the latest version
\* of its greatest pid that holds any.
LastKeys ==
    {k \in tags : \A j \in tags : GroupOf[j.pid] = GroupOf[k.pid] =>
        j.pid < k.pid \/ (j.pid = k.pid /\ AtMost(j.ts, k.ts))}

\* Mutant: the first key of each group.
latest_hlc_first ==
    LET firsts == {k \in tags : \A j \in tags : GroupOf[j.pid] = GroupOf[k.pid] =>
                      j.pid > k.pid \/ (j.pid = k.pid /\ AtMost(k.ts, j.ts))}
        seen == {k.ts : k \in firsts} \union {Stamp(0, 0)}
    IN  CHOOSE t \in seen : \A s \in seen : AtMost(s, t)

latest_hlc ==
    LET seen == {k.ts : k \in LastKeys} \union {Stamp(0, 0)}
    IN  CHOOSE t \in seen : \A s \in seen : AtMost(s, t)

\* The store stamps a write to a key of partition p.
NodeWrite(p) ==
    /\ up
    /\ Tick
    /\ stamped' = stamped \union {[pid |-> p, ts |-> Current']}
    /\ UNCHANGED <<up, tags, own, floor, stores, restarts>>

\* Its local write commits, if this node is a replica of the partition.
Store(k) ==
    /\ up
    /\ k \in stamped
    /\ stores < MaxStores /\ stores' = stores + 1
    /\ stamped' = stamped \ {k}
    /\ tags' = tags \union {k}
    /\ own' = own \union {k}
    /\ UNCHANGED <<clockVars, up, floor, restarts>>

\* Its local write fails, or this node is not a replica of the partition.
StoreElsewhere(k) ==
    /\ up
    /\ k \in stamped
    /\ stamped' = stamped \ {k}
    /\ UNCHANGED <<clockVars, up, tags, own, floor, stores, restarts>>

\* A replication or anti-entropy write of another node's version: the clock is
\* not shown its timestamp.
Replicate(k) ==
    /\ up
    /\ stores < MaxStores /\ stores' = stores + 1
    /\ tags' = tags \union {k}
    /\ UNCHANGED <<clockVars, up, stamped, own, floor, restarts>>

NodeCrash ==
    /\ up
    /\ up' = FALSE
    /\ stamped' = {}
    /\ UNCHANGED <<clockVars, tags, own, floor, stores, restarts>>

\* A new process makes a new clock and restores it.
Boot ==
    LET latest == latest_hlc
        s      == Restored(0, 0, latest.wall_ms, latest.counter)
    IN  /\ ~up
        /\ restarts < MaxRestarts /\ restarts' = restarts + 1
        /\ up' = TRUE
        /\ wall_ms' = s.wall_ms /\ counter' = s.counter
        /\ calls' = 0 /\ returned' = {} /\ observed' = {latest}
        /\ floor' = {k.ts : k \in LastKeys}
        /\ UNCHANGED <<now_ms, stamped, tags, own, stores>>

TimeStep ==
    /\ \E n \in Walls : TimeMoves(n)
    /\ UNCHANGED <<up, stamped, tags, own, floor, stores, restarts>>

NodeInit ==
    /\ ClockInit
    /\ up = FALSE
    /\ stamped = {} /\ tags = {} /\ own = {}
    /\ floor = {}
    /\ stores = 0 /\ restarts = 0

Tagged == [pid : Pids, ts : [wall_ms : Walls, counter : 0..MaxCounter]]

NodeNext ==
    \/ \E p \in Pids : NodeWrite(p)
    \/ \E k \in Tagged : Store(k) \/ StoreElsewhere(k) \/ Replicate(k)
    \/ NodeCrash \/ Boot \/ TimeStep

NodeSpec == NodeInit /\ [][NodeNext]_nodeVars

----------------------------------------------------------------------------
(* Properties *)

\* Type correctness.
NodeTypeOK ==
    /\ ClockTypeOK
    /\ up \in BOOLEAN
    /\ stamped \subseteq Tagged /\ tags \subseteq Tagged
    /\ own \subseteq tags /\ floor \subseteq Stamps
    /\ stores \in 0..MaxStores /\ restarts \in 0..MaxRestarts

\* Within an incarnation, every write gets a timestamp above all the earlier
\* ones of the incarnation and above the version that was last in each storage
\* group at boot, even when the operating system's clock was set back.
WritesAdvance ==
    [][\A p \in Pids : NodeWrite(p) =>
          \A s \in returned \union floor : Before(s, Current')]_nodeVars

\* Timestamps never move backwards across restarts: a write is later than every
\* version that the node stamped before and that its storage holds.
NeverBackwards ==
    [][\A p \in Pids : NodeWrite(p) =>
          \A k \in own : Before(k.ts, Current')]_nodeVars

============================================================================
