-------------------------------- MODULE Links --------------------------------
(***************************************************************************)
(* The connections of one node to its peers: the pool (core/peer/pool.py),  *)
(* the client it hands out (core/transports/client.py over                  *)
(* tourlib/transport.py) and the failure detector of each peer              *)
(* (core/probe/detector.py).                                                *)
(*                                                                         *)
(* A client is known by its peer and the address it was made for. A peer    *)
(* never returns to an address it left: no two live clients share a name.   *)
(* The pool lock is held while a connection is being opened and by nothing  *)
(* else that suspends for long: `busy` is that one acquisition.             *)
(***************************************************************************)
EXTENDS Integers, FiniteSets, Sequences, Functions

CONSTANTS
  Peers, Callers,
  MinSize, MaxSize, MaxOverflow, PrioritySize,  \* the limits of the pool
  MinSamples,     \* PhiAccrual.min_samples
  LastAddress,    \* bound: a peer has the addresses 1, 2, ... LastAddress in turn
  MaxFaults       \* bound: addresses that change or go dark, lost connections,
                  \* timeouts, cancelled callers

ASSUME LinksAssumption ==
  /\ IsFiniteSet(Peers) /\ IsFiniteSet(Callers) /\ LastAddress \in Nat \ {0}
  /\ MinSize \in Nat /\ MaxSize \in Nat \ {0} /\ MaxOverflow \in Nat
  /\ PrioritySize \in Nat /\ MinSamples \in Nat \ {0, 1} /\ MaxFaults \in Nat

VARIABLES
  addr,     \* peer -> its address in the registry
  pool,     \* peer -> its PeerConnection
  lru,      \* the permanent peers, least recently acquired first
  busy,     \* the acquisition holding the pool lock, or NoOne
  lease,    \* caller -> the client it holds
  dark,     \* clients whose address does not answer
  faults

vars == <<addr, pool, lru, busy, lease, dark, faults>>

Addresses == 1 .. LastAddress
NoDetector == [at |-> 0, active |-> FALSE, seen |-> 0, probe |-> 0]
NoPeer == [table |-> "none", at |-> 0, refcount |-> 0, retired |-> 0, fd |-> NoDetector]
NoOne == [who |-> "nobody", peer |-> "nobody", table |-> "none", at |-> 0]
NoLease == [st |-> "none", peer |-> "nobody", at |-> 0]

\* The sequence s without the elements of S.
Without(s, S) ==
  LET kept[i \in 0 .. Len(s)] == IF i = 0 THEN <<>>
                                 ELSE IF s[i] \in S THEN kept[i - 1]
                                 ELSE Append(kept[i - 1], s[i])
  IN kept[Len(s)]

In(table) == {p \in Peers : pool[p].table = table}
Fault == faults < MaxFaults /\ faults' = faults + 1

(***************************************************************************)
(* The detector. A failed request (re)starts the probes on the client that  *)
(* failed; enough answered probes end the suspicion. A probe is on its way   *)
(* to the client of address `probe`; the next one goes to that of `at`.      *)
(***************************************************************************)
\* PhiAccrual, by the answers it has recorded. The first opens an interval, so
\* MinSamples intervals take one more answer; asked right after an answer, phi
\* finds no time elapsed and is below 1.
record(fd) == [fd EXCEPT !.seen = @ + 1, !.probe = 0]
has_observations(fd) == fd.seen > MinSamples
reset(fd) == [at |-> fd.at, active |-> FALSE, seen |-> 0, probe |-> 0]

\* fd.run(client), for the pool entry c.
fd_run(c, a) ==
  [c EXCEPT !.fd = [at |-> a, active |-> TRUE, probe |-> c.fd.probe,
                    seen |-> IF c.fd.active THEN c.fd.seen ELSE 0]]

\* Requests fail on the client of address a, a probe among them.
Failed(c, a) ==
  [c EXCEPT !.fd = [fd_run(c, a).fd EXCEPT !.probe = IF @ = a THEN 0 ELSE @]]

\* The probe is an ordinary request, to the client that failed last.
_probe_peer(p) ==
  /\ pool[p].fd.active /\ pool[p].fd.probe = 0
  /\ pool' = [pool EXCEPT ![p].fd.probe = pool[p].fd.at]
  /\ UNCHANGED <<addr, lru, busy, lease, dark, faults>>

\* It is answered, or it fails: the next one goes to the same client again,
\* whichever failed meanwhile.
_probe_once(p) ==
  LET fd == pool[p].fd
      answered == IF has_observations(record(fd)) THEN reset(fd) ELSE record(fd)
  IN
  /\ fd.probe # 0
  /\ pool' = [pool EXCEPT ![p] = IF <<p, fd.probe>> \in dark THEN Failed(@, fd.probe)
                                 ELSE [@ EXCEPT !.fd = answered]]
  /\ UNCHANGED <<addr, lru, busy, lease, dark, faults>>

(***************************************************************************)
(* acquire()                                                                *)
(***************************************************************************)
Idle(p) == pool[p].refcount = 0 /\ pool[p].retired = 0

\* Permanent peers nobody leases, in the order of the LRU.
_idle_lru_peer == Without(lru, {p \in Peers : ~Idle(p)})

Free(c) == busy = NoOne /\ lease[c].st = "none"
Connecting(c, p, table) ==
  /\ busy' = [who |-> c, peer |-> p, table |-> table, at |-> addr[p]]
  /\ lease' = [lease EXCEPT ![c].st = "connecting"]

Touch(p) == IF pool[p].table = "permanent"
            THEN Append(Without(lru, {p}), p) ELSE lru

\* A known peer at its known address costs one reference.
Reuse(c, p) ==
  /\ Free(c) /\ pool[p].table # "none" /\ pool[p].at = addr[p]
  /\ pool' = [pool EXCEPT ![p].refcount = @ + 1]
  /\ lru' = Touch(p)
  /\ lease' = [lease EXCEPT ![c] = [st |-> "held", peer |-> p, at |-> addr[p]]]
  /\ UNCHANGED <<addr, busy, dark, faults>>

\* A known peer that moved: connect to the new address first.
_may_refresh_peer(c, p) ==
  /\ Free(c) /\ pool[p].table # "none" /\ pool[p].at # addr[p] /\ pool[p].retired = 0
  /\ Connecting(c, p, pool[p].table)
  /\ UNCHANGED <<addr, pool, lru, dark, faults>>

\* Mutant of RoomFor: one overflow peer too many.
RoomForOneMore(permanents, overflows, reserve, idle, priority) ==
  CASE permanents < MaxSize -> "permanent"
    [] permanents >= MaxSize /\ overflows <= MaxOverflow -> "overflow"
    [] permanents >= MaxSize /\ overflows > MaxOverflow /\ idle -> "evict"
    [] OTHER -> IF priority /\ reserve < PrioritySize THEN "priority" ELSE "none"

\* The table an unknown peer goes to, given the sizes; "none" refuses.
RoomFor(permanents, overflows, reserve, idle, priority) ==
  CASE permanents < MaxSize -> "permanent"
    [] permanents >= MaxSize /\ overflows < MaxOverflow -> "overflow"
    [] permanents >= MaxSize /\ overflows >= MaxOverflow /\ idle -> "evict"
    [] OTHER -> IF priority /\ reserve < PrioritySize THEN "priority" ELSE "none"

_acquire_locked(c, p, priority) ==
  LET room == RoomFor(Cardinality(In("permanent")), Cardinality(In("overflow")),
                      Cardinality(In("priority")), _idle_lru_peer # <<>>, priority)
  IN /\ Free(c) /\ pool[p].table = "none" /\ room # "none"
     /\ Connecting(c, p, IF room = "evict" THEN "permanent" ELSE room)
     /\ IF room = "evict"
        THEN LET victim == Head(_idle_lru_peer)
             IN /\ pool' = [pool EXCEPT ![victim] = NoPeer]
                /\ lru' = Without(lru, {victim})
        ELSE UNCHANGED <<pool, lru>>
     /\ UNCHANGED <<addr, dark, faults>>

\* Mutant of Connected: the leases on the previous client are forgotten.
ConnectedForgetful ==
  LET p == busy.peer
      a == busy.at
      old == pool[p]
  IN /\ busy # NoOne /\ <<p, a>> \notin dark
     /\ pool' = [pool EXCEPT ![p] = [table |-> busy.table, at |-> a, refcount |-> 1,
                                     retired |-> 0, fd |-> old.fd]]
     /\ lru' = IF busy.table = "permanent"
               THEN Append(Without(lru, {p}), p) ELSE lru
     /\ lease' = [lease EXCEPT ![busy.who] = [st |-> "held", peer |-> p, at |-> a]]
     /\ busy' = NoOne
     /\ UNCHANGED <<addr, dark, faults>>

\* wait_for(client.connect()) returns: the entry is installed, or refreshed; the
\* leases on the previous client keep it as a retired one.
Connected ==
  LET p == busy.peer
      a == busy.at
      old == pool[p]
  IN /\ busy # NoOne /\ <<p, a>> \notin dark
     /\ pool' = [pool EXCEPT ![p] = [table |-> busy.table, at |-> a, refcount |-> 1,
                                     retired |-> old.refcount, fd |-> old.fd]]
     /\ lru' = IF busy.table = "permanent"
               THEN Append(Without(lru, {p}), p) ELSE lru
     /\ lease' = [lease EXCEPT ![busy.who] = [st |-> "held", peer |-> p, at |-> a]]
     /\ busy' = NoOne
     /\ UNCHANGED <<addr, dark, faults>>

\* The connection is refused or times out.
ConnectFails ==
  /\ busy # NoOne
  /\ <<busy.peer, busy.at>> \in dark
  /\ lease' = [lease EXCEPT ![busy.who] = NoLease]
  /\ busy' = NoOne
  /\ UNCHANGED <<addr, pool, lru, dark, faults>>

(***************************************************************************)
(* The client: request() connects when it has to, then waits for its answer.*)
(***************************************************************************)
request(c) ==
  LET l == lease[c]
      client == <<l.peer, l.at>>
  IN /\ l.st = "held"
     /\ IF client \in dark
        THEN /\ pool' = [pool EXCEPT ![l.peer] = fd_run(@, l.at)]
             /\ UNCHANGED lease
        ELSE /\ lease' = [lease EXCEPT ![c].st = "waiting"]
             /\ UNCHANGED pool
     /\ UNCHANGED <<addr, lru, busy, dark, faults>>

_route(c) ==
  /\ lease[c].st = "waiting" /\ <<lease[c].peer, lease[c].at>> \notin dark
  /\ lease' = [lease EXCEPT ![c].st = "held"]
  /\ UNCHANGED <<addr, pool, lru, busy, dark, faults>>

\* The response deadline; the connection stays, the caller gives up.
ResponseTimeout(c) ==
  /\ lease[c].st = "waiting"
  /\ Fault
  /\ lease' = [lease EXCEPT ![c].st = "held"]
  /\ pool' = [pool EXCEPT ![lease[c].peer] = fd_run(@, lease[c].at)]
  /\ UNCHANGED <<addr, lru, busy, dark>>

Pending(client) == {c \in Callers : lease[c].st = "waiting"
                                      /\ <<lease[c].peer, lease[c].at>> = client}

\* Every request pending on the client fails, and suspects the peer.
_teardown_reader(client) ==
  /\ lease' = [c \in Callers |-> IF c \in Pending(client)
                                 THEN [lease[c] EXCEPT !.st = "held"] ELSE lease[c]]
  /\ pool' = [pool EXCEPT ![client[1]] = Failed(@, client[2])]

\* The read loop ends: the connection is lost.
_read_loop(client) ==
  /\ Pending(client) # {} \/ pool[client[1]].fd.probe = client[2]
  /\ Fault
  /\ _teardown_reader(client)
  /\ UNCHANGED <<addr, lru, busy, dark>>

\* A request that cannot be sent closes its client and suspects the peer. One that
\* finds its client not connected suspects nothing itself: nothing changes then,
\* or what _read_loop does.
_send(c) ==
  /\ lease[c].st = "held" /\ Fault
  /\ _teardown_reader(<<lease[c].peer, lease[c].at>>)
  /\ UNCHANGED <<addr, lru, busy, dark>>

(***************************************************************************)
(* release() waits for the pool lock.                                       *)
(***************************************************************************)
\* Mutant of Returned: the end of a lease on a previous client removes nothing.
ReturnedKept(c, a) ==
  IF a # c.at THEN [c EXCEPT !.retired = @ - 1]
  ELSE IF c.table # "permanent" /\ c.refcount = 1 /\ c.retired = 0
  THEN NoPeer ELSE [c EXCEPT !.refcount = @ - 1]

\* The entry c after a lease on the client made for address a ended; an
\* ephemeral entry nobody leases any more is removed.
Returned(c, a) ==
  LET left == IF a = c.at THEN [c EXCEPT !.refcount = @ - 1]
              ELSE [c EXCEPT !.retired = @ - 1]
  IN IF left.table # "permanent" /\ left.refcount = 0 /\ left.retired = 0
     THEN NoPeer ELSE left

release(c) ==
  LET p == lease[c].peer
      a == lease[c].at
      left == Returned(pool[p], a)
  IN /\ lease[c].st = "held" /\ busy = NoOne
     /\ pool' = [pool EXCEPT ![p] = left]
     /\ lease' = [lease EXCEPT ![c] = NoLease]
     /\ UNCHANGED <<addr, lru, busy, dark, faults>>

\* The caller is cancelled before it gets the lock: lease() ends, release() does
\* nothing.
CancelRelease(c) ==
  /\ lease[c].st = "held" /\ busy # NoOne /\ Fault
  /\ lease' = [lease EXCEPT ![c] = NoLease]
  /\ UNCHANGED <<addr, pool, lru, busy, dark>>

(***************************************************************************)
(* The reaper: entries idle for idle_ttl go, then overflow peers move up.   *)
(***************************************************************************)
_remove_expired ==
  {p \in Peers : /\ pool[p].table # "none" /\ Idle(p)
                 /\ pool[p].table = "permanent" => Cardinality(In("permanent")) > MinSize}

\* Mutant of Promoted: the LRU does not learn of them.
PromotedUnlisted(promoted, kept) == kept

\* The order the overflow peers that move up enter the LRU in.
Promoted(promoted, kept) == kept \o promoted

\* As many overflow peers move up as the permanent table has room for.
_try_promote_overflow(expired) ==
  LET room == MaxSize - Cardinality(In("permanent") \ expired)
      waiting == In("overflow") \ expired
  IN {moved \in SUBSET waiting :
        Cardinality(moved) = IF Cardinality(waiting) < room THEN Cardinality(waiting)
                             ELSE room}

_idle_reaper ==
  /\ busy = NoOne
  /\ \E expired \in SUBSET _remove_expired :
       \E moved \in _try_promote_overflow(expired) :
         \E promoted \in Injection(1 .. Cardinality(moved), moved) :
         /\ expired \cup moved # {}
         /\ pool' = [p \in Peers |-> CASE p \in expired -> NoPeer
                                       [] p \in moved -> [pool[p] EXCEPT !.table = "permanent"]
                                       [] OTHER -> pool[p]]
         /\ lru' = Promoted(promoted, Without(lru, expired))
  /\ UNCHANGED <<addr, busy, lease, dark, faults>>

(***************************************************************************)
(* The peers.                                                               *)
(***************************************************************************)
\* Gossip brings a new address of the peer.
Move(p) ==
  /\ addr[p] < LastAddress /\ Fault
  /\ addr' = [addr EXCEPT ![p] = @ + 1]
  /\ UNCHANGED <<pool, lru, busy, lease, dark>>

GoDark(client) ==
  /\ client \notin dark /\ Fault
  /\ client[2] \in {addr[client[1]], pool[client[1]].at, pool[client[1]].fd.at,
                     pool[client[1]].fd.probe}
  /\ dark' = dark \cup {client}
  /\ UNCHANGED <<addr, pool, lru, busy, lease>>

Answers(client) ==
  /\ client \in dark
  /\ dark' = dark \ {client}
  /\ UNCHANGED <<addr, pool, lru, busy, lease, faults>>

Init ==
  /\ addr = [p \in Peers |-> 1]
  /\ pool = [p \in Peers |-> NoPeer]
  /\ lru = <<>> /\ busy = NoOne
  /\ lease = [c \in Callers |-> NoLease]
  /\ dark = {} /\ faults = 0

acquire(c) ==
  \E p \in Peers : \/ Reuse(c, p) \/ _may_refresh_peer(c, p)
                   \/ \E priority \in BOOLEAN : _acquire_locked(c, p, priority)

Connection(c) == request(c) \/ _send(c) \/ _route(c) \/ ResponseTimeout(c)

Next ==
  \/ \E c \in Callers : acquire(c) \/ Connection(c) \/ release(c) \/ CancelRelease(c)
  \/ Connected \/ ConnectFails \/ _idle_reaper
  \/ \E p \in Peers : _probe_peer(p) \/ _probe_once(p) \/ Move(p)
  \/ \E p \in Peers, a \in Addresses :
       _read_loop(<<p, a>>) \/ GoDark(<<p, a>>) \/ Answers(<<p, a>>)

Spec == Init /\ [][Next]_vars

\* The peers are interchangeable: liveness is stated for one of them.
Watched == CHOOSE p \in Peers : TRUE

\* The probe task keeps probing, and every probe ends.
Fairness == WF_vars(_probe_peer(Watched) \/ _probe_once(Watched))

FairSpec == Spec /\ Fairness

-----------------------------------------------------------------------------
\* Types, and the limits of the three tables: whatever is promoted, evicted or
\* refreshed, no table of the pool outgrows its configured size.
TypeOK ==
  /\ \A p \in Peers : /\ pool[p].table \in {"none", "permanent", "overflow", "priority"}
                      /\ pool[p].refcount \in Nat /\ pool[p].retired \in Nat
                      /\ pool[p].fd.seen \in 0..MinSamples
                      /\ pool[p].fd.probe \in 0..LastAddress
  /\ \A c \in Callers : lease[c].st \in {"none", "connecting", "held", "waiting"}
  /\ dark \subseteq Peers \X Addresses
  /\ Cardinality(In("permanent")) <= MaxSize
  /\ Cardinality(In("overflow")) <= MaxOverflow
  /\ Cardinality(In("priority")) <= PrioritySize

Leases(p, a) == {c \in Callers : lease[c].st \in {"held", "waiting"}
                                 /\ lease[c].peer = p /\ lease[c].at = a}

\* Every client somebody leases is counted by the pool, as current or as retired:
\* whatever is evicted, refreshed, reaped or released around it, the pool closes
\* no client under its user (_acquire_locked, release, _release_retired).
LeasesCovered ==
  \A p \in Peers :
    /\ pool[p].refcount >= Cardinality(Leases(p, pool[p].at))
    /\ pool[p].retired >= Cardinality(UNION {Leases(p, a) : a \in Addresses \ {pool[p].at}})

\* A connection beyond the permanent ones lives no longer than the leases it was
\* opened for, those on a previous address included: whichever of them ends last,
\* it gives its place back (release, _release_retired).
TemporaryLeased ==
  \A p \in Peers : pool[p].table \in {"overflow", "priority"} => ~Idle(p)

\* The counts are exact: a lease that ended holds nothing ("always release it on
\* exit", lease()).
LeasesReleased ==
  \A p \in Peers : pool[p].refcount <= Cardinality(Leases(p, pool[p].at))

\* The eviction order lists exactly the permanent peers, each once: no peer that
\* was promoted, refreshed or evicted escapes or haunts the LRU.
LruListsPermanents ==
  Range(lru) = In("permanent") /\ IsInjective(lru)

\* A suspected peer that the pool reaches at its address of the registry is trusted
\* again, unless it moves or goes dark. Links_suspect.cfg shows that the code does
\* not give this: the probes go on to the address that failed.
SuspicionLifts ==
  \A a \in Addresses :
    pool[Watched].fd.active /\ pool[Watched].at = a
      ~> (~pool[Watched].fd.active \/ addr[Watched] # a \/ <<Watched, a>> \in dark)
=============================================================================
