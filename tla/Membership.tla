---------------------------- MODULE Membership ----------------------------
(***************************************************************************)
(* Cluster membership: the registry and the ring every node derives from   *)
(* it (gossip/registry.py, gossip/topology.py), the gossip engine that     *)
(* spreads member records (gossip/gossiper.py, services/gossip.py), the    *)
(* bootstrap from a seed (gossip/bootstrapper.py) and the view tracker     *)
(* that follows the ring (ae/tracker.py).                                  *)
(*                                                                         *)
(* A step is the code between two awaits that suspend.  The locked regions *)
(* of TopologyManager hold no await and the hot queue is unbounded, so     *)
(* applying and announcing a record is one step.                           *)
(***************************************************************************)
EXTENDS Handover

CONSTANTS SeedOf,      \* the seed in each node's state file, or NoNode
          Tokens,      \* Tokens[n][e]: the tokens n draws in its epoch e
          MaxEpoch,    \* bound: last epoch of each node
          HopLimit,    \* gossip.hop_limit
          MaxFanOut,   \* gossip.max_fan_out
          Tracked,     \* bound: the nodes whose view tracker is followed
          Unstable,    \* bound: the nodes that may crash
          MaxExchanges,\* bound: anti-entropy exchanges open at a time
          MaxFaults    \* bound: crashes, and exchanges that fail though the peer is up

VARIABLES own,     \* the member record in each node's state file
          up,      \* "down", "serving" (peer listener only), "gossiping"
          boot,    \* bootstrap: done, waiting for the seed, or merging its members
          top,     \* TopologyManager
          trk,     \* ViewTracker
          hot,     \* queue of announcements
          wire,    \* gossip.push requests in flight
          relays,  \* relay tasks not yet started
          ae,      \* anti-entropy exchange of each node
          faults

vars == <<own, up, boot, top, trk, hot, wire, relays, ae, faults>>

-----------------------------------------------------------------------------
(* TopologyManager.                                                        *)

NoMember == [epoch |-> -1, phase |-> "idle", tokens |-> {}]
NoPrint == <<>>
NoView == <<>>

EmptyTopology ==
  [registry |-> [n \in Nodes |-> NoMember], ring |-> {},
   fingerprint |-> NoPrint, changed |-> FALSE]

\* Mutant of Superseding: any other record replaces the current one.
SupersedingAny(registry, members) ==
  {n \in DOMAIN members : members[n].epoch # registry[n].epoch}

\* The records of a batch that replace what the registry holds.
Superseding(registry, members) ==
  {n \in DOMAIN members : members[n].epoch > registry[n].epoch}

\* _update_ring reports a change of vnodes, or of phase on the ring.
RingChanged(old, new) ==
  LET owned(m) == IF m.phase \in RING_PHASES THEN m.tokens ELSE {}
  IN  \/ owned(old) # owned(new)
      \/ old.phase # new.phase /\ new.phase \in RING_PHASES

\* Those for which _apply returns True.
Changing(t, members) ==
  {n \in Superseding(t.registry, members) : RingChanged(t.registry[n], members[n])}

upsert(registry, members) ==
  [n \in Nodes |-> IF n \in Superseding(registry, members) THEN members[n]
                   ELSE registry[n]]

\* The vnodes of the replaced records go, those of a record on the ring come.
_update_ring(ring, new, members) ==
  drop_nodes(ring, new) \cup
    UNION {vnodes(n, members[n]) : n \in {m \in new : members[m].phase \in RING_PHASES}}

\* `changed` stands for a generation above the one the tracker saw: _notify
\* raises it once per batch.
_notify(t, members) == t.changed \/ Changing(t, members) # {}
wait_for_change(t) == t.changed

\* Mutant of merge_registry: the fingerprint is kept while the ring is the same.
merge_registryCached(t, members) ==
  LET new == Superseding(t.registry, members)
  IN  [registry |-> upsert(t.registry, members),
       ring |-> _update_ring(t.ring, new, members),
       fingerprint |-> IF Changing(t, members) = {} THEN t.fingerprint ELSE NoPrint,
       changed |-> _notify(t, members)]

merge_registry(t, members) ==
  LET new == Superseding(t.registry, members)
  IN  [registry |-> upsert(t.registry, members),
       ring |-> _update_ring(t.ring, new, members),
       fingerprint |-> IF new = {} THEN t.fingerprint ELSE NoPrint,
       changed |-> _notify(t, members)]

Epochs(registry) == [n \in Nodes |-> registry[n].epoch]

member_fingerprint(t) ==
  IF t.fingerprint = NoPrint THEN Epochs(t.registry) ELSE t.fingerprint

Fingerprinted(t) == [t EXCEPT !.fingerprint = member_fingerprint(t)]

AllMembers(registry) == [n \in Known(registry) |-> registry[n]]

-----------------------------------------------------------------------------
Idle == [epoch |-> 0, phase |-> "idle", tokens |-> {}]
Booted == [st |-> "done", members |-> <<>>]
Waiting == [st |-> "wait", members |-> <<>>]
NoTracker == [st |-> "off", next |-> NoView, view |-> NoView]
NoExchange == [st |-> "idle", peer |-> NoNode, data |-> <<>>]

_eligible_members(n) ==
  {p \in Nodes \ {n} : top[n].registry[p].phase \in {"ready", "joining", "draining"}}

Log2Up(k) == CHOOSE e \in 0 .. k : 2 ^ e >= k /\ \A d \in 0 .. (e - 1) : 2 ^ d < k

FanOut(k) ==
  LET wide == Log2Up(k + 1) + 1
      capped == IF wide < MaxFanOut THEN wide ELSE MaxFanOut
  IN  IF capped < k THEN capped ELSE k

Samples(eligible) ==
  {s \in SUBSET eligible : Cardinality(s) = FanOut(Cardinality(eligible))}

\* _publish_state of a record: applied locally, announced to the others.
publish(n, m) ==
  /\ top' = [top EXCEPT ![n] = merge_registry(@, [id \in {n} |-> m])]
  /\ hot' = [hot EXCEPT ![n] = Append(@, m)]

-----------------------------------------------------------------------------
(* Life of a node, as far as gossip sees it (services/lifecycle.py).       *)

Published(n) == top[n].registry[n].epoch = own[n].epoch

Moves == {<<"idle", "joining">>, <<"failed", "joining">>, <<"ready", "joining">>,
          <<"joining", "ready">>, <<"joining", "failed">>,
          <<"ready", "draining">>, <<"draining", "idle">>}

\* A phase change is written to the state file before it is published.
_transition_to(n, phase) ==
  /\ own[n].epoch < MaxEpoch[n]
  /\ own' = [own EXCEPT ![n] =
               [epoch |-> @.epoch + 1, phase |-> phase,
                tokens |-> IF phase = "joining" THEN Tokens[n][@.epoch + 1]
                           ELSE @.tokens]]

Transition(n, phase) ==
  /\ up[n] # "down" /\ boot[n] = Booted
  /\ Published(n) \/ own[n].phase \in {"idle", "failed"}
  /\ <<own[n].phase, phase>> \in Moves
  /\ own[n].phase \in {"joining", "draining"} /\ phase # "failed" /\ n \in Tracked
       => trk[n].view # NoView
  /\ phase = "draining" => drop_nodes(top[n].ring, {n}) # {}
  /\ _transition_to(n, phase)
  /\ UNCHANGED <<up, boot, top, trk, hot, wire, relays, ae, faults>>

\* The transition is published; joining also starts gossip and the bootstrap,
\* leaving the ring stops anti-entropy.
Publish(n) ==
  /\ up[n] # "down" /\ boot[n] = Booted /\ ~Published(n)
  /\ own[n].phase = "joining" \/ up[n] = "gossiping"
  /\ publish(n, own[n])
  /\ up' = [up EXCEPT ![n] = "gossiping"]
  /\ boot' = [boot EXCEPT ![n] = IF own[n].phase = "joining" THEN Waiting ELSE @]
  /\ trk' = [trk EXCEPT ![n] = IF own[n].phase \in {"idle", "failed"}
                               THEN NoTracker ELSE @]
  /\ UNCHANGED <<own, wire, relays, ae, faults>>

_cancel_relays(n) == relays' = [relays EXCEPT ![n] = {}]

\* Gossiper.stop of a failed join: it first waits for the hot queue to drain.
GossipStop(n) ==
  /\ up[n] = "gossiping" /\ own[n].phase = "failed" /\ Published(n)
  /\ hot[n] = <<>>
  /\ up' = [up EXCEPT ![n] = "serving"]
  /\ _cancel_relays(n)
  /\ ae' = [ae EXCEPT ![n] = NoExchange]
  /\ UNCHANGED <<own, boot, top, trk, hot, wire, faults>>

Crash(n) ==
  /\ n \in Unstable /\ up[n] # "down" /\ faults < MaxFaults
  /\ faults' = faults + 1
  /\ up' = [up EXCEPT ![n] = "down"]
  /\ boot' = [boot EXCEPT ![n] = Booted]
  /\ top' = [top EXCEPT ![n] = EmptyTopology]
  /\ trk' = [trk EXCEPT ![n] = NoTracker]
  /\ hot' = [hot EXCEPT ![n] = <<>>]
  /\ relays' = [relays EXCEPT ![n] = {}]
  /\ ae' = [ae EXCEPT ![n] = NoExchange]
  /\ UNCHANGED <<own, wire>>

\* NodeLifecycle.start, by persisted phase.
Restart(n) ==
  /\ up[n] = "down"
  /\ \/ /\ own[n].phase \in {"idle", "failed"}
        /\ up' = [up EXCEPT ![n] = "serving"]
        /\ UNCHANGED <<boot, top, hot>>
     \/ /\ own[n].phase \in {"ready", "draining"} /\ SeedOf[n] # NoNode
        /\ up' = [up EXCEPT ![n] = "serving"]
        /\ boot' = [boot EXCEPT ![n] = Waiting]
        /\ UNCHANGED <<top, hot>>
     \/ /\ own[n].phase = "joining" \/ (own[n].phase \in {"ready", "draining"}
                                        /\ SeedOf[n] = NoNode)
        /\ publish(n, own[n])
        /\ up' = [up EXCEPT ![n] = "gossiping"]
        /\ boot' = [boot EXCEPT ![n] = IF own[n].phase = "joining" THEN Waiting ELSE @]
  /\ UNCHANGED <<own, trk, wire, relays, ae, faults>>

-----------------------------------------------------------------------------
\* The gossip handlers of a node: push, ping and digest are answered from the
\* moment its peer listener is up, whatever its phase.
Serves(n) == up[n] # "down"

(* Bootstrap: an empty digest is answered with every member of the seed.   *)

SeedAnswers(n) ==
  /\ boot[n] = Waiting /\ SeedOf[n] # NoNode /\ Serves(SeedOf[n])
  /\ boot' = [boot EXCEPT ![n] =
       [st |-> "merge", members |-> AllMembers(top[SeedOf[n]].registry)]]
  /\ UNCHANGED <<own, up, top, trk, hot, wire, relays, ae, faults>>

\* The members are merged; the node publishes its record, JOINING again.
Bootstrapped(n) ==
  /\ boot[n].st = "merge"
  /\ boot' = [boot EXCEPT ![n] = Booted]
  /\ up' = [up EXCEPT ![n] = "gossiping"]
  /\ top' = [top EXCEPT ![n] = merge_registry(merge_registry(@, boot[n].members),
                                              [id \in {n} |-> own[n]])]
  /\ hot' = [hot EXCEPT ![n] = Append(@, own[n])]
  /\ UNCHANGED <<own, trk, wire, relays, ae, faults>>

\* Retries are exhausted: a joining node fails, a ready one goes on alone,
\* a draining one stays as it is.
BootstrapFailed(n) ==
  /\ boot[n] = Waiting
  /\ boot' = [boot EXCEPT ![n] = Booted]
  /\ \/ own[n].phase = "joining" /\ _transition_to(n, "failed")
        /\ UNCHANGED <<up, top, hot>>
     \/ own[n].phase = "ready" /\ publish(n, own[n])
        /\ up' = [up EXCEPT ![n] = "gossiping"] /\ UNCHANGED own
     \/ own[n].phase = "draining" /\ UNCHANGED <<own, up, top, hot>>
  /\ UNCHANGED <<trk, wire, relays, ae, faults>>

-----------------------------------------------------------------------------
(* Hot path: announcements are pushed, and relayed by those they teach.    *)

\* Requests in flight: one that is lost stays there, one that timed out at
\* its sender may still be delivered.
Push(n, id, m, hop, targets) ==
  {[src |-> n, dst |-> t, id |-> id, m |-> m, hop |-> hop] : t \in targets}

\* _hot_loop: the next announcement; the pushes of the last have returned or
\* timed out.
HotPush(n) ==
  /\ up[n] = "gossiping" /\ hot[n] # <<>>
  /\ hot' = [hot EXCEPT ![n] = Tail(@)]
  /\ \E targets \in Samples(_eligible_members(n)) :
       wire' = wire \cup Push(n, n, Head(hot[n]), HopLimit, targets)
  /\ UNCHANGED <<own, up, boot, top, trk, relays, ae, faults>>

Relay(n, r) ==
  /\ r \in relays[n]
  /\ relays' = [relays EXCEPT ![n] = @ \ {r}]
  /\ \E targets \in Samples(_eligible_members(n) \ {r.sender, r.id}) :
       wire' = wire \cup Push(n, r.id, r.m, r.hop, targets)
  /\ UNCHANGED <<own, up, boot, top, trk, hot, ae, faults>>

\* GossipService.accept: a record that changed the ring travels on.
accept(p) ==
  /\ p \in wire /\ Serves(p.dst)
  /\ wire' = wire \ {p}
  /\ top' = [top EXCEPT ![p.dst] = merge_registry(@, [id \in {p.id} |-> p.m])]
  /\ relays' = [relays EXCEPT ![p.dst] =
       IF /\ Changing(top[p.dst], [id \in {p.id} |-> p.m]) # {} /\ p.hop > 1
          /\ up[p.dst] = "gossiping"
       THEN @ \cup {[id |-> p.id, m |-> p.m, hop |-> p.hop - 1, sender |-> p.src]}
       ELSE @]
  /\ UNCHANGED <<own, up, boot, trk, hot, ae, faults>>

-----------------------------------------------------------------------------
(* Anti-entropy of the registry: ping, pong, digest, delta, push of what   *)
(* the responder wants.                                                    *)

_build_digest(n) == Epochs(top[n].registry)

exchange(n, st, data) ==
  ae' = [ae EXCEPT ![n] = [st |-> st, peer |-> @.peer, data |-> data]]

_run_ae_cycle(n) ==
  /\ up[n] = "gossiping" /\ ae[n] = NoExchange
  /\ Cardinality({m \in Nodes : ae[m] # NoExchange}) < MaxExchanges
  /\ \E p \in _eligible_members(n) :
       ae' = [ae EXCEPT ![n] = [st |-> "ping", peer |-> p,
                                data |-> member_fingerprint(top[n])]]
  /\ top' = [top EXCEPT ![n] = Fingerprinted(@)]
  /\ UNCHANGED <<own, up, boot, trk, hot, wire, relays, faults>>

\* The answer returns at once: a different fingerprint is followed by the
\* digest.
pong(n) ==
  LET p == ae[n].peer IN
  /\ ae[n].st = "ping" /\ Serves(p)
  /\ top' = [top EXCEPT ![p] = Fingerprinted(@)]
  /\ IF member_fingerprint(top[p]) = ae[n].data
     THEN ae' = [ae EXCEPT ![n] = NoExchange]
     ELSE exchange(n, "digest", _build_digest(n))
  /\ UNCHANGED <<own, up, boot, trk, hot, wire, relays, faults>>

Newer(registry, epochs) == {m \in Nodes : registry[m].epoch > epochs[m]}

delta(n) ==
  LET p == ae[n].peer
      registry == top[p].registry
  IN
  /\ ae[n].st = "digest" /\ Serves(p)
  /\ exchange(n, "delta",
       [members |-> [m \in Newer(registry, ae[n].data) |-> registry[m]],
        wanted |-> {m \in Nodes : ae[n].data[m] > registry[m].epoch}])
  /\ UNCHANGED <<own, up, boot, top, trk, hot, wire, relays, faults>>

\* After the delta is merged: the exchange ends unless the peer wants records.
_ae_digest_delta(n, registry) ==
  IF ae[n].data.wanted = {}
  THEN ae' = [ae EXCEPT ![n] = NoExchange]
  ELSE exchange(n, "push", [m \in ae[n].data.wanted |-> registry[m]])

\* Mutant of _merge_delta: what the peer wants is not sent.
_merge_deltaOneWay(n) ==
  /\ ae[n].st = "delta"
  /\ top' = [top EXCEPT ![n] = merge_registry(@, ae[n].data.members)]
  /\ ae' = [ae EXCEPT ![n] = NoExchange]
  /\ UNCHANGED <<own, up, boot, trk, hot, wire, relays, faults>>

\* The delta is merged and what the peer wants is read in the same step.
_merge_delta(n) ==
  LET t == merge_registry(top[n], ae[n].data.members) IN
  /\ ae[n].st = "delta"
  /\ top' = [top EXCEPT ![n] = t]
  /\ _ae_digest_delta(n, t.registry)
  /\ UNCHANGED <<own, up, boot, trk, hot, wire, relays, faults>>

\* Pushed with hop_limit 1, so never relayed.
_satisfy_wanted(n) ==
  LET p == ae[n].peer IN
  /\ ae[n].st = "push" /\ Serves(p)
  /\ top' = [top EXCEPT ![p] = merge_registry(@, ae[n].data)]
  /\ ae' = [ae EXCEPT ![n] = NoExchange]
  /\ UNCHANGED <<own, up, boot, trk, hot, wire, relays, faults>>

_ae_failed(n) ==
  /\ ae[n].st \in {"ping", "digest", "push"}
  /\ \/ up[ae[n].peer] = "down" /\ UNCHANGED faults
     \/ faults < MaxFaults /\ faults' = faults + 1
  /\ ae' = [ae EXCEPT ![n] = NoExchange]
  /\ UNCHANGED <<own, up, boot, top, trk, hot, wire, relays>>

-----------------------------------------------------------------------------
(* ViewTracker.                                                            *)

\* The generation is read with the snapshot: later changes are noticed.
_snapshot(n) ==
  /\ trk' = [trk EXCEPT ![n] = [st |-> "build", view |-> NoView,
                next |-> build_view(top[n].registry, top[n].ring)]]
  /\ top' = [top EXCEPT ![n].changed = FALSE]

\* AntiEntropyService.start, once the node published its phase.
TrackerStart(n) ==
  /\ n \in Tracked /\ up[n] = "gossiping" /\ boot[n] = Booted /\ trk[n].st = "off"
  /\ own[n].phase \in {"joining", "ready", "draining"} /\ Published(n)
  /\ _snapshot(n)
  /\ UNCHANGED <<own, up, boot, hot, wire, relays, ae, faults>>

\* Mutant of _rebuild: the generation is read when the view is ready.
_rebuildLate(n) ==
  /\ trk[n].st = "build"
  /\ trk' = [trk EXCEPT ![n] = [st |-> "watch", view |-> @.next, next |-> NoView]]
  /\ top' = [top EXCEPT ![n].changed = FALSE]
  /\ UNCHANGED <<own, up, boot, hot, wire, relays, ae, faults>>

_rebuild(n) ==
  /\ trk[n].st = "build"
  /\ trk' = [trk EXCEPT ![n] = [st |-> "watch", view |-> @.next, next |-> NoView]]
  /\ UNCHANGED <<own, up, boot, top, hot, wire, relays, ae, faults>>

_invalidate(n) ==
  /\ trk[n].st = "watch" /\ wait_for_change(top[n])
  /\ trk' = [trk EXCEPT ![n] = [st |-> "settle", view |-> NoView, next |-> NoView]]
  /\ top' = [top EXCEPT ![n].changed = FALSE]
  /\ UNCHANGED <<own, up, boot, hot, wire, relays, ae, faults>>

\* Quiet, or the settle delay is over.
_settle(n) ==
  /\ trk[n].st = "settle"
  /\ _snapshot(n)
  /\ UNCHANGED <<own, up, boot, hot, wire, relays, ae, faults>>

-----------------------------------------------------------------------------
(* A formed cluster of seedless or joined READY nodes; the others are IDLE.*)
CONSTANT Founders

ASSUME MembershipAssumption ==
  /\ Founders \subseteq Nodes
  /\ SeedOf \in [Nodes -> Nodes \cup {NoNode}]
  /\ MaxEpoch \in [Nodes -> Nat] /\ \A n \in Founders : MaxEpoch[n] >= 1
  /\ \A n \in Nodes : \A e \in 1 .. MaxEpoch[n] : Tokens[n][e] \subseteq 0 .. (Space - 1)

Ready(n) == [epoch |-> 1, phase |-> "ready", tokens |-> Tokens[n][1]]

FormedTopology ==
  [merge_registry(EmptyTopology, [n \in Founders |-> Ready(n)])
     EXCEPT !.changed = FALSE]

Init ==
  /\ own = [n \in Nodes |-> IF n \in Founders THEN Ready(n) ELSE Idle]
  /\ up = [n \in Nodes |-> IF n \in Founders THEN "gossiping" ELSE "serving"]
  /\ boot = [n \in Nodes |-> Booted]
  /\ top = [n \in Nodes |-> IF n \in Founders THEN FormedTopology ELSE EmptyTopology]
  /\ trk = [n \in Nodes |-> NoTracker]
  /\ hot = [n \in Nodes |-> <<>>]
  /\ wire = {}
  /\ relays = [n \in Nodes |-> {}]
  /\ ae = [n \in Nodes |-> NoExchange]
  /\ faults = 0

Gossip(n) ==
  \/ HotPush(n)
  \/ \E r \in relays[n] : Relay(n, r)
  \/ _run_ae_cycle(n) \/ pong(n) \/ delta(n)
  \/ _merge_delta(n) \/ _satisfy_wanted(n)

Track(n) == TrackerStart(n) \/ _rebuild(n) \/ _invalidate(n) \/ _settle(n)

Start(n) == Restart(n) \/ SeedAnswers(n) \/ Bootstrapped(n)

Next ==
  \/ \E n \in Nodes : \/ \E phase \in {"joining", "ready", "draining", "idle", "failed"} :
                           Transition(n, phase)
                      \/ Publish(n) \/ GossipStop(n) \/ Crash(n) \/ BootstrapFailed(n)
                      \/ Start(n) \/ Gossip(n) \/ Track(n) \/ _ae_failed(n)
  \/ \E p \in wire : accept(p)

Spec == Init /\ [][Next]_vars

\* The event loop serves every ready task: timers fire, answers of peers that
\* are up arrive, a crashed node is restarted.  Pushes may all be lost.
Fairness ==
  /\ \A n \in Nodes :
       WF_vars(Start(n) \/ Publish(n) \/ Track(n) \/ HotPush(n) \/ GossipStop(n))
  /\ WF_vars(\E n \in Nodes : _run_ae_cycle(n))
  /\ WF_vars(\E n \in Nodes : \/ pong(n) \/ delta(n) \/ _merge_delta(n)
                               \/ _satisfy_wanted(n) \/ _ae_failed(n))

FairSpec == Spec /\ Fairness

-----------------------------------------------------------------------------
(* Properties.                                                             *)

\* The ring a node routes with is the one its registry describes, whatever
\* intermediate phases it never saw, and a cached fingerprint is that of the
\* present registry, so a pong never reports two different registries as the
\* same (topology.py _update_ring, member_fingerprint).
TopologyFollows ==
  \A n \in Nodes :
    /\ top[n].ring = UNION {vnodes(m, top[n].registry[m]) : m \in
                              {k \in Nodes : top[n].registry[k].phase \in RING_PHASES}}
    /\ top[n].fingerprint # NoPrint => top[n].fingerprint = Epochs(top[n].registry)

\* A running node never goes back to an older record of a member, however
\* late or often pushes and deltas arrive (registry.py upsert).
NeverRegresses ==
  [][\A a, n \in Nodes :
       up[a] # "down" /\ up'[a] # "down"
         => top'[a].registry[n].epoch >= top[a].registry[n].epoch]_vars

\* The peers that a node may suspect, and that its preference lists ask it about.
Suspicions(n, registry) == SUBSET {m \in Nodes \ {n} : registry[m].phase = "ready"}

\* The topology as it is, and once a member it has not met is READY.
Arrivals(t) ==
  {t} \cup {merge_registry(t, [m \in {n} |-> Ready(n)]) : n \in Nodes \ Known(t.registry)}

DistinctTargets(registry, ring, pid, dead) ==
  LET list == preference_list(registry, ring, pid, dead)
  IN  \A i, j \in DOMAIN list :
        /\ list[i].handoff # list[j].node
        /\ i # j => /\ list[i].node # list[j].node
                    /\ \/ list[i].handoff = NoNode
                       \/ list[i].handoff # list[j].handoff

OwnersReplicate(registry, ring) ==
  LET view == build_view(registry, ring)
  IN  \A pid \in Pids : \A n \in Elements(Owners(registry, ring, pid)) :
        registry[n].phase # "draining" => n \in Elements(view[pid].replicas)

\* On every topology a node comes to hold, whoever joins it next: the stand-ins
\* of a preference list are distinct from each other and from its owners whichever
\* peers the failure detector suspects, so the targets of a write are as many nodes
\* as it counts; and every owner that is not leaving is a target replica of
\* anti-entropy (placement.py preference_list, ae/view.py build_view).
PlacementsAgree ==
  [][\A n \in Nodes : top'[n].registry # top[n].registry /\ top'[n].ring # {} =>
       \A t \in Arrivals(top'[n]) :
         /\ \A pid \in Pids, dead \in Suspicions(n, t.registry) :
              DistinctTargets(t.registry, t.ring, pid, dead)
         /\ OwnersReplicate(t.registry, t.ring)]_vars

ArcIsRouted(ring, v) ==
  LET routed == {pid \in Pids : _placement(ring, pid) = v}
      arc == ranges_for(ring, v)
  IN  linear(arc) = routed /\ arc_count(arc) = Cardinality(routed)

\* On every ring a node comes to hold, the arcs that node inspection reports
\* cover each partition once, at the vnode that routing sends it to
\* (partitioner.py segments_for, arc_count).
SegmentsMatchRouting ==
  [][\A n \in Nodes : top'[n].ring # top[n].ring =>
       \A v \in top'[n].ring : ArcIsRouted(top'[n].ring, v)]_vars

JoinCovers(view, node) ==
  \A primaries \in _join_sources(view, node), first \in Outcomes(view, node) :
  \A second \in IF \E n \in DOMAIN first : first[n] = "down"
                THEN Outcomes(view, node) ELSE {first} :
    LET pass == _join_pass(view, node, primaries, first, second)
    IN  \/ pass.failed
        \/ \A pid \in Pids : node \in Elements(view[pid].replicas) =>
             LET sources == Elements(view[pid].sources) \ {node}
             IN  \/ \A n \in sources : "down" \in {first[n], second[n]}
                 \/ \E n \in sources : <<n, pid>> \in pass.reached

DrainCovers(view, node) ==
  \A outcome \in Outcomes(view, node) : _drain_pass(view, Pids, outcome) =>
    \A pid \in Pids : LET replicas == Elements(view[pid].replicas) IN
      /\ \A n \in replicas : outcome[n] # "failed"
      /\ \E n \in replicas : outcome[n] = "ok"

\* The members as they are, or with some READY ones announced DRAINING.
Departures(registry) ==
  {[n \in Nodes |-> IF n \in d THEN [registry[n] EXCEPT !.phase = "draining"]
                    ELSE registry[n]] : d \in SUBSET {n \in Nodes : registry[n].phase = "ready"}}

\* On every topology a node comes to hold, whichever members then leave and
\* whatever becomes of each session: a join pass that reports no failure has
\* copied every partition the node will own that a live source serves, and a
\* complete drain pass has handed every partition to another node, and to all
\* of its live replicas (antientropy.py wait_joined, drain).
HandoversCover ==
  [][\A n \in Nodes : top'[n].registry # top[n].registry /\ top'[n].ring # {} =>
       LET after == Departures(top'[n].registry)
           views(phase) == {build_view(members, top'[n].ring) :
                              members \in {m \in after : m[n].phase = phase}}
       IN  /\ \A view \in views("joining") : JoinCovers(view, n)
           /\ \A view \in views("draining") : DrainCovers(view, n)]_vars

\* A view that no pending change will invalidate is the one of the present
\* topology: no change falls between the snapshot of a rebuild and the wait
\* that follows it (tracker.py _rebuild, topology.py wait_for_change).
ViewsFollow ==
  \A n \in Nodes : trk[n].st = "watch" /\ ~top[n].changed
                     => trk[n].view = build_view(top[n].registry, top[n].ring)

\* Once changes stop, the gossiping nodes agree on every member, even if no
\* push arrives, and the views they replicate by are up to date (gossiper.py
\* _ae_loop, tracker.py _run).
Settled ==
  \A a \in Nodes : up[a] = "gossiping" =>
    /\ \A b \in Nodes : up[b] = "gossiping" => top[a].registry = top[b].registry
    /\ trk[a].st # "off" =>
         trk[a].view = build_view(top[a].registry, top[a].ring)

Converges == <>[]Settled

=============================================================================
