-------------------------- MODULE MembershipProofs --------------------------
(***************************************************************************)
(* Theorems about the topology of a node, for every cluster, hash space,   *)
(* token assignment and bound of Membership.                               *)
(***************************************************************************)
EXTENDS Membership, TLAPS

Phases == {"idle", "joining", "ready", "paused", "draining", "failed"}
Member == [epoch : Int, phase : Phases, tokens : SUBSET (0 .. (Space - 1))]
VNode == [token : 0 .. (Space - 1), node : Nodes]
Topology == [registry : [Nodes -> Member], ring : SUBSET VNode,
             fingerprint : [Nodes -> Int] \cup {NoPrint}, changed : BOOLEAN]

\* A set of member records, as a function of the node ids.
Batch(b) == DOMAIN b \subseteq Nodes /\ \A n \in DOMAIN b : b[n] \in Member

RingOf(registry) ==
  UNION {vnodes(m, registry[m]) : m \in {k \in Nodes : registry[k].phase \in RING_PHASES}}

\* What merges and reads of a TopologyManager preserve.
Sound(t) ==
  /\ t \in Topology
  /\ \A n \in Nodes : /\ t.registry[n].epoch >= -1
                      /\ t.registry[n].phase \in RING_PHASES => t.registry[n].epoch >= 0
  /\ t.ring = RingOf(t.registry)
  /\ t.fingerprint # NoPrint => t.fingerprint = Epochs(t.registry)

-----------------------------------------------------------------------------
(* The ring and the registry under a merge.                                *)

\* The vnodes of a registry are those of its members that are on the ring.
LEMMA RingMembership ==
  ASSUME NEW registry, NEW v
  PROVE  v \in RingOf(registry) <=>
           \E m \in Nodes : /\ registry[m].phase \in RING_PHASES
                            /\ v \in vnodes(m, registry[m])
PROOF BY Zenon DEF RingOf

\* A vnode carries the id of its member.
LEMMA VNodeOwner ==
  ASSUME NEW n, NEW m, NEW v \in vnodes(n, m)
  PROVE  v.node = n
PROOF BY DEF vnodes

\* upsert replaces exactly the superseded records (registry.py upsert).
LEMMA UpsertIs ==
  ASSUME NEW registry \in [Nodes -> Member], NEW b, Batch(b)
  PROVE  /\ upsert(registry, b) \in [Nodes -> Member]
         /\ Superseding(registry, b) \subseteq Nodes
         /\ \A n \in Superseding(registry, b) :
              /\ n \in DOMAIN b /\ b[n].epoch > registry[n].epoch
              /\ upsert(registry, b)[n] = b[n]
         /\ \A n \in Nodes \ Superseding(registry, b) :
              upsert(registry, b)[n] = registry[n]
PROOF
  <1>1. Superseding(registry, b) \subseteq Nodes /\ Superseding(registry, b) \subseteq DOMAIN b
    BY DEF Superseding, Batch
  <1>2. \A n \in Superseding(registry, b) : b[n] \in Member /\ b[n].epoch > registry[n].epoch
    BY DEF Superseding, Batch
  <1> HIDE DEF Member
  <1> QED BY <1>1, <1>2 DEF upsert

\* The incremental update leaves the ring of the new registry, whatever the
\* old and the new phases are (topology.py _update_ring).
LEMMA UpdatedRing ==
  ASSUME NEW registry \in [Nodes -> Member], NEW b, Batch(b)
  PROVE  _update_ring(RingOf(registry), Superseding(registry, b), b)
           = RingOf(upsert(registry, b))
PROOF
  <1> DEFINE new == Superseding(registry, b)
             after == upsert(registry, b)
             coming == UNION {vnodes(n, b[n]) : n \in {m \in new : b[m].phase \in RING_PHASES}}
  <1>1. /\ new \subseteq Nodes
        /\ \A n \in new : after[n] = b[n]
        /\ \A n \in Nodes \ new : after[n] = registry[n]
    BY UpsertIs
  <1>2. _update_ring(RingOf(registry), new, b) = drop_nodes(RingOf(registry), new) \cup coming
    BY Zenon DEF _update_ring
  <1> HIDE DEF new, after
  <1>3. ASSUME NEW v
        PROVE  v \in coming <=> \E m \in new : /\ after[m].phase \in RING_PHASES
                                              /\ v \in vnodes(m, after[m])
    <2>1. v \in coming <=> \E m \in new : b[m].phase \in RING_PHASES /\ v \in vnodes(m, b[m])
      BY Zenon
    <2> HIDE DEF coming
    <2> QED BY <2>1, <1>1
  <1>4. ASSUME NEW v
        PROVE  v \in drop_nodes(RingOf(registry), new) <=>
                 \E m \in Nodes \ new : /\ after[m].phase \in RING_PHASES
                                        /\ v \in vnodes(m, after[m])
    <2>1. v \in drop_nodes(RingOf(registry), new) <=>
            v.node \notin new /\ \E m \in Nodes : /\ registry[m].phase \in RING_PHASES
                                                  /\ v \in vnodes(m, registry[m])
      BY RingMembership DEF drop_nodes
    <2> QED BY <2>1, <1>1, VNodeOwner
  <1> HIDE DEF coming
  <1>5. ASSUME NEW v
        PROVE  v \in RingOf(after) <=> v \in drop_nodes(RingOf(registry), new) \cup coming
    BY <1>1, <1>3, <1>4, RingMembership
  <1>6. RingOf(after) = drop_nodes(RingOf(registry), new) \cup coming
    BY <1>5, Zenon
  <1> QED BY <1>2, <1>6 DEF new, after

\* Every vnode of a typed registry is one.
LEMMA RingType ==
  ASSUME NEW registry \in [Nodes -> Member]
  PROVE  RingOf(registry) \subseteq VNode
PROOF
  <1> SUFFICES ASSUME NEW v \in RingOf(registry) PROVE v \in VNode
    OBVIOUS
  <1>1. PICK m \in Nodes : v \in vnodes(m, registry[m])
    BY RingMembership
  <1>2. registry[m].tokens \subseteq 0 .. (Space - 1)
    BY DEF Member
  <1> QED BY <1>1, <1>2 DEF vnodes, VNode

\* A merge keeps a topology sound and no record of it goes back
\* (topology.py merge_registry).
LEMMA MergeSound ==
  ASSUME NEW t, Sound(t), NEW b, Batch(b)
  PROVE  /\ Sound(merge_registry(t, b))
         /\ \A n \in Nodes : merge_registry(t, b).registry[n].epoch >= t.registry[n].epoch
PROOF
  <1> DEFINE u == merge_registry(t, b)
             new == Superseding(t.registry, b)
             after == upsert(t.registry, b)
  <1>1. /\ t.registry \in [Nodes -> Member] /\ t.fingerprint \in [Nodes -> Int] \cup {NoPrint}
        /\ t.changed \in BOOLEAN
    BY DEF Sound, Topology
  <1>2. /\ u = [registry |-> after, ring |-> _update_ring(t.ring, new, b),
                fingerprint |-> IF new = {} THEN t.fingerprint ELSE NoPrint,
                changed |-> _notify(t, b)]
    BY DEF merge_registry
  <1>3. _notify(t, b) \in BOOLEAN
    BY DEF _notify
  <1> HIDE DEF u
  <1>4. /\ u.registry = after /\ u.ring = _update_ring(t.ring, new, b)
        /\ u.fingerprint = IF new = {} THEN t.fingerprint ELSE NoPrint
        /\ u.changed = _notify(t, b)
    BY <1>2
  <1>5. /\ after \in [Nodes -> Member] /\ new \subseteq Nodes
        /\ \A n \in new : after[n] = b[n] /\ b[n].epoch > t.registry[n].epoch /\ n \in DOMAIN b
        /\ \A n \in Nodes \ new : after[n] = t.registry[n]
    BY <1>1, UpsertIs
  <1> HIDE DEF new, after
  <1>6. \A n \in Nodes : after[n].epoch \in Int /\ t.registry[n].epoch \in Int
    BY <1>1, <1>5 DEF Member
  <1>7. u.ring = RingOf(after)
    BY <1>1, <1>4, UpdatedRing DEF Sound, new, after
  <1>8. u \in Topology
    BY <1>1, <1>2, <1>3, <1>4, <1>5, <1>7, RingType DEF Topology
  <1>9. \A n \in Nodes : /\ after[n].epoch >= t.registry[n].epoch
                         /\ after[n].epoch >= -1
                         /\ after[n].phase \in RING_PHASES => after[n].epoch >= 0
    BY <1>5, <1>6 DEF Sound
  <1>10. u.fingerprint # NoPrint => u.fingerprint = Epochs(after)
    <2>1. CASE new = {}
      <3>1. after = t.registry
        BY <2>1, <1>1, <1>5
      <3> QED BY <2>1, <3>1, <1>4 DEF Sound
    <2>2. CASE new # {}
      BY <2>2, <1>4
    <2> QED BY <2>1, <2>2
  <1> QED BY <1>4, <1>7, <1>8, <1>9, <1>10 DEF Sound, u

-----------------------------------------------------------------------------
(* A merge that reports no change leaves the replica view as it was.       *)

owned(m) == IF m.phase \in RING_PHASES THEN m.tokens ELSE {}

\* A member is on the ring of a registry when it owns a token of it.
LEMMA OwnedOnRing ==
  ASSUME NEW registry, NEW v
  PROVE  v \in RingOf(registry) <=>
           \E m \in Nodes : \E k \in owned(registry[m]) : v = [token |-> k, node |-> m]
PROOF
  <1>1. ASSUME NEW m \in Nodes
        PROVE  (registry[m].phase \in RING_PHASES /\ v \in vnodes(m, registry[m]))
                 <=> \E k \in owned(registry[m]) : v = [token |-> k, node |-> m]
    BY DEF owned, vnodes
  <1> QED BY <1>1, RingMembership

\* _apply returning False for every record means that no member's vnodes
\* changed, nor the phase of one on the ring (topology.py _update_ring).
LEMMA QuietMerge ==
  ASSUME NEW t, Sound(t), NEW b, Batch(b), Changing(t, b) = {}, NEW n \in Nodes
  PROVE  LET old == t.registry[n]
             new == upsert(t.registry, b)[n]
         IN  /\ owned(old) = owned(new)
             /\ owned(old) # {} => old.phase = new.phase
PROOF
  <1>1. t.registry \in [Nodes -> Member]
    BY DEF Sound, Topology
  <1>2. CASE n \in Superseding(t.registry, b)
    <2>1. ~RingChanged(t.registry[n], b[n])
      BY <1>2 DEF Changing
    <2>2. upsert(t.registry, b)[n] = b[n]
      BY <1>1, <1>2, UpsertIs
    <2> QED BY <2>1, <2>2 DEF RingChanged, owned
  <1>3. CASE n \notin Superseding(t.registry, b)
    BY <1>1, <1>3, UpsertIs
  <1> QED BY <1>2, <1>3

\* The view is a function of the ring and of the phases of its members, so a
\* quiet merge does not change it (ae/view.py build_view).
LEMMA QuietView ==
  ASSUME NEW t, Sound(t), NEW b, Batch(b), Changing(t, b) = {}
  PROVE  LET u == merge_registry(t, b)
         IN  build_view(u.registry, u.ring) = build_view(t.registry, t.ring)
PROOF
  <1> DEFINE u == merge_registry(t, b)
             before == t.registry
             after == upsert(t.registry, b)
             members(registry, ring) == {n \in Known(registry) : \E v \in ring : v.node = n}
             targets(registry, ring) ==
               {n \in members(registry, ring) : registry[n].phase # "draining"}
             serving(registry, ring) ==
               {n \in members(registry, ring) : registry[n].phase # "joining"}
  <1>1. u.registry = after
    BY DEF merge_registry
  <1>2. Sound(u)
    BY MergeSound
  <1>3. \A n \in Nodes : /\ owned(before[n]) = owned(after[n])
                         /\ owned(before[n]) # {} => before[n].phase = after[n].phase
    BY QuietMerge
  <1>4. t.ring = RingOf(before) /\ u.ring = RingOf(after)
    BY <1>1, <1>2 DEF Sound
  <1>5. \A n \in Nodes : /\ before[n].phase \in RING_PHASES => before[n].epoch >= 0
                         /\ after[n].phase \in RING_PHASES => after[n].epoch >= 0
    BY <1>1, <1>2 DEF Sound
  <1> HIDE DEF u, before, after
  <1>6. u.ring = t.ring
    <2>1. \A v : v \in RingOf(before) <=> v \in RingOf(after)
      BY <1>3, OwnedOnRing
    <2>2. RingOf(before) = RingOf(after)
      BY <2>1, Zenon
    <2> QED BY <2>2, <1>4
  <1>7. ASSUME NEW n \in Nodes, NEW v \in t.ring, v.node = n
        PROVE  /\ n \in Known(before) /\ n \in Known(after)
               /\ before[n].phase = after[n].phase
    <2>1. PICK m \in Nodes : \E k \in owned(before[m]) : v = [token |-> k, node |-> m]
      BY <1>4, OwnedOnRing
    <2>2. m = n
      BY <2>1, <1>7
    <2>3. owned(before[n]) # {} /\ owned(after[n]) # {}
      BY <2>1, <2>2, <1>3
    <2>4. before[n].phase \in RING_PHASES /\ after[n].phase \in RING_PHASES
      BY <2>3 DEF owned
    <2> QED BY <2>3, <2>4, <1>3, <1>5 DEF Known
  <1>8. /\ targets(after, t.ring) = targets(before, t.ring)
        /\ serving(after, t.ring) = serving(before, t.ring)
    <2>1. Known(before) \subseteq Nodes /\ Known(after) \subseteq Nodes
      BY DEF Known
    <2> QED BY <2>1, <1>7
  <1>9. \A registry, ring : build_view(registry, ring) =
          IF ring = {} THEN [p \in Pids |-> [replicas |-> <<>>, sources |-> <<>>]]
          ELSE [p \in Pids |->
                  [replicas |-> _walk(ring, PartitionEnd(p), targets(registry, ring), Rf),
                   sources |-> _walk(ring, PartitionEnd(p), serving(registry, ring), Rf)]]
    BY Zenon DEF build_view
  <1> HIDE DEF targets, serving
  <1>10. build_view(after, t.ring) = build_view(before, t.ring)
    BY <1>8, <1>9, Zenon
  <1> QED BY <1>1, <1>6, <1>10 DEF u, before

-----------------------------------------------------------------------------
(* How the topology of a running node may move.                            *)

\* No record goes back, and a view stays right unless a change is reported.
Evolves(t, u) ==
  /\ Sound(u)
  /\ \A n \in Nodes : u.registry[n].epoch >= t.registry[n].epoch
  /\ ~u.changed => /\ ~t.changed
                   /\ build_view(u.registry, u.ring) = build_view(t.registry, t.ring)

\* The records of a sound topology are typed.
LEMMA SoundEpochs ==
  ASSUME NEW t, Sound(t), NEW n \in Nodes
  PROVE  t.registry[n].epoch \in Int /\ t.registry[n] \in Member
PROOF BY DEF Sound, Topology, Member

\* A topology left alone.
LEMMA StaysEvolves ==
  ASSUME NEW t, Sound(t)
  PROVE  Evolves(t, t)
PROOF BY SoundEpochs DEF Evolves

\* A merge (topology.py apply, merge_registry).
LEMMA MergeEvolves ==
  ASSUME NEW t, Sound(t), NEW b, Batch(b)
  PROVE  Evolves(t, merge_registry(t, b))
PROOF
  <1> DEFINE u == merge_registry(t, b)
  <1>1. Sound(u) /\ \A n \in Nodes : u.registry[n].epoch >= t.registry[n].epoch
    BY MergeSound
  <1>2. u.changed <=> (t.changed \/ Changing(t, b) # {})
    BY DEF merge_registry, _notify, Sound, Topology
  <1>3. ASSUME ~u.changed
        PROVE  build_view(u.registry, u.ring) = build_view(t.registry, t.ring)
    BY <1>2, <1>3, QuietView
  <1> HIDE DEF u
  <1>4. Evolves(t, u)
    BY <1>1, <1>2, <1>3, Zenon DEF Evolves
  <1> QED BY <1>4 DEF u

\* Two merges in one step (the bootstrap's).
LEMMA EvolvesTwice ==
  ASSUME NEW t, NEW u, NEW w, Sound(t), Evolves(t, u), Evolves(u, w)
  PROVE  Evolves(t, w)
PROOF
  <1>1. \A n \in Nodes : w.registry[n].epoch >= t.registry[n].epoch
    BY SoundEpochs DEF Evolves
  <1> QED BY <1>1, Zenon DEF Evolves

\* Computing the fingerprint caches that of the present registry
\* (topology.py member_fingerprint).
LEMMA FingerprintEvolves ==
  ASSUME NEW t, Sound(t)
  PROVE  Evolves(t, Fingerprinted(t))
PROOF
  <1> DEFINE u == Fingerprinted(t)
  <1>1. t \in Topology /\ t.registry \in [Nodes -> Member]
    BY DEF Sound, Topology
  <1>2. Epochs(t.registry) \in [Nodes -> Int]
    BY <1>1 DEF Epochs, Member
  <1>3. member_fingerprint(t) \in [Nodes -> Int] \cup {NoPrint}
    BY <1>1, <1>2 DEF member_fingerprint, Topology
  <1>4. /\ u.registry = t.registry /\ u.ring = t.ring /\ u.changed = t.changed
        /\ u.fingerprint = member_fingerprint(t) /\ u \in Topology
    BY <1>1, <1>3 DEF Fingerprinted, Topology
  <1> HIDE DEF u
  <1>5. u.fingerprint = Epochs(u.registry)
    BY <1>4 DEF member_fingerprint, Sound
  <1>6. Sound(u)
    BY <1>4, <1>5 DEF Sound
  <1>7. Evolves(t, u)
    BY <1>4, <1>6, SoundEpochs DEF Evolves
  <1> QED BY <1>7 DEF u

\* Reading the generation clears the pending change (tracker.py _rebuild).
LEMMA ResetSound ==
  ASSUME NEW t, Sound(t)
  PROVE  LET u == [t EXCEPT !.changed = FALSE]
         IN  /\ Sound(u) /\ u.registry = t.registry /\ u.ring = t.ring /\ u.changed = FALSE
PROOF
  <1> DEFINE u == [t EXCEPT !.changed = FALSE]
  <1>1. t \in Topology
    BY DEF Sound
  <1>2. /\ u \in Topology /\ u.registry = t.registry /\ u.ring = t.ring /\ u.changed = FALSE
        /\ u.fingerprint = t.fingerprint
    BY <1>1 DEF Topology
  <1> HIDE DEF u
  <1>3. Sound(u)
    BY <1>2 DEF Sound
  <1> QED BY <1>2, <1>3 DEF u

\* A TopologyManager starts empty, or from the founders' records.
LEMMA EmptySound == Sound(EmptyTopology)
PROOF
  <1>1. NoMember \in Member
    BY DEF NoMember, Member, Phases
  <1>2. EmptyTopology \in Topology
    BY <1>1 DEF EmptyTopology, Topology
  <1>3. RingOf(EmptyTopology.registry) = {}
    <2>1. ASSUME NEW v PROVE v \notin RingOf(EmptyTopology.registry)
      BY RingMembership DEF EmptyTopology, NoMember, RING_PHASES
    <2> QED BY <2>1
  <1>4. \A n \in Nodes : EmptyTopology.registry[n] = NoMember
    BY DEF EmptyTopology
  <1>5. NoMember.epoch = -1 /\ NoMember.phase \notin RING_PHASES
    BY DEF NoMember, RING_PHASES
  <1>6. EmptyTopology.ring = {} /\ EmptyTopology.fingerprint = NoPrint
    BY DEF EmptyTopology
  <1> HIDE DEF EmptyTopology
  <1> QED BY <1>2, <1>3, <1>4, <1>5, <1>6 DEF Sound

\* A formed cluster starts from a sound topology.
LEMMA FormedSound == Sound(FormedTopology)
PROOF
  <1> DEFINE b == [n \in Founders |-> Ready(n)]
  <1>1. \A n \in Founders : Tokens[n][1] \subseteq 0 .. (Space - 1)
    BY MembershipAssumption
  <1>2. Batch(b)
    BY <1>1, MembershipAssumption DEF Batch, Ready, Member, Phases
  <1>3. Sound(merge_registry(EmptyTopology, b))
    BY <1>2, EmptySound, MergeSound
  <1> QED BY <1>3, ResetSound DEF FormedTopology

-----------------------------------------------------------------------------
(* The inductive invariant.                                                *)

Exchange(e) ==
  /\ e.st # "idle" => e.peer \in Nodes
  /\ e.st = "delta" => Batch(e.data.members) /\ e.data.wanted \subseteq Nodes
  /\ e.st = "push" => Batch(e.data)

\* Every record held in a state file, a queue, a request or an exchange.
OwnTyped == /\ own \in [Nodes -> Member] /\ \A n \in Nodes : own[n].epoch \in Nat
BootTyped == /\ DOMAIN boot = Nodes
             /\ \A n \in Nodes : boot[n].st = "merge" => Batch(boot[n].members)
HotTyped == hot \in [Nodes -> Seq(Member)]
WireTyped == \A p \in wire : p.dst \in Nodes /\ p.id \in Nodes /\ p.m \in Member
RelaysTyped == /\ DOMAIN relays = Nodes
               /\ \A n \in Nodes : \A r \in relays[n] : r.id \in Nodes /\ r.m \in Member
AeTyped == /\ DOMAIN ae = Nodes /\ \A n \in Nodes : Exchange(ae[n])

Records == OwnTyped /\ BootTyped /\ HotTyped /\ WireTyped /\ RelaysTyped /\ AeTyped

Topologies == DOMAIN top = Nodes /\ \A n \in Nodes : Sound(top[n])

\* A view being built or in use is that of the topology, unless a change that
\* will invalidate it is pending.
Trackers ==
  /\ DOMAIN trk = Nodes
  /\ \A n \in Nodes : ~top[n].changed =>
       LET view == build_view(top[n].registry, top[n].ring)
       IN  /\ trk[n].st = "build" => trk[n].next = view
           /\ trk[n].st = "watch" => trk[n].view = view

IInv == Records /\ Topologies /\ Trackers /\ DOMAIN up = Nodes

-----------------------------------------------------------------------------
(* Steps on the topologies.                                                *)

Evolving == DOMAIN top' = Nodes /\ \A n \in Nodes : Evolves(top[n], top'[n])

\* A step that touches no topology.
LEMMA Still ==
  ASSUME Topologies, UNCHANGED top
  PROVE  Evolving
PROOF BY StaysEvolves DEF Topologies, Evolving

\* A step that merges a batch at one node.
LEMMA MergeAt ==
  ASSUME Topologies, NEW x \in Nodes, NEW b, Batch(b),
         top' = [top EXCEPT ![x] = merge_registry(@, b)]
  PROVE  Evolving
PROOF
  <1>1. Sound(top[x]) /\ Evolves(top[x], merge_registry(top[x], b))
    BY MergeEvolves DEF Topologies
  <1>2. top'[x] = merge_registry(top[x], b) /\ \A n \in Nodes \ {x} : top'[n] = top[n]
    BY DEF Topologies
  <1>3. \A n \in Nodes : Evolves(top[n], top'[n])
    BY <1>1, <1>2, StaysEvolves DEF Topologies
  <1> QED BY <1>3 DEF Evolving, Topologies

\* A step that caches the fingerprint of one node.
LEMMA FingerprintAt ==
  ASSUME Topologies, NEW x \in Nodes, top' = [top EXCEPT ![x] = Fingerprinted(@)]
  PROVE  Evolving
PROOF
  <1>1. Sound(top[x]) /\ Evolves(top[x], Fingerprinted(top[x]))
    BY FingerprintEvolves DEF Topologies
  <1>2. top'[x] = Fingerprinted(top[x]) /\ \A n \in Nodes \ {x} : top'[n] = top[n]
    BY DEF Topologies
  <1>3. \A n \in Nodes : Evolves(top[n], top'[n])
    BY <1>1, <1>2, StaysEvolves DEF Topologies
  <1> QED BY <1>3 DEF Evolving, Topologies

\* One record is a batch (topology.py apply).
LEMMA OneRecord ==
  ASSUME NEW n \in Nodes, NEW m \in Member
  PROVE  Batch([id \in {n} |-> m])
PROOF BY DEF Batch

\* A node publishes its own record (lifecycle.py _publish_state).
LEMMA PublishAt ==
  ASSUME Topologies, OwnTyped, NEW n \in Nodes, publish(n, own[n])
  PROVE  Evolving
PROOF BY MergeAt, OneRecord DEF publish, OwnTyped

\* Gossip, bootstrap and the life of a node, but for a crash, only merge
\* records and cache fingerprints.
LEMMA GossipEvolves ==
  ASSUME Records, Topologies, NEW n \in Nodes,
         \/ \E phase \in {"joining", "ready", "draining", "idle", "failed"} :
              Transition(n, phase)
         \/ Publish(n) \/ GossipStop(n) \/ BootstrapFailed(n)
         \/ Start(n) \/ Gossip(n) \/ _ae_failed(n)
  PROVE  Evolving
PROOF
  <1> USE DEF Records
  <1>1. CASE UNCHANGED top
    BY <1>1, Still
  <1>2. CASE publish(n, own[n])
    BY <1>2, PublishAt
  <1>3. CASE Bootstrapped(n)
    <2> DEFINE once == merge_registry(top[n], boot[n].members)
               twice == merge_registry(once, [id \in {n} |-> own[n]])
    <2>1. Sound(top[n]) /\ Batch(boot[n].members) /\ Batch([id \in {n} |-> own[n]])
      BY <1>3, OneRecord DEF Topologies, Bootstrapped, BootTyped, OwnTyped
    <2>2. Evolves(top[n], once)
      BY <2>1, MergeEvolves
    <2>3. Evolves(once, twice)
      <3>1. Sound(once)
        BY <2>2, Zenon DEF Evolves
      <3> QED BY <3>1, <2>1, MergeEvolves
    <2>4. Evolves(top[n], twice)
      BY <2>1, <2>2, <2>3, EvolvesTwice
    <2>5. top' = [top EXCEPT ![n] = twice]
      BY <1>3 DEF Bootstrapped
    <2> HIDE DEF once, twice
    <2>6. \A m \in Nodes : Evolves(top[m], top'[m])
      BY <2>4, <2>5, StaysEvolves DEF Topologies
    <2> QED BY <2>5, <2>6 DEF Evolving, Topologies
  <1>4. CASE _run_ae_cycle(n)
    BY <1>4, FingerprintAt DEF _run_ae_cycle
  <1>5. CASE pong(n)
    <2>1. ae[n].peer \in Nodes
      BY <1>5 DEF pong, AeTyped, Exchange
    <2> QED BY <1>5, <2>1, FingerprintAt DEF pong
  <1>6. CASE _merge_delta(n)
    <2>1. Batch(ae[n].data.members)
      BY <1>6 DEF _merge_delta, AeTyped, Exchange
    <2> QED BY <1>6, <2>1, MergeAt DEF _merge_delta
  <1>7. CASE _satisfy_wanted(n)
    <2>1. ae[n].peer \in Nodes /\ Batch(ae[n].data)
      BY <1>7 DEF _satisfy_wanted, AeTyped, Exchange
    <2> QED BY <1>7, <2>1, MergeAt DEF _satisfy_wanted
  <1> QED
    BY <1>1, <1>2, <1>3, <1>4, <1>5, <1>6, <1>7, Zenon
    DEF Transition, Publish, GossipStop, BootstrapFailed, Start, Restart, SeedAnswers,
        Gossip, HotPush, Relay, delta, _ae_failed

\* A delivered push merges one record (gossip.py accept).
LEMMA AcceptEvolves ==
  ASSUME Records, Topologies, NEW p \in wire, accept(p)
  PROVE  Evolving
PROOF
  <1>1. p.dst \in Nodes /\ Batch([id \in {p.id} |-> p.m])
    BY OneRecord DEF Records, WireTyped
  <1> QED BY <1>1, MergeAt DEF accept

-----------------------------------------------------------------------------
(* Steps on the records.                                                   *)

Steps(n) ==
  \/ \E phase \in {"joining", "ready", "draining", "idle", "failed"} : Transition(n, phase)
  \/ Publish(n) \/ GossipStop(n) \/ Crash(n) \/ BootstrapFailed(n)
  \/ Start(n) \/ Gossip(n) \/ Track(n) \/ _ae_failed(n)

\* A state file always holds a member record; its epoch only counts up
\* (lifecycle.py _transition_to).
LEMMA OwnStep ==
  ASSUME OwnTyped, NEW n \in Nodes, Steps(n)
  PROVE  OwnTyped'
PROOF
  <1>1. CASE UNCHANGED own
    BY <1>1 DEF OwnTyped
  <1>2. ASSUME NEW phase \in {"joining", "ready", "draining", "idle", "failed"},
               _transition_to(n, phase)
        PROVE  OwnTyped'
    <2> DEFINE tokens == IF phase = "joining" THEN Tokens[n][own[n].epoch + 1]
                         ELSE own[n].tokens
               m == [epoch |-> own[n].epoch + 1, phase |-> phase, tokens |-> tokens]
    <2>1. own[n].epoch \in Nat /\ own[n].tokens \in SUBSET (0 .. (Space - 1))
      BY DEF OwnTyped, Member
    <2>2. own[n].epoch + 1 \in 1 .. MaxEpoch[n]
      BY <1>2, <2>1, MembershipAssumption DEF _transition_to
    <2>3. tokens \in SUBSET (0 .. (Space - 1))
      BY <2>1, <2>2, MembershipAssumption
    <2>4. own' = [own EXCEPT ![n] = m]
      BY <1>2 DEF _transition_to
    <2> HIDE DEF tokens
    <2>5. m \in Member /\ m.epoch \in Nat
      BY <2>1, <2>3 DEF Member, Phases
    <2> HIDE DEF m
    <2> QED BY <2>4, <2>5 DEF OwnTyped
  <1> QED
    BY <1>1, <1>2, Zenon
    DEF Steps, Transition, Publish, GossipStop, Crash, BootstrapFailed, Start, Restart,
        SeedAnswers, Bootstrapped, Gossip, HotPush, Relay, _run_ae_cycle, pong, delta,
        _merge_delta, _satisfy_wanted, _ae_failed, Track, TrackerStart, _rebuild,
        _invalidate, _settle

\* The members a seed answers with are records of its registry
\* (bootstrapper.py).
LEMMA BootStep ==
  ASSUME BootTyped, Topologies, NEW n \in Nodes, Steps(n)
  PROVE  BootTyped'
PROOF
  <1>1. CASE UNCHANGED boot
    BY <1>1 DEF BootTyped
  <1>2. CASE boot' = [boot EXCEPT ![n] = Booted]
    BY <1>2 DEF BootTyped, Booted
  <1>3. CASE boot' = [boot EXCEPT ![n] = Waiting]
    BY <1>3 DEF BootTyped, Waiting
  <1>4. CASE boot' = [boot EXCEPT ![n] = IF own[n].phase = "joining" THEN Waiting ELSE @]
    BY <1>4 DEF BootTyped, Waiting
  <1>5. CASE SeedAnswers(n)
    <2> DEFINE registry == top[SeedOf[n]].registry
               b == AllMembers(registry)
    <2>1. SeedOf[n] \in Nodes
      BY <1>5, MembershipAssumption DEF SeedAnswers
    <2>2. registry \in [Nodes -> Member]
      BY <2>1 DEF Topologies, Sound, Topology
    <2>3. Batch(b)
      BY <2>2 DEF Batch, AllMembers, Known
    <2>4. boot' = [boot EXCEPT ![n] = [st |-> "merge", members |-> b]]
      BY <1>5 DEF SeedAnswers
    <2> HIDE DEF b
    <2> QED BY <2>3, <2>4 DEF BootTyped
  <1> QED
    BY <1>1, <1>2, <1>3, <1>4, <1>5, Zenon
    DEF Steps, Transition, Publish, GossipStop, Crash, BootstrapFailed, Start, Restart,
        Bootstrapped, Gossip, HotPush, Relay, _run_ae_cycle, pong, delta,
        _merge_delta, _satisfy_wanted, _ae_failed, Track, TrackerStart, _rebuild,
        _invalidate, _settle

\* Announcements are records of the node itself (gossiper.py _hot_loop).
LEMMA HotStep ==
  ASSUME HotTyped, OwnTyped, NEW n \in Nodes, Steps(n)
  PROVE  HotTyped'
PROOF
  <1>1. own[n] \in Member /\ hot[n] \in Seq(Member)
    BY DEF HotTyped, OwnTyped
  <1> HIDE DEF Member
  <1>2. CASE UNCHANGED hot
    BY <1>2 DEF HotTyped
  <1>3. CASE hot' = [hot EXCEPT ![n] = Append(@, own[n])]
    BY <1>1, <1>3 DEF HotTyped
  <1>4. CASE HotPush(n)
    <2>1. hot[n] # <<>> /\ hot' = [hot EXCEPT ![n] = Tail(@)]
      BY <1>4 DEF HotPush
    <2>2. Tail(hot[n]) \in Seq(Member)
      BY <1>1, <2>1
    <2> QED BY <2>1, <2>2 DEF HotTyped
  <1>5. CASE hot' = [hot EXCEPT ![n] = <<>>]
    BY <1>5 DEF HotTyped
  <1> QED
    BY <1>2, <1>3, <1>4, <1>5, Zenon
    DEF Steps, Transition, Publish, publish, GossipStop, Crash, BootstrapFailed, Start, Restart,
        SeedAnswers, Bootstrapped, Gossip, Relay, _run_ae_cycle, pong, delta,
        _merge_delta, _satisfy_wanted, _ae_failed, Track, TrackerStart, _rebuild,
        _invalidate, _settle

\* Pushes and relays carry records that were announced or received.
LEMMA WireStep ==
  ASSUME WireTyped, HotTyped, RelaysTyped, NEW n \in Nodes, Steps(n)
  PROVE  WireTyped'
PROOF
  <1>1. CASE UNCHANGED wire
    BY <1>1 DEF WireTyped
  <1>2. ASSUME NEW id \in Nodes, NEW m \in Member, NEW hop, NEW targets \in SUBSET Nodes,
               wire' = wire \cup Push(n, id, m, hop, targets)
        PROVE  WireTyped'
    <2>1. \A p \in Push(n, id, m, hop, targets) : p.dst \in Nodes /\ p.id = id /\ p.m = m
      BY DEF Push
    <2> QED BY <1>2, <2>1 DEF WireTyped
  <1>3. \A gone : Samples(_eligible_members(n) \ gone) \subseteq SUBSET Nodes
    BY DEF Samples, _eligible_members
  <1>4. CASE HotPush(n)
    <2>1. Head(hot[n]) \in Member
      <3>1. hot[n] \in Seq(Member) /\ hot[n] # <<>>
        BY <1>4 DEF HotTyped, HotPush
      <3> QED BY <3>1
    <2>2. PICK targets \in Samples(_eligible_members(n)) :
            wire' = wire \cup Push(n, n, Head(hot[n]), HopLimit, targets)
      BY <1>4 DEF HotPush
    <2>3. targets \in SUBSET Nodes
      BY <2>2 DEF Samples, _eligible_members
    <2> QED BY <1>2, <2>1, <2>2, <2>3
  <1>5. ASSUME NEW r \in relays[n], Relay(n, r)
        PROVE  WireTyped'
    <2>1. r.id \in Nodes /\ r.m \in Member
      BY <1>5 DEF RelaysTyped
    <2>2. PICK targets \in Samples(_eligible_members(n) \ {r.sender, r.id}) :
            wire' = wire \cup Push(n, r.id, r.m, r.hop, targets)
      BY <1>5 DEF Relay
    <2> QED BY <1>2, <1>3, <2>1, <2>2
  <1> QED
    BY <1>1, <1>4, <1>5, Zenon
    DEF Steps, Transition, Publish, GossipStop, Crash, BootstrapFailed, Start, Restart,
        SeedAnswers, Bootstrapped, Gossip, _run_ae_cycle, pong, delta,
        _merge_delta, _satisfy_wanted, _ae_failed, Track, TrackerStart, _rebuild,
        _invalidate, _settle

\* Relay tasks come from accepted pushes only, and end or are cancelled.
LEMMA RelaysStep ==
  ASSUME RelaysTyped, NEW n \in Nodes, Steps(n)
  PROVE  RelaysTyped'
PROOF
  <1>1. CASE UNCHANGED relays
    BY <1>1 DEF RelaysTyped
  <1>2. CASE relays' = [relays EXCEPT ![n] = {}]
    BY <1>2 DEF RelaysTyped
  <1>3. ASSUME NEW r \in relays[n], Relay(n, r)
        PROVE  RelaysTyped'
    BY <1>3 DEF RelaysTyped, Relay
  <1> QED
    BY <1>1, <1>2, <1>3, Zenon
    DEF Steps, Transition, Publish, GossipStop, _cancel_relays, Crash, BootstrapFailed, Start,
        Restart, SeedAnswers, Bootstrapped, Gossip, HotPush, _run_ae_cycle, pong, delta,
        _merge_delta, _satisfy_wanted, _ae_failed, Track, TrackerStart, _rebuild,
        _invalidate, _settle

\* An exchange moves on with other data, to the same peer.
LEMMA ExchangeAt ==
  ASSUME AeTyped, NEW n \in Nodes, ae[n].peer \in Nodes, NEW st, NEW data, exchange(n, st, data),
         st = "delta" => Batch(data.members) /\ data.wanted \subseteq Nodes,
         st = "push" => Batch(data)
  PROVE  AeTyped'
PROOF
  <1> DEFINE e == [st |-> st, peer |-> ae[n].peer, data |-> data]
  <1>1. ae' = [ae EXCEPT ![n] = e]
    BY DEF exchange
  <1>2. Exchange(e)
    BY DEF Exchange
  <1> HIDE DEF e
  <1> QED BY <1>1, <1>2 DEF AeTyped

\* Deltas and pushes of an exchange carry records of a registry
\* (gossiper.py _run_ae_cycle).
LEMMA AeStep ==
  ASSUME AeTyped, Topologies, NEW n \in Nodes, Steps(n)
  PROVE  AeTyped'
PROOF
  <1>1. CASE UNCHANGED ae
    BY <1>1 DEF AeTyped
  <1>2. CASE ae' = [ae EXCEPT ![n] = NoExchange]
    <2>1. Exchange(NoExchange)
      BY DEF NoExchange, Exchange
    <2> QED BY <1>2, <2>1 DEF AeTyped
  <1>3. CASE _run_ae_cycle(n)
    <2>1. PICK p \in _eligible_members(n) :
            ae' = [ae EXCEPT ![n] = [st |-> "ping", peer |-> p,
                                     data |-> member_fingerprint(top[n])]]
      BY <1>3 DEF _run_ae_cycle
    <2>2. p \in Nodes
      BY <2>1 DEF _eligible_members
    <2>3. Exchange([st |-> "ping", peer |-> p, data |-> member_fingerprint(top[n])])
      BY <2>2 DEF Exchange
    <2> QED BY <2>1, <2>3 DEF AeTyped
  <1>4. CASE pong(n)
    <2>1. ae[n].peer \in Nodes
      BY <1>4 DEF pong, AeTyped, Exchange
    <2>2. CASE exchange(n, "digest", _build_digest(n))
      BY <2>1, <2>2, ExchangeAt
    <2> QED BY <1>2, <1>4, <2>2, Zenon DEF pong
  <1>5. CASE delta(n)
    <2> DEFINE registry == top[ae[n].peer].registry
               data == [members |-> [m \in Newer(registry, ae[n].data) |-> registry[m]],
                        wanted |-> {m \in Nodes : ae[n].data[m] > registry[m].epoch}]
    <2>1. ae[n].peer \in Nodes
      BY <1>5 DEF delta, AeTyped, Exchange
    <2>2. registry \in [Nodes -> Member]
      BY <2>1 DEF Topologies, Sound, Topology
    <2>3. Batch(data.members) /\ data.wanted \subseteq Nodes
      BY <2>2 DEF Batch, Newer
    <2>4. exchange(n, "delta", data)
      BY <1>5, Zenon DEF delta
    <2> HIDE DEF data
    <2> QED BY <2>1, <2>3, <2>4, ExchangeAt
  <1>6. CASE _merge_delta(n)
    <2> DEFINE t == merge_registry(top[n], ae[n].data.members)
               data == [m \in ae[n].data.wanted |-> t.registry[m]]
    <2>1. /\ ae[n].peer \in Nodes /\ Batch(ae[n].data.members)
          /\ ae[n].data.wanted \subseteq Nodes
      BY <1>6 DEF _merge_delta, AeTyped, Exchange
    <2>2. t.registry \in [Nodes -> Member]
      BY <2>1, MergeSound DEF Topologies, Sound, Topology
    <2>3. _ae_digest_delta(n, t.registry)
      BY <1>6 DEF _merge_delta
    <2> HIDE DEF t
    <2>4. Batch(data)
      BY <2>1, <2>2 DEF Batch
    <2>5. CASE exchange(n, "push", data)
      <3> HIDE DEF data
      <3> QED BY <2>1, <2>4, <2>5, ExchangeAt
    <2> QED BY <1>2, <2>3, <2>5, Zenon DEF _ae_digest_delta
  <1> QED
    BY <1>1, <1>2, <1>3, <1>4, <1>5, <1>6, Zenon
    DEF Steps, Transition, Publish, GossipStop, Crash, BootstrapFailed, Start, Restart,
        SeedAnswers, Bootstrapped, Gossip, HotPush, Relay, _satisfy_wanted, _ae_failed,
        Track, TrackerStart, _rebuild, _invalidate, _settle

\* A delivered push carries a typed record on.
LEMMA AcceptStep ==
  ASSUME Records, NEW p \in wire, accept(p)
  PROVE  Records'
PROOF
  <1>1. /\ WireTyped' /\ UNCHANGED <<own, boot, hot, ae>>
    BY DEF Records, WireTyped, accept
  <1>2. RelaysTyped'
    <2> DEFINE r == [id |-> p.id, m |-> p.m, hop |-> p.hop - 1, sender |-> p.src]
    <2>1. p.dst \in Nodes /\ p.id \in Nodes /\ p.m \in Member
      BY DEF Records, WireTyped
    <2>2. \/ relays' = [relays EXCEPT ![p.dst] = @ \cup {r}]
          \/ relays' = [relays EXCEPT ![p.dst] = @]
      BY DEF accept
    <2>3. r.id = p.id /\ r.m = p.m
      OBVIOUS
    <2> HIDE DEF r
    <2> QED BY <2>1, <2>2, <2>3 DEF Records, RelaysTyped
  <1> QED
    BY <1>1, <1>2, Zenon DEF Records, OwnTyped, BootTyped, HotTyped, AeTyped

-----------------------------------------------------------------------------
(* One step.                                                               *)

\* Where the topology and the tracker of a node go in a step.
NodeStep(n) ==
  /\ Sound(top'[n])
  /\ up'[n] # "down" =>
       \A m \in Nodes : top'[n].registry[m].epoch >= top[n].registry[m].epoch
  /\ \/ trk'[n] = trk[n] /\ Evolves(top[n], top'[n])
     \/ trk'[n].st \notin {"build", "watch"}
     \/ trk'[n].st = "build" /\ trk'[n].next = build_view(top'[n].registry, top'[n].ring)
     \/ /\ trk[n].st = "build" /\ trk'[n].st = "watch" /\ trk'[n].view = trk[n].next
        /\ top'[n] = top[n]

Nodewise == /\ DOMAIN top' = Nodes /\ DOMAIN trk' = Nodes /\ DOMAIN up' = Nodes
            /\ \A n \in Nodes : NodeStep(n)

\* Steps that keep every tracker.
LEMMA EvolvingNodewise ==
  ASSUME IInv, Evolving, UNCHANGED trk, DOMAIN up' = Nodes
  PROVE  Nodewise
PROOF BY Zenon DEF IInv, Trackers, Evolving, Evolves, Nodewise, NodeStep

\* Steps that move one tracker.
LEMMA TrackerAt ==
  ASSUME IInv, NEW x \in Nodes, NEW k, NEW u, DOMAIN up' = Nodes,
         trk' = [trk EXCEPT ![x] = k], top' = [top EXCEPT ![x] = u],
         trk'[x] = k /\ top'[x] = u => NodeStep(x)
  PROVE  Nodewise
PROOF
  <1>1. /\ DOMAIN top' = Nodes /\ DOMAIN trk' = Nodes
        /\ trk'[x] = k /\ top'[x] = u
        /\ \A n \in Nodes \ {x} : trk'[n] = trk[n] /\ top'[n] = top[n]
    BY DEF IInv, Topologies, Trackers
  <1>2. ASSUME NEW n \in Nodes, n # x PROVE NodeStep(n)
    <2>1. Evolves(top[n], top[n])
      BY StaysEvolves DEF IInv, Topologies
    <2>2. trk'[n] = trk[n] /\ top'[n] = top[n]
      BY <1>1, <1>2
    <2> QED BY <2>1, <2>2, Zenon DEF NodeStep, Evolves
  <1> QED BY <1>1, <1>2, Zenon DEF Nodewise

\* The snapshot of a rebuild (tracker.py _snapshot).
LEMMA SnapshotAt ==
  ASSUME IInv, NEW n \in Nodes, _snapshot(n), UNCHANGED up
  PROVE  Nodewise
PROOF
  <1> DEFINE u == [top[n] EXCEPT !.changed = FALSE]
             k == [st |-> "build", view |-> NoView,
                   next |-> build_view(top[n].registry, top[n].ring)]
  <1>1. Sound(top[n])
    BY DEF IInv, Topologies
  <1>2. Sound(u) /\ u.registry = top[n].registry /\ u.ring = top[n].ring
    BY <1>1, ResetSound
  <1>3. trk' = [trk EXCEPT ![n] = k] /\ top' = [top EXCEPT ![n] = u]
    BY DEF _snapshot
  <1>4. k.st = "build" /\ k.next = build_view(top[n].registry, top[n].ring)
    OBVIOUS
  <1> HIDE DEF u, k
  <1>5. ASSUME trk'[n] = k /\ top'[n] = u PROVE NodeStep(n)
    BY <1>1, <1>2, <1>4, <1>5, SoundEpochs DEF NodeStep
  <1> QED BY <1>3, <1>5, TrackerAt DEF IInv

\* The steps of a tracker (tracker.py _run).
LEMMA TrackStep ==
  ASSUME IInv, NEW n \in Nodes, Track(n)
  PROVE  Nodewise
PROOF
  <1>1. Sound(top[n]) /\ DOMAIN trk = Nodes /\ DOMAIN top = Nodes /\ DOMAIN up = Nodes
    BY DEF IInv, Topologies, Trackers
  <1>2. CASE _snapshot(n) /\ UNCHANGED up
    BY <1>2, SnapshotAt
  <1>3. CASE _rebuild(n)
    <2> DEFINE k == [st |-> "watch", view |-> trk[n].next, next |-> NoView]
    <2>1. /\ trk[n].st = "build" /\ trk' = [trk EXCEPT ![n] = k] /\ UNCHANGED <<top, up>>
          /\ k.st = "watch" /\ k.view = trk[n].next
      BY <1>3 DEF _rebuild
    <2> HIDE DEF k
    <2>2. NodeStep(n)
      BY <1>1, <2>1, SoundEpochs DEF NodeStep
    <2>3. ASSUME NEW m \in Nodes, m # n PROVE NodeStep(m)
      <3>1. Evolves(top[m], top[m])
        BY StaysEvolves DEF IInv, Topologies
      <3>2. trk'[m] = trk[m] /\ top'[m] = top[m]
        BY <1>1, <2>1, <2>3
      <3> QED BY <3>1, <3>2, Zenon DEF NodeStep, Evolves
    <2> QED BY <1>1, <2>1, <2>2, <2>3 DEF Nodewise
  <1>4. CASE _invalidate(n)
    <2> DEFINE u == [top[n] EXCEPT !.changed = FALSE]
               k == [st |-> "settle", view |-> NoView, next |-> NoView]
    <2>1. Sound(u) /\ u.registry = top[n].registry
      BY <1>1, ResetSound
    <2>2. /\ trk' = [trk EXCEPT ![n] = k] /\ top' = [top EXCEPT ![n] = u] /\ UNCHANGED up
          /\ k.st = "settle"
      BY <1>4 DEF _invalidate
    <2> HIDE DEF u, k
    <2>3. ASSUME trk'[n] = k /\ top'[n] = u PROVE NodeStep(n)
      BY <1>1, <2>1, <2>2, <2>3, SoundEpochs DEF NodeStep
    <2> QED BY <1>1, <2>2, <2>3, TrackerAt
  <1> QED BY <1>2, <1>3, <1>4, Zenon DEF Track, TrackerStart, _settle

\* A crash forgets the topology with the process.
LEMMA CrashStep ==
  ASSUME IInv, NEW n \in Nodes, Crash(n)
  PROVE  Nodewise
PROOF
  <1>1. /\ trk' = [trk EXCEPT ![n] = NoTracker] /\ top' = [top EXCEPT ![n] = EmptyTopology]
        /\ up' = [up EXCEPT ![n] = "down"]
    BY DEF Crash
  <1>2. DOMAIN up' = Nodes /\ up'[n] = "down"
    BY <1>1 DEF IInv
  <1>3. NoTracker.st = "off"
    BY DEF NoTracker
  <1>4. ASSUME trk'[n] = NoTracker /\ top'[n] = EmptyTopology PROVE NodeStep(n)
    BY <1>2, <1>3, <1>4, EmptySound DEF NodeStep
  <1> QED BY <1>1, <1>2, <1>4, TrackerAt

\* Every step of a node takes each node where NodeStep says.
LEMMA StepsNodewise ==
  ASSUME IInv, NEW n \in Nodes, Steps(n)
  PROVE  Nodewise
PROOF
  <1>1. CASE Track(n)
    BY <1>1, TrackStep
  <1>2. CASE Crash(n)
    BY <1>2, CrashStep
  <1>3. CASE Publish(n)
    <2>1. Evolving
      BY <1>3, GossipEvolves DEF IInv
    <2>2. DOMAIN up' = Nodes /\ DOMAIN trk' = Nodes
      BY <1>3 DEF Publish, IInv, Trackers
    <2>3. \A m \in Nodes : trk'[m] = trk[m] \/ trk'[m] = NoTracker
      BY <1>3 DEF Publish, IInv, Trackers
    <2>4. NoTracker.st \notin {"build", "watch"}
      BY DEF NoTracker
    <2>5. \A m \in Nodes : NodeStep(m)
      BY <2>1, <2>3, <2>4, Zenon DEF NodeStep, Evolving, Evolves
    <2> QED BY <2>1, <2>2, <2>5, Zenon DEF Nodewise, Evolving
  <1>4. CASE /\ UNCHANGED trk
             /\ \/ \E phase \in {"joining", "ready", "draining", "idle", "failed"} :
                     Transition(n, phase)
                \/ GossipStop(n) \/ BootstrapFailed(n)
                \/ Start(n) \/ Gossip(n) \/ _ae_failed(n)
    <2>1. Evolving
      BY <1>4, GossipEvolves DEF IInv
    <2>2. DOMAIN up' = Nodes
      <3>1. \/ UNCHANGED up
            \/ \E st : up' = [up EXCEPT ![n] = st]
        BY <1>4, Zenon
        DEF Transition, GossipStop, BootstrapFailed, Start, Restart, SeedAnswers, Bootstrapped,
            Gossip, HotPush, Relay, _run_ae_cycle, pong, delta, _merge_delta, _satisfy_wanted,
            _ae_failed
      <3> QED BY <3>1 DEF IInv
    <2> QED BY <1>4, <2>1, <2>2, EvolvingNodewise
  <1> QED
    BY <1>1, <1>2, <1>3, <1>4, Zenon
    DEF Steps, Transition, GossipStop, BootstrapFailed, Start, Restart, SeedAnswers, Bootstrapped,
        Gossip, HotPush, Relay, _run_ae_cycle, pong, delta, _merge_delta, _satisfy_wanted,
        _ae_failed

\* What NodeStep says is enough for the trackers and the topologies.
LEMMA NodewiseInv ==
  ASSUME IInv, Nodewise
  PROVE  Topologies' /\ Trackers'
PROOF
  <1>1. Topologies'
    BY Zenon DEF Nodewise, NodeStep, Topologies
  <1>2. ASSUME NEW n \in Nodes, ~top'[n].changed
        PROVE  /\ trk'[n].st = "build" => trk'[n].next = build_view(top'[n].registry, top'[n].ring)
               /\ trk'[n].st = "watch" => trk'[n].view = build_view(top'[n].registry, top'[n].ring)
    <2>1. NodeStep(n)
      BY DEF Nodewise
    <2>2. ~top[n].changed =>
            /\ trk[n].st = "build" => trk[n].next = build_view(top[n].registry, top[n].ring)
            /\ trk[n].st = "watch" => trk[n].view = build_view(top[n].registry, top[n].ring)
      BY Zenon DEF IInv, Trackers
    <2>3. CASE trk'[n] = trk[n] /\ Evolves(top[n], top'[n])
      <3>1. ~top[n].changed /\ build_view(top'[n].registry, top'[n].ring)
                                 = build_view(top[n].registry, top[n].ring)
        BY <1>2, <2>3, Zenon DEF Evolves
      <3> QED BY <2>2, <2>3, <3>1
    <2>4. CASE trk'[n].st \notin {"build", "watch"}
      BY <2>4
    <2>5. CASE trk'[n].st = "build" /\ trk'[n].next = build_view(top'[n].registry, top'[n].ring)
      BY <2>5
    <2>6. CASE /\ trk[n].st = "build" /\ trk'[n].st = "watch" /\ trk'[n].view = trk[n].next
               /\ top'[n] = top[n]
      BY <1>2, <2>2, <2>6
    <2> QED BY <2>1, <2>3, <2>4, <2>5, <2>6, Zenon DEF NodeStep
  <1> QED BY <1>1, <1>2, Zenon DEF Trackers, Nodewise

\* The invariant holds of a formed cluster.
LEMMA IInvInit == Init => IInv
PROOF
  <1> SUFFICES ASSUME Init PROVE IInv
    OBVIOUS
  <1>1. OwnTyped
    <2>1. \A n \in Founders : Ready(n) \in Member /\ Ready(n).epoch \in Nat
      <3>1. \A n \in Founders : Tokens[n][1] \subseteq 0 .. (Space - 1)
        BY MembershipAssumption
      <3> QED BY <3>1 DEF Ready, Member, Phases
    <2>2. Idle \in Member /\ Idle.epoch \in Nat
      BY DEF Idle, Member, Phases
    <2> QED BY <2>1, <2>2 DEF Init, OwnTyped
  <1>2. BootTyped /\ WireTyped /\ RelaysTyped
    BY DEF Init, BootTyped, WireTyped, RelaysTyped, Booted
  <1>3. HotTyped
    BY DEF Init, HotTyped
  <1>4. AeTyped
    BY DEF Init, AeTyped, NoExchange, Exchange
  <1>5. Topologies
    BY EmptySound, FormedSound DEF Init, Topologies
  <1>6. Trackers /\ DOMAIN up = Nodes
    BY DEF Init, Trackers, NoTracker
  <1> QED BY <1>1, <1>2, <1>3, <1>4, <1>5, <1>6 DEF IInv, Records

\* A step keeps the invariant, and takes each node where NodeStep says.
LEMMA IInvStep ==
  ASSUME IInv, [Next]_vars
  PROVE  IInv' /\ Nodewise
PROOF
  <1>1. CASE UNCHANGED vars
    <2>1. UNCHANGED <<own, up, boot, top, trk, hot, wire, relays, ae>>
      BY <1>1 DEF vars
    <2>2. Nodewise
      BY <2>1, Still, EvolvingNodewise DEF IInv
    <2> QED
      BY <2>1, <2>2, Zenon
      DEF IInv, Records, Topologies, Trackers, OwnTyped, BootTyped, HotTyped, WireTyped,
          RelaysTyped, AeTyped
  <1>2. ASSUME NEW n \in Nodes, Steps(n)
        PROVE  IInv' /\ Nodewise
    <2>1. Nodewise
      BY <1>2, StepsNodewise
    <2>2. Records'
      BY <1>2, OwnStep, BootStep, HotStep, WireStep, RelaysStep, AeStep DEF IInv, Records
    <2> QED BY <2>1, <2>2, NodewiseInv, Zenon DEF IInv, Nodewise
  <1>3. ASSUME NEW p \in wire, accept(p)
        PROVE  IInv' /\ Nodewise
    <2>1. Nodewise
      BY <1>3, AcceptEvolves, EvolvingNodewise DEF IInv, accept
    <2>2. Records'
      BY <1>3, AcceptStep DEF IInv
    <2> QED BY <2>1, <2>2, NodewiseInv, Zenon DEF IInv, Nodewise
  <1> QED BY <1>1, <1>2, <1>3, Zenon DEF Next, Steps

-----------------------------------------------------------------------------
(* The theorems.                                                           *)

\* In every cluster, the ring a node routes with is the one its registry
\* describes and a cached fingerprint is that of the registry
\* (topology.py _update_ring, member_fingerprint).
THEOREM TopologyTheorem == Spec => []TopologyFollows
PROOF
  <1>1. IInv => TopologyFollows
    BY Zenon DEF IInv, Topologies, Sound, RingOf, TopologyFollows
  <1> QED BY <1>1, IInvInit, IInvStep, PTL DEF Spec

\* In every cluster, a view that no pending change will invalidate is the one
\* of the present topology (tracker.py _rebuild, topology.py wait_for_change).
THEOREM ViewsTheorem == Spec => []ViewsFollow
PROOF
  <1>1. IInv => ViewsFollow
    BY Zenon DEF IInv, Trackers, ViewsFollow
  <1> QED BY <1>1, IInvInit, IInvStep, PTL DEF Spec

\* In every cluster, a running node never goes back to an older record of a
\* member (registry.py upsert).
THEOREM NeverRegressesTheorem == Spec => NeverRegresses
PROOF
  <1>1. IInv /\ [Next]_vars =>
          [\A a, n \in Nodes :
             up[a] # "down" /\ up'[a] # "down"
               => top'[a].registry[n].epoch >= top[a].registry[n].epoch]_vars
    BY IInvStep, Zenon DEF Nodewise, NodeStep
  <1> QED BY <1>1, IInvInit, IInvStep, PTL DEF Spec, NeverRegresses

=============================================================================
