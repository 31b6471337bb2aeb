------------------------------ MODULE Lifecycle ------------------------------
(***************************************************************************)
(* The life of one node: NodeLifecycle (core/services/lifecycle.py), the    *)
(* state file it keeps, and Manager.start/stop around it.                   *)
(*                                                                         *)
(* A node runs a few asyncio tasks: `start` (Manager.start), `command` (the *)
(* handler of node.join or node.drain, served by the peer listener), `join` *)
(* and `drain` (the background tasks a command leaves behind), `orphan` (a  *)
(* drain whose task attribute was overwritten) and `stop` (Manager.stop).   *)
(* Each is the sequence of the steps it still has to take; a step is the    *)
(* code between two awaits that suspend, and the tasks interleave freely.   *)
(* A crash empties everything but the state file.                           *)
(***************************************************************************)
EXTENDS Integers, Sequences, FiniteSets

CONSTANTS
  SeedsConfigured,  \* config.node.seeds is not empty
  MaxCommands,      \* bound: join and drain commands issued
  MaxFaults         \* bound: crashes, failed binds and bootstraps, commands during start()

ASSUME LifecycleAssumption ==
  /\ SeedsConfigured \in BOOLEAN
  /\ MaxCommands \in Nat /\ MaxFaults \in Nat

VARIABLES
  file,      \* the state file, or NoFile
  up,        \* the process runs
  tasks,     \* task -> the steps left, and the NodeState it works with
  lock,      \* who holds _membership_lock
  svc,       \* the flags of the services the lifecycle switches
  ring,      \* another node is on the ring of the local topology
  pub,       \* the record this process announced last
  said,      \* every record this node ever announced
  stranded,  \* this process gave a drain up
  overtaken, \* a command was accepted during start(): never, by an earlier process, now
  minted, commands, faults

vars == <<file, up, tasks, lock, svc, ring, pub, said, stranded, overtaken, minted,
          commands, faults>>

Phases == {"idle", "joining", "ready", "draining", "failed"}
Tasks == {"start", "command", "join", "drain", "orphan", "stop"}
NoFile == [phase |-> "none", epoch |-> 0, tokens |-> 0, seeds |-> FALSE]
Done == [todo |-> <<>>, st |-> NoFile]

\* The services of a process that has just been created.
Services == [writes |-> TRUE, reads |-> TRUE, client |-> FALSE, peer |-> FALSE,
             gossip |-> FALSE, ae |-> FALSE]

Running(t) == tasks[t].todo # <<>>
is_joining == Running("join")
is_draining == Running("drain")

\* Task t is about to take step s; the step leads to `todo` with state `st`.
At(t, s) == up /\ Running(t) /\ Head(tasks[t].todo) = s
Goes(t, todo, st) ==
  tasks' = [tasks EXCEPT ![t] = IF todo = <<>> THEN Done ELSE [todo |-> todo, st |-> st]]
Onward(t) == Goes(t, Tail(tasks[t].todo), tasks[t].st)
Fault == faults < MaxFaults /\ faults' = faults + 1

\* The Member built from a NodeState, announced to the cluster.
Member(st) == [phase |-> st.phase, epoch |-> st.epoch, tokens |-> st.tokens]
_publish_state(st) == pub' = Member(st) /\ said' = said \cup {Member(st)}

(***************************************************************************)
(* The state file. A transition numbers the new state after the NodeState   *)
(* the task holds, whatever the file says by now.                           *)
(***************************************************************************)
\* Mutant of _transition_to: the epoch is not advanced.
_transition_toSame(st, phase, tokens, seeds) ==
  [phase |-> phase, epoch |-> st.epoch, tokens |-> tokens, seeds |-> seeds]

_transition_to(st, phase, tokens, seeds) ==
  [phase |-> phase, epoch |-> st.epoch + 1, tokens |-> tokens, seeds |-> seeds]

Persist(t, phase, fresh, seeds) ==
  /\ minted' = IF fresh THEN minted + 1 ELSE minted
  /\ file' = _transition_to(tasks[t].st, phase,
                            IF fresh THEN minted' ELSE file.tokens, seeds)
  /\ Goes(t, Tail(tasks[t].todo), file')

(***************************************************************************)
(* The programs: the suspension points of each coroutine, in order.         *)
(***************************************************************************)
_perform_join == <<"enter", "bootstrap", "sync", "to_ready", "resume", "open">>
_perform_drain == <<"settle", "hand_off", "close", "unlisten", "to_idle", "left">>
_start_ready == <<"seed", "serve", "listen">>

\* Mutant of _startup: JOINING and DRAINING are not resumed.
_startupForgetful(st) ==
  <<"bind">> \o CASE st.phase = "idle" -> IF st.seeds \/ SeedsConfigured THEN <<>>
                                          ELSE <<"to_ready_anew">> \o _start_ready
                  [] st.phase = "ready" -> _start_ready
                  [] OTHER -> <<>>

_startup(st) ==
  <<"bind">> \o CASE st.phase = "idle" -> IF st.seeds \/ SeedsConfigured THEN <<>>
                                          ELSE <<"to_ready_anew">> \o _start_ready
                  [] st.phase = "joining" -> <<"lock">> \o _perform_join \o <<"unlock">>
                  [] st.phase = "ready" -> _start_ready
                  [] st.phase = "draining" -> <<"pause", "rejoin", "resume_drain">>
                  [] OTHER -> <<>>

lifecycle_stop == <<"stop_client", "cancel", "stop_ae", "stop_gossip", "stop_peer",
                    "shutdown">>

(***************************************************************************)
(* start()                                                                  *)
(***************************************************************************)
Start ==
  /\ ~up /\ up' = TRUE
  /\ Goes("start", <<"load">>, NoFile)
  /\ UNCHANGED <<file, lock, svc, ring, pub, said, stranded, overtaken, minted, commands, faults>>

_load_or_create_state ==
  /\ At("start", "load")
  /\ file' = IF file = NoFile THEN [NoFile EXCEPT !.phase = "idle"] ELSE file
  /\ Goes("start", _startup(file'), file')
  /\ UNCHANGED <<up, lock, svc, ring, pub, said, stranded, overtaken, minted, commands, faults>>

_start_peer ==
  /\ At("start", "bind")
  /\ svc' = [svc EXCEPT !.peer = TRUE]
  /\ Onward("start")
  /\ UNCHANGED <<file, up, lock, ring, pub, said, stranded, overtaken, minted, commands, faults>>

_startup_joining ==
  \/ /\ At("start", "lock") /\ lock = "free"
     /\ lock' = "start" /\ Onward("start")
     /\ UNCHANGED <<file, up, svc, ring, pub, said, stranded, overtaken, minted, commands, faults>>
  \/ /\ At("start", "unlock")
     /\ lock' = "free" /\ Onward("start")
     /\ UNCHANGED <<file, up, svc, ring, pub, said, stranded, overtaken, minted, commands, faults>>

_startup_idle ==
  /\ At("start", "to_ready_anew")
  /\ Persist("start", "ready", TRUE, file.seeds)
  /\ UNCHANGED <<up, lock, svc, ring, pub, said, stranded, overtaken, commands, faults>>

\* _start_ready ignores the outcome of the bootstrap.
StartReady ==
  \/ /\ At("start", "seed")
     /\ ring' \in IF tasks["start"].st.seeds THEN {ring, TRUE} ELSE {ring}
     /\ Onward("start")
     /\ UNCHANGED <<file, up, lock, svc, pub, said, stranded, overtaken, minted, commands, faults>>
  \/ /\ At("start", "serve")
     /\ _publish_state(tasks["start"].st)
     /\ svc' = [svc EXCEPT !.gossip = TRUE, !.writes = TRUE, !.reads = TRUE]
     /\ Onward("start")
     /\ UNCHANGED <<file, up, lock, ring, stranded, overtaken, minted, commands, faults>>
  \/ /\ At("start", "listen") /\ ~svc.client
     /\ svc' = [svc EXCEPT !.client = TRUE, !.ae = TRUE]
     /\ Onward("start")
     /\ UNCHANGED <<file, up, lock, ring, pub, said, stranded, overtaken, minted, commands, faults>>

\* A drain task that is spawned replaces the one _drain_task refers to.
Spawned(ts, st) ==
  [ts EXCEPT !["orphan"] = IF is_draining THEN tasks["drain"] ELSE @,
             !["drain"] = [todo |-> _perform_drain, st |-> st]]

_startup_draining ==
  \/ /\ At("start", "pause")
     /\ svc' = [svc EXCEPT !.writes = FALSE, !.reads = TRUE]
     /\ Goes("start", Tail(tasks["start"].todo), file)
     /\ UNCHANGED <<file, up, lock, ring, pub, said, stranded, overtaken, minted, commands, faults>>
  \/ /\ At("start", "rejoin")
     /\ ring' = (ring \/ tasks["start"].st.seeds)
     /\ svc' = [svc EXCEPT !.gossip = TRUE]
     /\ _publish_state(tasks["start"].st)
     /\ Onward("start")
     /\ UNCHANGED <<file, up, lock, stranded, overtaken, minted, commands, faults>>
  \/ /\ At("start", "rejoin") /\ tasks["start"].st.seeds
     /\ Fault /\ stranded' = TRUE
     /\ Goes("start", <<>>, tasks["start"].st)
     /\ UNCHANGED <<file, up, lock, svc, ring, pub, said, overtaken, minted, commands>>
  \/ /\ At("start", "resume_drain") /\ ~svc.client
     /\ svc' = [svc EXCEPT !.client = TRUE]
     /\ tasks' = Spawned([tasks EXCEPT !["start"] = Done], tasks["start"].st)
     /\ UNCHANGED <<file, up, lock, ring, pub, said, stranded, overtaken, minted, commands, faults>>

\* An exception out of start(): the node stops.
Raised ==
  /\ tasks' = [tasks EXCEPT !["start"] = Done, !["stop"].todo = lifecycle_stop]
  /\ lock' = IF lock = "start" THEN "free" ELSE lock
  /\ UNCHANGED <<file, up, svc, ring, pub, said, stranded, overtaken, minted, commands>>

\* A listener that cannot bind raises StartupError.
StartupError ==
  /\ \E s \in {"bind", "open", "listen", "resume_drain"} : At("start", s)
  /\ Fault /\ Raised

\* The client listener already runs, opened by a join that overtook start():
\* RuntimeError.
ListenerRuns ==
  /\ \E s \in {"open", "listen", "resume_drain"} : At("start", s)
  /\ svc.client
  /\ Raised /\ UNCHANGED faults

(***************************************************************************)
(* join(): the command, then _perform_join in the background or in start(). *)
(***************************************************************************)
Serving == up /\ svc.peer /\ ~Running("command") /\ commands < MaxCommands

\* A command that holds the lock. The peer listener serves it from the first
\* moment of start() on.
Accepted ==
  /\ lock' = "command" /\ commands' = commands + 1
  /\ \/ Running("start") /\ Fault /\ overtaken' = "now"
     \/ ~Running("start") /\ UNCHANGED <<faults, overtaken>>

\* Mutant of join: a running drain is not tested.
joinUnguarded ==
  /\ Serving /\ lock = "free" /\ ~is_joining
  /\ Accepted
  /\ \E seeds \in {"load_join", "load_join_seeds"} : Goes("command", <<seeds>>, NoFile)
  /\ UNCHANGED <<file, up, svc, ring, pub, said, stranded, minted>>

\* Both commands test the running tasks as soon as they hold the lock.
join ==
  /\ Serving /\ lock = "free" /\ ~is_joining /\ ~is_draining
  /\ Accepted
  /\ \E seeds \in {"load_join", "load_join_seeds"} : Goes("command", <<seeds>>, NoFile)
  /\ UNCHANGED <<file, up, svc, ring, pub, said, stranded, minted>>

JoinLoads ==
  /\ \/ At("command", "load_join_seeds")
     \/ At("command", "load_join") /\ (file.seeds \/ SeedsConfigured)
  /\ file.phase # "draining"
  /\ Goes("command", <<"to_joining", "spawn_join">>, file)
  /\ UNCHANGED <<file, up, lock, svc, ring, pub, said, stranded, overtaken, minted, commands, faults>>

JoinRefused ==
  /\ \/ At("command", "load_join_seeds") /\ file.phase = "draining"
     \/ /\ At("command", "load_join")
        /\ file.phase = "draining" \/ ~(file.seeds \/ SeedsConfigured)
  /\ lock' = "free" /\ Goes("command", <<>>, NoFile)
  /\ UNCHANGED <<file, up, svc, ring, pub, said, stranded, overtaken, minted, commands, faults>>

JoinPersists ==
  /\ At("command", "to_joining")
  /\ Persist("command", "joining", TRUE, TRUE)
  /\ UNCHANGED <<up, lock, svc, ring, pub, said, stranded, overtaken, commands, faults>>

JoinSpawns ==
  /\ At("command", "spawn_join")
  /\ tasks' = [tasks EXCEPT !["command"] = Done,
                            !["join"] = [todo |-> _perform_join,
                                         st |-> tasks["command"].st]]
  /\ lock' = "free"
  /\ UNCHANGED <<file, up, svc, ring, pub, said, stranded, overtaken, minted, commands, faults>>

\* pool.start and gossiper.start do not suspend: the record goes out at once.
Enter(t) ==
  /\ At(t, "enter")
  /\ svc' = [svc EXCEPT !.gossip = TRUE]
  /\ _publish_state(tasks[t].st)
  /\ Onward(t)
  /\ UNCHANGED <<file, up, lock, ring, stranded, overtaken, minted, commands, faults>>

\* The bootstrap reached a seed: JOINING is announced again, anti-entropy starts.
_join_cluster(t) ==
  /\ At(t, "bootstrap")
  /\ ring' = TRUE
  /\ svc' = [svc EXCEPT !.ae = TRUE]
  /\ _publish_state(tasks[t].st)
  /\ Onward(t)
  /\ UNCHANGED <<file, up, lock, stranded, overtaken, minted, commands, faults>>

_sync_data(t) ==
  /\ At(t, "sync")
  /\ Onward(t)
  /\ UNCHANGED <<file, up, lock, svc, ring, pub, said, stranded, overtaken, minted, commands, faults>>

JoinFails(t) ==
  /\ At(t, "bootstrap") \/ At(t, "sync")
  /\ Fault
  /\ Goes(t, <<"to_failed", "leave", "silence">>
             \o (IF t = "start" THEN <<"unlock">> ELSE <<>>), tasks[t].st)
  /\ UNCHANGED <<file, up, lock, svc, ring, pub, said, stranded, overtaken, minted, commands>>

ToFailed(t) ==
  /\ At(t, "to_failed")
  /\ Persist(t, "failed", FALSE, file.seeds)
  /\ UNCHANGED <<up, lock, svc, ring, pub, said, stranded, overtaken, commands, faults>>

LeaveFailed(t) ==
  \/ /\ At(t, "leave")
     /\ _publish_state(tasks[t].st)
     /\ Onward(t)
     /\ UNCHANGED <<file, up, lock, svc, ring, stranded, overtaken, minted, commands, faults>>
  \/ /\ At(t, "silence")
     /\ svc' = [svc EXCEPT !.ae = FALSE, !.gossip = FALSE]
     /\ Onward(t)
     /\ UNCHANGED <<file, up, lock, ring, pub, said, stranded, overtaken, minted, commands, faults>>

ToReady(t) ==
  /\ At(t, "to_ready")
  /\ Persist(t, "ready", FALSE, file.seeds)
  /\ UNCHANGED <<up, lock, svc, ring, pub, said, stranded, overtaken, commands, faults>>

\* Mutant of Resume: the store is not resumed.
ResumeNothing(t) ==
  /\ At(t, "resume")
  /\ Onward(t)
  /\ UNCHANGED <<file, up, lock, svc, ring, pub, said, stranded, overtaken, minted, commands, faults>>

Resume(t) ==
  /\ At(t, "resume")
  /\ svc' = [svc EXCEPT !.writes = TRUE, !.reads = TRUE]
  /\ Onward(t)
  /\ UNCHANGED <<file, up, lock, ring, pub, said, stranded, overtaken, minted, commands, faults>>

\* The client listener of a node that joined from READY is already running:
\* EnvelopeServer.start raises RuntimeError and the join task dies unannounced.
Open(t) ==
  /\ At(t, "open") /\ ~(t = "start" /\ svc.client)
  /\ IF svc.client
     THEN Goes(t, <<>>, tasks[t].st) /\ UNCHANGED <<svc, pub, said>>
     ELSE /\ svc' = [svc EXCEPT !.client = TRUE]
          /\ _publish_state(tasks[t].st)
          /\ Onward(t)
  /\ UNCHANGED <<file, up, lock, ring, stranded, overtaken, minted, commands, faults>>

OpenFails ==
  /\ At("join", "open") /\ Fault
  /\ Goes("join", <<>>, NoFile)
  /\ UNCHANGED <<file, up, lock, svc, ring, pub, said, stranded, overtaken, minted, commands>>

(***************************************************************************)
(* drain(): the command, then _perform_drain in the background.             *)
(***************************************************************************)
drain ==
  /\ Serving /\ lock = "free" /\ ~is_joining /\ ~is_draining
  /\ Accepted
  /\ Goes("command", <<"load_drain">>, NoFile)
  /\ UNCHANGED <<file, up, svc, ring, pub, said, stranded, minted>>

\* Nothing ever persists PAUSED, the third phase a drain may start from.
DrainLoads ==
  /\ At("command", "load_drain")
  /\ IF file.phase \in {"ready", "draining"} /\ ring
     THEN /\ Goes("command", (IF file.phase = "ready" THEN <<"to_draining">> ELSE <<>>)
                             \o <<"spawn_drain">>, file)
          /\ UNCHANGED lock
     ELSE Goes("command", <<>>, NoFile) /\ lock' = "free"
  /\ UNCHANGED <<file, up, svc, ring, pub, said, stranded, overtaken, minted, commands, faults>>

DrainPersists ==
  /\ At("command", "to_draining")
  /\ Persist("command", "draining", FALSE, TRUE)
  /\ UNCHANGED <<up, lock, svc, ring, pub, said, stranded, overtaken, commands, faults>>

DrainSpawns ==
  /\ At("command", "spawn_drain")
  /\ svc' = [svc EXCEPT !.writes = FALSE, !.reads = TRUE]
  /\ _publish_state(tasks["command"].st)
  /\ tasks' = Spawned([tasks EXCEPT !["command"] = Done], tasks["command"].st)
  /\ lock' = "free"
  /\ UNCHANGED <<file, up, ring, stranded, overtaken, minted, commands, faults>>

\* store.drain pauses the store again, then waits for admitted mutations.
Settle(t) ==
  /\ At(t, "settle")
  /\ svc' = [svc EXCEPT !.writes = FALSE, !.reads = TRUE, !.ae = TRUE]
  /\ Onward(t)
  /\ UNCHANGED <<file, up, lock, ring, pub, said, stranded, overtaken, minted, commands, faults>>

HandOff(t) ==
  /\ At(t, "hand_off") /\ ring
  /\ Onward(t)
  /\ UNCHANGED <<file, up, lock, svc, ring, pub, said, stranded, overtaken, minted, commands, faults>>

\* stop_read_repairs returned; reads are refused, then the listener is stopped.
Close(t) ==
  \/ /\ At(t, "close")
     /\ svc' = [svc EXCEPT !.writes = FALSE, !.reads = FALSE]
     /\ Onward(t)
     /\ UNCHANGED <<file, up, lock, ring, pub, said, stranded, overtaken, minted, commands, faults>>
  \/ /\ At(t, "unlisten")
     /\ svc' = [svc EXCEPT !.client = FALSE]
     /\ Onward(t)
     /\ UNCHANGED <<file, up, lock, ring, pub, said, stranded, overtaken, minted, commands, faults>>

ToIdle(t) ==
  \/ /\ At(t, "to_idle")
     /\ Persist(t, "idle", FALSE, file.seeds)
     /\ UNCHANGED <<up, lock, svc, ring, pub, said, stranded, overtaken, commands, faults>>
  \/ /\ At(t, "left")
     /\ _publish_state(tasks[t].st)
     /\ svc' = [svc EXCEPT !.ae = FALSE]
     /\ Onward(t)
     /\ UNCHANGED <<file, up, lock, ring, stranded, overtaken, minted, commands, faults>>

\* An exception anywhere before IDLE is persisted leaves the node DRAINING.
DrainFails(t) ==
  /\ \E s \in {"settle", "hand_off", "close", "unlisten"} : At(t, s)
  /\ Fault /\ stranded' = TRUE
  /\ Goes(t, <<>>, NoFile)
  /\ UNCHANGED <<file, up, lock, svc, ring, pub, said, overtaken, minted, commands>>

(***************************************************************************)
(* stop(), crashes, and the topology other nodes gossip to this one.        *)
(***************************************************************************)
stop ==
  /\ up /\ ~Running("start") /\ ~Running("stop") /\ Fault
  /\ tasks' = [tasks EXCEPT !["stop"].todo = lifecycle_stop]
  /\ UNCHANGED <<file, up, lock, svc, ring, pub, said, stranded, overtaken, minted, commands>>

StopClient ==
  /\ At("stop", "stop_client")
  /\ svc' = [svc EXCEPT !.client = FALSE]
  /\ Onward("stop")
  /\ UNCHANGED <<file, up, lock, ring, pub, said, stranded, overtaken, minted, commands, faults>>

Cancel ==
  /\ At("stop", "cancel")
  /\ tasks' = [tasks EXCEPT !["stop"].todo = Tail(@), !["join"] = Done, !["drain"] = Done]
  /\ UNCHANGED <<file, up, lock, svc, ring, pub, said, stranded, overtaken, minted, commands, faults>>

StopService(s, flag) ==
  /\ At("stop", s)
  /\ svc' = [svc EXCEPT ![flag] = FALSE]
  /\ Onward("stop")
  /\ UNCHANGED <<file, up, lock, ring, pub, said, stranded, overtaken, minted, commands, faults>>

Down ==
  /\ up' = FALSE /\ lock' = "free" /\ svc' = Services /\ ring' = FALSE
  /\ tasks' = [t \in Tasks |-> Done]
  /\ pub' = Member(NoFile) /\ stranded' = FALSE
  /\ overtaken' = IF overtaken = "now" THEN "before" ELSE overtaken
  /\ UNCHANGED <<file, said, minted, commands>>

Shutdown == At("stop", "shutdown") /\ Down /\ UNCHANGED faults

Crash == up /\ Fault /\ Down

\* A push reaches the peer listener: another node is on the ring.
Hear ==
  /\ up /\ svc.peer /\ ~ring
  /\ ring' = TRUE
  /\ UNCHANGED <<file, up, tasks, lock, svc, pub, said, stranded, overtaken, minted, commands, faults>>

\* The last other node leaves the ring.
Alone ==
  /\ up /\ svc.peer /\ ring /\ Fault
  /\ ring' = FALSE
  /\ UNCHANGED <<file, up, tasks, lock, svc, pub, said, stranded, overtaken, minted, commands>>

Init ==
  /\ file = NoFile /\ up = FALSE /\ lock = "free" /\ svc = Services /\ ring = FALSE
  /\ tasks = [t \in Tasks |-> Done]
  /\ pub = Member(NoFile) /\ said = {} /\ stranded = FALSE /\ overtaken = "never"
  /\ minted = 0 /\ commands = 0 /\ faults = 0

Starting == \/ _load_or_create_state \/ _start_peer \/ _startup_joining
            \/ _startup_idle \/ StartReady \/ _startup_draining \/ ListenerRuns

Joining(t) == \/ Enter(t) \/ _join_cluster(t) \/ _sync_data(t) \/ ToFailed(t)
              \/ LeaveFailed(t) \/ ToReady(t) \/ Resume(t) \/ Open(t)

Commanded == \/ JoinLoads \/ JoinRefused \/ JoinPersists \/ JoinSpawns
             \/ DrainLoads \/ DrainPersists \/ DrainSpawns

Draining(t) == Settle(t) \/ HandOff(t) \/ Close(t) \/ ToIdle(t)

Stopping == \/ StopClient \/ Cancel \/ StopService("stop_ae", "ae")
            \/ StopService("stop_gossip", "gossip") \/ StopService("stop_peer", "peer")
            \/ Shutdown

Next ==
  \/ Start \/ Starting \/ StartupError \/ join \/ drain \/ Commanded
  \/ \E t \in {"start", "join"} : Joining(t) \/ JoinFails(t)
  \/ OpenFails
  \/ \E t \in {"drain", "orphan"} : Draining(t) \/ DrainFails(t)
  \/ stop \/ Stopping \/ Crash \/ Hear \/ Alone

Spec == Init /\ [][Next]_vars

\* Every task of a running process keeps being scheduled and what it awaits
\* ends; a supervisor restarts a process that ended; another node of the
\* cluster keeps gossiping.
Fairness ==
  /\ WF_vars(Start \/ Starting \/ Commanded \/ Stopping \/ Hear)
  /\ WF_vars(Joining("start") \/ Joining("join") \/ Draining("drain"))
  /\ WF_vars(Draining("orphan"))

FairSpec == Spec /\ Fairness

-----------------------------------------------------------------------------
\* What the node announced last is what its store and its client listener do: a
\* READY node accepts operations, a DRAINING one refuses writes ("writes are
\* refused from now on"), an IDLE one serves nobody - also when it joined
\* again after a drain, or was restarted half way through one. A process in
\* which a command overtook start() is excepted: start() does not hold
\* _membership_lock and serves what it loaded before.
ServiceMatchesPhase ==
  up /\ overtaken # "now" =>
    /\ pub.phase = "ready" => svc.writes /\ svc.reads
    /\ pub.phase = "draining" => ~svc.writes
    /\ pub.phase = "idle" => ~svc.reads /\ ~svc.writes /\ ~svc.client

\* From the acknowledgement of a drain on, the store refuses writes: "writes are
\* refused from now on" (drain(), and store.pause in store.drain()).
WritesRefused == is_draining => ~svc.writes

\* A join and a drain never run side by side, and no drain runs twice: the
\* membership lock and the tests of the running tasks keep them apart, unless a
\* command overtook start(), which tests neither before it resumes a drain.
OneOperation ==
  overtaken # "now" =>
    /\ ~Running("orphan")
    /\ ~(is_draining /\ (is_joining \/ Running("start") \/ At("command", "to_joining")))

\* Two different records never carry the same epoch, whatever was crashed,
\* restarted, joined or drained between them: gossip keeps one of the two. Only
\* a command that overtook start() leaves two tasks numbering their states
\* after the same one, and the file behind for good.
OneRecordPerEpoch ==
  overtaken = "never" => \A m, n \in said : m.epoch = n.epoch => m = n

\* A join that was persisted is decided, READY or FAILED, and a drain that was
\* persisted ends in IDLE unless this process gave it up; crashes and restarts
\* in the middle only delay them. While a command has overtaken start(), start()
\* may overwrite what was persisted; the next process goes on from what it finds.
OperationsEnd ==
  /\ file.phase = "joining" ~> (file.phase \in {"ready", "failed"} \/ overtaken = "now")
  /\ file.phase = "draining" ~> (file.phase = "idle" \/ stranded \/ overtaken = "now")

\* A node that persisted READY and has nothing left to do has announced it.
ReadyAnnounced ==
  up /\ file.phase = "ready" /\ (\A t \in Tasks : ~Running(t)) => pub = Member(file)
=============================================================================
