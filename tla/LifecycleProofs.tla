--------------------------- MODULE LifecycleProofs ---------------------------
(***************************************************************************)
(* The life of a node: joins and drains exclude each other, what the node   *)
(* announced last is what it serves, and no two records share an epoch.     *)
(*                                                                         *)
(* The argument: in a process in which no command overtook start(), of      *)
(* start, the command, the join and the drain only one runs, and the one    *)
(* that runs works with the NodeState in the file. What that state is, what *)
(* was announced last and which services are on follow from the step it is  *)
(* about to take (Holds). A process that was overtaken still leaves a file  *)
(* of some phase behind (Based), from which the next one starts afresh.     *)
(***************************************************************************)
EXTENDS Lifecycle, SequenceTheorems, TLAPS

NodeState == [phase : Phases \cup {"none"}, epoch : Nat, tokens : Nat, seeds : BOOLEAN]
Flags == [writes : BOOLEAN, reads : BOOLEAN, client : BOOLEAN, peer : BOOLEAN,
          gossip : BOOLEAN, ae : BOOLEAN]
Records == [phase : Phases \cup {"none"}, epoch : Nat, tokens : Nat]

\* The operations, of which one runs at a time.
Ops == {"start", "command", "join", "drain"}

\* Where a program is: its first step.
LabelOf(todo) == IF todo = <<>> THEN "done" ELSE Head(todo)
at(t) == LabelOf(tasks[t].todo)

\* What is left of the programs, from any of their steps on.
JoinPrograms ==
  {<<>>, <<"enter", "bootstrap", "sync", "to_ready", "resume", "open">>,
   <<"bootstrap", "sync", "to_ready", "resume", "open">>,
   <<"sync", "to_ready", "resume", "open">>, <<"to_ready", "resume", "open">>,
   <<"resume", "open">>, <<"open">>,
   <<"to_failed", "leave", "silence">>, <<"leave", "silence">>, <<"silence">>}

StartJoinPrograms ==
  {<<>>, <<"lock", "enter", "bootstrap", "sync", "to_ready", "resume", "open", "unlock">>,
   <<"enter", "bootstrap", "sync", "to_ready", "resume", "open", "unlock">>,
   <<"bootstrap", "sync", "to_ready", "resume", "open", "unlock">>,
   <<"sync", "to_ready", "resume", "open", "unlock">>,
   <<"to_ready", "resume", "open", "unlock">>, <<"resume", "open", "unlock">>,
   <<"open", "unlock">>, <<"unlock">>}

StartFailPrograms ==
  {<<>>, <<"to_failed", "leave", "silence", "unlock">>, <<"leave", "silence", "unlock">>,
   <<"silence", "unlock">>, <<"unlock">>}

StartReadyPrograms ==
  {<<>>, <<"to_ready_anew", "seed", "serve", "listen">>, <<"seed", "serve", "listen">>,
   <<"serve", "listen">>, <<"listen">>,
   <<"pause", "rejoin", "resume_drain">>, <<"rejoin", "resume_drain">>,
   <<"resume_drain">>}

StartPrograms == StartJoinPrograms \cup StartFailPrograms \cup StartReadyPrograms

DrainPrograms ==
  {<<>>, <<"settle", "hand_off", "close", "unlisten", "to_idle", "left">>,
   <<"hand_off", "close", "unlisten", "to_idle", "left">>,
   <<"close", "unlisten", "to_idle", "left">>, <<"unlisten", "to_idle", "left">>,
   <<"to_idle", "left">>, <<"left">>}

CommandPrograms ==
  {<<>>, <<"load_join">>, <<"load_join_seeds">>, <<"to_joining", "spawn_join">>,
   <<"spawn_join">>, <<"load_drain">>, <<"to_draining", "spawn_drain">>, <<"spawn_drain">>}

StopPrograms ==
  {<<>>, <<"stop_client", "cancel", "stop_ae", "stop_gossip", "stop_peer", "shutdown">>,
   <<"cancel", "stop_ae", "stop_gossip", "stop_peer", "shutdown">>,
   <<"stop_ae", "stop_gossip", "stop_peer", "shutdown">>,
   <<"stop_gossip", "stop_peer", "shutdown">>, <<"stop_peer", "shutdown">>, <<"shutdown">>}

\* start() before its NodeState decided how it goes on.
Boots(todo, st) ==
  \/ todo = <<"load">>
  \/ todo = _startup(st) /\ todo # <<>> /\ Head(todo) = "bind"

\* Every task runs one of its programs.
Scripted(t, task) ==
  CASE t = "start" -> task.todo \in StartPrograms \/ Boots(task.todo, task.st)
    [] t = "command" -> task.todo \in CommandPrograms
    [] t = "join" -> task.todo \in JoinPrograms
    [] t = "drain" -> task.todo \in DrainPrograms
    [] t = "orphan" -> task.todo = <<>>
    [] OTHER -> task.todo \in StopPrograms

Typed(ts) ==
  /\ ts = [t \in Tasks |-> [todo |-> ts[t].todo, st |-> ts[t].st]]
  /\ \A t \in Tasks : Scripted(t, ts[t])

Types ==
  /\ file \in NodeState /\ svc \in Flags /\ minted \in Nat /\ pub \in Records
  /\ Typed(tasks)

-----------------------------------------------------------------------------
\* The phase in the file, by the step the running operation is about to take.
Joins == {"lock", "enter", "bootstrap", "sync", "to_ready", "to_failed", "spawn_join"}
Serves == {"resume", "open", "seed", "serve", "listen"}
Drains == {"pause", "rejoin", "resume_drain", "spawn_drain", "settle", "hand_off", "close",
           "unlisten", "to_idle"}
PhaseHolds(s) ==
  /\ s # "load" => file.phase # "none"
  /\ s \in Joins => file.phase = "joining"
  /\ s \in Serves => file.phase = "ready"
  /\ s \in Drains => file.phase = "draining"
  /\ s = "leave" => file.phase = "failed"
  /\ s = "left" => file.phase = "idle"

\* What was announced last.
Unannounced == {"load", "bind", "lock", "enter", "to_ready_anew", "seed", "serve", "pause",
                "rejoin"}
Announced(t, s) ==
  /\ t = "start" /\ s \in Unannounced => pub.phase = "none"
  /\ s \in {"bootstrap", "sync", "to_ready", "to_failed", "leave", "resume", "open"}
       => pub.phase = "joining"
  /\ s \in {"resume_drain", "settle", "hand_off", "close", "unlisten", "to_idle", "left"}
       => pub.phase = "draining"
  /\ s = "listen" => pub.phase = "ready"

\* The services that are on.
Switched(s) ==
  /\ s = "rejoin" => ~svc.writes
  /\ s = "open" => svc.writes /\ svc.reads
  /\ s \in {"unlisten", "to_idle", "left"} => ~svc.writes /\ ~svc.reads
  /\ s \in {"to_idle", "left"} => ~svc.client

Loads == {"load", "load_join", "load_join_seeds", "load_drain"}
Holds(t, s) ==
  /\ s \notin Loads => tasks[t].st = file
  /\ PhaseHolds(s) /\ Announced(t, s) /\ Switched(s)

OneOp ==
  /\ \A t, u \in Ops : at(t) # "done" /\ at(u) # "done" => t = u
  /\ at("stop") # "done" => at("start") = "done"

Off == ~up => pub.phase = "none" /\ \A t \in Tasks : at(t) = "done"

\* What is served fits what was announced last.
Truthful ==
  up => /\ pub.phase = "ready" => svc.writes /\ svc.reads
        /\ pub.phase = "draining" => ~svc.writes
        /\ pub.phase = "idle" => ~svc.reads /\ ~svc.writes /\ ~svc.client

\* The records announced so far are older than the file, or its own.
Distinct == \A m, n \in said : m.epoch = n.epoch => m = n
Ordered ==
  /\ \A m \in said : /\ m.epoch <= file.epoch
                     /\ m.epoch = file.epoch => m = Member(file)
  /\ file.phase = "none" => said = {}
  /\ Distinct

Numbered ==
  /\ said \subseteq Records
  /\ file.phase = "none" => file = NoFile /\ ~svc.peer
  /\ overtaken = "never" => Ordered

\* No step takes a command that overtook start() back.
Stays == overtaken' = "never" => overtaken = "never"

LifeInv ==
  /\ Types /\ OneOp /\ Off /\ Numbered /\ Truthful
  /\ \A t \in Ops : at(t) # "done" => Holds(t, at(t))

-----------------------------------------------------------------------------
(* Programs *)

\* The step after step s of a task, except after "load" and "bind".
Then(t, s) ==
  CASE s = "lock" -> "enter" [] s = "enter" -> "bootstrap" [] s = "bootstrap" -> "sync"
    [] s = "sync" -> "to_ready" [] s = "to_ready" -> "resume" [] s = "resume" -> "open"
    [] s = "to_failed" -> "leave" [] s = "leave" -> "silence"
    [] s \in {"open", "silence"} -> (IF t = "start" THEN "unlock" ELSE "done")
    [] s = "to_ready_anew" -> "seed" [] s = "seed" -> "serve" [] s = "serve" -> "listen"
    [] s = "pause" -> "rejoin" [] s = "rejoin" -> "resume_drain"
    [] s = "settle" -> "hand_off" [] s = "hand_off" -> "close" [] s = "close" -> "unlisten"
    [] s = "unlisten" -> "to_idle" [] s = "to_idle" -> "left"
    [] s = "to_joining" -> "spawn_join" [] s = "to_draining" -> "spawn_drain"
    [] s = "stop_client" -> "cancel" [] s = "cancel" -> "stop_ae"
    [] s = "stop_ae" -> "stop_gossip" [] s = "stop_gossip" -> "stop_peer"
    [] s = "stop_peer" -> "shutdown"
    [] OTHER -> "done"

\* The steps of the programs.
Steps == {"bind", "bootstrap", "cancel", "close", "enter", "hand_off", "leave", "left",
          "listen", "load", "load_drain", "load_join", "load_join_seeds", "lock", "open",
          "pause", "rejoin", "resume", "resume_drain", "seed", "serve", "settle",
          "shutdown", "silence", "spawn_drain", "spawn_join", "stop_ae",
          "stop_client", "stop_gossip", "stop_peer", "sync", "to_draining",
          "to_failed", "to_idle", "to_joining", "to_ready", "to_ready_anew",
          "unlisten", "unlock"}

\* A step in front of a program.
LEMMA Prepend ==
  ASSUME NEW s \in Seq(Steps), NEW x \in Steps
  PROVE  /\ <<x>> \o s \in Seq(Steps) /\ <<x>> \o s # <<>>
         /\ Head(<<x>> \o s) = x /\ Tail(<<x>> \o s) = s
PROOF
  <1>1. <<x>> \o s \in Seq(Steps) /\ <<x>> \o s # <<>>
    OBVIOUS
  <1>2. Head(<<x>> \o s) = x
    OBVIOUS
  <1>3. Tail(<<x>> \o s) = s
    OBVIOUS
  <1> QED
    BY <1>1, <1>2, <1>3

\* Every step of a program of _perform_join leads to the next.
LEMMA JoinScript ==
  ASSUME NEW p \in JoinPrograms, p # <<>>
  PROVE  Tail(p) \in JoinPrograms /\ LabelOf(Tail(p)) = Then("join", Head(p))
PROOF
  <1> DEFINE p1 == <<"enter", "bootstrap", "sync", "to_ready", "resume", "open">>
             p2 == <<"bootstrap", "sync", "to_ready", "resume", "open">>
             p3 == <<"sync", "to_ready", "resume", "open">>
             p4 == <<"to_ready", "resume", "open">>
             p5 == <<"resume", "open">>
             p6 == <<"open">>
             p7 == <<"to_failed", "leave", "silence">>
             p8 == <<"leave", "silence">>
             p9 == <<"silence">>
  <1>1. /\ Head(p1) = "enter" /\ Tail(p1) = p2 /\ p1 # <<>>
        /\ Head(p2) = "bootstrap" /\ Tail(p2) = p3 /\ p2 # <<>>
        /\ Head(p3) = "sync" /\ Tail(p3) = p4 /\ p3 # <<>>
        /\ Head(p4) = "to_ready" /\ Tail(p4) = p5 /\ p4 # <<>>
        /\ Head(p5) = "resume" /\ Tail(p5) = p6 /\ p5 # <<>>
        /\ Head(p6) = "open" /\ Tail(p6) = <<>> /\ p6 # <<>>
        /\ Head(p7) = "to_failed" /\ Tail(p7) = p8 /\ p7 # <<>>
        /\ Head(p8) = "leave" /\ Tail(p8) = p9 /\ p8 # <<>>
        /\ Head(p9) = "silence" /\ Tail(p9) = <<>> /\ p9 # <<>>
    OBVIOUS
  <1>2. /\ Then("join", "enter") = "bootstrap"
        /\ Then("join", "bootstrap") = "sync"
        /\ Then("join", "sync") = "to_ready"
        /\ Then("join", "to_ready") = "resume"
        /\ Then("join", "resume") = "open"
        /\ Then("join", "open") = "done"
        /\ Then("join", "to_failed") = "leave"
        /\ Then("join", "leave") = "silence"
        /\ Then("join", "silence") = "done"
    BY DEF Then
  <1>3. JoinPrograms
          = {<<>>, p1, p2, p3, p4, p5, p6, p7, p8, p9}
    BY DEF JoinPrograms
  <1> HIDE DEF p1, p2, p3, p4, p5, p6, p7, p8, p9
  <1>4. /\ Tail(p1) \in JoinPrograms /\ LabelOf(Tail(p1)) = Then("join", Head(p1))
        /\ Tail(p2) \in JoinPrograms /\ LabelOf(Tail(p2)) = Then("join", Head(p2))
        /\ Tail(p3) \in JoinPrograms /\ LabelOf(Tail(p3)) = Then("join", Head(p3))
        /\ Tail(p4) \in JoinPrograms /\ LabelOf(Tail(p4)) = Then("join", Head(p4))
        /\ Tail(p5) \in JoinPrograms /\ LabelOf(Tail(p5)) = Then("join", Head(p5))
        /\ Tail(p6) \in JoinPrograms /\ LabelOf(Tail(p6)) = Then("join", Head(p6))
        /\ Tail(p7) \in JoinPrograms /\ LabelOf(Tail(p7)) = Then("join", Head(p7))
        /\ Tail(p8) \in JoinPrograms /\ LabelOf(Tail(p8)) = Then("join", Head(p8))
        /\ Tail(p9) \in JoinPrograms /\ LabelOf(Tail(p9)) = Then("join", Head(p9))
    BY <1>1, <1>2, <1>3 DEF LabelOf
  <1> QED
    BY Zenon, <1>3, <1>4

\* Every step of a program of start() that joins leads to the next.
LEMMA StartJoinScript ==
  ASSUME NEW p \in StartJoinPrograms, p # <<>>
  PROVE  Tail(p) \in StartJoinPrograms /\ LabelOf(Tail(p)) = Then("start", Head(p))
PROOF
  <1> DEFINE p1 == <<"lock", "enter", "bootstrap", "sync", "to_ready", "resume", "open", "unlock">>
             p2 == <<"enter", "bootstrap", "sync", "to_ready", "resume", "open", "unlock">>
             p3 == <<"bootstrap", "sync", "to_ready", "resume", "open", "unlock">>
             p4 == <<"sync", "to_ready", "resume", "open", "unlock">>
             p5 == <<"to_ready", "resume", "open", "unlock">>
             p6 == <<"resume", "open", "unlock">>
             p7 == <<"open", "unlock">>
             p8 == <<"unlock">>
  <1>1. /\ Head(p1) = "lock" /\ Tail(p1) = p2 /\ p1 # <<>>
        /\ Head(p2) = "enter" /\ Tail(p2) = p3 /\ p2 # <<>>
        /\ Head(p3) = "bootstrap" /\ Tail(p3) = p4 /\ p3 # <<>>
        /\ Head(p4) = "sync" /\ Tail(p4) = p5 /\ p4 # <<>>
        /\ Head(p5) = "to_ready" /\ Tail(p5) = p6 /\ p5 # <<>>
        /\ Head(p6) = "resume" /\ Tail(p6) = p7 /\ p6 # <<>>
        /\ Head(p7) = "open" /\ Tail(p7) = p8 /\ p7 # <<>>
        /\ Head(p8) = "unlock" /\ Tail(p8) = <<>> /\ p8 # <<>>
    OBVIOUS
  <1>2. /\ Then("start", "lock") = "enter"
        /\ Then("start", "enter") = "bootstrap"
        /\ Then("start", "bootstrap") = "sync"
        /\ Then("start", "sync") = "to_ready"
        /\ Then("start", "to_ready") = "resume"
        /\ Then("start", "resume") = "open"
        /\ Then("start", "open") = "unlock"
        /\ Then("start", "unlock") = "done"
    BY DEF Then
  <1>3. StartJoinPrograms
          = {<<>>, p1, p2, p3, p4, p5, p6, p7, p8}
    BY DEF StartJoinPrograms
  <1> HIDE DEF p1, p2, p3, p4, p5, p6, p7, p8
  <1>4. /\ Tail(p1) \in StartJoinPrograms /\ LabelOf(Tail(p1)) = Then("start", Head(p1))
        /\ Tail(p2) \in StartJoinPrograms /\ LabelOf(Tail(p2)) = Then("start", Head(p2))
        /\ Tail(p3) \in StartJoinPrograms /\ LabelOf(Tail(p3)) = Then("start", Head(p3))
        /\ Tail(p4) \in StartJoinPrograms /\ LabelOf(Tail(p4)) = Then("start", Head(p4))
        /\ Tail(p5) \in StartJoinPrograms /\ LabelOf(Tail(p5)) = Then("start", Head(p5))
        /\ Tail(p6) \in StartJoinPrograms /\ LabelOf(Tail(p6)) = Then("start", Head(p6))
        /\ Tail(p7) \in StartJoinPrograms /\ LabelOf(Tail(p7)) = Then("start", Head(p7))
        /\ Tail(p8) \in StartJoinPrograms /\ LabelOf(Tail(p8)) = Then("start", Head(p8))
    BY <1>1, <1>2, <1>3 DEF LabelOf
  <1> QED
    BY Zenon, <1>3, <1>4

\* Every step of a program of start() whose join failed leads to the next.
LEMMA StartFailScript ==
  ASSUME NEW p \in StartFailPrograms, p # <<>>
  PROVE  Tail(p) \in StartFailPrograms /\ LabelOf(Tail(p)) = Then("start", Head(p))
PROOF
  <1> DEFINE p1 == <<"to_failed", "leave", "silence", "unlock">>
             p2 == <<"leave", "silence", "unlock">>
             p3 == <<"silence", "unlock">>
             p4 == <<"unlock">>
  <1>1. /\ Head(p1) = "to_failed" /\ Tail(p1) = p2 /\ p1 # <<>>
        /\ Head(p2) = "leave" /\ Tail(p2) = p3 /\ p2 # <<>>
        /\ Head(p3) = "silence" /\ Tail(p3) = p4 /\ p3 # <<>>
        /\ Head(p4) = "unlock" /\ Tail(p4) = <<>> /\ p4 # <<>>
    OBVIOUS
  <1>2. /\ Then("start", "to_failed") = "leave"
        /\ Then("start", "leave") = "silence"
        /\ Then("start", "silence") = "unlock"
        /\ Then("start", "unlock") = "done"
    BY DEF Then
  <1>3. StartFailPrograms
          = {<<>>, p1, p2, p3, p4}
    BY DEF StartFailPrograms
  <1> HIDE DEF p1, p2, p3, p4
  <1>4. /\ Tail(p1) \in StartFailPrograms /\ LabelOf(Tail(p1)) = Then("start", Head(p1))
        /\ Tail(p2) \in StartFailPrograms /\ LabelOf(Tail(p2)) = Then("start", Head(p2))
        /\ Tail(p3) \in StartFailPrograms /\ LabelOf(Tail(p3)) = Then("start", Head(p3))
        /\ Tail(p4) \in StartFailPrograms /\ LabelOf(Tail(p4)) = Then("start", Head(p4))
    BY <1>1, <1>2, <1>3 DEF LabelOf
  <1> QED
    BY Zenon, <1>3, <1>4

\* Every step of a program of start() that serves or drains leads to the next.
LEMMA StartReadyScript ==
  ASSUME NEW p \in StartReadyPrograms, p # <<>>
  PROVE  Tail(p) \in StartReadyPrograms /\ LabelOf(Tail(p)) = Then("start", Head(p))
PROOF
  <1> DEFINE p1 == <<"to_ready_anew", "seed", "serve", "listen">>
             p2 == <<"seed", "serve", "listen">>
             p3 == <<"serve", "listen">>
             p4 == <<"listen">>
             p5 == <<"pause", "rejoin", "resume_drain">>
             p6 == <<"rejoin", "resume_drain">>
             p7 == <<"resume_drain">>
  <1>1. /\ Head(p1) = "to_ready_anew" /\ Tail(p1) = p2 /\ p1 # <<>>
        /\ Head(p2) = "seed" /\ Tail(p2) = p3 /\ p2 # <<>>
        /\ Head(p3) = "serve" /\ Tail(p3) = p4 /\ p3 # <<>>
        /\ Head(p4) = "listen" /\ Tail(p4) = <<>> /\ p4 # <<>>
        /\ Head(p5) = "pause" /\ Tail(p5) = p6 /\ p5 # <<>>
        /\ Head(p6) = "rejoin" /\ Tail(p6) = p7 /\ p6 # <<>>
        /\ Head(p7) = "resume_drain" /\ Tail(p7) = <<>> /\ p7 # <<>>
    OBVIOUS
  <1>2. /\ Then("start", "to_ready_anew") = "seed"
        /\ Then("start", "seed") = "serve"
        /\ Then("start", "serve") = "listen"
        /\ Then("start", "listen") = "done"
        /\ Then("start", "pause") = "rejoin"
        /\ Then("start", "rejoin") = "resume_drain"
        /\ Then("start", "resume_drain") = "done"
    BY DEF Then
  <1>3. StartReadyPrograms
          = {<<>>, p1, p2, p3, p4, p5, p6, p7}
    BY DEF StartReadyPrograms
  <1> HIDE DEF p1, p2, p3, p4, p5, p6, p7
  <1>4. /\ Tail(p1) \in StartReadyPrograms /\ LabelOf(Tail(p1)) = Then("start", Head(p1))
        /\ Tail(p2) \in StartReadyPrograms /\ LabelOf(Tail(p2)) = Then("start", Head(p2))
        /\ Tail(p3) \in StartReadyPrograms /\ LabelOf(Tail(p3)) = Then("start", Head(p3))
        /\ Tail(p4) \in StartReadyPrograms /\ LabelOf(Tail(p4)) = Then("start", Head(p4))
        /\ Tail(p5) \in StartReadyPrograms /\ LabelOf(Tail(p5)) = Then("start", Head(p5))
        /\ Tail(p6) \in StartReadyPrograms /\ LabelOf(Tail(p6)) = Then("start", Head(p6))
        /\ Tail(p7) \in StartReadyPrograms /\ LabelOf(Tail(p7)) = Then("start", Head(p7))
    BY <1>1, <1>2, <1>3 DEF LabelOf
  <1> QED
    BY Zenon, <1>3, <1>4

\* Every step of a program of _perform_drain leads to the next.
LEMMA DrainScript ==
  ASSUME NEW p \in DrainPrograms, p # <<>>
  PROVE  Tail(p) \in DrainPrograms /\ LabelOf(Tail(p)) = Then("drain", Head(p))
PROOF
  <1> DEFINE p1 == <<"settle", "hand_off", "close", "unlisten", "to_idle", "left">>
             p2 == <<"hand_off", "close", "unlisten", "to_idle", "left">>
             p3 == <<"close", "unlisten", "to_idle", "left">>
             p4 == <<"unlisten", "to_idle", "left">>
             p5 == <<"to_idle", "left">>
             p6 == <<"left">>
  <1>1. /\ Head(p1) = "settle" /\ Tail(p1) = p2 /\ p1 # <<>>
        /\ Head(p2) = "hand_off" /\ Tail(p2) = p3 /\ p2 # <<>>
        /\ Head(p3) = "close" /\ Tail(p3) = p4 /\ p3 # <<>>
        /\ Head(p4) = "unlisten" /\ Tail(p4) = p5 /\ p4 # <<>>
        /\ Head(p5) = "to_idle" /\ Tail(p5) = p6 /\ p5 # <<>>
        /\ Head(p6) = "left" /\ Tail(p6) = <<>> /\ p6 # <<>>
    OBVIOUS
  <1>2. /\ Then("drain", "settle") = "hand_off"
        /\ Then("drain", "hand_off") = "close"
        /\ Then("drain", "close") = "unlisten"
        /\ Then("drain", "unlisten") = "to_idle"
        /\ Then("drain", "to_idle") = "left"
        /\ Then("drain", "left") = "done"
    BY DEF Then
  <1>3. DrainPrograms
          = {<<>>, p1, p2, p3, p4, p5, p6}
    BY DEF DrainPrograms
  <1> HIDE DEF p1, p2, p3, p4, p5, p6
  <1>4. /\ Tail(p1) \in DrainPrograms /\ LabelOf(Tail(p1)) = Then("drain", Head(p1))
        /\ Tail(p2) \in DrainPrograms /\ LabelOf(Tail(p2)) = Then("drain", Head(p2))
        /\ Tail(p3) \in DrainPrograms /\ LabelOf(Tail(p3)) = Then("drain", Head(p3))
        /\ Tail(p4) \in DrainPrograms /\ LabelOf(Tail(p4)) = Then("drain", Head(p4))
        /\ Tail(p5) \in DrainPrograms /\ LabelOf(Tail(p5)) = Then("drain", Head(p5))
        /\ Tail(p6) \in DrainPrograms /\ LabelOf(Tail(p6)) = Then("drain", Head(p6))
    BY <1>1, <1>2, <1>3 DEF LabelOf
  <1> QED
    BY Zenon, <1>3, <1>4

\* Every step of a program of a command leads to the next.
LEMMA CommandScript ==
  ASSUME NEW p \in CommandPrograms, p # <<>>
  PROVE  Tail(p) \in CommandPrograms /\ LabelOf(Tail(p)) = Then("command", Head(p))
PROOF
  <1> DEFINE p1 == <<"load_join">>
             p2 == <<"load_join_seeds">>
             p3 == <<"to_joining", "spawn_join">>
             p4 == <<"spawn_join">>
             p5 == <<"load_drain">>
             p6 == <<"to_draining", "spawn_drain">>
             p7 == <<"spawn_drain">>
  <1>1. /\ Head(p1) = "load_join" /\ Tail(p1) = <<>> /\ p1 # <<>>
        /\ Head(p2) = "load_join_seeds" /\ Tail(p2) = <<>> /\ p2 # <<>>
        /\ Head(p3) = "to_joining" /\ Tail(p3) = p4 /\ p3 # <<>>
        /\ Head(p4) = "spawn_join" /\ Tail(p4) = <<>> /\ p4 # <<>>
        /\ Head(p5) = "load_drain" /\ Tail(p5) = <<>> /\ p5 # <<>>
        /\ Head(p6) = "to_draining" /\ Tail(p6) = p7 /\ p6 # <<>>
        /\ Head(p7) = "spawn_drain" /\ Tail(p7) = <<>> /\ p7 # <<>>
    OBVIOUS
  <1>2. /\ Then("command", "load_join") = "done"
        /\ Then("command", "load_join_seeds") = "done"
        /\ Then("command", "to_joining") = "spawn_join"
        /\ Then("command", "spawn_join") = "done"
        /\ Then("command", "load_drain") = "done"
        /\ Then("command", "to_draining") = "spawn_drain"
        /\ Then("command", "spawn_drain") = "done"
    BY DEF Then
  <1>3. CommandPrograms
          = {<<>>, p1, p2, p3, p4, p5, p6, p7}
    BY DEF CommandPrograms
  <1> HIDE DEF p1, p2, p3, p4, p5, p6, p7
  <1>4. /\ Tail(p1) \in CommandPrograms /\ LabelOf(Tail(p1)) = Then("command", Head(p1))
        /\ Tail(p2) \in CommandPrograms /\ LabelOf(Tail(p2)) = Then("command", Head(p2))
        /\ Tail(p3) \in CommandPrograms /\ LabelOf(Tail(p3)) = Then("command", Head(p3))
        /\ Tail(p4) \in CommandPrograms /\ LabelOf(Tail(p4)) = Then("command", Head(p4))
        /\ Tail(p5) \in CommandPrograms /\ LabelOf(Tail(p5)) = Then("command", Head(p5))
        /\ Tail(p6) \in CommandPrograms /\ LabelOf(Tail(p6)) = Then("command", Head(p6))
        /\ Tail(p7) \in CommandPrograms /\ LabelOf(Tail(p7)) = Then("command", Head(p7))
    BY <1>1, <1>2, <1>3 DEF LabelOf
  <1> QED
    BY Zenon, <1>3, <1>4

\* Every step of a program of stop() leads to the next.
LEMMA StopScript ==
  ASSUME NEW p \in StopPrograms, p # <<>>
  PROVE  Tail(p) \in StopPrograms /\ LabelOf(Tail(p)) = Then("stop", Head(p))
PROOF
  <1> DEFINE p1 == <<"stop_client", "cancel", "stop_ae", "stop_gossip", "stop_peer", "shutdown">>
             p2 == <<"cancel", "stop_ae", "stop_gossip", "stop_peer", "shutdown">>
             p3 == <<"stop_ae", "stop_gossip", "stop_peer", "shutdown">>
             p4 == <<"stop_gossip", "stop_peer", "shutdown">>
             p5 == <<"stop_peer", "shutdown">>
             p6 == <<"shutdown">>
  <1>1. /\ Head(p1) = "stop_client" /\ Tail(p1) = p2 /\ p1 # <<>>
        /\ Head(p2) = "cancel" /\ Tail(p2) = p3 /\ p2 # <<>>
        /\ Head(p3) = "stop_ae" /\ Tail(p3) = p4 /\ p3 # <<>>
        /\ Head(p4) = "stop_gossip" /\ Tail(p4) = p5 /\ p4 # <<>>
        /\ Head(p5) = "stop_peer" /\ Tail(p5) = p6 /\ p5 # <<>>
        /\ Head(p6) = "shutdown" /\ Tail(p6) = <<>> /\ p6 # <<>>
    OBVIOUS
  <1>2. /\ Then("stop", "stop_client") = "cancel"
        /\ Then("stop", "cancel") = "stop_ae"
        /\ Then("stop", "stop_ae") = "stop_gossip"
        /\ Then("stop", "stop_gossip") = "stop_peer"
        /\ Then("stop", "stop_peer") = "shutdown"
        /\ Then("stop", "shutdown") = "done"
    BY DEF Then
  <1>3. StopPrograms
          = {<<>>, p1, p2, p3, p4, p5, p6}
    BY DEF StopPrograms
  <1> HIDE DEF p1, p2, p3, p4, p5, p6
  <1>4. /\ Tail(p1) \in StopPrograms /\ LabelOf(Tail(p1)) = Then("stop", Head(p1))
        /\ Tail(p2) \in StopPrograms /\ LabelOf(Tail(p2)) = Then("stop", Head(p2))
        /\ Tail(p3) \in StopPrograms /\ LabelOf(Tail(p3)) = Then("stop", Head(p3))
        /\ Tail(p4) \in StopPrograms /\ LabelOf(Tail(p4)) = Then("stop", Head(p4))
        /\ Tail(p5) \in StopPrograms /\ LabelOf(Tail(p5)) = Then("stop", Head(p5))
        /\ Tail(p6) \in StopPrograms /\ LabelOf(Tail(p6)) = Then("stop", Head(p6))
    BY <1>1, <1>2, <1>3 DEF LabelOf
  <1> QED
    BY Zenon, <1>3, <1>4

\* A join that fails inside start().
LEMMA FailingProgram ==
  <<"to_failed", "leave", "silence">> \o <<"unlock">>
    = <<"to_failed", "leave", "silence", "unlock">>
PROOF
  <1> DEFINE a == <<"to_failed", "leave", "silence">> \o <<"unlock">>
             b == <<"to_failed", "leave", "silence", "unlock">>
  <1>1. b \in Seq(Steps) /\ Len(b) = 4
    BY DEF Steps
  <1>2. a \in Seq(Steps)
    BY DEF Steps
  <1>3. Len(a) = 4
    BY DEF Steps
  <1>4. a[1] = b[1] /\ a[2] = b[2] /\ a[3] = b[3] /\ a[4] = b[4]
    BY DEF Steps
  <1> HIDE DEF a, b
  <1>5. \A i \in 1 .. 4 : a[i] = b[i]
    BY <1>4
  <1>6. a = b
    BY <1>1, <1>2, <1>3, <1>5, SeqEqual
  <1> QED
    BY <1>6 DEF a, b

\* A join inside start().
LEMMA StartJoinProgram ==
  <<"lock">> \o _perform_join \o <<"unlock">>
    = <<"lock", "enter", "bootstrap", "sync", "to_ready", "resume", "open", "unlock">>
PROOF
  <1> DEFINE a == <<"lock">> \o _perform_join \o <<"unlock">>
             b == <<"lock", "enter", "bootstrap", "sync", "to_ready", "resume", "open", "unlock">>
  <1>1. b \in Seq(Steps) /\ Len(b) = 8
    BY DEF Steps
  <1>2. a \in Seq(Steps)
    BY DEF Steps, _perform_join
  <1>3. Len(a) = 8
    BY DEF Steps, _perform_join
  <1>4. a[1] = b[1] /\ a[2] = b[2] /\ a[3] = b[3] /\ a[4] = b[4] /\ a[5] = b[5] /\
        a[6] = b[6] /\ a[7] = b[7] /\ a[8] = b[8]
    BY DEF Steps, _perform_join
  <1> HIDE DEF a, b
  <1>5. \A i \in 1 .. 8 : a[i] = b[i]
    BY <1>4
  <1>6. a = b
    BY <1>1, <1>2, <1>3, <1>5, SeqEqual
  <1> QED
    BY <1>6 DEF a, b

\* A first start without seeds.
LEMMA SeedlessProgram ==
  <<"to_ready_anew">> \o _start_ready
    = <<"to_ready_anew", "seed", "serve", "listen">>
PROOF
  <1> DEFINE a == <<"to_ready_anew">> \o _start_ready
             b == <<"to_ready_anew", "seed", "serve", "listen">>
  <1>1. b \in Seq(Steps) /\ Len(b) = 4
    BY DEF Steps
  <1>2. a \in Seq(Steps)
    BY DEF Steps, _start_ready
  <1>3. Len(a) = 4
    BY DEF Steps, _start_ready
  <1>4. a[1] = b[1] /\ a[2] = b[2] /\ a[3] = b[3] /\ a[4] = b[4]
    BY DEF Steps, _start_ready
  <1> HIDE DEF a, b
  <1>5. \A i \in 1 .. 4 : a[i] = b[i]
    BY <1>4
  <1>6. a = b
    BY <1>1, <1>2, <1>3, <1>5, SeqEqual
  <1> QED
    BY <1>6 DEF a, b

\* The drain command, from READY.
LEMMA DrainProgram ==
  <<"to_draining">> \o <<"spawn_drain">>
    = <<"to_draining", "spawn_drain">>
PROOF
  <1> DEFINE a == <<"to_draining">> \o <<"spawn_drain">>
             b == <<"to_draining", "spawn_drain">>
  <1>1. b \in Seq(Steps) /\ Len(b) = 2
    BY DEF Steps
  <1>2. a \in Seq(Steps)
    BY DEF Steps
  <1>3. Len(a) = 2
    BY DEF Steps
  <1>4. a[1] = b[1] /\ a[2] = b[2]
    BY DEF Steps
  <1> HIDE DEF a, b
  <1>5. \A i \in 1 .. 2 : a[i] = b[i]
    BY <1>4
  <1>6. a = b
    BY <1>1, <1>2, <1>3, <1>5, SeqEqual
  <1> QED
    BY <1>6 DEF a, b

\* How start() goes on after the peer listener is bound.
Continues(st, n) ==
  /\ st.phase = "idle" => n \in {"done", "to_ready_anew"}
  /\ st.phase = "joining" => n = "lock"
  /\ st.phase = "ready" => n = "seed"
  /\ st.phase = "draining" => n = "pause"
  /\ st.phase = "failed" => n = "done"

LEMMA StartupProgram ==
  ASSUME NEW st \in NodeState, st.phase # "none"
  PROVE  /\ _startup(st) # <<>> /\ Head(_startup(st)) = "bind"
         /\ Tail(_startup(st)) \in StartPrograms
         /\ Continues(st, LabelOf(Tail(_startup(st))))
PROOF
  <1> DEFINE pj == <<"lock", "enter", "bootstrap", "sync", "to_ready", "resume", "open", "unlock">>
             pr == <<"seed", "serve", "listen">>
             pa == <<"to_ready_anew", "seed", "serve", "listen">>
             pd == <<"pause", "rejoin", "resume_drain">>
             r == CASE st.phase = "idle" -> IF st.seeds \/ SeedsConfigured THEN <<>> ELSE pa
                    [] st.phase = "joining" -> pj
                    [] st.phase = "ready" -> pr
                    [] st.phase = "draining" -> pd
                    [] OTHER -> <<>>
  <1>2. st.phase \in Phases
    BY DEF NodeState
  <1>3. _start_ready = pr
    BY DEF _start_ready
  <1>4. /\ pj \in Seq(Steps) /\ pr \in Seq(Steps) /\ pa \in Seq(Steps) /\ pd \in Seq(Steps)
        /\ "bind" \in Steps /\ <<>> \in Seq(Steps)
    BY DEF Steps
  <1>5. /\ LabelOf(pj) = "lock" /\ LabelOf(pr) = "seed" /\ LabelOf(pa) = "to_ready_anew"
        /\ LabelOf(pd) = "pause" /\ LabelOf(<<>>) = "done"
    BY DEF LabelOf
  <1>6. {pj, pr, pa, pd, <<>>} \subseteq StartPrograms
    BY DEF StartPrograms, StartJoinPrograms, StartReadyPrograms
  <1>7. <<"lock">> \o _perform_join \o <<"unlock">> = pj
    BY StartJoinProgram
  <1>8. <<"to_ready_anew">> \o _start_ready = pa
    BY SeedlessProgram
  <1>0. pd = <<"pause", "rejoin", "resume_drain">>
    OBVIOUS
  <1> HIDE DEF pj, pr, pa, pd
  <1>1. _startup(st) = <<"bind">> \o r
    BY Zenon, <1>0, <1>3, <1>7, <1>8 DEF _startup
  <1>9. /\ st.phase = "idle" => r \in {<<>>, pa}
        /\ st.phase = "joining" => r = pj
        /\ st.phase = "ready" => r = pr
        /\ st.phase = "draining" => r = pd
        /\ st.phase = "failed" => r = <<>>
    OBVIOUS
  <1> HIDE DEF r
  <1>10. r \in {pj, pr, pa, pd, <<>>}
    BY Zenon, <1>2, <1>9 DEF Phases
  <1>11. /\ _startup(st) # <<>> /\ Head(_startup(st)) = "bind" /\ Tail(_startup(st)) = r
    <2>1. r \in Seq(Steps)
      BY Zenon, <1>4, <1>10
    <2> QED
      BY <1>1, <1>4, <2>1, Prepend
  <1>12. Continues(st, LabelOf(r))
    BY <1>5, <1>9 DEF Continues
  <1> QED
    BY <1>6, <1>10, <1>11, <1>12

-----------------------------------------------------------------------------
(* Steps of one task *)

\* Task t, and no other, goes on at step n with state st.
Moved(t, n, st) ==
  /\ Typed(tasks)' /\ at(t)' = n
  /\ n # "done" => tasks'[t].st = st
  /\ \A u \in Tasks \ {t} : tasks'[u] = tasks[u]

\* A task that ended.
LEMMA DoneScripted ==
  /\ Done.todo = <<>> /\ LabelOf(Done.todo) = "done"
  /\ Done = [todo |-> Done.todo, st |-> Done.st]
  /\ \A t \in Tasks : Scripted(t, Done)
PROOF
  <1>1. Done.todo = <<>> /\ Done = [todo |-> Done.todo, st |-> Done.st]
    BY DEF Done
  <1>2. /\ <<>> \in StartPrograms /\ <<>> \in CommandPrograms /\ <<>> \in JoinPrograms
        /\ <<>> \in DrainPrograms /\ <<>> \in StopPrograms
    BY DEF StartPrograms, StartJoinPrograms, CommandPrograms, JoinPrograms, DrainPrograms,
           StopPrograms
  <1>3. \A t \in Tasks : Scripted(t, Done)
    BY <1>1, <1>2 DEF Scripted, Tasks
  <1> QED
    BY <1>1, <1>3 DEF LabelOf

\* One task is set to a program of its own.
LEMMA TaskSet ==
  ASSUME Typed(tasks), NEW t \in Tasks, NEW task,
         task = [todo |-> task.todo, st |-> task.st], Scripted(t, task),
         tasks' = [tasks EXCEPT ![t] = task]
  PROVE  Moved(t, LabelOf(task.todo), task.st)
PROOF
  <1>1. tasks = [u \in Tasks |-> tasks[u]]
    BY DEF Typed
  <1>2. tasks'[t] = task /\ \A u \in Tasks \ {t} : tasks'[u] = tasks[u]
    BY <1>1
  <1>3. tasks' = [u \in Tasks |-> tasks'[u]]
    BY <1>1
  <1>4. \A u \in Tasks : /\ tasks'[u] = [todo |-> tasks'[u].todo, st |-> tasks'[u].st]
                        /\ Scripted(u, tasks'[u])
    BY <1>2 DEF Typed
  <1>5. Typed(tasks)'
    BY <1>3, <1>4 DEF Typed
  <1> QED
    BY <1>2, <1>5 DEF Moved, at

\* Goes, with a program of the task.
LEMMA GoesMoves ==
  ASSUME Typed(tasks), NEW t \in Tasks, NEW todo, NEW st, Goes(t, todo, st),
         Scripted(t, [todo |-> todo, st |-> st])
  PROVE  Moved(t, LabelOf(todo), st)
PROOF
  <1>1. CASE todo = <<>>
    <2>1. tasks' = [tasks EXCEPT ![t] = Done]
      BY <1>1 DEF Goes
    <2>2. Moved(t, "done", Done.st)
      BY <2>1, TaskSet, DoneScripted
    <2> QED
      BY <1>1, <2>2 DEF Moved, LabelOf
  <1>2. CASE todo # <<>>
    <2> DEFINE task == [todo |-> todo, st |-> st]
    <2>1. tasks' = [tasks EXCEPT ![t] = task]
      BY <1>2 DEF Goes
    <2>2. task = [todo |-> task.todo, st |-> task.st] /\ task.todo = todo /\ task.st = st
      OBVIOUS
    <2> HIDE DEF task
    <2>3. Scripted(t, task)
      BY DEF task
    <2> QED
      BY <2>1, <2>2, <2>3, TaskSet
  <1> QED
    BY <1>1, <1>2

\* The rest of a program is a program.
LEMMA ScriptStep ==
  ASSUME Typed(tasks), NEW t \in Tasks, NEW s, At(t, s), s \notin {"load", "bind"}, NEW st
  PROVE  /\ Scripted(t, [todo |-> Tail(tasks[t].todo), st |-> st])
         /\ LabelOf(Tail(tasks[t].todo)) = Then(t, s)
PROOF
  <1> DEFINE p == tasks[t].todo
  <1>1. p # <<>> /\ Head(p) = s /\ Scripted(t, tasks[t])
    BY DEF At, Running, Typed
  <1> HIDE DEF p
  <1>2. CASE t = "start"
    <2>1. p \in StartPrograms \/ Boots(p, tasks[t].st)
      BY <1>1, <1>2 DEF Scripted, p
    <2>2. Head(<<"load">>) = "load"
      OBVIOUS
    <2>3. p \in StartPrograms
      BY Zenon, <1>1, <2>1, <2>2 DEF Boots
    <2>4. Tail(p) \in StartPrograms /\ LabelOf(Tail(p)) = Then("start", Head(p))
      BY <1>1, <2>3, StartJoinScript, StartFailScript, StartReadyScript
         DEF StartPrograms
    <2> QED
      BY <1>1, <1>2, <2>4 DEF Scripted, p
  <1>3. CASE t = "command"
    BY <1>1, <1>3, CommandScript DEF Scripted, p
  <1>4. CASE t = "join"
    BY <1>1, <1>4, JoinScript DEF Scripted, p
  <1>5. CASE t = "drain"
    BY <1>1, <1>5, DrainScript DEF Scripted, p
  <1>6. CASE t = "orphan"
    BY <1>1, <1>6 DEF Scripted, p
  <1>7. CASE t = "stop"
    BY <1>1, <1>7, StopScript DEF Scripted, p
  <1> QED
    BY <1>2, <1>3, <1>4, <1>5, <1>6, <1>7 DEF Tasks

\* A task that goes on to its next step.
LEMMA OnwardMoves ==
  ASSUME Typed(tasks), NEW t \in Tasks, NEW s, At(t, s), s \notin {"load", "bind"}, NEW st,
         Goes(t, Tail(tasks[t].todo), st)
  PROVE  Moved(t, Then(t, s), st)
PROOF
  BY ScriptStep, GoesMoves

-----------------------------------------------------------------------------
(* The records announced *)

\* Nothing is announced and the file is left alone.
LEMMA NumberedSame ==
  ASSUME Numbered, Stays, file' = file, said' = said,
         svc'.peer => svc.peer \/ file.phase # "none"
  PROVE  Numbered'
PROOF
  <1>1. Ordered => Ordered'
    BY DEF Ordered, Distinct, Member
  <1> QED
    BY <1>1 DEF Numbered, Stays

\* The state in the file is announced.
LEMMA NumberedPublished ==
  ASSUME Numbered, Stays, file \in NodeState, file.phase # "none", file' = file,
         _publish_state(file)
  PROVE  Numbered' /\ pub' \in Records /\ pub'.phase = file.phase
PROOF
  <1>1. /\ Member(file) \in Records /\ Member(file).epoch = file.epoch
        /\ Member(file).phase = file.phase
    BY DEF Member, NodeState, Records
  <1>2. Member(file)' = Member(file)
    BY DEF Member
  <1>3. pub' = Member(file) /\ said' = said \cup {Member(file)}
    BY DEF _publish_state
  <1>4. ASSUME Ordered PROVE Ordered'
    <2>1. ASSUME NEW m \in said', NEW n \in said', m.epoch = n.epoch PROVE m = n
      BY <1>1, <1>3, <1>4, <2>1 DEF Ordered, Distinct
    <2>2. file.epoch <= file.epoch
      BY DEF NodeState
    <2>3. \A m \in said' : /\ m.epoch <= file'.epoch
                           /\ m.epoch = file'.epoch => m = Member(file)'
      BY <1>1, <1>2, <1>3, <1>4, <2>2 DEF Ordered
    <2> QED
      BY <2>1, <2>3 DEF Ordered, Distinct
  <1>5. said' \subseteq Records
    BY <1>1, <1>3 DEF Numbered
  <1> QED
    BY <1>1, <1>3, <1>4, <1>5 DEF Numbered, Stays

\* A new state is persisted, with the next epoch.
LEMMA NumberedPersisted ==
  ASSUME Numbered, Stays, file \in NodeState, file'.epoch = file.epoch + 1,
         file'.phase # "none", said' = said
  PROVE  Numbered'
PROOF
  <1>1. ASSUME Ordered PROVE Ordered'
    <2>1. \A m \in said : m.epoch \in Nat /\ m.epoch <= file.epoch
      BY <1>1 DEF Numbered, Ordered, Records
    <2>2. \A m \in said : m.epoch <= file'.epoch /\ m.epoch # file'.epoch
      BY <2>1 DEF NodeState
    <2> QED
      BY <1>1, <2>2 DEF Ordered, Distinct
  <1> QED
    BY <1>1 DEF Numbered, Stays

-----------------------------------------------------------------------------
(* Steps of the operation that runs *)

\* After the step, operation t is the one that runs; it goes on at step n.
Runs(t, n, st) ==
  /\ Typed(tasks)' /\ at(t)' = n
  /\ n # "done" => tasks'[t].st = st
  /\ \A u \in Ops \ {t} : at(u)' = "done"
  /\ at("stop")' = at("stop")

\* The operation about to take step s is the only one.
LEMMA Stands ==
  ASSUME LifeInv, Stays, NEW t \in Ops, NEW s, s # "done", At(t, s)
  PROVE  /\ up /\ at(t) = s /\ Holds(t, s)
         /\ \A u \in Ops \ {t} : at(u) = "done"
         /\ t = "start" => at("stop") = "done"
PROOF
  <1>1. up /\ at(t) = s
    BY DEF At, Running, at, LabelOf
  <1> QED
    BY <1>1 DEF LifeInv, OneOp

\* A step of the operation that runs.
LEMMA MovesAlone ==
  ASSUME LifeInv, Stays, NEW t \in Ops, NEW n, NEW st, Moved(t, n, st),
         \A u \in Ops \ {t} : at(u) = "done"
  PROVE  Runs(t, n, st)
PROOF
  <1>1. Ops \subseteq Tasks /\ "stop" \in Tasks /\ "stop" \notin Ops
    BY DEF Ops, Tasks
  <1>2. \A u \in Tasks \ {t} : at(u)' = at(u)
    BY DEF Moved, at
  <1> QED
    BY Zenon, <1>1, <1>2 DEF Moved, Runs

\* What has to be shown of a step of the operation that runs.
LEMMA Advance ==
  ASSUME LifeInv, Stays, NEW t \in Ops, NEW n, NEW st, Runs(t, n, st),
         t # "start" \/ at("stop") = "done", up',
         file' \in NodeState, svc' \in Flags, minted' \in Nat, pub' \in Records,
         Numbered', Truthful',
         n # "done" => /\ n \notin Loads => st = file'
                       /\ PhaseHolds(n)' /\ Announced(t, n)' /\ Switched(n)'
  PROVE  LifeInv'
PROOF
  <1>1. Types'
    BY DEF Types, Runs
  <1>2. OneOp'
    <2>1. \A u \in Ops \ {t} : at(u)' = "done"
      BY DEF Runs
    <2>2. at("stop")' # "done" => at("start")' = "done"
      BY <2>1 DEF LifeInv, OneOp, Runs, Ops
    <2> QED
      BY <2>1, <2>2 DEF OneOp
  <1>3. Off'
    BY DEF Off
  <1>4. ASSUME NEW u \in Ops, at(u)' # "done" PROVE Holds(u, at(u))'
    <2>1. u = t /\ at(u)' = n
      BY <1>4 DEF Runs
    <2>2. n \notin Loads => tasks'[t].st = file'
      BY <1>4, <2>1 DEF Runs
    <2>3. PhaseHolds(n)' /\ Announced(t, n)' /\ Switched(n)'
      BY <1>4, <2>1
    <2> QED
      BY <2>1, <2>2, <2>3 DEF Holds
  <1> QED
    BY <1>1, <1>2, <1>3, <1>4 DEF LifeInv

\* Steps that announce and persist nothing: tasks end, services are switched off.
LEMMA SideStep ==
  ASSUME LifeInv, Stays, up, up', file' = file, pub' = pub, said' = said, minted' = minted,
         svc' \in Flags, svc'.writes = svc.writes, svc'.reads = svc.reads,
         svc'.client => svc.client, svc'.peer => svc.peer,
         Typed(tasks)', \A u \in Ops : tasks'[u] = tasks[u] \/ at(u)' = "done",
         at("stop")' # "done" => at("start")' = "done"
  PROVE  LifeInv'
PROOF
  <1>1. Types'
    BY DEF Types, LifeInv
  <1>2. \A u \in Ops : at(u)' # "done" => at(u)' = at(u) /\ tasks'[u] = tasks[u]
    BY DEF at
  <1>3. OneOp'
    BY <1>2 DEF OneOp, LifeInv
  <1>4. Off'
    BY DEF Off
  <1>5. Numbered'
    BY NumberedSame DEF LifeInv
  <1>6. Truthful'
    BY DEF Truthful, LifeInv
  <1>7. ASSUME NEW u \in Ops, at(u)' # "done" PROVE Holds(u, at(u))'
    <2>1. at(u)' = at(u) /\ tasks'[u] = tasks[u] /\ Holds(u, at(u))
      BY <1>2, <1>7 DEF LifeInv
    <2> DEFINE s == at(u)
    <2>2. s' = s
      BY <2>1
    <2> HIDE DEF s
    <2>3. PhaseHolds(s) => PhaseHolds(s)'
      BY <2>2 DEF PhaseHolds
    <2>4. Announced(u, s) => Announced(u, s)'
      BY <2>2 DEF Announced
    <2>5. Switched(s) => Switched(s)'
      BY <2>2 DEF Switched
    <2> QED
      BY <2>1, <2>2, <2>3, <2>4, <2>5 DEF Holds, s
  <1> QED
    BY <1>1, <1>3, <1>4, <1>5, <1>6, <1>7 DEF LifeInv

\* The operation goes on to its next step.
LEMMA Onwards ==
  ASSUME LifeInv, Stays, NEW t \in Ops, NEW s, s \notin {"done", "load", "bind"}, At(t, s), NEW st,
         Goes(t, Tail(tasks[t].todo), st)
  PROVE  Runs(t, Then(t, s), st) /\ (t # "start" \/ at("stop") = "done")
PROOF
  <1>1. t \in Tasks /\ Typed(tasks)
    BY DEF Ops, Tasks, LifeInv, Types
  <1>2. Moved(t, Then(t, s), st)
    BY <1>1, OnwardMoves
  <1> QED
    BY <1>2, Stands, MovesAlone

\* The operation writes a new state to the file.
LEMMA Persists ==
  ASSUME LifeInv, Stays, NEW t \in Ops, NEW s, s \notin Loads \cup {"done", "bind"}, At(t, s),
         NEW phase \in Phases, NEW fresh \in BOOLEAN, NEW seeds \in BOOLEAN,
         Persist(t, phase, fresh, seeds), said' = said
  PROVE  /\ Runs(t, Then(t, s), file') /\ (t # "start" \/ at("stop") = "done")
         /\ file' \in NodeState /\ file'.phase = phase /\ minted' \in Nat /\ Numbered'
PROOF
  <1>1. tasks[t].st = file
    BY Stands DEF Holds
  <1>2. file \in NodeState /\ minted \in Nat
    BY DEF LifeInv, Types
  <1>3. minted' \in Nat
    BY <1>2 DEF Persist
  <1> DEFINE tokens == IF fresh THEN minted' ELSE file.tokens
  <1>4. tokens \in Nat
    BY <1>2, <1>3 DEF NodeState
  <1> HIDE DEF tokens
  <1>5. file' = [phase |-> phase, epoch |-> file.epoch + 1, tokens |-> tokens, seeds |-> seeds]
    BY <1>1 DEF Persist, _transition_to, tokens
  <1>6. file' \in NodeState /\ file'.phase = phase /\ file'.epoch = file.epoch + 1
    BY <1>2, <1>4, <1>5 DEF NodeState
  <1>7. phase # "none"
    BY DEF Phases
  <1>8. Numbered'
    BY <1>2, <1>6, <1>7, NumberedPersisted DEF LifeInv
  <1>9. Runs(t, Then(t, s), file') /\ (t # "start" \/ at("stop") = "done")
    BY Onwards DEF Persist, Loads
  <1> QED
    BY <1>3, <1>6, <1>8, <1>9

\* The operation announces the state it works with.
LEMMA Publishes ==
  ASSUME LifeInv, Stays, NEW t \in Ops, NEW s, s \notin Loads \cup {"done", "bind"}, At(t, s),
         _publish_state(tasks[t].st), file' = file
  PROVE  Numbered' /\ pub' \in Records /\ pub'.phase = file.phase
PROOF
  <1>1. tasks[t].st = file /\ file.phase # "none"
    BY Stands DEF Holds, PhaseHolds, Loads
  <1> QED
    BY <1>1, NumberedPublished DEF LifeInv, Types

\* A step that leaves the file and what was announced alone.
LEMMA QuietStep ==
  ASSUME LifeInv, Stays, NEW t \in Ops, NEW s, s \notin Loads \cup {"done", "bind"}, At(t, s), NEW st,
         Goes(t, Tail(tasks[t].todo), st), st = file,
         UNCHANGED <<file, pub, said, minted, up>>,
         svc' \in Flags, Truthful',
         NEW n, n = Then(t, s),
         n # "done" => PhaseHolds(n)' /\ Announced(t, n)' /\ Switched(n)'
  PROVE  LifeInv'
PROOF
  <1>1. Runs(t, n, st) /\ (t # "start" \/ at("stop") = "done")
    BY Onwards DEF Loads
  <1>2. up' /\ file.phase # "none"
    BY Stands DEF Holds, PhaseHolds, Loads
  <1>3. file' \in NodeState /\ minted' \in Nat /\ pub' \in Records
    BY DEF LifeInv, Types
  <1>4. Numbered'
    BY <1>2, NumberedSame DEF LifeInv
  <1> QED
    BY <1>1, <1>2, <1>3, <1>4, Advance

\* A task that ends, whatever it still had to do.
LEMMA EndStep ==
  ASSUME LifeInv, Stays, NEW t \in Ops, NEW st, Goes(t, <<>>, st), up,
         UNCHANGED <<file, up, svc, pub, said, minted>>
  PROVE  LifeInv'
PROOF
  <1>1. Typed(tasks) /\ svc \in Flags /\ Ops \subseteq Tasks /\ "stop" \in Tasks \ Ops
        /\ "start" \in Ops
    BY DEF LifeInv, Types, Ops, Tasks
  <1>2. tasks' = [tasks EXCEPT ![t] = Done]
    BY DEF Goes
  <1>3. Moved(t, "done", Done.st)
    BY <1>1, <1>2, TaskSet, DoneScripted
  <1>4. Typed(tasks)' /\ \A u \in Ops : tasks'[u] = tasks[u] \/ at(u)' = "done"
    BY <1>1, <1>3 DEF Moved
  <1>5. at("stop")' = at("stop") /\ (at("start")' = at("start") \/ at("start")' = "done")
    BY <1>1, <1>3, <1>4 DEF Moved, at
  <1>6. at("stop")' # "done" => at("start")' = "done"
    BY <1>5 DEF LifeInv, OneOp
  <1> QED
    BY <1>1, <1>4, <1>6, SideStep

-----------------------------------------------------------------------------
(* start() *)

\* A process is started.
LEMMA StartStep ==
  ASSUME LifeInv, Stays, Start
  PROVE  LifeInv'
PROOF
  <1>1. \A u \in Tasks : at(u) = "done"
    BY DEF Start, LifeInv, Off
  <1>2. pub.phase = "none" /\ Typed(tasks) /\ "start" \in Tasks /\ "start" \in Ops
    BY DEF Start, LifeInv, Off, Types, Tasks, Ops
  <1>3. Scripted("start", [todo |-> <<"load">>, st |-> NoFile])
    BY DEF Scripted, Boots
  <1>4. LabelOf(<<"load">>) = "load"
    BY DEF LabelOf
  <1>5. Moved("start", "load", NoFile)
    BY <1>2, <1>3, <1>4, GoesMoves DEF Start
  <1>6. Runs("start", "load", NoFile)
    BY <1>1, <1>2, <1>5, MovesAlone DEF Ops, Tasks
  <1>7. Numbered' /\ Truthful'
    BY <1>2, NumberedSame DEF Start, LifeInv, Truthful
  <1>8. PhaseHolds("load")' /\ Announced("start", "load")' /\ Switched("load")'
    BY <1>2 DEF Start, PhaseHolds, Announced, Switched, Joins, Serves, Drains
  <1>9. at("stop") = "done"
    BY <1>1 DEF Tasks
  <1> QED
    BY <1>2, <1>6, <1>7, <1>8, <1>9, Advance DEF Start, LifeInv, Types, Loads

\* The state file is loaded, or created.
LEMMA LoadStep ==
  ASSUME LifeInv, Stays, _load_or_create_state
  PROVE  LifeInv'
PROOF
  <1>1. At("start", "load") /\ "start" \in Ops /\ "start" \in Tasks
    BY DEF _load_or_create_state, Ops, Tasks
  <1>2. /\ up /\ Holds("start", "load") /\ at("stop") = "done"
        /\ \A u \in Ops \ {"start"} : at(u) = "done"
    BY <1>1, Stands
  <1>3. Types /\ Numbered /\ Typed(tasks) /\ pub.phase = "none"
    BY <1>2 DEF LifeInv, Types, Holds, Announced, Unannounced
  <1>4. file' \in NodeState /\ file'.phase # "none" /\ Numbered'
    <2>1. CASE file = NoFile
      <3>1. file' = [phase |-> "idle", epoch |-> 0, tokens |-> 0, seeds |-> FALSE]
        BY <2>1 DEF _load_or_create_state, NoFile
      <3>2. file' \in NodeState /\ file'.phase # "none"
        BY <3>1 DEF NodeState, Phases
      <3>3. overtaken' = overtaken /\ said' = said /\ said \subseteq Records
        BY <1>3 DEF _load_or_create_state, Numbered
      <3>4. overtaken = "never" => said = {}
        BY <1>3, <2>1 DEF Numbered, Ordered, NoFile
      <3> QED
        BY <3>2, <3>3, <3>4 DEF Numbered, Ordered, Distinct
    <2>2. CASE file # NoFile
      <3>1. file' = file /\ said' = said
        BY <2>2 DEF _load_or_create_state
      <3>2. file.phase # "none"
        BY <1>3, <2>2 DEF Numbered
      <3> QED
        BY <1>3, <3>1, <3>2, NumberedSame DEF Types
    <2> QED
      BY <2>1, <2>2
  <1>5. LET todo == _startup(file')
        IN  todo # <<>> /\ Head(todo) = "bind" /\ Goes("start", todo, file')
    BY <1>4, StartupProgram DEF _load_or_create_state
  <1>6. Moved("start", "bind", file')
    <2> DEFINE todo == _startup(file')
               task == [todo |-> todo, st |-> file']
    <2>1. task.todo = todo /\ task.st = file'
      OBVIOUS
    <2> HIDE DEF task
    <2>2. Scripted("start", task)
      BY <1>5, <2>1 DEF Scripted, Boots
    <2>3. LabelOf(todo) = "bind"
      BY <1>5 DEF LabelOf
    <2> HIDE DEF todo
    <2> QED
      BY <1>1, <1>3, <1>5, <2>2, <2>3, GoesMoves DEF task, todo
  <1>7. Runs("start", "bind", file')
    BY <1>1, <1>2, <1>6, MovesAlone
  <1>8. Truthful'
    BY <1>3 DEF _load_or_create_state, Truthful
  <1>9. PhaseHolds("bind")' /\ Announced("start", "bind")' /\ Switched("bind")'
    BY <1>3, <1>4 DEF _load_or_create_state, PhaseHolds, Announced, Switched, Joins, Serves, Drains
  <1> QED
    BY <1>1, <1>2, <1>3, <1>4, <1>7, <1>8, <1>9, Advance DEF _load_or_create_state, Types, Loads

\* The peer listener is bound: start() goes on by the phase in the file.
LEMMA BindStep ==
  ASSUME LifeInv, Stays, _start_peer
  PROVE  LifeInv'
PROOF
  <1>1. At("start", "bind") /\ "start" \in Ops /\ "start" \in Tasks
    BY DEF _start_peer, Ops, Tasks
  <1>2. /\ up /\ Holds("start", "bind") /\ at("stop") = "done"
        /\ \A u \in Ops \ {"start"} : at(u) = "done"
    BY <1>1, Stands
  <1>3. /\ Types /\ Numbered /\ Typed(tasks) /\ pub.phase = "none"
        /\ tasks["start"].st = file /\ file.phase # "none" /\ file \in NodeState
    BY <1>2 DEF LifeInv, Types, Holds, PhaseHolds, Announced, Unannounced, Loads
  <1> DEFINE todo == tasks["start"].todo
  <1>0. PICK n : n = LabelOf(Tail(todo))
    OBVIOUS
  <1>4. todo # <<>> /\ Head(todo) = "bind"
    BY <1>1 DEF At, Running
  <1>5. todo = _startup(file)
    <2>1. todo \in StartPrograms \/ Boots(todo, file)
      BY <1>1, <1>3 DEF Typed, Scripted
    <2>2. todo \notin StartPrograms
      BY <1>4 DEF StartPrograms, StartJoinPrograms, StartFailPrograms, StartReadyPrograms
    <2>3. Head(<<"load">>) = "load"
      OBVIOUS
    <2> QED
      BY <1>4, <2>1, <2>2, <2>3 DEF Boots
  <1>6. Tail(todo) \in StartPrograms /\ Continues(file, n)
    BY <1>0, <1>3, <1>5, StartupProgram
  <1>7. Goes("start", Tail(todo), file)
    BY <1>3 DEF _start_peer, Onward
  <1>8. Moved("start", n, file)
    <2> HIDE DEF todo
    <2>1. Scripted("start", [todo |-> Tail(todo), st |-> file])
      BY <1>6 DEF Scripted
    <2> QED
      BY <1>0, <1>1, <1>3, <1>7, <2>1, GoesMoves
  <1> HIDE DEF todo
  <1>9. Runs("start", n, file)
    BY <1>1, <1>2, <1>8, MovesAlone
  <1>10. /\ file' = file /\ pub' = pub /\ said' = said /\ minted' = minted /\ up' = up
         /\ svc' \in Flags
    BY <1>3 DEF _start_peer, Types, Flags
  <1>11. Numbered' /\ Truthful'
    BY <1>3, <1>10, NumberedSame DEF Truthful
  <1>12. file.phase \in Phases
    BY <1>3 DEF NodeState
  <1>13. n \in {"done", "to_ready_anew", "lock", "seed", "pause"}
    BY <1>6, <1>12 DEF Continues, Phases
  <1>14. PhaseHolds(n)'
    BY <1>3, <1>6, <1>10, <1>12, <1>13 DEF PhaseHolds, Continues, Phases, Joins, Serves, Drains
  <1>15. Announced("start", n)' /\ Switched(n)'
    BY <1>3, <1>10, <1>13 DEF Announced, Switched
  <1> QED
    BY <1>1, <1>2, <1>3, <1>9, <1>10, <1>11, <1>14, <1>15, Advance DEF Types

\* start() takes and releases the membership lock around a resumed join.
LEMMA LockStep ==
  ASSUME LifeInv, Stays, _startup_joining
  PROVE  LifeInv'
PROOF
  <1>1. PICK s \in {"lock", "unlock"} : At("start", s)
    BY DEF _startup_joining
  <1>2. Holds("start", s) /\ "start" \in Ops
    BY <1>1, Stands DEF Ops
  <1>3. /\ s \notin Loads \cup {"done", "bind"} /\ tasks["start"].st = file
        /\ s = "lock" => file.phase = "joining" /\ pub.phase = "none"
        /\ file.phase # "none"
    BY <1>2 DEF Holds, PhaseHolds, Announced, Unannounced, Joins, Loads
  <1>4. /\ Goes("start", Tail(tasks["start"].todo), tasks["start"].st)
        /\ UNCHANGED <<file, pub, said, minted, up>> /\ svc' = svc
    BY DEF _startup_joining, Onward
  <1>5. svc' \in Flags /\ Truthful'
    BY <1>4 DEF LifeInv, Types, Truthful
  <1>6. PICK n : n = Then("start", s)
    OBVIOUS
  <1>7. n = IF s = "lock" THEN "enter" ELSE "done"
    BY <1>6 DEF Then
  <1>8. n # "done" => PhaseHolds(n)' /\ Announced("start", n)' /\ Switched(n)'
    BY <1>3, <1>4, <1>7 DEF PhaseHolds, Announced, Switched, Joins, Serves, Drains
  <1> QED
    BY <1>1, <1>2, <1>3, <1>4, <1>5, <1>6, <1>8, QuietStep

\* The first node of a cluster becomes READY by itself.
LEMMA AnewStep ==
  ASSUME LifeInv, Stays, _startup_idle
  PROVE  LifeInv'
PROOF
  <1>1. At("start", "to_ready_anew") /\ "start" \in Ops
    BY DEF _startup_idle, Ops
  <1>2. up /\ Holds("start", "to_ready_anew")
    BY <1>1, Stands
  <1>3. pub.phase = "none" /\ pub \in Records /\ svc \in Flags /\ file.seeds \in BOOLEAN
    BY <1>2 DEF Holds, Announced, Unannounced, LifeInv, Types, NodeState
  <1>4. UNCHANGED <<up, svc, pub, said>> /\ Persist("start", "ready", TRUE, file.seeds)
    BY DEF _startup_idle
  <1>5. Then("start", "to_ready_anew") = "seed"
    BY DEF Then
  <1>6. /\ Runs("start", "seed", file') /\ at("stop") = "done"
        /\ file' \in NodeState /\ file'.phase = "ready" /\ minted' \in Nat /\ Numbered'
    BY <1>1, <1>3, <1>4, <1>5, Persists DEF Loads, Phases
  <1>7. Truthful'
    BY <1>3, <1>4 DEF Truthful
  <1>8. PhaseHolds("seed")' /\ Announced("start", "seed")' /\ Switched("seed")'
    BY <1>3, <1>4, <1>6 DEF PhaseHolds, Announced, Switched, Joins, Serves, Drains
  <1> QED
    BY <1>1, <1>2, <1>3, <1>4, <1>6, <1>7, <1>8, Advance

\* _start_ready: bootstrap, announce READY and serve, open the client listener.
LEMMA ReadyStep ==
  ASSUME LifeInv, Stays, StartReady
  PROVE  LifeInv'
PROOF
  <1> "start" \in Ops
    BY DEF Ops
  <1>1. CASE At("start", "seed")
    <2>1. Holds("start", "seed")
      BY <1>1, Stands
    <2>2. tasks["start"].st = file /\ file.phase = "ready" /\ pub.phase = "none"
      BY <2>1 DEF Holds, PhaseHolds, Announced, Unannounced, Serves, Loads
    <2>3. /\ Goes("start", Tail(tasks["start"].todo), tasks["start"].st)
          /\ UNCHANGED <<file, pub, said, minted, up>> /\ svc' = svc
      BY <1>1 DEF StartReady, Onward, At
    <2>4. svc' \in Flags /\ Truthful'
      BY <2>3 DEF LifeInv, Types, Truthful
    <2>5. "serve" = Then("start", "seed") /\ "seed" \notin Loads \cup {"done", "bind"}
      BY DEF Then, Loads
    <2>6. PhaseHolds("serve")' /\ Announced("start", "serve")' /\ Switched("serve")'
      BY <2>2, <2>3 DEF PhaseHolds, Announced, Switched, Joins, Serves, Drains
    <2> QED
      BY <1>1, <2>2, <2>3, <2>4, <2>5, <2>6, QuietStep
  <1>2. CASE At("start", "serve")
    <2>1. up /\ Holds("start", "serve")
      BY <1>2, Stands
    <2>2. tasks["start"].st = file /\ file.phase = "ready"
      BY <2>1 DEF Holds, PhaseHolds, Serves, Loads
    <2>3. /\ Goes("start", Tail(tasks["start"].todo), tasks["start"].st)
          /\ UNCHANGED <<file, minted, up>> /\ _publish_state(tasks["start"].st)
          /\ svc' = [svc EXCEPT !.gossip = TRUE, !.writes = TRUE, !.reads = TRUE]
      BY <1>2 DEF StartReady, Onward, At
    <2>4. /\ svc' \in Flags /\ svc'.writes /\ svc'.reads
          /\ file' \in NodeState /\ minted' \in Nat
      BY <2>3 DEF LifeInv, Types, Flags
    <2>5. Then("start", "serve") = "listen" /\ "serve" \notin Loads \cup {"done", "bind"}
      BY DEF Then, Loads
    <2>6. Numbered' /\ pub' \in Records /\ pub'.phase = "ready"
      BY <1>2, <2>2, <2>3, <2>5, Publishes
    <2>7. Runs("start", "listen", file) /\ at("stop") = "done"
      BY <1>2, <2>2, <2>3, <2>5, Onwards DEF Loads
    <2>8. PhaseHolds("listen")' /\ Announced("start", "listen")' /\ Switched("listen")'
      BY <2>2, <2>3, <2>6 DEF PhaseHolds, Announced, Switched, Joins, Serves, Drains, Unannounced
    <2>9. Truthful'
      BY <2>4, <2>6 DEF Truthful
    <2> QED
      BY <2>1, <2>3, <2>4, <2>6, <2>7, <2>8, <2>9, Advance
  <1>3. CASE At("start", "listen")
    <2>1. Holds("start", "listen")
      BY <1>3, Stands
    <2>2. tasks["start"].st = file /\ pub.phase = "ready"
      BY <2>1 DEF Holds, Announced, Loads
    <2>3. /\ Goes("start", Tail(tasks["start"].todo), tasks["start"].st)
          /\ UNCHANGED <<file, pub, said, minted, up>>
          /\ svc' = [svc EXCEPT !.client = TRUE, !.ae = TRUE]
      BY <1>3 DEF StartReady, Onward, At
    <2>4. svc' \in Flags /\ svc'.writes = svc.writes /\ svc'.reads = svc.reads
      BY <2>3 DEF LifeInv, Types, Flags
    <2>5. Truthful'
      BY <2>2, <2>3, <2>4 DEF Truthful, LifeInv
    <2>6. "done" = Then("start", "listen") /\ "listen" \notin Loads \cup {"done", "bind"}
      BY DEF Then, Loads
    <2> QED
      BY <1>3, <2>2, <2>3, <2>4, <2>5, <2>6, QuietStep
  <1> QED
    BY <1>1, <1>2, <1>3 DEF StartReady

\* A background task takes over from the operation that spawns it.
LEMMA TakesOver ==
  ASSUME LifeInv, Stays, NEW t \in {"start", "command"}, NEW u \in {"join", "drain"},
         \A v \in Ops \ {t} : at(v) = "done",
         NEW todo, NEW st, NEW ts, ts = [todo |-> todo, st |-> st], Scripted(u, ts),
         tasks' = [v \in Tasks |-> IF v = t THEN Done ELSE IF v = u THEN ts ELSE tasks[v]]
  PROVE  Runs(u, LabelOf(todo), st)
PROOF
  <1>1. Typed(tasks) /\ Ops \subseteq Tasks /\ t \in Ops /\ u \in Ops /\ t # u
        /\ "stop" \in Tasks \ Ops
    BY DEF LifeInv, Types, Ops, Tasks
  <1>2. /\ tasks'[t] = Done /\ tasks'[u] = ts
        /\ \A v \in Tasks \ {t, u} : tasks'[v] = tasks[v]
    BY <1>1
  <1>3. ts.todo = todo /\ ts.st = st /\ ts = [todo |-> ts.todo, st |-> ts.st]
    OBVIOUS
  <1>4. \A v \in Tasks : /\ tasks'[v] = [todo |-> tasks'[v].todo, st |-> tasks'[v].st]
                        /\ Scripted(v, tasks'[v])
    <2> TAKE v \in Tasks
    <2>1. CASE v = t
      BY <1>2, <2>1, DoneScripted
    <2>2. CASE v = u
      BY <1>2, <1>3, <2>2
    <2>3. CASE v \notin {t, u}
      BY <1>1, <1>2, <2>3 DEF Typed
    <2> QED
      BY <2>1, <2>2, <2>3
  <1>5. tasks' = [v \in Tasks |-> tasks'[v]]
    OBVIOUS
  <1>6. Typed(tasks)'
    BY <1>4, <1>5 DEF Typed
  <1>7. at(u)' = LabelOf(todo) /\ tasks'[u].st = st /\ at(t)' = "done"
    BY <1>2, <1>3, DoneScripted DEF at
  <1>8. \A v \in Tasks \ {t, u} : at(v)' = at(v)
    BY <1>2 DEF at
  <1> QED
    BY Zenon, <1>1, <1>6, <1>7, <1>8 DEF Runs

\* The drain task that is spawned is the only operation.
LEMMA SpawnsDrain ==
  ASSUME LifeInv, Stays, NEW t \in {"start", "command"}, NEW s, s # "done", At(t, s), NEW st,
         tasks' = Spawned([tasks EXCEPT ![t] = Done], st)
  PROVE  Runs("drain", "settle", st)
PROOF
  <1>1. t \in Ops /\ t \in Tasks /\ "drain" \in Ops /\ "drain" # t /\ "orphan" # t
    BY DEF Ops, Tasks
  <1>2. \A v \in Ops \ {t} : at(v) = "done"
    BY <1>1, Stands
  <1>3. tasks = [v \in Tasks |-> tasks[v]] /\ Typed(tasks)
    BY DEF LifeInv, Types, Typed
  <1>4. ~is_draining
    <2>1. tasks["drain"].todo \in DrainPrograms
      BY <1>3 DEF Typed, Scripted, Tasks
    <2>2. tasks["drain"].todo # <<>> => Head(tasks["drain"].todo) = "done"
      BY <1>1, <1>2 DEF at, LabelOf
    <2>3. \A p \in DrainPrograms : p # <<>> => Head(p) # "done"
      BY DEF DrainPrograms
    <2> QED
      BY <2>1, <2>2, <2>3 DEF is_draining, Running
  <1> DEFINE ts == [todo |-> _perform_drain, st |-> st]
  <1>5. tasks' = [v \in Tasks |-> IF v = t THEN Done ELSE IF v = "drain" THEN ts ELSE tasks[v]]
    BY <1>1, <1>3, <1>4 DEF Spawned, Tasks
  <1>6. Scripted("drain", ts) /\ LabelOf(_perform_drain) = "settle"
    BY DEF Scripted, _perform_drain, DrainPrograms, LabelOf
  <1> HIDE DEF ts
  <1>7. Runs("drain", LabelOf(_perform_drain), st)
    BY <1>2, <1>5, <1>6, TakesOver DEF ts
  <1> QED
    BY <1>6, <1>7

\* start() resumes a drain.
LEMMA RedrainStep ==
  ASSUME LifeInv, Stays, _startup_draining
  PROVE  LifeInv'
PROOF
  <1>0. "start" \in Ops /\ "drain" \in Ops /\ file \in NodeState /\ minted \in Nat /\ svc \in Flags
        /\ pub \in Records /\ Numbered /\ Truthful
    BY DEF Ops, LifeInv, Types
  <1>1. CASE At("start", "pause")
    <2>1. Holds("start", "pause")
      BY <1>0, <1>1, Stands
    <2>2. tasks["start"].st = file /\ file.phase = "draining" /\ pub.phase = "none"
      BY <2>1 DEF Holds, PhaseHolds, Announced, Unannounced, Drains, Loads
    <2>3. /\ Goes("start", Tail(tasks["start"].todo), file)
          /\ UNCHANGED <<file, pub, said, minted, up>>
          /\ svc' = [svc EXCEPT !.writes = FALSE, !.reads = TRUE]
      BY <1>1 DEF _startup_draining, At
    <2>4. svc' \in Flags /\ ~svc'.writes
      BY <1>0, <2>3 DEF Flags
    <2>5. "rejoin" = Then("start", "pause") /\ "pause" \notin Loads \cup {"done", "bind"}
      BY DEF Then, Loads
    <2>6. PhaseHolds("rejoin")' /\ Announced("start", "rejoin")' /\ Switched("rejoin")'
      BY <2>2, <2>3, <2>4 DEF PhaseHolds, Announced, Switched, Joins, Serves, Drains
    <2>7. Truthful'
      BY <2>2, <2>3 DEF Truthful
    <2> QED
      BY <1>0, <1>1, <2>2, <2>3, <2>4, <2>5, <2>6, <2>7, QuietStep
  <1>2. CASE At("start", "rejoin")
    <2>1. up /\ Holds("start", "rejoin")
      BY <1>0, <1>2, Stands
    <2>2. tasks["start"].st = file /\ file.phase = "draining" /\ ~svc.writes
      BY <2>1 DEF Holds, PhaseHolds, Switched, Drains, Loads
    <2>3. CASE /\ Goes("start", Tail(tasks["start"].todo), tasks["start"].st)
               /\ UNCHANGED <<file, minted, up>> /\ _publish_state(tasks["start"].st)
               /\ svc' = [svc EXCEPT !.gossip = TRUE]
      <3>1. /\ svc' \in Flags /\ svc'.writes = svc.writes
            /\ file' \in NodeState /\ minted' \in Nat
        BY <1>0, <2>3 DEF Flags
      <3>2. Then("start", "rejoin") = "resume_drain" /\ "rejoin" \notin Loads \cup {"done", "bind"}
        BY DEF Then, Loads
      <3>3. Numbered' /\ pub' \in Records /\ pub'.phase = "draining"
        BY <1>0, <1>2, <2>2, <2>3, <3>2, Publishes
      <3>4. Runs("start", "resume_drain", file) /\ at("stop") = "done"
        BY <1>0, <1>2, <2>2, <2>3, <3>2, Onwards DEF Loads
      <3>5. PhaseHolds("resume_drain")' /\ Announced("start", "resume_drain")' /\ Switched("resume_drain")'
        BY <2>2, <2>3, <3>3 DEF PhaseHolds, Announced, Switched, Joins, Serves, Drains, Unannounced
      <3>6. Truthful'
        BY <2>2, <3>1, <3>3 DEF Truthful
      <3> QED
        BY <1>0, <2>1, <2>3, <3>1, <3>3, <3>4, <3>5, <3>6, Advance
    <2>4. CASE UNCHANGED <<file, up, svc, pub, said, minted>> /\ Goes("start", <<>>, tasks["start"].st)
      BY <1>0, <1>2, <2>1, <2>4, EndStep
    <2> QED
      BY <1>2, <2>3, <2>4 DEF _startup_draining, At, Onward
  <1>3. CASE At("start", "resume_drain")
    <2>1. up /\ Holds("start", "resume_drain") /\ at("stop") = "done"
      BY <1>0, <1>3, Stands
    <2>2. tasks["start"].st = file /\ file.phase = "draining" /\ pub.phase = "draining"
      BY <2>1 DEF Holds, PhaseHolds, Announced, Drains, Loads
    <2>3. /\ tasks' = Spawned([tasks EXCEPT !["start"] = Done], tasks["start"].st)
          /\ UNCHANGED <<file, up, pub, said, minted>>
          /\ svc' = [svc EXCEPT !.client = TRUE]
      BY <1>3 DEF _startup_draining, At
    <2>4. Runs("drain", "settle", file)
      BY <1>3, <2>2, <2>3, SpawnsDrain
    <2>5. svc' \in Flags /\ svc'.writes = svc.writes
      BY <1>0, <2>3 DEF Flags
    <2>6. Truthful' /\ Numbered'
      BY <1>0, <2>2, <2>3, <2>5, NumberedSame DEF Truthful
    <2>7. PhaseHolds("settle")' /\ Announced("drain", "settle")' /\ Switched("settle")'
      BY <2>2, <2>3 DEF PhaseHolds, Announced, Switched, Joins, Serves, Drains
    <2> QED
      BY <1>0, <2>1, <2>3, <2>4, <2>5, <2>6, <2>7, Advance
  <1> QED
    BY <1>1, <1>2, <1>3 DEF _startup_draining

-----------------------------------------------------------------------------
(* stop() *)

\* A step of stop(), which may end operations.
LEMMA StopTask ==
  ASSUME LifeInv, Stays, up, UNCHANGED <<file, up, pub, said, minted>>,
         svc' \in Flags, svc'.writes = svc.writes, svc'.reads = svc.reads,
         svc'.client => svc.client, svc'.peer => svc.peer,
         NEW todo \in StopPrograms, NEW Ended \in SUBSET Ops,
         tasks' = [v \in Tasks |-> IF v = "stop" THEN [todo |-> todo, st |-> tasks["stop"].st]
                                   ELSE IF v \in Ended THEN Done ELSE tasks[v]],
         "start" \in Ended \/ at("start") = "done"
  PROVE  LifeInv'
PROOF
  <1> DEFINE ts == [todo |-> todo, st |-> tasks["stop"].st]
  <1>1. Typed(tasks) /\ Ops \subseteq Tasks /\ "stop" \in Tasks \ Ops /\ "start" \in Ops
    BY DEF LifeInv, Types, Ops, Tasks
  <1>2. Scripted("stop", ts) /\ ts = [todo |-> ts.todo, st |-> ts.st]
    BY DEF Scripted
  <1>3. tasks' = [v \in Tasks |-> IF v = "stop" THEN ts
                                  ELSE IF v \in Ended THEN Done ELSE tasks[v]]
    OBVIOUS
  <1> HIDE DEF ts
  <1>4. /\ tasks' = [v \in Tasks |-> tasks'[v]]
        /\ tasks'["stop"] = ts
        /\ \A v \in Tasks : v # "stop" => tasks'[v] = IF v \in Ended THEN Done ELSE tasks[v]
    BY <1>1, <1>3
  <1>5. \A v \in Tasks : /\ tasks'[v] = [todo |-> tasks'[v].todo, st |-> tasks'[v].st]
                        /\ Scripted(v, tasks'[v])
    <2> TAKE v \in Tasks
    <2>1. CASE v = "stop"
      BY <1>2, <1>4, <2>1
    <2>2. CASE v # "stop" /\ v \in Ended
      BY <1>4, <2>2, DoneScripted
    <2>3. CASE v # "stop" /\ v \notin Ended
      BY <1>1, <1>4, <2>3 DEF Typed
    <2> QED
      BY <2>1, <2>2, <2>3
  <1>6. Typed(tasks)'
    BY <1>4, <1>5 DEF Typed
  <1>7. \A v \in Ops : IF v \in Ended THEN tasks'[v] = Done ELSE tasks'[v] = tasks[v]
    BY <1>1, <1>4
  <1>8. \A v \in Ops : tasks'[v] = tasks[v] \/ at(v)' = "done"
    BY <1>7, DoneScripted DEF at
  <1>9. at("start")' = "done"
    BY <1>1, <1>7, DoneScripted DEF at
  <1> QED
    BY <1>6, <1>8, <1>9, SideStep

\* Where stop() stands.
LEMMA StopStands ==
  ASSUME LifeInv, Stays, NEW s, s # "done", At("stop", s)
  PROVE  /\ up /\ at("start") = "done" /\ tasks["stop"].todo \in StopPrograms
         /\ Tail(tasks["stop"].todo) \in StopPrograms
         /\ LabelOf(Tail(tasks["stop"].todo)) = Then("stop", s)
PROOF
  <1>1. up /\ at("stop") = s /\ tasks["stop"].todo # <<>> /\ Head(tasks["stop"].todo) = s
    BY DEF At, Running, at, LabelOf
  <1>2. tasks["stop"].todo \in StopPrograms
    BY DEF LifeInv, Types, Typed, Scripted, Tasks
  <1>3. at("start") = "done"
    BY <1>1 DEF LifeInv, OneOp
  <1> QED
    BY <1>1, <1>2, <1>3, StopScript

\* A listener that cannot be opened ends start(), and the node stops.
LEMMA RaisedStep ==
  ASSUME LifeInv, Stays, up, Raised
  PROVE  LifeInv'
PROOF
  <1>1. up /\ svc \in Flags /\ tasks = [v \in Tasks |-> tasks[v]]
    BY DEF LifeInv, Types, Typed
  <1>2. tasks["stop"] = [todo |-> tasks["stop"].todo, st |-> tasks["stop"].st]
    BY DEF LifeInv, Types, Typed, Tasks
  <1>3. tasks' = [v \in Tasks |-> IF v = "stop" THEN [todo |-> lifecycle_stop, st |-> tasks["stop"].st]
                                  ELSE IF v \in {"start"} THEN Done ELSE tasks[v]]
    <2> DEFINE w == [tasks["stop"] EXCEPT !.todo = lifecycle_stop]
    <2>1. w = [todo |-> lifecycle_stop, st |-> tasks["stop"].st]
      BY <1>2
    <2>2. tasks' = [tasks EXCEPT !["start"] = Done, !["stop"] = w]
      BY <1>1 DEF Raised, Tasks
    <2> HIDE DEF w
    <2>3. tasks' = [v \in Tasks |-> IF v = "stop" THEN w
                                    ELSE IF v \in {"start"} THEN Done ELSE tasks[v]]
      BY <1>1, <2>2 DEF Tasks
    <2> QED
      BY <2>1, <2>3
  <1>4. lifecycle_stop \in StopPrograms /\ {"start"} \in SUBSET Ops
    BY DEF lifecycle_stop, StopPrograms, Ops
  <1>5. UNCHANGED <<file, up, svc, pub, said, minted>>
    BY DEF Raised
  <1> QED
    BY <1>1, <1>3, <1>4, <1>5, StopTask

\* stop() begins.
LEMMA StopBegins ==
  ASSUME LifeInv, Stays, stop
  PROVE  LifeInv'
PROOF
  <1>1. up /\ svc \in Flags /\ tasks = [v \in Tasks |-> tasks[v]] /\ at("start") = "done"
    BY DEF stop, LifeInv, Types, Typed, Running, at, LabelOf
  <1>2. tasks["stop"] = [todo |-> tasks["stop"].todo, st |-> tasks["stop"].st]
    BY DEF LifeInv, Types, Typed, Tasks
  <1>3. tasks' = [v \in Tasks |-> IF v = "stop" THEN [todo |-> lifecycle_stop, st |-> tasks["stop"].st]
                                  ELSE IF v \in {} THEN Done ELSE tasks[v]]
    <2> DEFINE w == [tasks["stop"] EXCEPT !.todo = lifecycle_stop]
    <2>1. w = [todo |-> lifecycle_stop, st |-> tasks["stop"].st]
      BY <1>2
    <2>2. tasks' = [tasks EXCEPT !["stop"] = w]
      BY <1>1 DEF stop, Tasks
    <2> HIDE DEF w
    <2>3. tasks' = [v \in Tasks |-> IF v = "stop" THEN w
                                    ELSE IF v \in {} THEN Done ELSE tasks[v]]
      BY <1>1, <2>2 DEF Tasks
    <2> QED
      BY <2>1, <2>3
  <1>4. lifecycle_stop \in StopPrograms /\ {} \in SUBSET Ops
    BY DEF lifecycle_stop, StopPrograms
  <1>5. UNCHANGED <<file, up, svc, pub, said, minted>>
    BY DEF stop
  <1> QED
    BY <1>1, <1>3, <1>4, <1>5, StopTask

\* stop() cancels the background tasks.
LEMMA CancelStep ==
  ASSUME LifeInv, Stays, Cancel
  PROVE  LifeInv'
PROOF
  <1>1. up /\ svc \in Flags /\ tasks = [v \in Tasks |-> tasks[v]]
    BY DEF Cancel, At, LifeInv, Types, Typed
  <1>2. tasks["stop"] = [todo |-> tasks["stop"].todo, st |-> tasks["stop"].st]
    BY DEF LifeInv, Types, Typed, Tasks
  <1> DEFINE rest == Tail(tasks["stop"].todo)
  <1>3. tasks' = [v \in Tasks |-> IF v = "stop" THEN [todo |-> rest, st |-> tasks["stop"].st]
                                  ELSE IF v \in {"join", "drain"} THEN Done ELSE tasks[v]]
    <2> DEFINE w == [tasks["stop"] EXCEPT !.todo = rest]
    <2> HIDE DEF rest
    <2>1. w = [todo |-> rest, st |-> tasks["stop"].st]
      BY <1>2
    <2>2. tasks' = [tasks EXCEPT !["stop"] = w, !["join"] = Done, !["drain"] = Done]
      BY <1>1 DEF Cancel, Tasks, rest
    <2> HIDE DEF w
    <2>3. tasks' = [v \in Tasks |-> IF v = "stop" THEN w
                                    ELSE IF v \in {"join", "drain"} THEN Done ELSE tasks[v]]
      BY <1>1, <2>2 DEF Tasks
    <2> QED
      BY <2>1, <2>3
  <1>4. rest \in StopPrograms /\ at("start") = "done" /\ {"join", "drain"} \in SUBSET Ops
    BY StopStands DEF Cancel, Ops
  <1>5. UNCHANGED <<file, up, svc, pub, said, minted>>
    BY DEF Cancel
  <1> HIDE DEF rest
  <1> QED
    BY <1>1, <1>3, <1>4, <1>5, StopTask

\* stop() stops a service.
LEMMA StopServiceStep ==
  ASSUME LifeInv, Stays, NEW s \in {"stop_client", "stop_ae", "stop_gossip", "stop_peer"},
         At("stop", s), NEW flag \in {"client", "ae", "gossip", "peer"},
         svc' = [svc EXCEPT ![flag] = FALSE], Onward("stop"),
         UNCHANGED <<file, up, pub, said, minted>>
  PROVE  LifeInv'
PROOF
  <1>1. /\ up /\ at("start") = "done" /\ Tail(tasks["stop"].todo) \in StopPrograms
        /\ LabelOf(Tail(tasks["stop"].todo)) = Then("stop", s)
    BY StopStands
  <1>2. Typed(tasks) /\ svc \in Flags /\ Ops \subseteq Tasks /\ "stop" \in Tasks \ Ops
    BY DEF LifeInv, Types, Ops, Tasks
  <1>3. Moved("stop", Then("stop", s), tasks["stop"].st)
    BY <1>2, OnwardMoves DEF Onward
  <1>4. Typed(tasks)' /\ \A u \in Ops : tasks'[u] = tasks[u]
    BY <1>2, <1>3 DEF Moved
  <1>5. at("start")' = "done"
    BY <1>1, <1>4 DEF at, Ops
  <1>6. /\ svc' \in Flags /\ svc'.writes = svc.writes /\ svc'.reads = svc.reads
        /\ (svc'.client => svc.client) /\ (svc'.peer => svc.peer)
    BY <1>2 DEF Flags
  <1> QED
    BY <1>1, <1>4, <1>5, <1>6, SideStep

\* The process ends: only the file, and what was announced, remain.
LEMMA DownStep ==
  ASSUME LifeInv, Stays, Down
  PROVE  LifeInv'
PROOF
  <1>1. \A t \in Tasks : tasks'[t] = Done
    BY DEF Down
  <1>2. \A t \in Tasks : at(t)' = "done"
    BY <1>1, DoneScripted DEF at
  <1>3. Typed(tasks)'
    <2>1. tasks' = [t \in Tasks |-> tasks'[t]]
      BY <1>1 DEF Down
    <2> QED
      BY <1>1, <2>1, DoneScripted DEF Typed
  <1>4. pub' \in Records /\ pub'.phase = "none" /\ svc' \in Flags /\ ~svc'.peer
    BY DEF Down, Member, NoFile, Records, Services, Flags
  <1>5. Types' /\ Off' /\ Truthful'
    BY <1>2, <1>3, <1>4 DEF Types, Off, Truthful, LifeInv, Down
  <1>6. Numbered'
    BY <1>4, NumberedSame DEF LifeInv, Down
  <1>7. Ops \subseteq Tasks /\ "stop" \in Tasks
    BY DEF Ops, Tasks
  <1>8. OneOp' /\ \A t \in Ops : at(t)' = "done"
    BY <1>2, <1>7 DEF OneOp
  <1> QED
    BY <1>5, <1>6, <1>8 DEF LifeInv

-----------------------------------------------------------------------------
(* The commands *)

\* A command is taken when nothing runs.
LEMMA CommandBegins ==
  ASSUME LifeInv, Stays, Serving, ~is_joining, ~is_draining, ~Running("start"),
         NEW s \in {"load_join", "load_join_seeds", "load_drain"},
         Goes("command", <<s>>, NoFile), UNCHANGED <<file, up, svc, pub, said, minted>>
  PROVE  LifeInv'
PROOF
  <1>1. /\ Typed(tasks) /\ "command" \in Tasks /\ "command" \in Ops
        /\ up /\ svc.peer /\ Numbered /\ Types /\ Truthful
    BY DEF LifeInv, Types, Tasks, Ops, Serving
  <1>2. \A u \in Ops \ {"command"} : at(u) = "done"
    BY DEF Serving, is_joining, is_draining, Running, at, LabelOf, Ops
  <1>3. Scripted("command", [todo |-> <<s>>, st |-> NoFile]) /\ LabelOf(<<s>>) = s
    BY DEF Scripted, CommandPrograms, LabelOf
  <1>4. Moved("command", s, NoFile)
    BY <1>1, <1>3, GoesMoves
  <1>5. Runs("command", s, NoFile)
    BY <1>1, <1>2, <1>4, MovesAlone
  <1>6. Numbered' /\ Truthful' /\ file.phase # "none"
    BY <1>1, NumberedSame DEF Truthful, Numbered
  <1>7. PhaseHolds(s)' /\ Announced("command", s)' /\ Switched(s)'
    BY <1>6 DEF PhaseHolds, Announced, Switched, Joins, Serves, Drains
  <1>8. s \in Loads
    BY DEF Loads
  <1> QED
    BY <1>1, <1>5, <1>6, <1>7, <1>8, Advance DEF Types

\* A command that holds the lock loads the state and decides.
LEMMA CommandDecides ==
  ASSUME LifeInv, Stays, NEW s \in {"load_join", "load_join_seeds", "load_drain"},
         At("command", s),
         NEW n \in {"to_joining", "to_draining", "spawn_drain"},
         NEW todo \in CommandPrograms, LabelOf(todo) = n,
         Goes("command", todo, file), UNCHANGED <<file, up, svc, pub, said, minted>>,
         n = "spawn_drain" => file.phase = "draining"
  PROVE  LifeInv'
PROOF
  <1>1. /\ Typed(tasks) /\ "command" \in Tasks /\ "command" \in Ops
        /\ Numbered /\ Types /\ Truthful
    BY DEF LifeInv, Types, Tasks, Ops
  <1>2. up /\ Holds("command", s) /\ \A u \in Ops \ {"command"} : at(u) = "done"
    BY <1>1, Stands
  <1>3. file.phase # "none"
    BY <1>2 DEF Holds, PhaseHolds
  <1>4. Scripted("command", [todo |-> todo, st |-> file])
    BY DEF Scripted
  <1>5. Moved("command", n, file)
    BY <1>1, <1>4, GoesMoves
  <1>6. Runs("command", n, file)
    BY <1>1, <1>2, <1>5, MovesAlone
  <1>7. Numbered' /\ Truthful'
    BY <1>1, NumberedSame DEF Truthful
  <1>8. PhaseHolds(n)' /\ Announced("command", n)' /\ Switched(n)'
    BY <1>3 DEF PhaseHolds, Announced, Switched, Joins, Serves, Drains
  <1> QED
    BY <1>1, <1>2, <1>6, <1>7, <1>8, Advance DEF Types

\* A command persists JOINING or DRAINING.
LEMMA CommandPersists ==
  ASSUME LifeInv, Stays, NEW s \in {"to_joining", "to_draining"}, NEW phase, NEW fresh \in BOOLEAN,
         phase = IF s = "to_joining" THEN "joining" ELSE "draining",
         At("command", s), Persist("command", phase, fresh, TRUE),
         UNCHANGED <<up, svc, pub, said>>
  PROVE  LifeInv'
PROOF
  <1>0. PICK n : n = Then("command", s)
    OBVIOUS
  <1>1. /\ phase \in Phases
        /\ s = "to_joining" => n = "spawn_join" /\ phase = "joining"
        /\ s = "to_draining" => n = "spawn_drain" /\ phase = "draining"
    BY <1>0 DEF Phases, Then
  <1>2. "command" \in Ops /\ svc' \in Flags /\ pub' \in Records /\ Truthful
    BY DEF Ops, LifeInv, Types
  <1>3. up
    BY DEF At
  <1>4. Then("command", s) = n /\ s \notin Loads \cup {"done", "bind"}
    BY <1>0 DEF Loads
  <1>5. /\ Runs("command", n, file')
        /\ file' \in NodeState /\ file'.phase = phase /\ minted' \in Nat /\ Numbered'
    BY <1>1, <1>2, <1>4, Persists
  <1>6. Truthful'
    BY <1>2 DEF Truthful
  <1>7. PhaseHolds(n)' /\ Announced("command", n)' /\ Switched(n)'
    BY <1>1, <1>5 DEF PhaseHolds, Announced, Switched, Joins, Serves, Drains, Phases
  <1> QED
    BY <1>2, <1>3, <1>5, <1>6, <1>7, Advance

\* The join command leaves the join task behind.
LEMMA JoinSpawnsStep ==
  ASSUME LifeInv, Stays, JoinSpawns
  PROVE  LifeInv'
PROOF
  <1>1. At("command", "spawn_join") /\ "command" \in Ops /\ "join" \in Ops
    BY DEF JoinSpawns, Ops
  <1>2. up /\ Holds("command", "spawn_join") /\ \A u \in Ops \ {"command"} : at(u) = "done"
    BY <1>1, Stands
  <1>3. tasks["command"].st = file /\ file.phase = "joining" /\ Types /\ Numbered /\ Truthful
    BY <1>2 DEF Holds, PhaseHolds, Joins, Loads, LifeInv
  <1> DEFINE ts == [todo |-> _perform_join, st |-> tasks["command"].st]
  <1>4. tasks = [v \in Tasks |-> tasks[v]]
    BY <1>3 DEF Types, Typed
  <1>5. tasks' = [v \in Tasks |-> IF v = "command" THEN Done ELSE IF v = "join" THEN ts ELSE tasks[v]]
    BY <1>4 DEF JoinSpawns, Tasks
  <1>6. Scripted("join", ts) /\ LabelOf(_perform_join) = "enter"
    BY DEF Scripted, _perform_join, JoinPrograms, LabelOf
  <1> HIDE DEF ts
  <1>7. Runs("join", "enter", file)
    BY <1>2, <1>3, <1>5, <1>6, TakesOver DEF ts
  <1>8. UNCHANGED <<file, up, svc, pub, said, minted>>
    BY DEF JoinSpawns
  <1>9. Numbered' /\ Truthful'
    BY <1>3, <1>8, NumberedSame DEF Truthful
  <1>10. PhaseHolds("enter")' /\ Announced("join", "enter")' /\ Switched("enter")'
    BY <1>3, <1>8 DEF PhaseHolds, Announced, Switched, Joins, Serves, Drains
  <1> QED
    BY <1>1, <1>2, <1>3, <1>7, <1>8, <1>9, <1>10, Advance DEF Types

\* The drain command pauses the store, announces DRAINING and leaves the drain task.
LEMMA DrainSpawnsStep ==
  ASSUME LifeInv, Stays, DrainSpawns
  PROVE  LifeInv'
PROOF
  <1>1. At("command", "spawn_drain") /\ "command" \in Ops /\ "drain" \in Ops
    BY DEF DrainSpawns, Ops
  <1>2. up /\ Holds("command", "spawn_drain")
    BY <1>1, Stands
  <1>3. tasks["command"].st = file /\ file.phase = "draining" /\ Types
    BY <1>2 DEF Holds, PhaseHolds, Drains, Loads, LifeInv
  <1>4. /\ UNCHANGED <<file, up, minted>> /\ _publish_state(tasks["command"].st)
        /\ svc' = [svc EXCEPT !.writes = FALSE, !.reads = TRUE]
        /\ tasks' = Spawned([tasks EXCEPT !["command"] = Done], file)
    BY <1>3 DEF DrainSpawns
  <1>5. Runs("drain", "settle", file)
    BY <1>1, <1>4, SpawnsDrain
  <1>6. Numbered' /\ pub' \in Records /\ pub'.phase = "draining"
    BY <1>1, <1>3, <1>4, Publishes DEF Loads
  <1>7. svc' \in Flags /\ ~svc'.writes
    BY <1>3, <1>4 DEF Types, Flags
  <1>8. Truthful'
    BY <1>6, <1>7 DEF Truthful
  <1>9. PhaseHolds("settle")' /\ Announced("drain", "settle")' /\ Switched("settle")'
    BY <1>3, <1>4, <1>6 DEF PhaseHolds, Announced, Switched, Joins, Serves, Drains
  <1> QED
    BY <1>1, <1>2, <1>3, <1>4, <1>5, <1>6, <1>7, <1>8, <1>9, Advance DEF Types

\* The steps of a command.
LEMMA CommandStep ==
  ASSUME LifeInv, Stays, overtaken' # "now", join \/ drain \/ Commanded
  PROVE  LifeInv'
PROOF
  <1>1. CASE join
    BY <1>1, CommandBegins DEF join, Accepted
  <1>2. CASE drain
    BY <1>2, CommandBegins DEF drain, Accepted
  <1>3. CASE JoinLoads
    <2>1. PICK s \in {"load_join", "load_join_seeds"} : At("command", s)
      BY <1>3 DEF JoinLoads
    <2>2. <<"to_joining", "spawn_join">> \in CommandPrograms
          /\ LabelOf(<<"to_joining", "spawn_join">>) = "to_joining"
      BY DEF CommandPrograms, LabelOf
    <2> QED
      BY <1>3, <2>1, <2>2, CommandDecides DEF JoinLoads
  <1>4. CASE JoinRefused
    <2>1. up /\ "command" \in Ops
      BY <1>4 DEF JoinRefused, At, Ops
    <2> QED
      BY <1>4, <2>1, EndStep DEF JoinRefused
  <1>5. CASE JoinPersists
    BY <1>5, CommandPersists DEF JoinPersists
  <1>6. CASE JoinSpawns
    BY <1>6, JoinSpawnsStep
  <1>7. CASE DrainLoads
    <2>1. At("command", "load_drain") /\ up /\ "command" \in Ops
      BY <1>7 DEF DrainLoads, At, Ops
    <2>2. CASE file.phase = "ready" /\ ring
      <3> DEFINE todo == <<"to_draining", "spawn_drain">>
      <3>1. todo \in CommandPrograms /\ LabelOf(todo) = "to_draining"
        BY DEF CommandPrograms, LabelOf
      <3>2. <<"to_draining">> \o <<"spawn_drain">> = todo
        BY DrainProgram
      <3> HIDE DEF todo
      <3>3. Goes("command", todo, file)
        BY <1>7, <2>2, <3>2 DEF DrainLoads
      <3> QED
        BY <1>7, <2>1, <3>1, <3>3, CommandDecides DEF DrainLoads
    <2>3. CASE file.phase = "draining" /\ ring
      <3> DEFINE todo == <<"spawn_drain">>
      <3>1. todo \in CommandPrograms /\ LabelOf(todo) = "spawn_drain"
        BY DEF CommandPrograms, LabelOf
      <3>2. <<>> \o <<"spawn_drain">> = todo
        OBVIOUS
      <3> HIDE DEF todo
      <3>3. Goes("command", todo, file)
        BY <1>7, <2>3, <3>2 DEF DrainLoads
      <3> QED
        BY <1>7, <2>1, <2>3, <3>1, <3>3, CommandDecides DEF DrainLoads
    <2>4. CASE ~(file.phase \in {"ready", "draining"} /\ ring)
      BY <1>7, <2>1, <2>4, EndStep DEF DrainLoads
    <2> QED
      BY <2>2, <2>3, <2>4
  <1>8. CASE DrainPersists
    BY <1>8, CommandPersists DEF DrainPersists
  <1>9. CASE DrainSpawns
    BY <1>9, DrainSpawnsStep
  <1> QED
    BY <1>1, <1>2, <1>3, <1>4, <1>5, <1>6, <1>7, <1>8, <1>9 DEF Commanded

-----------------------------------------------------------------------------
(* _perform_join *)

\* A step of a join that announces the state it works with.
LEMMA JoinAnnounces ==
  ASSUME LifeInv, Stays, NEW t \in {"start", "join"}, NEW s \in {"enter", "bootstrap", "leave"},
         At(t, s), _publish_state(tasks[t].st), Onward(t),
         UNCHANGED <<file, up, minted>>, svc' \in Flags
  PROVE  LifeInv'
PROOF
  <1>0. PICK n, phase : /\ n = Then(t, s)
                        /\ phase = IF s = "leave" THEN "failed" ELSE "joining"
    OBVIOUS
  <1>1. /\ t \in Ops
        /\ s = "enter" => n = "bootstrap" /\ phase = "joining"
        /\ s = "bootstrap" => n = "sync" /\ phase = "joining"
        /\ s = "leave" => n = "silence" /\ phase = "failed"
    BY <1>0 DEF Ops, Then
  <1>2. up /\ Holds(t, s)
    BY <1>1, Stands
  <1>3. s \notin Loads \cup {"done", "bind"} /\ Then(t, s) = n
    BY <1>0 DEF Loads
  <1>4. tasks[t].st = file /\ file.phase = phase
    BY <1>1, <1>2, <1>3 DEF Holds, PhaseHolds, Joins
  <1>5. Numbered' /\ pub' \in Records /\ pub'.phase = phase
    BY <1>1, <1>3, <1>4, Publishes
  <1>6. Runs(t, n, file) /\ (t # "start" \/ at("stop") = "done")
    BY <1>1, <1>3, <1>4, Onwards DEF Onward, Loads
  <1>7. Truthful'
    BY <1>1, <1>5 DEF Truthful
  <1>8. PhaseHolds(n)' /\ Announced(t, n)' /\ Switched(n)'
    BY <1>1, <1>4, <1>5 DEF PhaseHolds, Announced, Switched, Joins, Serves, Drains, Unannounced
  <1>9. file' \in NodeState /\ minted' \in Nat
    BY DEF LifeInv, Types
  <1> QED
    BY <1>1, <1>2, <1>5, <1>6, <1>7, <1>8, <1>9, Advance

\* A step of a join that persists READY or FAILED.
LEMMA JoinDecided ==
  ASSUME LifeInv, Stays, NEW t \in {"start", "join"}, NEW s \in {"to_ready", "to_failed"}, NEW phase,
         phase = IF s = "to_ready" THEN "ready" ELSE "failed",
         At(t, s), Persist(t, phase, FALSE, file.seeds), UNCHANGED <<up, svc, pub, said>>
  PROVE  LifeInv'
PROOF
  <1>0. PICK n : n = Then(t, s)
    OBVIOUS
  <1>1. /\ t \in Ops /\ phase \in Phases
        /\ s = "to_ready" => n = "resume" /\ phase = "ready"
        /\ s = "to_failed" => n = "leave" /\ phase = "failed"
    BY <1>0 DEF Ops, Phases, Then
  <1>2. up /\ Holds(t, s)
    BY <1>1, Stands
  <1>3. s \notin Loads \cup {"done", "bind"} /\ Then(t, s) = n
    BY <1>0 DEF Loads
  <1>4. pub.phase = "joining"
    BY <1>1, <1>2 DEF Holds, Announced
  <1>5. pub' \in Records /\ svc' \in Flags /\ file.seeds \in BOOLEAN /\ FALSE \in BOOLEAN
    BY DEF LifeInv, Types, NodeState
  <1>6. /\ Runs(t, n, file') /\ (t # "start" \/ at("stop") = "done")
        /\ file' \in NodeState /\ file'.phase = phase /\ minted' \in Nat /\ Numbered'
    BY <1>1, <1>3, <1>5, Persists
  <1>7. Truthful'
    BY <1>4 DEF Truthful
  <1>8. PhaseHolds(n)' /\ Announced(t, n)' /\ Switched(n)'
    BY <1>1, <1>4, <1>6 DEF PhaseHolds, Announced, Switched, Joins, Serves, Drains, Unannounced
  <1> QED
    BY <1>1, <1>2, <1>5, <1>6, <1>7, <1>8, Advance

\* The remaining steps of a join that succeed or fail quietly.
LEMMA JoinQuiet ==
  ASSUME LifeInv, Stays, NEW t \in {"start", "join"},
         _sync_data(t) \/ Resume(t) \/ (LeaveFailed(t) /\ At(t, "silence"))
  PROVE  LifeInv'
PROOF
  <1>0. t \in Ops /\ svc \in Flags /\ Truthful
    BY DEF Ops, LifeInv, Types
  <1>1. CASE _sync_data(t)
    <2>1. At(t, "sync") /\ Holds(t, "sync")
      BY <1>0, <1>1, Stands DEF _sync_data
    <2>2. tasks[t].st = file /\ file.phase = "joining" /\ pub.phase = "joining"
      BY <2>1 DEF Holds, PhaseHolds, Announced, Joins, Loads
    <2>3. /\ Goes(t, Tail(tasks[t].todo), tasks[t].st)
          /\ UNCHANGED <<file, pub, said, minted, up>> /\ svc' = svc
      BY <1>1 DEF _sync_data, Onward
    <2>4. svc' \in Flags /\ Truthful'
      BY <1>0, <2>3 DEF Truthful
    <2>5. "to_ready" = Then(t, "sync") /\ "sync" \notin Loads \cup {"done", "bind"}
      BY DEF Then, Loads
    <2>6. PhaseHolds("to_ready")' /\ Announced(t, "to_ready")' /\ Switched("to_ready")'
      BY <2>2, <2>3 DEF PhaseHolds, Announced, Switched, Joins, Serves, Drains, Unannounced
    <2> QED
      BY <1>0, <2>1, <2>2, <2>3, <2>4, <2>5, <2>6, QuietStep
  <1>2. CASE Resume(t)
    <2>1. At(t, "resume") /\ Holds(t, "resume")
      BY <1>0, <1>2, Stands DEF Resume
    <2>2. tasks[t].st = file /\ file.phase = "ready" /\ pub.phase = "joining"
      BY <2>1 DEF Holds, PhaseHolds, Announced, Serves, Loads
    <2>3. /\ Goes(t, Tail(tasks[t].todo), tasks[t].st)
          /\ UNCHANGED <<file, pub, said, minted, up>>
          /\ svc' = [svc EXCEPT !.writes = TRUE, !.reads = TRUE]
      BY <1>2 DEF Resume, Onward
    <2>4. svc' \in Flags /\ svc'.writes /\ svc'.reads
      BY <1>0, <2>3 DEF Flags
    <2>5. Truthful'
      BY <2>2, <2>3 DEF Truthful
    <2>6. "open" = Then(t, "resume") /\ "resume" \notin Loads \cup {"done", "bind"}
      BY DEF Then, Loads
    <2>7. PhaseHolds("open")' /\ Announced(t, "open")' /\ Switched("open")'
      BY <2>2, <2>3, <2>4 DEF PhaseHolds, Announced, Switched, Joins, Serves, Drains, Unannounced
    <2> QED
      BY <1>0, <2>1, <2>2, <2>3, <2>4, <2>5, <2>6, <2>7, QuietStep
  <1>3. CASE LeaveFailed(t) /\ At(t, "silence")
    <2>1. At(t, "silence") /\ Holds(t, "silence")
      BY <1>0, <1>3, Stands
    <2>2. tasks[t].st = file /\ file.phase # "none"
      BY <2>1 DEF Holds, PhaseHolds, Loads
    <2>3. /\ Goes(t, Tail(tasks[t].todo), tasks[t].st)
          /\ UNCHANGED <<file, pub, said, minted, up>>
          /\ svc' = [svc EXCEPT !.ae = FALSE, !.gossip = FALSE]
      BY <1>3 DEF LeaveFailed, Onward, At
    <2>4. /\ svc' \in Flags /\ svc'.writes = svc.writes /\ svc'.reads = svc.reads
          /\ svc'.client = svc.client
      BY <1>0, <2>3 DEF Flags
    <2>5. Truthful'
      BY <1>0, <2>3, <2>4 DEF Truthful
    <2>6. PICK n : n = Then(t, "silence")
      OBVIOUS
    <2>7. n \in {"unlock", "done"} /\ "silence" \notin Loads \cup {"done", "bind"}
      BY <2>6 DEF Then, Loads
    <2>8. PhaseHolds(n)' /\ Announced(t, n)' /\ Switched(n)'
      BY <2>2, <2>3, <2>7 DEF PhaseHolds, Announced, Switched, Joins, Serves, Drains, Unannounced
    <2> QED
      BY <1>0, <2>1, <2>2, <2>3, <2>4, <2>5, <2>6, <2>7, <2>8, QuietStep
  <1> QED
    BY <1>1, <1>2, <1>3

\* The client listener is opened and READY announced, unless it was open.
LEMMA OpenStep ==
  ASSUME LifeInv, Stays, NEW t \in {"start", "join"}, Open(t)
  PROVE  LifeInv'
PROOF
  <1>1. At(t, "open") /\ t \in Ops /\ Types
    BY DEF Open, Ops, LifeInv
  <1>2. up /\ Holds(t, "open")
    BY <1>1, Stands
  <1>3. CASE svc.client
    <2>1. Goes(t, <<>>, tasks[t].st) /\ UNCHANGED <<file, up, svc, pub, said, minted>>
      BY <1>3 DEF Open
    <2> QED
      BY <1>1, <1>2, <2>1, EndStep
  <1>4. CASE ~svc.client
    <2>1. tasks[t].st = file /\ file.phase = "ready" /\ svc.writes /\ svc.reads
      BY <1>2 DEF Holds, PhaseHolds, Switched, Serves, Loads
    <2>2. /\ Goes(t, Tail(tasks[t].todo), tasks[t].st) /\ UNCHANGED <<file, up, minted>>
          /\ _publish_state(tasks[t].st) /\ svc' = [svc EXCEPT !.client = TRUE]
      BY <1>4 DEF Open, Onward
    <2>3. svc' \in Flags /\ svc'.writes /\ svc'.reads /\ file' \in NodeState /\ minted' \in Nat
      BY <1>1, <2>1, <2>2 DEF Types, Flags
    <2>4. "open" \notin Loads \cup {"done", "bind"}
      BY DEF Loads
    <2>5. Numbered' /\ pub' \in Records /\ pub'.phase = "ready"
      BY <1>1, <2>1, <2>2, <2>4, Publishes
    <2>6. PICK n : n = Then(t, "open")
      OBVIOUS
    <2>7. n \in {"unlock", "done"}
      BY <2>6 DEF Then
    <2>8. Runs(t, n, file) /\ (t # "start" \/ at("stop") = "done")
      BY <1>1, <2>1, <2>2, <2>4, <2>6, Onwards DEF Loads
    <2>9. PhaseHolds(n)' /\ Announced(t, n)' /\ Switched(n)'
      BY <2>1, <2>2, <2>7 DEF PhaseHolds, Announced, Switched, Joins, Serves, Drains, Unannounced
    <2>10. Truthful'
      BY <2>3, <2>5 DEF Truthful
    <2> QED
      BY <1>1, <1>2, <2>2, <2>3, <2>5, <2>8, <2>9, <2>10, Advance
  <1> QED
    BY <1>3, <1>4

\* A join whose bootstrap or synchronisation fails.
LEMMA JoinFailsStep ==
  ASSUME LifeInv, Stays, NEW t \in {"start", "join"}, JoinFails(t)
  PROVE  LifeInv'
PROOF
  <1>1. PICK s \in {"bootstrap", "sync"} : At(t, s)
    BY DEF JoinFails
  <1>2. t \in Ops /\ t \in Tasks /\ Types /\ Typed(tasks) /\ Numbered /\ Truthful
    BY DEF Ops, Tasks, LifeInv, Types
  <1>3. /\ up /\ Holds(t, s) /\ \A u \in Ops \ {t} : at(u) = "done"
        /\ t = "start" => at("stop") = "done"
    BY <1>1, <1>2, Stands
  <1>4. tasks[t].st = file /\ file.phase = "joining" /\ pub.phase = "joining"
    BY <1>3 DEF Holds, PhaseHolds, Announced, Joins, Loads
  <1> DEFINE todo == <<"to_failed", "leave", "silence">>
                       \o (IF t = "start" THEN <<"unlock">> ELSE <<>>)
  <1>5. Goes(t, todo, file) /\ UNCHANGED <<file, up, svc, pub, said, minted>>
    BY <1>4 DEF JoinFails
  <1>6. LabelOf(todo) = "to_failed" /\ Scripted(t, [todo |-> todo, st |-> file])
    <2>1. CASE t = "start"
      <3> DEFINE p == <<"to_failed", "leave", "silence", "unlock">>
      <3>1. LabelOf(p) = "to_failed" /\ p \in StartPrograms
        BY DEF LabelOf, StartPrograms, StartFailPrograms
      <3>2. todo = p
        BY <2>1, FailingProgram
      <3> HIDE DEF p, todo
      <3> QED
        BY <2>1, <3>1, <3>2 DEF Scripted
    <2>2. CASE t = "join"
      <3> DEFINE p == <<"to_failed", "leave", "silence">>
      <3>1. LabelOf(p) = "to_failed" /\ p \in JoinPrograms
        BY DEF LabelOf, JoinPrograms
      <3>2. p \in Seq(Steps)
        BY DEF Steps
      <3>3. todo = p \o <<>>
        BY <2>2
      <3> HIDE DEF p, todo
      <3>4. todo = p
        BY <3>2, <3>3
      <3> QED
        BY <2>2, <3>1, <3>4 DEF Scripted
    <2> QED
      BY <2>1, <2>2
  <1> HIDE DEF todo
  <1>7. Moved(t, "to_failed", file)
    BY <1>2, <1>5, <1>6, GoesMoves
  <1>8. Runs(t, "to_failed", file)
    BY <1>2, <1>3, <1>7, MovesAlone
  <1>9. Numbered' /\ Truthful'
    BY <1>2, <1>5, NumberedSame DEF Truthful
  <1>10. PhaseHolds("to_failed")' /\ Announced(t, "to_failed")' /\ Switched("to_failed")'
    BY <1>4, <1>5 DEF PhaseHolds, Announced, Switched, Joins, Serves, Drains, Unannounced
  <1> QED
    BY <1>2, <1>3, <1>5, <1>8, <1>9, <1>10, Advance DEF Types

\* The steps of a join, in the background or in start().
LEMMA JoinStep ==
  ASSUME LifeInv, Stays, NEW t \in {"start", "join"}, Joining(t) \/ JoinFails(t)
  PROVE  LifeInv'
PROOF
  <1>0. svc \in Flags
    BY DEF LifeInv, Types
  <1>1. CASE Enter(t)
    <2>1. svc' \in Flags
      BY <1>0, <1>1 DEF Enter, Flags
    <2> QED
      BY <1>1, <2>1, JoinAnnounces DEF Enter
  <1>2. CASE _join_cluster(t)
    <2>1. svc' \in Flags
      BY <1>0, <1>2 DEF _join_cluster, Flags
    <2> QED
      BY <1>2, <2>1, JoinAnnounces DEF _join_cluster
  <1>3. CASE _sync_data(t) \/ Resume(t)
    BY <1>3, JoinQuiet
  <1>4. CASE ToFailed(t)
    BY <1>4, JoinDecided DEF ToFailed
  <1>5. CASE ToReady(t)
    BY <1>5, JoinDecided DEF ToReady
  <1>6. CASE LeaveFailed(t)
    <2>1. CASE At(t, "leave")
      BY <1>0, <1>6, <2>1, JoinAnnounces DEF LeaveFailed, At
    <2>2. CASE At(t, "silence")
      BY <1>6, <2>2, JoinQuiet
    <2> QED
      BY <1>6, <2>1, <2>2 DEF LeaveFailed
  <1>7. CASE Open(t)
    BY <1>7, OpenStep
  <1>8. CASE JoinFails(t)
    BY <1>8, JoinFailsStep
  <1> QED
    BY <1>1, <1>2, <1>3, <1>4, <1>5, <1>6, <1>7, <1>8 DEF Joining

-----------------------------------------------------------------------------
(* _perform_drain *)

\* The steps of a drain before IDLE is persisted.
LEMMA DrainQuiet ==
  ASSUME LifeInv, Stays, Settle("drain") \/ HandOff("drain") \/ Close("drain")
  PROVE  LifeInv'
PROOF
  <1>1. PICK s \in {"settle", "hand_off", "close", "unlisten"} : At("drain", s)
    BY DEF Settle, HandOff, Close
  <1>2. "drain" \in Ops /\ svc \in Flags /\ Truthful
    BY DEF Ops, LifeInv, Types
  <1>3. up /\ Holds("drain", s)
    BY <1>1, <1>2, Stands
  <1>4. s \notin Loads \cup {"done", "bind"}
    BY DEF Loads
  <1>5. /\ tasks["drain"].st = file /\ file.phase = "draining" /\ pub.phase = "draining"
        /\ ~svc.writes
        /\ s = "unlisten" => ~svc.reads
    BY <1>2, <1>3, <1>4 DEF Holds, PhaseHolds, Announced, Switched, Drains, Truthful
  <1>6. /\ Goes("drain", Tail(tasks["drain"].todo), tasks["drain"].st)
        /\ UNCHANGED <<file, pub, said, minted, up>>
    BY DEF Settle, HandOff, Close, Onward
  <1>7. PICK n : n = Then("drain", s)
    OBVIOUS
  <1>8. /\ s = "settle" => n = "hand_off"
        /\ s = "hand_off" => n = "close"
        /\ s = "close" => n = "unlisten"
        /\ s = "unlisten" => n = "to_idle"
    BY <1>7 DEF Then
  <1>9. /\ svc' \in Flags /\ ~svc'.writes
        /\ s \in {"close", "unlisten"} => ~svc'.reads
        /\ s = "unlisten" => ~svc'.client
    <2>1. CASE s = "settle"
      <3>1. svc' = [svc EXCEPT !.writes = FALSE, !.reads = TRUE, !.ae = TRUE]
        BY <1>1, <2>1 DEF Settle, HandOff, Close, At
      <3> QED
        BY <1>2, <2>1, <3>1 DEF Flags
    <2>2. CASE s = "hand_off"
      <3>1. svc' = svc
        BY <1>1, <2>2 DEF Settle, HandOff, Close, At
      <3> QED
        BY <1>2, <1>5, <2>2, <3>1
    <2>3. CASE s = "close"
      <3>1. svc' = [svc EXCEPT !.writes = FALSE, !.reads = FALSE]
        BY <1>1, <2>3 DEF Settle, HandOff, Close, At
      <3> QED
        BY <1>2, <2>3, <3>1 DEF Flags
    <2>4. CASE s = "unlisten"
      <3>1. svc' = [svc EXCEPT !.client = FALSE]
        BY <1>1, <2>4 DEF Settle, HandOff, Close, At
      <3> QED
        BY <1>2, <1>5, <2>4, <3>1 DEF Flags
    <2> QED
      BY <2>1, <2>2, <2>3, <2>4
  <1>10. Truthful'
    BY <1>5, <1>6, <1>9 DEF Truthful
  <1>11. PhaseHolds(n)' /\ Announced("drain", n)' /\ Switched(n)'
    BY <1>5, <1>6, <1>8, <1>9 DEF PhaseHolds, Announced, Switched, Joins, Serves, Drains
  <1> QED
    BY <1>1, <1>2, <1>4, <1>5, <1>6, <1>7, <1>9, <1>10, <1>11, QuietStep

\* IDLE is persisted, then announced.
LEMMA IdleStep ==
  ASSUME LifeInv, Stays, ToIdle("drain")
  PROVE  LifeInv'
PROOF
  <1>0. "drain" \in Ops /\ svc \in Flags /\ pub \in Records /\ file \in NodeState /\ minted \in Nat
    BY DEF Ops, LifeInv, Types
  <1>1. CASE At("drain", "to_idle")
    <2>1. up /\ Holds("drain", "to_idle")
      BY <1>0, <1>1, Stands
    <2>2. pub.phase = "draining" /\ ~svc.writes /\ ~svc.reads /\ ~svc.client
      BY <2>1 DEF Holds, Announced, Switched
    <2>3. UNCHANGED <<up, svc, pub, said>> /\ Persist("drain", "idle", FALSE, file.seeds)
      BY <1>1 DEF ToIdle, At
    <2>4. Then("drain", "to_idle") = "left" /\ "to_idle" \notin Loads \cup {"done", "bind"}
          /\ file.seeds \in BOOLEAN
      BY <1>0 DEF Then, Loads, NodeState
    <2>5. /\ Runs("drain", "left", file')
          /\ file' \in NodeState /\ file'.phase = "idle" /\ minted' \in Nat /\ Numbered'
      BY <1>0, <1>1, <2>3, <2>4, Persists DEF Phases
    <2>6. Truthful'
      BY <2>2, <2>3 DEF Truthful
    <2>7. PhaseHolds("left")' /\ Announced("drain", "left")' /\ Switched("left")'
      BY <2>2, <2>3, <2>5 DEF PhaseHolds, Announced, Switched, Joins, Serves, Drains
    <2> QED
      BY <1>0, <2>1, <2>3, <2>5, <2>6, <2>7, Advance
  <1>2. CASE At("drain", "left")
    <2>1. up /\ Holds("drain", "left")
      BY <1>0, <1>2, Stands
    <2>2. tasks["drain"].st = file /\ file.phase = "idle" /\ ~svc.writes /\ ~svc.reads /\ ~svc.client
      BY <2>1 DEF Holds, PhaseHolds, Switched, Loads
    <2>3. /\ Goes("drain", Tail(tasks["drain"].todo), tasks["drain"].st)
          /\ UNCHANGED <<file, up, minted>> /\ _publish_state(tasks["drain"].st)
          /\ svc' = [svc EXCEPT !.ae = FALSE]
      BY <1>2 DEF ToIdle, Onward, At
    <2>4. svc' \in Flags /\ ~svc'.writes /\ ~svc'.reads /\ ~svc'.client
      BY <1>0, <2>2, <2>3 DEF Flags
    <2>5. Then("drain", "left") = "done" /\ "left" \notin Loads \cup {"done", "bind"}
      BY DEF Then, Loads
    <2>6. Numbered' /\ pub' \in Records /\ pub'.phase = "idle"
      BY <1>0, <1>2, <2>2, <2>3, <2>5, Publishes
    <2>7. Runs("drain", "done", file)
      BY <1>0, <1>2, <2>2, <2>3, <2>5, Onwards DEF Loads
    <2>8. Truthful'
      BY <2>4, <2>6 DEF Truthful
    <2> QED
      BY <1>0, <2>1, <2>3, <2>4, <2>6, <2>7, <2>8, Advance
  <1> QED
    BY <1>1, <1>2 DEF ToIdle

\* The steps of a drain; no drain is ever orphaned.
LEMMA DrainStep ==
  ASSUME LifeInv, Stays, NEW t \in {"drain", "orphan"}, Draining(t) \/ DrainFails(t)
  PROVE  LifeInv'
PROOF
  <1>1. ~Running("orphan")
    BY DEF LifeInv, Types, Typed, Scripted, Tasks, Running
  <1>2. \E s : At(t, s)
    BY DEF Draining, Settle, HandOff, Close, ToIdle, DrainFails
  <1>3. t = "drain" /\ up /\ "drain" \in Ops
    BY <1>1, <1>2 DEF At, Ops
  <1>4. CASE DrainFails(t)
    BY <1>3, <1>4, EndStep DEF DrainFails
  <1>5. CASE Draining(t)
    BY <1>3, <1>5, DrainQuiet, IdleStep DEF Draining
  <1> QED
    BY <1>4, <1>5

-----------------------------------------------------------------------------
(* Every step *)

\* A process that never ran.
LEMMA LifeStarts ==
  ASSUME Init
  PROVE  LifeInv
PROOF
  <1>1. \A t \in Tasks : tasks[t] = Done
    BY DEF Init
  <1>2. \A t \in Tasks : at(t) = "done"
    BY <1>1, DoneScripted DEF at
  <1>3. Typed(tasks)
    <2>1. tasks = [t \in Tasks |-> tasks[t]]
      BY <1>1 DEF Init
    <2> QED
      BY <1>1, <2>1, DoneScripted DEF Typed
  <1>4. /\ pub \in Records /\ pub.phase = "none" /\ svc \in Flags /\ ~svc.peer
        /\ file \in NodeState /\ file.phase = "none" /\ file = NoFile
    BY DEF Init, Member, NoFile, Records, Services, Flags, NodeState
  <1>5. Types /\ Off /\ Truthful
    BY <1>2, <1>3, <1>4 DEF Types, Off, Truthful, Init
  <1>6. Numbered
    BY <1>4 DEF Numbered, Ordered, Distinct, Init
  <1>7. Ops \subseteq Tasks /\ "stop" \in Tasks
    BY DEF Ops, Tasks
  <1>8. OneOp /\ \A t \in Ops : at(t) = "done"
    BY <1>2, <1>7 DEF OneOp
  <1> QED
    BY <1>5, <1>6, <1>8 DEF LifeInv

\* Every step of the node keeps the invariant.
LEMMA LifeSteps ==
  ASSUME LifeInv, Stays, overtaken' # "now", [Next]_vars
  PROVE  LifeInv'
PROOF
  <1>1. CASE Start
    BY <1>1, StartStep
  <1>2. CASE Starting
    BY <1>2, LoadStep, BindStep, LockStep, AnewStep, ReadyStep, RedrainStep, RaisedStep
       DEF Starting, ListenerRuns, At
  <1>3. CASE StartupError
    BY <1>3, RaisedStep DEF StartupError, At
  <1>4. CASE join \/ drain \/ Commanded
    BY <1>4, CommandStep
  <1>5. CASE \E t \in {"start", "join"} : Joining(t) \/ JoinFails(t)
    BY <1>5, JoinStep
  <1>6. CASE OpenFails
    <2>1. up /\ "join" \in Ops
      BY <1>6 DEF OpenFails, At, Ops
    <2> QED
      BY <1>6, <2>1, EndStep DEF OpenFails
  <1>7. CASE \E t \in {"drain", "orphan"} : Draining(t) \/ DrainFails(t)
    BY <1>7, DrainStep
  <1>8. CASE stop
    BY <1>8, StopBegins
  <1>9. CASE Stopping
    <2>1. CASE StopClient
      <3>1. svc' = [svc EXCEPT !["client"] = FALSE]
        BY <2>1 DEF StopClient
      <3> QED
        BY <2>1, <3>1, StopServiceStep DEF StopClient
    <2>2. CASE Cancel
      BY <2>2, CancelStep
    <2>3. CASE StopService("stop_ae", "ae")
      BY <2>3, StopServiceStep DEF StopService
    <2>4. CASE StopService("stop_gossip", "gossip")
      BY <2>4, StopServiceStep DEF StopService
    <2>5. CASE StopService("stop_peer", "peer")
      BY <2>5, StopServiceStep DEF StopService
    <2>6. CASE Shutdown
      BY <2>6, DownStep DEF Shutdown
    <2> QED
      BY <1>9, <2>1, <2>2, <2>3, <2>4, <2>5, <2>6 DEF Stopping
  <1>10. CASE Crash
    BY <1>10, DownStep DEF Crash
  <1>11. CASE Hear \/ Alone \/ UNCHANGED vars
    <2>1. /\ UNCHANGED <<file, tasks, svc, pub, said, minted>>
          /\ up' = up
      BY <1>11 DEF Hear, Alone, vars
    <2>2. CASE up
      <3>1. Typed(tasks)' /\ svc' \in Flags
        BY <2>1 DEF LifeInv, Types, Typed, Scripted, Boots
      <3>2. at("stop")' = at("stop") /\ at("start")' = at("start")
        BY <2>1 DEF at
      <3>3. at("stop")' # "done" => at("start")' = "done"
        BY <3>2 DEF LifeInv, OneOp
      <3> QED
        BY <2>1, <2>2, <3>1, <3>3, SideStep
    <2>3. CASE ~up
      <3>1. \A t \in Tasks : at(t)' = at(t) /\ at(t)' = "done"
        BY <2>1, <2>3 DEF LifeInv, Off, at
      <3>2. Types' /\ Off' /\ Truthful'
        BY <2>1, <2>3, <3>1 DEF LifeInv, Types, Typed, Off, Truthful
      <3>3. Numbered'
        BY <2>1, NumberedSame DEF LifeInv
      <3>4. OneOp' /\ \A t \in Ops : at(t)' = "done"
        BY <3>1 DEF OneOp, Ops, Tasks
      <3> QED
        BY <3>2, <3>3, <3>4 DEF LifeInv
    <2> QED
      BY <2>2, <2>3
  <1> QED
    BY <1>1, <1>2, <1>3, <1>4, <1>5, <1>6, <1>7, <1>8, <1>9, <1>10, <1>11 DEF Next

-----------------------------------------------------------------------------
(* Processes in which a command overtook start() *)

\* Whatever the tasks of a process do, the file holds a state.
Based ==
  /\ file \in NodeState /\ minted \in Nat /\ said \subseteq Records
  /\ file.phase = "none" => file = NoFile
  /\ tasks = [t \in Tasks |-> [todo |-> tasks[t].todo, st |-> tasks[t].st]]
  /\ \A t \in Tasks : tasks[t].st \in NodeState
  /\ overtaken = "now" => up

\* A NodeState makes a record.
LEMMA MemberType ==
  ASSUME NEW st \in NodeState
  PROVE  Member(st) \in Records
PROOF
  BY DEF Member, NodeState, Records

\* Tasks are set one by one, to records with a NodeState.
LEMMA BasedTask ==
  ASSUME Based, NEW t \in Tasks, NEW todo, NEW st \in NodeState, Goes(t, todo, st)
  PROVE  /\ tasks' = [u \in Tasks |-> [todo |-> tasks'[u].todo, st |-> tasks'[u].st]]
         /\ \A u \in Tasks : tasks'[u].st \in NodeState
PROOF
  <1>1. NoFile \in NodeState
    BY DEF NoFile, NodeState
  <1> DEFINE task == IF todo = <<>> THEN Done ELSE [todo |-> todo, st |-> st]
  <1>2. /\ tasks' = [tasks EXCEPT ![t] = task]
        /\ task = [todo |-> task.todo, st |-> task.st] /\ task.st \in NodeState
    BY <1>1 DEF Goes, Done
  <1> HIDE DEF task
  <1>3. tasks = [u \in Tasks |-> tasks[u]]
    BY DEF Based
  <1>4. tasks' = [u \in Tasks |-> tasks'[u]]
    BY <1>2, <1>3
  <1>5. \A u \in Tasks : tasks'[u] = IF u = t THEN task ELSE tasks[u]
    BY <1>2, <1>3
  <1>6. \A u \in Tasks : tasks'[u] = [todo |-> tasks'[u].todo, st |-> tasks'[u].st]
    BY <1>2, <1>5 DEF Based
  <1> QED
    BY <1>2, <1>4, <1>5, <1>6 DEF Based

\* A transition of the file.
LEMMA BasedPersists ==
  ASSUME Based, NEW t \in Tasks, NEW phase \in Phases, NEW fresh \in BOOLEAN,
         NEW seeds \in BOOLEAN, Persist(t, phase, fresh, seeds),
         said' = said, overtaken' = overtaken, up' = up
  PROVE  Based'
PROOF
  <1>1. minted' \in Nat
    BY DEF Persist, Based
  <1> DEFINE tokens == IF fresh THEN minted' ELSE file.tokens
  <1>2. tokens \in Nat /\ tasks[t].st \in NodeState
    BY <1>1 DEF Based, NodeState
  <1> HIDE DEF tokens
  <1>3. file' = [phase |-> phase, epoch |-> tasks[t].st.epoch + 1, tokens |-> tokens,
                 seeds |-> seeds]
    BY DEF Persist, _transition_to, tokens
  <1>4. file' \in NodeState /\ file'.phase # "none"
    BY <1>2, <1>3 DEF NodeState, Phases
  <1>5. /\ tasks' = [u \in Tasks |-> [todo |-> tasks'[u].todo, st |-> tasks'[u].st]]
        /\ \A u \in Tasks : tasks'[u].st \in NodeState
    BY <1>4, BasedTask DEF Persist
  <1> QED
    BY <1>1, <1>4, <1>5 DEF Based

\* A step of a task that leaves the file alone.
LEMMA BasedGoes ==
  ASSUME Based, NEW t \in Tasks, NEW todo, NEW st \in NodeState, Goes(t, todo, st),
         UNCHANGED <<file, minted, up>>,
         \/ said' = said
         \/ \E u \in Tasks : _publish_state(tasks[u].st),
         overtaken' = "now" => up
  PROVE  Based'
PROOF
  <1>1. /\ tasks' = [u \in Tasks |-> [todo |-> tasks'[u].todo, st |-> tasks'[u].st]]
        /\ \A u \in Tasks : tasks'[u].st \in NodeState
    BY BasedTask
  <1>2. said' \subseteq Records
    BY MemberType DEF _publish_state, Based
  <1> QED
    BY <1>1, <1>2 DEF Based

\* A task goes on with the state it has.
LEMMA BasedOnward ==
  ASSUME Based, NEW t \in Tasks, Onward(t), UNCHANGED <<file, minted, up>>,
         \/ said' = said
         \/ \E u \in Tasks : _publish_state(tasks[u].st),
         overtaken' = "now" => up
  PROVE  Based'
PROOF
  <1>1. tasks[t].st \in NodeState
    BY DEF Based
  <1> QED
    BY <1>1, BasedGoes DEF Onward

\* Several tasks are set at once.
LEMMA BasedSets ==
  ASSUME Based, UNCHANGED <<file, minted, up>>,
         \/ said' = said
         \/ \E u \in Tasks : _publish_state(tasks[u].st),
         overtaken' = overtaken,
         tasks' = [u \in Tasks |-> tasks'[u]],
         \A u \in Tasks : \/ tasks'[u] = tasks[u] \/ tasks'[u] = Done
                          \/ \E v \in Tasks :
                               tasks'[u] = [todo |-> tasks'[u].todo, st |-> tasks[v].st]
  PROVE  Based'
PROOF
  <1>1. Done = [todo |-> Done.todo, st |-> Done.st] /\ Done.st \in NodeState
    BY DEF Done, NoFile, NodeState
  <1>2. ASSUME NEW u \in Tasks
        PROVE  /\ tasks'[u] = [todo |-> tasks'[u].todo, st |-> tasks'[u].st]
               /\ tasks'[u].st \in NodeState
    <2>1. CASE tasks'[u] \in {tasks[u], Done}
      BY <1>1, <2>1 DEF Based
    <2>2. CASE \E v \in Tasks : tasks'[u] = [todo |-> tasks'[u].todo, st |-> tasks[v].st]
      BY <2>2 DEF Based
    <2> QED
      BY <2>1, <2>2
  <1>3. said' \subseteq Records
    BY MemberType DEF _publish_state, Based
  <1>4. tasks' = [u \in Tasks |-> [todo |-> tasks'[u].todo, st |-> tasks'[u].st]]
    BY <1>2
  <1> QED
    BY <1>2, <1>3, <1>4 DEF Based

\* start() and what it does by the phase in the file.
LEMMA BasedStarting ==
  ASSUME Based, Start \/ Starting \/ StartupError
  PROVE  Based'
PROOF
  <1>0. /\ "start" \in Tasks /\ NoFile \in NodeState /\ tasks["start"].st \in NodeState
        /\ file \in NodeState /\ file.seeds \in BOOLEAN /\ "ready" \in Phases
    BY DEF Tasks, NoFile, NodeState, Based, Phases
  <1>1. CASE Start
    <2>1. /\ tasks' = [u \in Tasks |-> [todo |-> tasks'[u].todo, st |-> tasks'[u].st]]
          /\ \A u \in Tasks : tasks'[u].st \in NodeState
      BY <1>0, <1>1, BasedTask DEF Start
    <2> QED
      BY <1>1, <2>1 DEF Start, Based
  <1>2. CASE _load_or_create_state
    <2>1. file' \in NodeState /\ file'.phase # "none"
      <3>1. CASE file = NoFile
        BY <1>2, <3>1 DEF _load_or_create_state, NoFile, NodeState, Phases
      <3>2. CASE file # NoFile
        BY <1>2, <3>2 DEF _load_or_create_state, Based
      <3> QED
        BY <3>1, <3>2
    <2>2. /\ tasks' = [u \in Tasks |-> [todo |-> tasks'[u].todo, st |-> tasks'[u].st]]
          /\ \A u \in Tasks : tasks'[u].st \in NodeState
      BY <1>0, <1>2, <2>1, BasedTask DEF _load_or_create_state
    <2> QED
      BY <1>2, <2>1, <2>2 DEF _load_or_create_state, Based
  <1>3. CASE _start_peer \/ _startup_joining
    BY <1>0, <1>3, BasedOnward DEF _start_peer, _startup_joining, At
  <1>4. CASE _startup_idle
    BY <1>0, <1>4, BasedPersists DEF _startup_idle
  <1>5. CASE StartReady
    BY <1>0, <1>5, BasedOnward DEF StartReady, At
  <1>6. CASE _startup_draining /\ ~At("start", "resume_drain")
    BY <1>0, <1>6, BasedGoes, BasedOnward DEF _startup_draining, At
  <1>7. CASE _startup_draining /\ At("start", "resume_drain")
    <2>1. /\ tasks' = Spawned([tasks EXCEPT !["start"] = Done], tasks["start"].st)
          /\ UNCHANGED <<file, minted, up, said, overtaken>>
      BY <1>7 DEF _startup_draining, At
    <2>2. tasks = [u \in Tasks |-> tasks[u]] /\ tasks["drain"] = [todo |-> tasks["drain"].todo, st |-> tasks["drain"].st]
      BY DEF Based, Tasks
    <2>3. /\ tasks' = [u \in Tasks |-> tasks'[u]]
          /\ tasks'["start"] = Done
          /\ tasks'["drain"] = [todo |-> _perform_drain, st |-> tasks["start"].st]
          /\ tasks'["orphan"] \in {tasks["drain"], tasks["orphan"]}
          /\ \A u \in Tasks \ {"start", "drain", "orphan"} : tasks'[u] = tasks[u]
      BY <2>1, <2>2 DEF Spawned, Tasks
    <2>4. tasks'["drain"] = [todo |-> tasks'["drain"].todo, st |-> tasks["start"].st]
      BY <2>3
    <2>5. "drain" \in Tasks
      BY DEF Tasks
    <2> QED
      BY <1>0, <2>1, <2>2, <2>3, <2>4, <2>5, BasedSets
  <1>8. CASE ListenerRuns \/ StartupError
    <2>1. Raised
      BY <1>8 DEF ListenerRuns, StartupError
    <2>2. tasks = [u \in Tasks |-> tasks[u]] /\ tasks["stop"] = [todo |-> tasks["stop"].todo, st |-> tasks["stop"].st]
          /\ "stop" \in Tasks
      BY DEF Based, Tasks
    <2> DEFINE w == [tasks["stop"] EXCEPT !.todo = lifecycle_stop]
    <2>3. w = [todo |-> lifecycle_stop, st |-> tasks["stop"].st]
      BY <2>2
    <2>4. tasks' = [tasks EXCEPT !["start"] = Done, !["stop"] = w]
      BY <2>1, <2>2 DEF Raised, Tasks
    <2> HIDE DEF w
    <2>5. /\ tasks' = [u \in Tasks |-> tasks'[u]] /\ tasks'["start"] = Done /\ tasks'["stop"] = w
          /\ \A u \in Tasks \ {"start", "stop"} : tasks'[u] = tasks[u]
      BY <2>2, <2>4 DEF Tasks
    <2>6. tasks'["stop"] = [todo |-> tasks'["stop"].todo, st |-> tasks["stop"].st]
      BY <2>3, <2>5
    <2> QED
      BY <2>1, <2>2, <2>5, <2>6, BasedSets DEF Raised
  <1> QED
    BY <1>1, <1>2, <1>3, <1>4, <1>5, <1>6, <1>7, <1>8 DEF Starting

\* The commands.
LEMMA BasedCommand ==
  ASSUME Based, join \/ drain \/ Commanded
  PROVE  Based'
PROOF
  <1>0. /\ "command" \in Tasks /\ NoFile \in NodeState /\ tasks["command"].st \in NodeState
        /\ file \in NodeState /\ {"joining", "draining"} \subseteq Phases
        /\ TRUE \in BOOLEAN /\ FALSE \in BOOLEAN
    BY DEF Tasks, NoFile, NodeState, Based, Phases
  <1>1. CASE join \/ drain
    BY <1>0, <1>1, BasedGoes DEF join, drain, Accepted, Serving
  <1>2. CASE JoinLoads \/ JoinRefused \/ DrainLoads
    <2>1. UNCHANGED <<file, minted, up, said, overtaken>>
      BY <1>2 DEF JoinLoads, JoinRefused, DrainLoads
    <2>2. PICK todo, st : st \in NodeState /\ Goes("command", todo, st)
      BY <1>0, <1>2 DEF JoinLoads, JoinRefused, DrainLoads
    <2> QED
      BY <1>0, <2>1, <2>2, BasedGoes DEF Based
  <1>3. CASE JoinPersists \/ DrainPersists
    BY <1>0, <1>3, BasedPersists DEF JoinPersists, DrainPersists
  <1>4. CASE JoinSpawns
    <2>1. /\ tasks' = [tasks EXCEPT !["command"] = Done,
                                    !["join"] = [todo |-> _perform_join, st |-> tasks["command"].st]]
          /\ UNCHANGED <<file, minted, up, said, overtaken>>
      BY <1>4 DEF JoinSpawns
    <2>2. tasks = [u \in Tasks |-> tasks[u]]
      BY DEF Based
    <2>3. /\ tasks' = [u \in Tasks |-> tasks'[u]]
          /\ tasks'["command"] = Done
          /\ tasks'["join"] = [todo |-> _perform_join, st |-> tasks["command"].st]
          /\ \A u \in Tasks \ {"command", "join"} : tasks'[u] = tasks[u]
      BY <2>1, <2>2 DEF Tasks
    <2>4. tasks'["join"] = [todo |-> tasks'["join"].todo, st |-> tasks["command"].st]
      BY <2>3
    <2> QED
      BY <1>0, <2>1, <2>3, <2>4, BasedSets
  <1>5. CASE DrainSpawns
    <2>1. /\ tasks' = Spawned([tasks EXCEPT !["command"] = Done], tasks["command"].st)
          /\ UNCHANGED <<file, minted, up, overtaken>> /\ _publish_state(tasks["command"].st)
      BY <1>5 DEF DrainSpawns
    <2>2. tasks = [u \in Tasks |-> tasks[u]] /\ tasks["drain"] = [todo |-> tasks["drain"].todo, st |-> tasks["drain"].st]
      BY DEF Based, Tasks
    <2>3. /\ tasks' = [u \in Tasks |-> tasks'[u]]
          /\ tasks'["command"] = Done
          /\ tasks'["drain"] = [todo |-> _perform_drain, st |-> tasks["command"].st]
          /\ tasks'["orphan"] \in {tasks["drain"], tasks["orphan"]}
          /\ \A u \in Tasks \ {"command", "drain", "orphan"} : tasks'[u] = tasks[u]
      BY <2>1, <2>2 DEF Spawned, Tasks
    <2>4. tasks'["drain"] = [todo |-> tasks'["drain"].todo, st |-> tasks["command"].st]
      BY <2>3
    <2>5. "drain" \in Tasks
      BY DEF Tasks
    <2> QED
      BY <1>0, <2>1, <2>2, <2>3, <2>4, <2>5, BasedSets
  <1> QED
    BY <1>1, <1>2, <1>3, <1>4, <1>5 DEF Commanded

\* Joins and drains.
LEMMA BasedOperation ==
  ASSUME Based, NEW t \in {"start", "join", "drain", "orphan"},
         \/ Joining(t) \/ JoinFails(t) \/ OpenFails \/ Draining(t) \/ DrainFails(t)
  PROVE  Based'
PROOF
  <1>0. /\ t \in Tasks /\ "join" \in Tasks /\ NoFile \in NodeState /\ tasks[t].st \in NodeState
        /\ file.seeds \in BOOLEAN /\ FALSE \in BOOLEAN
        /\ {"failed", "ready", "idle"} \subseteq Phases
    BY DEF Tasks, NoFile, NodeState, Based, Phases
  <1>1. CASE Enter(t) \/ _join_cluster(t) \/ _sync_data(t) \/ LeaveFailed(t) \/ Resume(t)
    BY <1>0, <1>1, BasedOnward DEF Enter, _join_cluster, _sync_data, LeaveFailed, Resume, At
  <1>2. CASE ToFailed(t) \/ ToReady(t)
    BY <1>0, <1>2, BasedPersists DEF ToFailed, ToReady
  <1>3. CASE Open(t)
    BY <1>0, <1>3, BasedOnward, BasedGoes DEF Open, At
  <1>4. CASE JoinFails(t)
    BY <1>0, <1>4, BasedGoes DEF JoinFails, At
  <1>5. CASE OpenFails
    BY <1>0, <1>5, BasedGoes DEF OpenFails, At
  <1>6. CASE Settle(t) \/ HandOff(t) \/ Close(t)
    BY <1>0, <1>6, BasedOnward DEF Settle, HandOff, Close, At
  <1>7. CASE ToIdle(t)
    BY <1>0, <1>7, BasedPersists, BasedOnward DEF ToIdle, At
  <1>8. CASE DrainFails(t)
    BY <1>0, <1>8, BasedGoes DEF DrainFails, At
  <1> QED
    BY <1>1, <1>2, <1>3, <1>4, <1>5, <1>6, <1>7, <1>8 DEF Joining, Draining

\* Only a command during start() overtakes it, and only the end of the process
\* puts that behind.
LEMMA Overtakes ==
  ASSUME [Next]_vars
  PROVE  overtaken' = overtaken \/ overtaken' = "now" \/ Down
PROOF
  <1>1. CASE Start \/ Starting \/ StartupError
    BY <1>1 DEF Start, Starting, StartupError, _load_or_create_state, _start_peer,
                _startup_joining, _startup_idle, StartReady, _startup_draining, ListenerRuns,
                Raised
  <1>2. CASE join \/ drain \/ Commanded
    BY <1>2 DEF join, drain, Accepted, Commanded, JoinLoads, JoinRefused, JoinPersists,
                JoinSpawns, DrainLoads, DrainPersists, DrainSpawns
  <1>3. ASSUME NEW t \in Tasks, Joining(t) \/ JoinFails(t) PROVE overtaken' = overtaken
    BY <1>3 DEF Joining, JoinFails, Enter, _join_cluster, _sync_data, ToFailed, LeaveFailed,
                ToReady, Resume, Open
  <1>4. ASSUME NEW t \in Tasks, Draining(t) \/ DrainFails(t) PROVE overtaken' = overtaken
    BY <1>4 DEF Draining, DrainFails, Settle, HandOff, Close, ToIdle
  <1>5. CASE OpenFails \/ stop \/ Hear \/ Alone
    BY <1>5 DEF OpenFails, stop, Hear, Alone
  <1>6. CASE Stopping \/ Crash
    BY <1>6 DEF Stopping, Crash, StopClient, Cancel, StopService, Shutdown
  <1>7. CASE UNCHANGED vars
    BY <1>7 DEF vars
  <1> QED
    BY <1>1, <1>2, <1>3, <1>4, <1>5, <1>6, <1>7 DEF Next, Tasks

\* The process ends.
LEMMA BasedDown ==
  ASSUME Based, Down
  PROVE  Based'
PROOF
  <1>1. Done = [todo |-> Done.todo, st |-> Done.st] /\ Done.st \in NodeState
    BY DEF Done, NoFile, NodeState
  <1>2. \A t \in Tasks : tasks'[t] = Done
    BY DEF Down
  <1>3. tasks' = [t \in Tasks |-> [todo |-> tasks'[t].todo, st |-> tasks'[t].st]]
    BY <1>1, <1>2 DEF Down
  <1>4. overtaken' # "now"
    BY DEF Down
  <1> QED
    BY <1>1, <1>2, <1>3, <1>4 DEF Based, Down

\* stop() and the topology.
LEMMA BasedStopping ==
  ASSUME Based, stop \/ Stopping \/ Crash \/ Hear \/ Alone
  PROVE  Based'
PROOF
  <1>0. /\ "stop" \in Tasks /\ tasks = [u \in Tasks |-> tasks[u]]
        /\ tasks["stop"] = [todo |-> tasks["stop"].todo, st |-> tasks["stop"].st]
    BY DEF Tasks, Based
  <1>1. ASSUME NEW todo, tasks' = [tasks EXCEPT !["stop"].todo = todo]
        PROVE  /\ tasks' = [u \in Tasks |-> tasks'[u]]
               /\ tasks'["stop"] = [todo |-> tasks'["stop"].todo, st |-> tasks["stop"].st]
               /\ \A u \in Tasks \ {"stop"} : tasks'[u] = tasks[u]
    <2>1. [tasks["stop"] EXCEPT !.todo = todo] = [todo |-> todo, st |-> tasks["stop"].st]
      BY <1>0
    <2>2. tasks' = [tasks EXCEPT !["stop"] = [todo |-> todo, st |-> tasks["stop"].st]]
      BY <1>0, <1>1, <2>1
    <2> QED
      BY <1>0, <2>2
  <1>2. CASE stop
    BY <1>0, <1>1, <1>2, BasedSets DEF stop
  <1>3. CASE StopClient \/ \E s \in {"stop_ae", "stop_gossip", "stop_peer"},
                              flag \in {"ae", "gossip", "peer"} : StopService(s, flag)
    BY <1>0, <1>3, BasedOnward DEF StopClient, StopService, At
  <1>4. CASE Cancel
    <2>1. tasks' = [tasks EXCEPT !["stop"].todo = Tail(@), !["join"] = Done, !["drain"] = Done]
          /\ UNCHANGED <<file, minted, up, said, overtaken>>
      BY <1>4 DEF Cancel
    <2> DEFINE todo == Tail(tasks["stop"].todo)
               w == [todo |-> todo, st |-> tasks["stop"].st]
    <2>2. tasks' = [tasks EXCEPT !["stop"].todo = todo, !["join"] = Done, !["drain"] = Done]
      BY <2>1
    <2> HIDE DEF todo
    <2>3. tasks' = [tasks EXCEPT !["stop"] = w, !["join"] = Done, !["drain"] = Done]
      <3>1. w = [tasks["stop"] EXCEPT !.todo = todo]
        BY <1>0
      <3> QED
        BY <1>0, <2>2, <3>1 DEF Tasks
    <2>4. w = [todo |-> w.todo, st |-> tasks["stop"].st]
      OBVIOUS
    <2> HIDE DEF w
    <2>5. /\ tasks' = [u \in Tasks |-> tasks'[u]] /\ tasks'["stop"] = w
          /\ tasks'["join"] = Done /\ tasks'["drain"] = Done
          /\ \A u \in Tasks \ {"stop", "join", "drain"} : tasks'[u] = tasks[u]
      BY <1>0, <2>3 DEF Tasks
    <2> QED
      BY <1>0, <2>1, <2>4, <2>5, BasedSets
  <1>5. CASE Shutdown \/ Crash
    BY <1>5, BasedDown DEF Shutdown, Crash
  <1>6. CASE Hear \/ Alone
    BY <1>6 DEF Hear, Alone, Based
  <1> QED
    BY <1>2, <1>3, <1>4, <1>5, <1>6 DEF Stopping

\* Every step keeps Based.
LEMMA BasedSteps ==
  ASSUME Based, [Next]_vars
  PROVE  Based'
PROOF
  <1>1. CASE UNCHANGED vars
    BY <1>1 DEF vars, Based
  <1> QED
    BY <1>1, BasedStarting, BasedCommand, BasedOperation, BasedStopping DEF Next

\* A process that ends leaves everything in order for the next one.
LEMMA DownFresh ==
  ASSUME Based, Down, overtaken = "now"
  PROVE  LifeInv'
PROOF
  <1>1. \A t \in Tasks : tasks'[t] = Done
    BY DEF Down
  <1>2. \A t \in Tasks : at(t)' = "done"
    BY <1>1, DoneScripted DEF at
  <1>3. Typed(tasks)'
    <2>1. tasks' = [t \in Tasks |-> tasks'[t]]
      BY <1>1 DEF Down
    <2> QED
      BY <1>1, <2>1, DoneScripted DEF Typed
  <1>4. pub' \in Records /\ pub'.phase = "none" /\ svc' \in Flags /\ ~svc'.peer
    BY DEF Down, Member, NoFile, Records, Services, Flags
  <1>5. Types' /\ Off' /\ Truthful'
    BY <1>2, <1>3, <1>4 DEF Types, Off, Truthful, Based, Down
  <1>6. Numbered'
    BY <1>4 DEF Numbered, Based, Down
  <1>7. Ops \subseteq Tasks /\ "stop" \in Tasks
    BY DEF Ops, Tasks
  <1>8. OneOp' /\ \A t \in Ops : at(t)' = "done"
    BY <1>2, <1>7 DEF OneOp
  <1> QED
    BY <1>5, <1>6, <1>8 DEF LifeInv

-----------------------------------------------------------------------------
(* Theorems *)

\* The invariant of the node, whatever was accepted when.
NodeInv == Based /\ (overtaken # "now" => LifeInv)

\* In a process in which no command overtook start(), one operation runs at a
\* time, with the NodeState in the file, and the step it has reached tells the
\* phase persisted, the record announced last and the services switched on. In
\* one where start() was overtaken the file still holds a NodeState, from which
\* the next process starts in order.
THEOREM LifeTheorem == Spec => []NodeInv
PROOF
  <1>1. Init => NodeInv
    <2> SUFFICES ASSUME Init PROVE NodeInv
      OBVIOUS
    <2>1. Done = [todo |-> Done.todo, st |-> Done.st] /\ Done.st \in NodeState
      BY DEF Done, NoFile, NodeState
    <2>2. tasks = [t \in Tasks |-> [todo |-> tasks[t].todo, st |-> tasks[t].st]]
          /\ \A t \in Tasks : tasks[t].st \in NodeState
      BY <2>1 DEF Init
    <2>3. Based
      BY <2>2 DEF Init, Based, NoFile, NodeState
    <2> QED
      BY <2>3, LifeStarts DEF NodeInv
  <1>2. NodeInv /\ [Next]_vars => NodeInv'
    <2> SUFFICES ASSUME NodeInv, [Next]_vars PROVE NodeInv'
      OBVIOUS
    <2>1. Based'
      BY BasedSteps DEF NodeInv
    <2>2. Stays
      BY Overtakes DEF Stays, Down
    <2>3. ASSUME overtaken # "now", overtaken' # "now" PROVE LifeInv'
      BY <2>2, <2>3, LifeSteps DEF NodeInv
    <2>4. ASSUME overtaken = "now", overtaken' # "now" PROVE LifeInv'
      BY <2>4, Overtakes, DownFresh DEF NodeInv
    <2> QED
      BY <2>1, <2>3, <2>4 DEF NodeInv
  <1> QED
    BY <1>1, <1>2, PTL DEF Spec

\* A join and a drain never run side by side and no drain is orphaned, however
\* commands, crashes, restarts and stop() interleave (join() and drain() behind
\* _membership_lock), in every process in which start() was not overtaken.
THEOREM OneOperationTheorem == Spec => []OneOperation
PROOF
  <1>1. NodeInv => OneOperation
    <2> SUFFICES ASSUME LifeInv PROVE OneOperation
      BY DEF NodeInv, OneOperation
    <2>1. ~Running("orphan")
      BY DEF LifeInv, Types, Typed, Scripted, Tasks, Running
    <2>2. ASSUME NEW t \in Ops, Running(t) PROVE at(t) # "done"
      <3>1. Scripted(t, tasks[t]) /\ tasks[t].todo # <<>>
        BY <2>2 DEF LifeInv, Types, Typed, Running, Ops, Tasks
      <3>2. \A p \in StartPrograms \cup CommandPrograms \cup JoinPrograms \cup DrainPrograms :
              p # <<>> => Head(p) # "done"
        BY DEF StartPrograms, StartJoinPrograms, StartFailPrograms, StartReadyPrograms,
               CommandPrograms, JoinPrograms, DrainPrograms
      <3>3. Head(<<"load">>) # "done"
        OBVIOUS
      <3> QED
        BY <3>1, <3>2, <3>3 DEF Scripted, Boots, Ops, at, LabelOf
    <2>3. \A t, u \in Ops : Running(t) /\ Running(u) => t = u
      BY <2>2 DEF LifeInv, OneOp
    <2> QED
      BY <2>1, <2>3 DEF OneOperation, is_draining, is_joining, At, Ops
  <1> QED
    BY <1>1, LifeTheorem, PTL

\* What the node announced last is what its store and its client listener do
\* (store.pause/resume/close against _publish_state), in every process in which
\* start() was not overtaken.
THEOREM ServiceTheorem == Spec => []ServiceMatchesPhase
PROOF
  <1>1. NodeInv => ServiceMatchesPhase
    BY DEF NodeInv, LifeInv, Truthful, ServiceMatchesPhase
  <1> QED
    BY <1>1, LifeTheorem, PTL

\* No two different records this node announces carry the same epoch, across any
\* number of restarts (_transition_to numbers after the state in the file), as
\* long as no command ever overtook start().
THEOREM EpochTheorem == Spec => []OneRecordPerEpoch
PROOF
  <1>1. NodeInv => OneRecordPerEpoch
    BY DEF NodeInv, LifeInv, Numbered, Ordered, Distinct, OneRecordPerEpoch
  <1> QED
    BY <1>1, LifeTheorem, PTL

=============================================================================
