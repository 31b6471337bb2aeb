------------------------------ MODULE HLCClock ------------------------------
(***************************************************************************)
(* HLCClock (core/models/clock.py): the hybrid logical clock that stamps    *)
(* every write. A timestamp is [wall_ms, counter]; the node id, which only *)
(* breaks ties between clocks, is left out. The time the operating system  *)
(* reports may stand still and may step back.                              *)
(***************************************************************************)
EXTENDS Integers

CONSTANTS
    MaxWall,       \* bound: times are 1..MaxWall
    MaxCounter,    \* bound on the counter
    MaxCalls       \* bound on the calls of tick and update

ASSUME ClockAssumption ==
    MaxWall \in Nat \ {0} /\ MaxCounter \in Nat /\ MaxCalls \in Nat

VARIABLES
    wall_ms, counter,  \* _wall_ms, _counter
    now_ms,            \* int(time.time() * 1000)
    calls,             \* history: how often tick and update were called
    returned,          \* history: the timestamps that tick and update returned
    observed           \* history: the timestamps given to update and restore

clock == <<wall_ms, counter>>
clockVars == <<wall_ms, counter, now_ms, calls, returned, observed>>

Walls  == 1..MaxWall
Stamps == [wall_ms : 0..MaxWall, counter : 0..MaxCounter]

Stamp(w, c) == [wall_ms |-> w, counter |-> c]

\* The order of HLCTimestamp.
Before(s, t) ==
    \/ s.wall_ms < t.wall_ms
    \/ s.wall_ms = t.wall_ms /\ s.counter < t.counter

AtMost(s, t) == Before(s, t) \/ s = t

\* snapshot
Current == Stamp(wall_ms, counter)

----------------------------------------------------------------------------

\* Mutant: a time step of zero does not count.
tickLoose ==
    /\ now_ms >= wall_ms \/ counter < MaxCounter
    /\ wall_ms' = IF now_ms >= wall_ms THEN now_ms ELSE wall_ms
    /\ counter' = IF now_ms >= wall_ms THEN 0 ELSE counter + 1

tick ==
    /\ now_ms > wall_ms \/ counter < MaxCounter
    /\ wall_ms' = IF now_ms > wall_ms THEN now_ms ELSE wall_ms
    /\ counter' = IF now_ms > wall_ms THEN 0 ELSE counter + 1

\* restore(w, c), for a clock that reads (wall, count).
Restored(wall, count, w, c) ==
    CASE w > wall -> Stamp(w, c)
      [] w = wall -> Stamp(wall, IF c > count THEN c ELSE count)
      [] OTHER    -> Stamp(wall, count)

\* update's counter, once its wall is max_wall.
Merged(max_wall, r) ==
    IF max_wall = wall_ms /\ max_wall = r.wall_ms
    THEN (IF r.counter > counter THEN r.counter ELSE counter) + 1
    ELSE IF max_wall = wall_ms THEN counter + 1
    ELSE IF max_wall = r.wall_ms THEN r.counter + 1
    ELSE 0

LargestOf(a, b, c) == CHOOSE m \in {a, b, c} : m >= a /\ m >= b /\ m >= c

----------------------------------------------------------------------------

\* tick or update returns what the clock now reads.
Return ==
    /\ calls < MaxCalls
    /\ calls' = calls + 1
    /\ returned' = returned \union {Stamp(wall_ms', counter')}
    /\ UNCHANGED now_ms

Tick ==
    /\ tick
    /\ Return
    /\ UNCHANGED observed

Update(r) ==
    /\ counter < MaxCounter /\ r.counter < MaxCounter
    /\ wall_ms' = LargestOf(now_ms, r.wall_ms, wall_ms)
    /\ counter' = Merged(wall_ms', r)
    /\ Return
    /\ observed' = observed \union {r}

Restore(r) ==
    LET s == Restored(wall_ms, counter, r.wall_ms, r.counter) IN
    /\ wall_ms' = s.wall_ms /\ counter' = s.counter
    /\ observed' = observed \union {r}
    /\ UNCHANGED <<now_ms, calls, returned>>

\* The operating system's clock moves, or is set back.
TimeMoves(n) ==
    /\ now_ms' = n
    /\ UNCHANGED <<clock, calls, returned, observed>>

ClockInit ==
    /\ wall_ms = 0 /\ counter = 0
    /\ now_ms \in Walls
    /\ calls = 0 /\ returned = {} /\ observed = {}

ClockNext ==
    \/ Tick
    \/ \E r \in Stamps : Update(r) \/ Restore(r)
    \/ \E n \in Walls : TimeMoves(n)

ClockSpec == ClockInit /\ [][ClockNext]_clockVars

----------------------------------------------------------------------------
(* Properties *)

\* Type correctness.
ClockTypeOK ==
    /\ wall_ms \in 0..MaxWall /\ counter \in 0..MaxCounter
    /\ now_ms \in Walls
    /\ calls \in 0..MaxCalls
    /\ returned \subseteq Stamps /\ observed \subseteq Stamps

\* The clock reads at least every timestamp it returned or was shown.
ClockAhead == \A s \in returned \union observed : AtMost(s, Current)

\* Each call of tick or update returns a timestamp greater than every one
\* returned before and than every one the clock was shown, whatever the
\* operating system's clock does (the guarantee HLCClock states for both).
StrictlyIncreasing ==
    [][calls' # calls =>
          \A s \in returned \union observed' : Before(s, Current')]_clockVars

============================================================================
