------------------------------ MODULE ScriptOps ------------------------------
(***************************************************************************)
(* The mission script (class MissionScriptRunner,                          *)
(* src/retail_mission_script.cpp) and its counters (class                  *)
(* SubMissionSequencer, src/retail_mission_state.cpp) as operators on a    *)
(* cursor c = [sub, step, current, ended] and a sequencer                  *)
(* q = [sub, counters].  A script that ran out has no current step;        *)
(* ScriptAdvance::Exhausted is ~c.current after a call.  Time stamps and   *)
(* the auto_advance mode, which no caller turns on, are left out.          *)
(***************************************************************************)
EXTENDS Integers, Sequences, FiniteSets

CONSTANTS
    Script,      \* Script[s] = [count, steps], s the sub-missions from 0
    Counters,    \* the ids of the counter table; 0 is in it
    Orders,      \* flag orders: [counter, operation, literal]
    MaxHops,     \* bound for kMaxHops = 4096
    MaxCounter   \* bound: counters stay within -MaxCounter..MaxCounter

SubMissions == DOMAIN Script
SubMissionCount == IF SubMissions = {} THEN 0 ELSE 1 + CHOOSE s \in SubMissions : s + 1 \notin SubMissions

\* A step is its tag; tag 7 is a condition.
ScriptStep ==
    [tag : Nat \ {7}]
    \cup [tag : {7}, counter : Counters, comparison : {"Equal", "AtMost", "AtLeast"},
          threshold : Int, target : SubMissions]

\* What the parser accepts: a condition names a counter and a sub-mission that
\* exist.  It does not compare the count byte with the number of steps.
ASSUME ScriptAssumption ==
    /\ SubMissionCount \in Nat /\ SubMissions = 0 .. SubMissionCount - 1
    /\ \A s \in SubMissions : Script[s].count \in Nat /\ Script[s].steps \in Seq(ScriptStep)
    /\ \A order \in Orders : order.counter \in Counters
    /\ MaxHops \in Nat /\ MaxCounter \in Nat

\* The count byte of every sub-mission is its number of steps, and not zero, as
\* in the missions on the disc.
WellFormed ==
    \A s \in SubMissions : Script[s].count = Len(Script[s].steps) /\ Script[s].count > 0

\* Conditions that only jump to later sub-missions; one on counter 0 never jumps.
ConditionsJumpForward ==
    \A s \in SubMissions : \A i \in DOMAIN Script[s].steps :
        LET step == Script[s].steps[i]
        IN step.tag = 7 /\ step.counter # 0 => step.target > s

\* Sub-missions that begin with a plain step.
StartsPlain(s) == Script[s].steps[1].tag # 7
AllStartPlain == \A s \in SubMissions : StartsPlain(s)

\* Some condition, when it is satisfied, leads past sub-mission i from before it.
CanBeSkipped(i) ==
    \E s \in SubMissions : s < i /\ \E j \in DOMAIN Script[s].steps :
        LET step == Script[s].steps[j]
        IN step.tag = 7 /\ step.counter # 0 /\ step.target > i

\* Where the script has conditions, which are no more than the bound on the hops.
Conditions ==
    UNION {{<<s, i>> : i \in {j \in DOMAIN Script[s].steps : Script[s].steps[j].tag = 7}} :
              s \in SubMissions}
FewConditions == Cardinality(Conditions) <= MaxHops

Cursor == [sub : Nat, step : Nat, current : BOOLEAN, ended : BOOLEAN]
Sequencer == [sub : Nat, counters : [Counters -> -MaxCounter..MaxCounter]]

StartOfScript == [sub |-> 0, step |-> 0, current |-> FALSE, ended |-> FALSE]
NewSequencer == [sub |-> 0, counters |-> [id \in Counters |-> 0]]

HasStep(sub, step) == sub \in SubMissions /\ step < Len(Script[sub].steps)

\* dispatch_step(): the step becomes current unless the table has no such step.
At(c, sub, step) ==
    [c EXCEPT !.sub = sub, !.step = step, !.current = HasStep(sub, step)]

\* Mutant: the step survives the change of sub-mission.
AdvanceKeepingStep(c) ==
    LET step == IF c.current \/ c.sub # 0 \/ c.step # 0 THEN c.step + 1 ELSE 0
    IN IF c.sub \in SubMissions /\ step >= Script[c.sub].count
       THEN At(c, c.sub + 1, step)
       ELSE At(c, c.sub, step)

\* advance(): all zero only at the entry, which runs step 0 without a move.
Advance(c) ==
    LET step == IF c.current \/ c.sub # 0 \/ c.step # 0 THEN c.step + 1 ELSE 0
    IN IF c.sub \in SubMissions /\ step >= Script[c.sub].count
       THEN At(c, c.sub + 1, 0)
       ELSE At(c, c.sub, step)

Select(c, sub) == At(c, sub, 0)

Finished(c) == [c EXCEPT !.ended = @ \/ ~c.current]

-----------------------------------------------------------------------------
(* Counter conditions.                                                     *)

CurrentStep(c) == Script[c.sub].steps[c.step + 1]
AtCondition(c) == c.current /\ CurrentStep(c).tag = 7

\* Mutant: counter 0 is a counter like any other.
SatisfiedAnyCounter(step, counters) ==
    LET value == counters[step.counter]
    IN \/ step.comparison = "Equal" /\ value = step.threshold
       \/ step.comparison = "AtMost" /\ value <= step.threshold
       \/ step.comparison = "AtLeast" /\ value >= step.threshold

\* evaluate(): counter 0 means that the step has no condition.
Satisfied(step, counters) ==
    /\ step.counter # 0
    /\ LET value == counters[step.counter]
       IN \/ step.comparison = "Equal" /\ value = step.threshold
          \/ step.comparison = "AtMost" /\ value <= step.threshold
          \/ step.comparison = "AtLeast" /\ value >= step.threshold

Hop(c, counters) ==
    IF Satisfied(CurrentStep(c), counters)
    THEN Select(c, CurrentStep(c).target)
    ELSE Advance(c)

\* One turn of the loop.  (As a mutant of Resolved: a target that is itself a
\* condition is not followed.)
Followed(c, counters) == IF AtCondition(c) THEN Hop(c, counters) ELSE c

\* resolve_tag7_conditions(): hop until the step is no condition, the script
\* has run out or the bound is reached.  (hopped[n] is a singleton: a bound
\* variable is evaluated once.)
Resolved(c, counters) ==
    LET hopped[n \in 0..MaxHops] ==
            IF n = 0 THEN {c} ELSE {Followed(b, counters) : b \in hopped[n - 1]}
    IN CHOOSE b \in hopped[MaxHops] : TRUE

\* The script's share of advance_script(): drive_frame(), then the conditions.
Driven(c, counters) ==
    LET moved == Advance(c)
    IN Finished(IF moved.current THEN Resolved(moved, counters) ELSE moved)

\* start() and the first resolution, as a session opens: an empty first
\* sub-mission leaves the script without a step but not ended.
Entered(counters) ==
    LET first == Advance(StartOfScript)
    IN IF first.current THEN Finished(Resolved(first, counters)) ELSE first

-----------------------------------------------------------------------------
\* SubMissionSequencer::apply() of a flag order: the values it may leave.  The
\* remainder of the random draw has the sign of the draw.
Results(order, value) ==
    CASE order.operation = "SetLiteral" -> {order.literal}
      [] order.operation = "AddLiteral" -> {value + order.literal}
      [] order.operation = "RandomOneToLiteral" ->
            IF order.literal = 0 THEN {}
            ELSE {r + 1 : r \in 1 - order.literal .. order.literal - 1}
      [] OTHER -> {value}

\* restore_cursor() and SubMissionSequencer::restore() accept the position.
CursorRestorable(c) ==
    IF c.ended /\ c.sub = SubMissionCount THEN c.step = 0
    ELSE HasStep(c.sub, c.step) /\ c.step < Script[c.sub].count

SequencerRestorable(q) ==
    q.sub = SubMissionCount \/ HasStep(q.sub, 0)

RestoredCursor(c) == [c EXCEPT !.current = ~c.ended]
=============================================================================
