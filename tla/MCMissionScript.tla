--------------------------- MODULE MCMissionScript ---------------------------
(* Four sub-missions whose conditions jump forward, one of them onto       *)
(* another condition; one on counter 0, which means none, points back.     *)
EXTENDS MissionScript, TLC

Plain == [tag |-> 0]
When(counter, comparison, threshold, target) ==
    [tag |-> 7, counter |-> counter, comparison |-> comparison,
     threshold |-> threshold, target |-> target]
Sub(steps) == [count |-> Len(steps), steps |-> steps]

MCScript ==
    (0 :> Sub(<<Plain, When(1, "AtLeast", 1, 2)>>))
    @@ (1 :> Sub(<<Plain, Plain, When(0, "Equal", 0, 3)>>))
    @@ (2 :> Sub(<<When(2, "AtMost", 0, 3), Plain>>))
    @@ (3 :> Sub(<<Plain, When(0, "Equal", 0, 3)>>))

MCOrders ==
    {[counter |-> 1, operation |-> "AddLiteral", literal |-> 1],
     [counter |-> 1, operation |-> "RandomOneToLiteral", literal |-> 2],
     [counter |-> 2, operation |-> "SetLiteral", literal |-> 1],
     [counter |-> 2, operation |-> "AddLiteral", literal |-> -1],
     [counter |-> 0, operation |-> "SetLiteral", literal |-> 1]}

\* This script meets the hypotheses of the theorems in ProductProofs.
ASSUME ScriptHypotheses ==
    /\ SubMissions # {} /\ WellFormed
    /\ ConditionsJumpForward /\ FewConditions
=============================================================================
