--------------------------- MODULE MCRetailSession ---------------------------
(* One mission of three sub-missions, a player and one enemy.              *)
EXTENDS RetailSession, TLC

MCMissions == {1}
MCPrerequisites == [m \in MCMissions |-> {}]
MCFaction == [u \in Units |-> IF u = "player" THEN 1 ELSE 2]
NoEvents == <<>>
NoWaves == {}
NoRules == <<>>

Plain == [tag |-> 0]
Sub(steps) == [count |-> Len(steps), steps |-> steps]

\* A condition leaves the first sub-mission early, past the second.
EarlyScript ==
    (0 :> Sub(<<Plain,
                [tag |-> 7, counter |-> 1, comparison |-> "Equal", threshold |-> 1,
                 target |-> 2],
                Plain>>))
    @@ (1 :> Sub(<<Plain>>)) @@ (2 :> Sub(<<Plain>>))
ScriptRows ==
    [i \in DOMAIN EarlyScript |->
        [required |-> TRUE, condition |-> "Manual", target |-> "none"]]
MCObjectiveCount == [m \in MCMissions |-> 3]

MCOrders ==
    {[counter |-> 1, operation |-> "AddLiteral", literal |-> 1],
     [counter |-> 1, operation |-> "SetLiteral", literal |-> 0]}

\* This script meets the hypotheses of the theorems in ProductProofs.
ASSUME SessionHypotheses == WellFormed /\ ConditionsJumpForward /\ AllStartPlain
=============================================================================
