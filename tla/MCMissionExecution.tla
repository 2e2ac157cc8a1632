------------------------- MODULE MCMissionExecution -------------------------
(* A player and an enemy that arrives as a wave, with one checkpoint: a    *)
(* required objective worked by the sequence and by hand, one to destroy   *)
(* the enemy.                                                              *)
EXTENDS MissionExecution, TLC

MCMissions == {1}
MCPrerequisites == [m \in MCMissions |-> {}]
MCObjectiveCount == [m \in MCMissions |-> 2]
MCFaction == [u \in Units |-> IF u = "player" THEN 1 ELSE 2]

Row(condition, target) ==
    [required |-> TRUE, condition |-> condition, target |-> target]
MCRows == (0 :> Row("Manual", NoUnit)) @@ (1 :> Row("DestroyUnit", "wave"))

Event(tick, type, id) == [tick |-> tick, type |-> type, id |-> id]
MCEvents == <<Event(1, "ActivateObjective", 0), Event(2, "CompleteObjective", 0)>>
MCWaves == {[tick |-> 1, unit |-> "wave"]}
MCAiRules == <<[first |-> 1, period |-> 2, entity |-> "wave", target |-> "player"]>>
=============================================================================
