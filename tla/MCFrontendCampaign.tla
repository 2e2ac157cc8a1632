------------------------- MODULE MCFrontendCampaign -------------------------
(* Two missions open from the start, a third behind the first.             *)
EXTENDS FrontendCampaign

MCMissions == {1, 2, 3}
MCPrerequisites == [m \in MCMissions |-> IF m = 3 THEN {1} ELSE {}]
MCObjectiveCount == [m \in MCMissions |-> 1]
=============================================================================
