----------------------- MODULE MCCampaignProgression -----------------------
(* Three missions: the first opens the second, both open the third.        *)
EXTENDS CampaignProgression

MCMissions == {1, 2, 3}
MCPrerequisites == [m \in MCMissions |-> {p \in MCMissions : p < m}]
MCObjectiveCount == [m \in MCMissions |-> IF m = 2 THEN 2 ELSE 1]
=============================================================================
