----------------------------- MODULE CampaignOps -----------------------------
(***************************************************************************)
(* The methods of class CampaignProgression (src/campaign_progression.cpp) *)
(* as operators on the table of mission statuses.  The table of missions   *)
(* that finalize() accepted is constant.  The module has no variables: the *)
(* campaign itself (CampaignProgression), the frontend that drives it      *)
(* (FrontendCampaign), the mission that reports to it (MissionExecution)   *)
(* and the session that saves it (RetailSession) apply these operators to  *)
(* a status table of their own.                                            *)
(***************************************************************************)
EXTENDS Integers, FiniteSets

CONSTANTS
    Missions,        \* the mission ids of the finalized table
    Prerequisites,   \* Prerequisites[m]: the missions to be won before m
    ObjectiveCount,  \* ObjectiveCount[m]: objective_count of m's row
    Loadouts,        \* the loadouts for which CampaignLoadout::valid() holds
    NoLoadout        \* the default CampaignLoadout, which is not valid

ASSUME MissionsAssumption == IsFiniteSet(Missions) /\ Missions # {}

\* finalize() refuses an unknown prerequisite and a cycle of prerequisites.
ASSUME PrerequisitesAssumption ==
    /\ Prerequisites \in [Missions -> SUBSET Missions]
    /\ \A S \in SUBSET Missions :
          S # {} => \E m \in S : Prerequisites[m] \cap S = {}

ASSUME ObjectiveCountAssumption == ObjectiveCount \in [Missions -> 1..32]

ASSUME LoadoutsAssumption == NoLoadout \notin Loadouts

MissionState ==
    {"Locked", "Available", "Briefing", "Active", "Completed", "Failed"}

\* The states snapshot() records; restore() recomputes the other two.
Recorded == {"Briefing", "Active", "Completed", "Failed"}

\* objective_mask as the set of its bits, of which m uses the first ones.
Bits == 0..31
Objectives(m) == 0 .. ObjectiveCount[m] - 1

MissionStatus ==
    [state : MissionState, mask : SUBSET Bits, loadout : Loadouts \cup {NoLoadout}]

\* A snapshot is a function on the missions it records.
IsSnapshot(x) == \E D \in SUBSET Missions : x \in [D -> MissionStatus]

-----------------------------------------------------------------------------
\* Mutant: comparing with >= on the enum also accepts a lost prerequisite.
PrerequisitesPlayed(s, m) ==
    \A p \in Prerequisites[m] : s[p].state \in {"Completed", "Failed"}

PrerequisitesComplete(s, m) ==
    \A p \in Prerequisites[m] : s[p].state = "Completed"

\* One pass is enough: becoming Available completes nobody's prerequisite.
RefreshUnlocks(s) ==
    [m \in Missions |->
        IF s[m].state = "Locked" /\ PrerequisitesComplete(s, m)
        THEN [s[m] EXCEPT !.state = "Available"]
        ELSE s[m]]

AllLocked ==
    [m \in Missions |-> [state |-> "Locked", mask |-> {}, loadout |-> NoLoadout]]

\* What finalize() leaves.
Fresh == RefreshUnlocks(AllLocked)

IsAvailable(s, m) == s[m].state = "Available"

CanSetLoadout(s, m, l) == l \in Loadouts /\ s[m].state \in {"Available", "Briefing"}
WithLoadout(s, m, l) == [s EXCEPT ![m].loadout = l]

CanEnterBriefing(s, m) == s[m].state = "Available"
Briefed(s, m) == [s EXCEPT ![m].state = "Briefing"]

\* Mutant: begin() forgets the loadout.
CanBeginUnarmed(s, m) == s[m].state = "Briefing"

CanBegin(s, m) == s[m].state = "Briefing" /\ s[m].loadout \in Loadouts
Begun(s, m) == [s EXCEPT ![m].state = "Active"]

\* Mutant: the index is compared with > instead of >=.
CanCompleteOnePast(s, m, i) == s[m].state = "Active" /\ i \in 0 .. ObjectiveCount[m]

CanCompleteObjective(s, m, i) == s[m].state = "Active" /\ i \in Objectives(m)

\* Mutant: = instead of |=.
ObjectiveOverwritten(s, m, i) == [s EXCEPT ![m].mask = {i}]

ObjectiveCompleted(s, m, i) == [s EXCEPT ![m].mask = @ \cup {i}]

CanComplete(s, m) == s[m].state = "Active" /\ s[m].mask = Objectives(m)

\* Mutant: complete() without the refresh of the unlocks.
WonQuietly(s, m) == [s EXCEPT ![m].state = "Completed"]

Won(s, m) == RefreshUnlocks([s EXCEPT ![m].state = "Completed"])

CanFail(s, m) == s[m].state = "Active"
Lost(s, m) == [s EXCEPT ![m].state = "Failed"]

-----------------------------------------------------------------------------
\* Mutant: the first format, which recorded the won missions only.
SnapshotOfWon(s) == [m \in {n \in Missions : s[n].state = "Completed"} |-> s[m]]

SnapshotOf(s) == [m \in {n \in Missions : s[n].state \in Recorded} |-> s[m]]

\* What restore() checks before it changes anything.
Restorable(snapshot) ==
    /\ DOMAIN snapshot \subseteq Missions
    /\ \A m \in DOMAIN snapshot :
          /\ snapshot[m].mask \subseteq Objectives(m)
          /\ snapshot[m].state \in Recorded
          /\ snapshot[m].state = "Completed" => snapshot[m].mask = Objectives(m)
          /\ snapshot[m].state = "Active" => snapshot[m].loadout \in Loadouts

Restored(snapshot) ==
    RefreshUnlocks([m \in Missions |->
        IF m \in DOMAIN snapshot THEN snapshot[m] ELSE AllLocked[m]])
=============================================================================
