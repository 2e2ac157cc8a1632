----------------------------- MODULE FrontendOps -----------------------------
(***************************************************************************)
(* The methods of class FrontendController bound to a campaign             *)
(* (src/frontend_runtime.cpp), as operators on the controller's state      *)
(* f = [state, selected, debrief] and on the campaign's table s.           *)
(* Settings, which only configure() touches, are left out.                 *)
(***************************************************************************)
EXTENDS CampaignOps

CONSTANT NoMission   \* selected_mission_ = 0
ASSUME NoMissionAssumption == NoMission \notin Missions

FrontendState == {"Title", "NewGame", "Briefing", "Hangar", "Loading",
                  "Mission", "Pause", "Debrief", "Error"}

Outcome == {"InProgress", "Success", "Failure"}

NoDebrief == [mission |-> NoMission, outcome |-> "InProgress"]   \* debrief_ is empty

Frontend == [state : FrontendState, selected : Missions \cup {NoMission},
             debrief : [mission : Missions \cup {NoMission}, outcome : Outcome]]

TitleScreen == [state |-> "Title", selected |-> NoMission, debrief |-> NoDebrief]

To(f, screen) == [f EXCEPT !.state = screen]

-----------------------------------------------------------------------------
NextScreen == [Title |-> "NewGame", NewGame |-> "Briefing", Briefing |-> "Hangar",
               Hangar |-> "Loading", Loading |-> "Mission"]

\* Mutant: the hangar is left without asking the campaign.
CanAdvanceUnarmed(f, s) ==
    /\ f.state \in DOMAIN NextScreen
    /\ f.state = "NewGame" =>
          f.selected # NoMission /\ CanEnterBriefing(s, f.selected)
    /\ f.state = "Hangar" => f.selected # NoMission

\* advance(): entering the briefing and leaving the hangar ask the campaign.
CanAdvance(f, s) ==
    /\ f.state \in DOMAIN NextScreen
    /\ f.state = "NewGame" =>
          f.selected # NoMission /\ CanEnterBriefing(s, f.selected)
    /\ f.state = "Hangar" => f.selected # NoMission /\ CanBegin(s, f.selected)
Advanced(f) == To(f, NextScreen[f.state])
CampaignAdvanced(f, s) ==
    CASE f.state = "NewGame" -> Briefed(s, f.selected)
      [] f.state = "Hangar"  -> Begun(s, f.selected)
      [] OTHER -> s

\* Any screen: select_mission() has no check of the state.
CanSelect(f, s, m) == IsAvailable(s, m)
Selected(f, m) == [f EXCEPT !.selected = m]

CanLoadHangar(f, s, l) ==
    f.state = "Hangar" /\ f.selected # NoMission /\ CanSetLoadout(s, f.selected, l)

CanPause(f) == f.state = "Mission"
CanResume(f) == f.state = "Pause"
CanFailScreen(f) == f.state # "Error"
CanRecover(f) == f.state = "Error"

\* Mutant: a debrief that does not wait for the campaign.
CanDebriefUnchecked(f, s, mission, outcome) ==
    /\ f.state = "Mission" /\ f.selected # NoMission
    /\ mission = f.selected /\ outcome # "InProgress"

\* enter_debrief() of an execution whose debrief() is (mission, outcome).
CanDebrief(f, s, mission, outcome) ==
    /\ f.state = "Mission" /\ f.selected # NoMission
    /\ mission = f.selected /\ outcome # "InProgress"
    /\ s[mission].state = IF outcome = "Success" THEN "Completed" ELSE "Failed"
Debriefed(f, mission, outcome) ==
    [To(f, "Debrief") EXCEPT !.debrief = [mission |-> mission, outcome |-> outcome]]

CanReturn(f) == f.state = "Debrief" /\ f.debrief # NoDebrief
Returned(f) == To(TitleScreen, "NewGame")
=============================================================================
