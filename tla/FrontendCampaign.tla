-------------------------- MODULE FrontendCampaign --------------------------
(***************************************************************************)
(* The product frontend driving a campaign, and one mission at a time in   *)
(* flight: FrontendController, CampaignProgression and the parts of        *)
(* MissionExecution the two of them see (src/frontend_runtime.cpp,         *)
(* src/product_runtime.cpp).  The flight itself is MissionExecution's      *)
(* subject; here it earns objectives, ends, and is rewound to a checkpoint *)
(* (Back, in a retail session).  The campaign hears of the end, or does    *)
(* not (a failed ProtectUnit objective ends the mission without a word to  *)
(* the campaign: product_runtime.cpp:141-164), and never of a rewind.      *)
(***************************************************************************)
EXTENDS FrontendOps

VARIABLES
    frontend,   \* the FrontendController
    status,     \* the campaign's table
    flight,     \* the caller's MissionExecution, or NoFlight
    checkpoint  \* the flight as the caller's checkpoint holds it, or NoFlight

vars == <<frontend, status, flight, checkpoint>>

NoFlight == [mission |-> NoMission, outcome |-> "InProgress"]   \* not launched

Init ==
    /\ frontend = TitleScreen
    /\ status = Fresh
    /\ flight = NoFlight
    /\ checkpoint = NoFlight

-----------------------------------------------------------------------------
(* The screens.                                                            *)

Advance ==
    /\ CanAdvance(frontend, status)
    /\ frontend' = Advanced(frontend)
    /\ status' = CampaignAdvanced(frontend, status)
    /\ UNCHANGED <<flight, checkpoint>>

SelectMission(m) ==
    /\ CanSelect(frontend, status, m)
    /\ frontend' = Selected(frontend, m)
    /\ UNCHANGED <<status, flight, checkpoint>>

SetLoadout(l) ==
    /\ CanLoadHangar(frontend, status, l)
    /\ status' = WithLoadout(status, frontend.selected, l)
    /\ UNCHANGED <<frontend, flight, checkpoint>>

Pause ==
    /\ CanPause(frontend)
    /\ frontend' = To(frontend, "Pause")
    /\ UNCHANGED <<status, flight, checkpoint>>

Resume ==
    /\ CanResume(frontend)
    /\ frontend' = To(frontend, "Mission")
    /\ UNCHANGED <<status, flight, checkpoint>>

\* dispatch(Abort), from any screen: the campaign is not told.
AbortToTitle ==
    /\ frontend' = TitleScreen
    /\ UNCHANGED <<status, flight, checkpoint>>

FailScreen ==
    /\ CanFailScreen(frontend)
    /\ frontend' = To(frontend, "Error")
    /\ UNCHANGED <<status, flight, checkpoint>>

Recover ==
    /\ CanRecover(frontend)
    /\ frontend' = TitleScreen
    /\ UNCHANGED <<status, flight, checkpoint>>

EnterDebrief ==
    /\ flight # NoFlight
    /\ CanDebrief(frontend, status, flight.mission, flight.outcome)
    /\ frontend' = Debriefed(frontend, flight.mission, flight.outcome)
    /\ UNCHANGED <<status, flight, checkpoint>>

ReturnToCampaign ==
    /\ CanReturn(frontend)
    /\ frontend' = Returned(frontend)
    /\ UNCHANGED <<status, flight, checkpoint>>

-----------------------------------------------------------------------------
(* The flight.                                                             *)

\* Mutant: launch() does not look at the campaign.
LaunchesAnything(s, m) == TRUE

\* MissionExecution::launch() refuses a mission the campaign has not begun.
Launches(s, m) == s[m].state = "Active"

\* The caller's execution is launched, again or in the place of an earlier one.
LaunchSelected ==
    /\ frontend.state = "Mission" /\ frontend.selected # NoMission
    /\ Launches(status, frontend.selected)
    /\ flight' = [mission |-> frontend.selected, outcome |-> "InProgress"]
    /\ UNCHANGED <<frontend, status, checkpoint>>

InFlight == flight # NoFlight /\ flight.outcome = "InProgress"

\* complete_objective() asks the campaign, not the HSM.
FlightEarns(i) ==
    /\ flight # NoFlight
    /\ CanCompleteObjective(status, flight.mission, i)
    /\ status' = ObjectiveCompleted(status, flight.mission, i)
    /\ UNCHANGED <<frontend, flight, checkpoint>>

FlightWon ==
    /\ InFlight
    /\ CanComplete(status, flight.mission)
    /\ status' = Won(status, flight.mission)
    /\ flight' = [flight EXCEPT !.outcome = "Success"]
    /\ UNCHANGED <<frontend, checkpoint>>

\* fail_objective() aborts a flight that has ended already, too.
FlightLost ==
    /\ flight # NoFlight
    /\ CanFail(status, flight.mission)
    /\ status' = Lost(status, flight.mission)
    /\ flight' = [flight EXCEPT !.outcome = "Failure"]
    /\ UNCHANGED <<frontend, checkpoint>>

FlightLostUnreported ==
    /\ flight # NoFlight
    /\ flight' = [flight EXCEPT !.outcome = "Failure"]
    /\ UNCHANGED <<frontend, status, checkpoint>>

SaveCheckpoint ==
    /\ flight # NoFlight
    /\ checkpoint' = flight
    /\ UNCHANGED <<frontend, status, flight>>

\* restore_checkpoint() rewinds the flight; the campaign keeps what it knows.
RestoreCheckpoint ==
    /\ flight # NoFlight /\ checkpoint.mission = flight.mission
    /\ flight' = checkpoint
    /\ UNCHANGED <<frontend, status, checkpoint>>

Next ==
    \/ Advance
    \/ \E m \in Missions : SelectMission(m)
    \/ \E l \in Loadouts : SetLoadout(l)
    \/ Pause \/ Resume \/ AbortToTitle \/ FailScreen \/ Recover
    \/ EnterDebrief \/ ReturnToCampaign
    \/ LaunchSelected
    \/ \E m \in Missions : \E i \in Objectives(m) : FlightEarns(i)
    \/ FlightWon \/ FlightLost \/ FlightLostUnreported
    \/ SaveCheckpoint \/ RestoreCheckpoint

Spec == Init /\ [][Next]_vars

-----------------------------------------------------------------------------
\* Well-formedness of the three parts: the screens of a mission have a mission
\* selected, and a debrief does not outlive its screen.
TypeOK ==
    /\ frontend \in Frontend
    /\ status \in [Missions -> MissionStatus]
    /\ {flight, checkpoint} \subseteq [mission : Missions \cup {NoMission}, outcome : Outcome]
    /\ frontend.state \notin {"Title", "NewGame", "Error"} => frontend.selected # NoMission
    /\ frontend.debrief # NoDebrief => frontend.state \in {"Debrief", "Error"}

\* Whatever the screens do meanwhile (abort, error, another selection), the
\* result of the mission in flight can still be recorded, unless the campaign
\* has closed the mission and the flight is one rewound to the checkpoint
\* (launch() against begin(), product_runtime.cpp:382-390; restore_checkpoint).
FlightIsRecordable ==
    InFlight =>
        \/ status[flight.mission].state = "Active"
        \/ status[flight.mission].state \in {"Completed", "Failed"} /\ checkpoint = flight

\* A debrief on the screen tells what the campaign recorded
\* (enter_debrief, frontend_runtime.cpp:131-136).
DebriefMatchesCampaign ==
    frontend.state = "Debrief" =>
        LET result == frontend.debrief
        IN status[result.mission].state =
              IF result.outcome = "Success" THEN "Completed" ELSE "Failed"

\* Screens, selection and debrief are in range and in agreement with what the
\* campaign recorded.
ScreensAgree == TypeOK /\ DebriefMatchesCampaign

\* A mission is begun only out of its own briefing, from the hangar and with a
\* loadout, however often the selection changes on the way, and nothing but the
\* end of its flight takes it out of Active.
ActiveOnlyByRoute ==
    [][\A m \in Missions :
          /\ status[m].state # "Active" /\ status'[m].state = "Active" =>
                /\ status[m].state = "Briefing" /\ status[m].loadout \in Loadouts
                /\ frontend.state = "Hangar" /\ frontend.selected = m
          /\ status[m].state = "Active" /\ status'[m].state # "Active" =>
                flight.mission = m /\ flight'.outcome # "InProgress"]_vars

\* "enforce available mission selection, briefing, Hangar loadout and Active
\* state before entering Mission" (README.md:478-480): the mission screen is
\* entered for a mission the campaign holds Active.
MissionScreenIsActive ==
    [][frontend.state = "Loading" /\ frontend'.state = "Mission" =>
          status[frontend.selected].state = "Active"]_vars
=============================================================================
