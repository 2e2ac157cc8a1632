---------------------------- MODULE FrontendProofs ----------------------------
(***************************************************************************)
(* The properties of FrontendCampaign, proved for every finalized table of *)
(* missions and every set of loadouts.                                     *)
(*                                                                         *)
(* The proofs rest on one lemma, StatusMoves: a step changes the state of  *)
(* a mission along the campaign's route only, begins it from the hangar    *)
(* with the mission selected, and ends it with the flight of that mission. *)
(* With it the screens may do what they like: a mission in flight stays    *)
(* Active until its end is recorded, a flight in progress after that is    *)
(* one rewound to the checkpoint, and a result that is on the screen stays *)
(* recorded.                                                               *)
(***************************************************************************)
EXTENDS FrontendCampaign, TLAPS

\* A debrief is on the screen only with a mission of the campaign in it.
DebriefNamesMission ==
    frontend.state = "Debrief" =>
        frontend.debrief.mission \in Missions /\ frontend.debrief.outcome # "InProgress"

FlightNamesMission ==
    /\ flight # NoFlight => flight.mission \in Missions
    /\ checkpoint # NoFlight => checkpoint.mission \in Missions

\* A checkpoint of a flight in progress is of a mission begun once.
CheckpointIsBegun ==
    checkpoint # NoFlight =>
        status[checkpoint.mission].state \in {"Active", "Completed", "Failed"}

\* A flight, however it ended, is of a mission begun once.
FlightIsBegun ==
    flight # NoFlight =>
        status[flight.mission].state \in {"Active", "Completed", "Failed"}

IInv == TypeOK /\ DebriefMatchesCampaign /\ DebriefNamesMission
               /\ FlightNamesMission /\ CheckpointIsBegun /\ FlightIsBegun
               /\ FlightIsRecordable

\* What one step may do to the state of mission m.
Moved(m) ==
    \/ status'[m].state = status[m].state
    \/ status[m].state = "Locked" /\ status'[m].state = "Available"
    \/ status[m].state = "Available" /\ status'[m].state = "Briefing"
    \/ /\ status[m].state = "Briefing" /\ status'[m].state = "Active"
       /\ frontend.state = "Hangar" /\ frontend.selected = m
       /\ status[m].loadout \in Loadouts
    \/ /\ status[m].state = "Active" /\ status'[m].state \in {"Completed", "Failed"}
       /\ flight.mission = m /\ flight'.outcome # "InProgress"

-----------------------------------------------------------------------------
\* A refresh opens locked missions and does nothing else (refresh_unlocks).
LEMMA RefreshOpens ==
    ASSUME NEW s \in [Missions -> MissionStatus]
    PROVE  /\ RefreshUnlocks(s) \in [Missions -> MissionStatus]
           /\ \A m \in Missions :
                 \/ RefreshUnlocks(s)[m] = s[m]
                 \/ s[m].state = "Locked" /\ RefreshUnlocks(s)[m].state = "Available"
<1> DEFINE r == RefreshUnlocks(s)
<1>1. ASSUME NEW m \in Missions
      PROVE  /\ r[m] \in MissionStatus
             /\ \/ r[m] = s[m]
                \/ s[m].state = "Locked" /\ r[m].state = "Available"
  <2>1. r[m] = IF s[m].state = "Locked" /\ PrerequisitesComplete(s, m)
               THEN [s[m] EXCEPT !.state = "Available"] ELSE s[m]
    BY DEF RefreshUnlocks
  <2>2. s[m] \in MissionStatus
    OBVIOUS
  <2> QED BY <2>1, <2>2 DEF MissionStatus, MissionState
<1>2. r = [m \in Missions |-> r[m]]
  BY DEF RefreshUnlocks
<1> QED BY <1>1, <1>2

\* Changing the state of one mission in the table.
LEMMA OneState ==
    ASSUME NEW s \in [Missions -> MissionStatus], NEW m \in Missions,
           NEW state \in MissionState
    PROVE  /\ [s EXCEPT ![m].state = state] \in [Missions -> MissionStatus]
           /\ \A n \in Missions : [s EXCEPT ![m].state = state][n].state =
                                     IF n = m THEN state ELSE s[n].state
<1>1. s[m] \in MissionStatus
  OBVIOUS
<1>2. /\ [s[m] EXCEPT !.state = state] \in MissionStatus
      /\ [s[m] EXCEPT !.state = state].state = state
  BY <1>1 DEF MissionStatus
<1> QED BY <1>2

\* A mission takes the campaign's route, one state at a time, and its flight is
\* what ends it.
LEMMA StatusMoves ==
    ASSUME IInv, [Next]_vars
    PROVE  status' \in [Missions -> MissionStatus] /\ \A m \in Missions : Moved(m)
<1>0. status \in [Missions -> MissionStatus] /\ frontend \in Frontend
  BY DEF IInv, TypeOK
<1>1. ASSUME status' = status
      PROVE  status' \in [Missions -> MissionStatus] /\ \A m \in Missions : Moved(m)
  BY <1>0, <1>1 DEF Moved
<1>2. CASE Advance
  <2>1. /\ CanAdvance(frontend, status)
        /\ status' = CampaignAdvanced(frontend, status)
    BY <1>2 DEF Advance
  <2>2. frontend.selected \in Missions \cup {NoMission}
    BY <1>0 DEF Frontend
  <2>3. CASE frontend.state = "NewGame"
    <3> DEFINE m == frontend.selected
    <3>1. m \in Missions /\ status[m].state = "Available"
      BY <2>1, <2>2, <2>3 DEF CanAdvance, CanEnterBriefing
    <3>2. status' = [status EXCEPT ![m].state = "Briefing"]
      BY <2>1, <2>3 DEF CampaignAdvanced, Briefed
    <3>3. /\ status' \in [Missions -> MissionStatus]
          /\ \A n \in Missions : status'[n].state =
                                    IF n = m THEN "Briefing" ELSE status[n].state
      <4> HIDE DEF m
      <4> QED BY <1>0, <3>1, <3>2, OneState DEF MissionState
    <3> QED BY <3>1, <3>3 DEF Moved
  <2>4. CASE frontend.state = "Hangar"
    <3> DEFINE m == frontend.selected
    <3>1. /\ m \in Missions /\ status[m].state = "Briefing"
          /\ status[m].loadout \in Loadouts
      BY <2>1, <2>2, <2>4 DEF CanAdvance, CanBegin
    <3>2. status' = [status EXCEPT ![m].state = "Active"]
      BY <2>1, <2>4 DEF CampaignAdvanced, Begun
    <3>3. /\ status' \in [Missions -> MissionStatus]
          /\ \A n \in Missions : status'[n].state =
                                    IF n = m THEN "Active" ELSE status[n].state
      <4> HIDE DEF m
      <4> QED BY <1>0, <3>1, <3>2, OneState DEF MissionState
    <3> QED BY <2>4, <3>1, <3>3 DEF Moved
  <2>5. CASE frontend.state \notin {"NewGame", "Hangar"}
    BY <1>1, <2>1, <2>5 DEF CampaignAdvanced
  <2> QED BY <2>3, <2>4, <2>5
<1>3. ASSUME NEW l \in Loadouts, SetLoadout(l)
      PROVE  status' \in [Missions -> MissionStatus] /\ \A m \in Missions : Moved(m)
  <2> DEFINE m == frontend.selected
  <2>1. m \in Missions
    BY <1>0, <1>3 DEF SetLoadout, CanLoadHangar, Frontend
  <2>2. status' = [status EXCEPT ![m].loadout = l]
    BY <1>3 DEF SetLoadout, WithLoadout
  <2>3. status[m] \in MissionStatus
    BY <1>0, <2>1
  <2>4. /\ [status[m] EXCEPT !.loadout = l] \in MissionStatus
        /\ [status[m] EXCEPT !.loadout = l].state = status[m].state
    BY <2>3 DEF MissionStatus
  <2> QED BY <1>0, <2>1, <2>2, <2>4 DEF Moved
<1>4. CASE Pause \/ Resume \/ AbortToTitle \/ FailScreen \/ Recover \/ EnterDebrief
           \/ ReturnToCampaign \/ LaunchSelected \/ FlightLostUnreported
           \/ SaveCheckpoint \/ RestoreCheckpoint \/ UNCHANGED vars \/ \E m \in Missions : SelectMission(m)
  BY <1>1, <1>4 DEF Pause, Resume, AbortToTitle, FailScreen, Recover, EnterDebrief,
        ReturnToCampaign, LaunchSelected, FlightLostUnreported, SaveCheckpoint, RestoreCheckpoint,
        SelectMission, vars
<1>5. ASSUME NEW m \in Missions, NEW i \in Objectives(m), FlightEarns(i)
      PROVE  status' \in [Missions -> MissionStatus] /\ \A n \in Missions : Moved(n)
  <2> DEFINE n == flight.mission
  <2>1. n \in Missions /\ i \in Objectives(n)
    BY <1>5 DEF FlightEarns, InFlight, IInv, FlightNamesMission, CanCompleteObjective
  <2>2. i \in Bits
    BY <2>1, ObjectiveCountAssumption DEF Objectives, Bits
  <2>3. status' = [status EXCEPT ![n].mask = @ \cup {i}]
    BY <1>5 DEF FlightEarns, ObjectiveCompleted
  <2>4. status[n] \in MissionStatus
    BY <1>0, <2>1
  <2>5. /\ [status[n] EXCEPT !.mask = @ \cup {i}] \in MissionStatus
        /\ [status[n] EXCEPT !.mask = @ \cup {i}].state = status[n].state
    BY <2>2, <2>4 DEF MissionStatus
  <2> QED BY <1>0, <2>1, <2>3, <2>5 DEF Moved
<1>6. CASE FlightWon
  <2> DEFINE n == flight.mission
             t == [status EXCEPT ![n].state = "Completed"]
  <2>1. n \in Missions /\ status[n].state = "Active" /\ flight'.outcome # "InProgress"
    <3>1. flight'.outcome = "Success"
      BY <1>6 DEF FlightWon, IInv, TypeOK
    <3> QED BY <1>6, <3>1 DEF FlightWon, InFlight, IInv, FlightNamesMission, CanComplete
  <2>2. status' = RefreshUnlocks(t)
    BY <1>6 DEF FlightWon, Won
  <2>3. /\ t \in [Missions -> MissionStatus]
        /\ \A m \in Missions : t[m].state = IF m = n THEN "Completed" ELSE status[m].state
    BY <1>0, <2>1, OneState DEF MissionState
  <2> HIDE DEF t
  <2> QED BY <2>1, <2>2, <2>3, RefreshOpens DEF Moved
<1>7. CASE FlightLost
  <2> DEFINE n == flight.mission
  <2>1. n \in Missions /\ status[n].state = "Active" /\ flight'.outcome # "InProgress"
    <3>1. flight'.outcome = "Failure"
      BY <1>7 DEF FlightLost, IInv, TypeOK
    <3> QED BY <1>7, <3>1 DEF FlightLost, InFlight, IInv, FlightNamesMission, CanFail
  <2>2. status' = [status EXCEPT ![n].state = "Failed"]
    BY <1>7 DEF FlightLost, Lost
  <2>3. /\ status' \in [Missions -> MissionStatus]
        /\ \A m \in Missions : status'[m].state =
                                  IF m = n THEN "Failed" ELSE status[m].state
    <3> HIDE DEF n
    <3> QED BY <1>0, <2>1, <2>2, OneState DEF MissionState
  <2> QED BY <2>1, <2>3 DEF Moved
<1> QED BY <1>2, <1>3, <1>4, <1>5, <1>6, <1>7 DEF Next

-----------------------------------------------------------------------------
\* The frontend at its start satisfies IInv.
LEMMA InitIsGood == Init => IInv
<1> SUFFICES ASSUME Init PROVE IInv
  OBVIOUS
<1>1. AllLocked \in [Missions -> MissionStatus]
  BY DEF AllLocked, MissionStatus, MissionState
<1>2. status \in [Missions -> MissionStatus]
  BY <1>1, RefreshOpens DEF Init, Fresh
<1>3. TypeOK
  BY <1>2 DEF Init, TypeOK, TitleScreen, NoDebrief, NoFlight, Frontend, FrontendState,
              Outcome
<1> QED BY <1>3 DEF Init, IInv, DebriefMatchesCampaign, DebriefNamesMission,
                    FlightNamesMission, CheckpointIsBegun, FlightIsBegun,
                    FlightIsRecordable, InFlight, TitleScreen, NoFlight

\* The screens are in range, show a mission where they need one, and drop a
\* debrief with its screen.
LEMMA TypeStep == IInv /\ [Next]_vars => TypeOK' /\ DebriefNamesMission'
<1> SUFFICES ASSUME IInv, [Next]_vars PROVE TypeOK' /\ DebriefNamesMission'
  OBVIOUS
<1>0. TypeOK /\ DebriefNamesMission
  BY DEF IInv
<1> DEFINE Screens == /\ frontend \in Frontend
                      /\ frontend.state \notin {"Title", "NewGame", "Error"} =>
                            frontend.selected # NoMission
                      /\ frontend.debrief # NoDebrief =>
                            frontend.state \in {"Debrief", "Error"}
           Flights == {flight, checkpoint} \subseteq
                         [mission : Missions \cup {NoMission}, outcome : Outcome]
<1>1. status' \in [Missions -> MissionStatus]
  BY StatusMoves
<1>2. Screens' /\ DebriefNamesMission'
  <2>0. Screens
    BY <1>0 DEF TypeOK
  <2>1. CASE UNCHANGED frontend
    BY <1>0, <2>0, <2>1 DEF DebriefNamesMission
  <2>2. CASE Advance
    BY <1>0, <2>0, <2>2 DEF Advance, CanAdvance, Advanced, NextScreen, To, Frontend,
          FrontendState, DebriefNamesMission
  <2>3. ASSUME NEW m \in Missions, SelectMission(m)
        PROVE  Screens' /\ DebriefNamesMission'
    BY <1>0, <2>0, <2>3, NoMissionAssumption
       DEF SelectMission, Selected, Frontend, DebriefNamesMission
  <2>4. CASE Pause \/ Resume \/ FailScreen
    BY <1>0, <2>0, <2>4 DEF Pause, Resume, FailScreen, CanPause, CanResume, To, Frontend,
          FrontendState, DebriefNamesMission
  <2>5. CASE AbortToTitle \/ Recover \/ ReturnToCampaign
    BY <2>5 DEF AbortToTitle, Recover, ReturnToCampaign, Returned, TitleScreen, To,
          Frontend, FrontendState, NoDebrief, Outcome, DebriefNamesMission
  <2>6. CASE EnterDebrief
    <3>1. /\ frontend.state = "Mission" /\ flight.mission = frontend.selected
          /\ flight.mission \in Missions /\ flight.outcome \in Outcome \ {"InProgress"}
      BY <1>0, <2>6 DEF EnterDebrief, CanDebrief, IInv, FlightNamesMission, TypeOK
    <3>2. frontend' = [frontend EXCEPT !.state = "Debrief",
                          !.debrief = [mission |-> flight.mission,
                                       outcome |-> flight.outcome]]
      BY <2>6 DEF EnterDebrief, Debriefed, To
    <3> QED BY <2>0, <3>1, <3>2, NoMissionAssumption
            DEF Frontend, FrontendState, DebriefNamesMission
  <2> QED BY <2>1, <2>2, <2>3, <2>4, <2>5, <2>6
          DEF Next, SetLoadout, LaunchSelected, FlightEarns, FlightWon, FlightLost,
              FlightLostUnreported, SaveCheckpoint, RestoreCheckpoint, vars
<1>3. Flights'
  <2>0. Flights
    BY <1>0 DEF TypeOK
  <2>1. CASE LaunchSelected
    BY <1>0, <2>1 DEF LaunchSelected, TypeOK, Frontend, Outcome
  <2>2. CASE FlightWon \/ FlightLost \/ FlightLostUnreported
    BY <2>0, <2>2 DEF FlightWon, FlightLost, FlightLostUnreported, Outcome
  <2>3. CASE SaveCheckpoint \/ RestoreCheckpoint
    BY <2>0, <2>3 DEF SaveCheckpoint, RestoreCheckpoint
  <2>4. CASE UNCHANGED <<flight, checkpoint>>
    BY <2>0, <2>4
  <2> QED BY <2>1, <2>2, <2>3, <2>4
          DEF Next, Advance, SelectMission, SetLoadout, Pause, Resume, AbortToTitle,
              FailScreen, Recover, EnterDebrief, ReturnToCampaign, FlightEarns, vars
<1> QED BY <1>1, <1>2, <1>3 DEF TypeOK

\* A flight starts with a mission that is Active; only its own end takes the
\* mission out of Active, and only the checkpoint puts it in progress again.
LEMMA FlightStep ==
    IInv /\ [Next]_vars =>
        FlightNamesMission' /\ CheckpointIsBegun' /\ FlightIsBegun' /\ FlightIsRecordable'
<1> DEFINE Played == {"Active", "Completed", "Failed"}
<1> SUFFICES ASSUME IInv, [Next]_vars
             PROVE  FlightNamesMission' /\ CheckpointIsBegun' /\ FlightIsBegun'
                    /\ FlightIsRecordable'
  OBVIOUS
<1>0. TypeOK /\ FlightNamesMission /\ CheckpointIsBegun /\ FlightIsBegun
      /\ FlightIsRecordable
  BY DEF IInv
<1>1. \A m \in Missions : Moved(m)
  BY StatusMoves
<1>2. \A m \in Missions : status[m].state \in Played => status'[m].state \in Played
  BY <1>1 DEF Moved
<1>3. CASE UNCHANGED <<flight, checkpoint>>
  <2>1. FlightNamesMission' /\ CheckpointIsBegun' /\ FlightIsBegun'
    BY <1>0, <1>2, <1>3 DEF FlightNamesMission, CheckpointIsBegun, FlightIsBegun
  <2>2. InFlight' => InFlight /\ flight.mission \in Missions
    BY <1>0, <1>3 DEF InFlight, FlightNamesMission
  <2>3. ASSUME InFlight' PROVE FlightIsRecordable'
    BY <1>0, <1>1, <1>3, <2>2, <2>3 DEF InFlight, FlightIsRecordable, Moved
  <2> QED BY <2>1, <2>3 DEF FlightIsRecordable
<1>4. CASE LaunchSelected
  <2>1. /\ status' = status /\ checkpoint' = checkpoint
        /\ flight'.mission = frontend.selected /\ flight'.mission \in Missions
        /\ status[frontend.selected].state = "Active"
    BY <1>0, <1>4 DEF LaunchSelected, Launches, TypeOK, Frontend
  <2> QED BY <1>0, <2>1 DEF FlightNamesMission, CheckpointIsBegun, FlightIsBegun,
                            FlightIsRecordable
<1>5. CASE FlightWon \/ FlightLost \/ FlightLostUnreported
  <2>1. flight # NoFlight /\ flight.mission \in Missions
    BY <1>0, <1>5 DEF FlightWon, FlightLost, FlightLostUnreported, InFlight,
                      FlightNamesMission
  <2>2. /\ flight'.mission = flight.mission /\ flight'.outcome # "InProgress"
        /\ checkpoint' = checkpoint
    BY <1>0, <1>5 DEF FlightWon, FlightLost, FlightLostUnreported, TypeOK
  <2> QED BY <1>0, <1>2, <2>1, <2>2 DEF FlightNamesMission, CheckpointIsBegun,
             FlightIsBegun, FlightIsRecordable, InFlight
<1>6. CASE SaveCheckpoint
  <2>1. flight # NoFlight /\ flight' = flight /\ checkpoint' = flight /\ status' = status
    BY <1>6 DEF SaveCheckpoint
  <2> QED BY <1>0, <2>1 DEF FlightNamesMission, CheckpointIsBegun, FlightIsBegun,
                            FlightIsRecordable, InFlight
<1>7. CASE RestoreCheckpoint
  <2>1. /\ flight # NoFlight /\ checkpoint.mission = flight.mission
        /\ flight' = checkpoint /\ checkpoint' = checkpoint /\ status' = status
    BY <1>7 DEF RestoreCheckpoint
  <2>2. checkpoint # NoFlight
    BY <1>0, <2>1, NoMissionAssumption DEF FlightNamesMission, NoFlight
  <2> QED BY <1>0, <2>1, <2>2 DEF FlightNamesMission, CheckpointIsBegun, FlightIsBegun,
                            FlightIsRecordable, InFlight
<1> QED BY <1>3, <1>4, <1>5, <1>6, <1>7
        DEF Next, Advance, SelectMission, SetLoadout, Pause, Resume, AbortToTitle,
            FailScreen, Recover, EnterDebrief, ReturnToCampaign, FlightEarns, vars

\* A result that the campaign recorded is final, so a debrief stays true.
LEMMA DebriefStep == IInv /\ [Next]_vars => DebriefMatchesCampaign'
<1> SUFFICES ASSUME IInv, [Next]_vars, frontend'.state = "Debrief"
             PROVE  status'[frontend'.debrief.mission].state =
                       IF frontend'.debrief.outcome = "Success"
                       THEN "Completed" ELSE "Failed"
  BY DEF DebriefMatchesCampaign
<1>0. TypeOK /\ DebriefMatchesCampaign /\ DebriefNamesMission
  BY DEF IInv
<1>1. \A m \in Missions : Moved(m)
  BY StatusMoves
<1>2. CASE frontend.state = "Debrief" /\ frontend'.debrief = frontend.debrief
  BY <1>0, <1>1, <1>2 DEF DebriefMatchesCampaign, DebriefNamesMission, Moved
<1>3. CASE EnterDebrief
  <2>1. frontend'.debrief = [mission |-> flight.mission, outcome |-> flight.outcome]
        /\ status' = status
    BY <1>0, <1>3 DEF EnterDebrief, Debriefed, To, TypeOK, Frontend
  <2> QED BY <1>3, <2>1 DEF EnterDebrief, CanDebrief
<1>4. CASE ~EnterDebrief
  <2>0. frontend \in Frontend
    BY <1>0 DEF TypeOK
  <2>1. CASE UNCHANGED frontend
    BY <1>2, <2>1
  <2>2. CASE Advance \/ Pause \/ Resume \/ AbortToTitle \/ FailScreen \/ Recover
             \/ ReturnToCampaign
    BY <2>0, <2>2 DEF Advance, CanAdvance, Advanced, NextScreen, Pause, Resume,
          AbortToTitle, FailScreen, Recover, ReturnToCampaign, Returned, TitleScreen,
          To, Frontend
  <2>3. ASSUME NEW m \in Missions, SelectMission(m)
        PROVE  frontend.state = "Debrief" /\ frontend'.debrief = frontend.debrief
    BY <2>0, <2>3 DEF SelectMission, Selected, Frontend
  <2> QED BY <1>2, <1>4, <2>1, <2>2, <2>3
          DEF Next, SetLoadout, LaunchSelected, FlightEarns, FlightWon, FlightLost,
              FlightLostUnreported, SaveCheckpoint, RestoreCheckpoint, vars
<1> QED BY <1>3, <1>4

\* The mission in flight is Active or the flight is rewound, and the screens
\* agree with the campaign.
THEOREM Invariance == Spec => []IInv
<1>1. IInv /\ [Next]_vars => IInv'
  BY TypeStep, FlightStep, DebriefStep DEF IInv
<1> QED BY <1>1, InitIsGood, PTL DEF Spec

-----------------------------------------------------------------------------
\* Whatever the screens do meanwhile, the result of the mission in flight can be
\* recorded, unless the campaign has closed the mission and the flight is one
\* rewound to the checkpoint (launch, begin, restore_checkpoint).
THEOREM FlightIsRecordableTheorem == Spec => []FlightIsRecordable
<1>1. IInv => FlightIsRecordable
  BY DEF IInv
<1> QED BY <1>1, Invariance, PTL

\* The screens are well formed, and a debrief tells what the campaign recorded
\* (advance, enter_debrief, select_mission).
THEOREM ScreensAgreeTheorem == Spec => []ScreensAgree
<1>1. IInv => ScreensAgree
  BY DEF IInv, ScreensAgree
<1> QED BY <1>1, Invariance, PTL

\* A mission is begun out of its own briefing, from the hangar with a loadout,
\* and leaves Active only with the end of its own flight (advance, begin,
\* complete, fail).
THEOREM RouteTheorem == Spec => ActiveOnlyByRoute
<1> DEFINE Step == \A m \in Missions :
              /\ status[m].state # "Active" /\ status'[m].state = "Active" =>
                    /\ status[m].state = "Briefing" /\ status[m].loadout \in Loadouts
                    /\ frontend.state = "Hangar" /\ frontend.selected = m
              /\ status[m].state = "Active" /\ status'[m].state # "Active" =>
                    flight.mission = m /\ flight'.outcome # "InProgress"
<1>1. IInv /\ [Next]_vars => [Step]_vars
  <2> SUFFICES ASSUME IInv, Next PROVE Step
    OBVIOUS
  <2>1. \A m \in Missions : Moved(m)
    BY StatusMoves
  <2> QED BY <2>1 DEF Moved
<1> QED BY <1>1, Invariance, PTL DEF Spec, ActiveOnlyByRoute

-----------------------------------------------------------------------------
(* The frontend keeps the campaign.                                        *)

\* The campaign that the frontend and the flight work on; nobody saves it.
NoSlots == [slot \in {} |-> NoMission]

Campaign == INSTANCE CampaignProofs WITH
    Slots <- {}, NoSave <- NoMission, slots <- NoSlots

\* Whatever screens and flights do, the campaign goes through the operations of
\* CampaignProgression, one at a time (advance, load_hangar, complete_objective,
\* MissionExecution's Complete and Abort).
THEOREM CampaignTheorem == Spec => Campaign!Spec
<1>1. Init => Campaign!Init
  BY DEF Init, Campaign!Init, NoSlots, Fresh, Campaign!Fresh, AllLocked,
         Campaign!AllLocked, RefreshUnlocks, Campaign!RefreshUnlocks,
         PrerequisitesComplete, Campaign!PrerequisitesComplete
<1>2. IInv /\ [Next]_vars => [Campaign!Next]_(Campaign!vars)
  <2> SUFFICES ASSUME IInv, [Next]_vars PROVE [Campaign!Next]_(Campaign!vars)
    OBVIOUS
  <2>1. ASSUME status' = status PROVE UNCHANGED Campaign!vars
    BY <2>1 DEF Campaign!vars, NoSlots
  <2>2. frontend.selected \in Missions \cup {NoMission} /\ NoSlots' = NoSlots
    BY DEF IInv, TypeOK, Frontend, NoSlots
  <2>3. CASE Advance
    <3>1. CanAdvance(frontend, status) /\ status' = CampaignAdvanced(frontend, status)
      BY <2>3 DEF Advance
    <3>2. CASE frontend.state = "NewGame"
      <4>1. Campaign!EnterBriefing(frontend.selected)
        BY <2>2, <3>1, <3>2 DEF CanAdvance, CampaignAdvanced, Campaign!EnterBriefing,
           CanEnterBriefing, Campaign!CanEnterBriefing, Briefed, Campaign!Briefed
      <4> QED BY <2>2, <3>1, <3>2, <4>1 DEF CanAdvance, Campaign!Next
    <3>3. CASE frontend.state = "Hangar"
      <4>1. Campaign!Begin(frontend.selected)
        BY <2>2, <3>1, <3>3 DEF CanAdvance, CampaignAdvanced, Campaign!Begin,
           CanBegin, Campaign!CanBegin, Begun, Campaign!Begun
      <4> QED BY <2>2, <3>1, <3>3, <4>1 DEF CanAdvance, Campaign!Next
    <3>4. CASE frontend.state \notin {"NewGame", "Hangar"}
      BY <2>1, <3>1, <3>4 DEF CampaignAdvanced
    <3> QED BY <3>2, <3>3, <3>4
  <2>4. CASE \E l \in Loadouts : SetLoadout(l)
    <3>1. PICK l \in Loadouts : SetLoadout(l)
      BY <2>4
    <3>2. frontend.selected \in Missions
      BY <2>2, <3>1 DEF SetLoadout, CanLoadHangar
    <3>3. Campaign!SetLoadout(frontend.selected, l)
      BY <2>2, <3>1 DEF SetLoadout, CanLoadHangar, Campaign!SetLoadout, CanSetLoadout,
         Campaign!CanSetLoadout, WithLoadout, Campaign!WithLoadout
    <3> QED BY <3>2, <3>3 DEF Campaign!Next
  <2>5. CASE \E m \in Missions : \E i \in Objectives(m) : FlightEarns(i)
    <3>1. PICK i : FlightEarns(i)
      BY <2>5
    <3> DEFINE m == flight.mission
    <3>2. m \in Missions /\ CanCompleteObjective(status, m, i)
          /\ status' = ObjectiveCompleted(status, m, i)
      BY <3>1 DEF FlightEarns, InFlight, IInv, FlightNamesMission
    <3>3. i \in 0 .. ObjectiveCount[m]
      BY <3>2, ObjectiveCountAssumption DEF CanCompleteObjective, Objectives
    <3>4. Campaign!CompleteObjective(m, i)
      BY <2>2, <3>2 DEF Campaign!CompleteObjective, CanCompleteObjective, Objectives,
         Campaign!CanCompleteObjective, Campaign!Objectives,
         ObjectiveCompleted, Campaign!ObjectiveCompleted
    <3> QED BY <3>2, <3>3, <3>4 DEF Campaign!Next
  <2>6. CASE FlightWon
    <3>1. flight.mission \in Missions
      BY <2>6 DEF FlightWon, InFlight, IInv, FlightNamesMission
    <3>2. Campaign!Complete(flight.mission)
      BY <2>2, <2>6 DEF FlightWon, Campaign!Complete, CanComplete, Campaign!CanComplete,
         Objectives, Campaign!Objectives, Won, Campaign!Won, RefreshUnlocks,
         Campaign!RefreshUnlocks, PrerequisitesComplete, Campaign!PrerequisitesComplete
    <3> QED BY <3>1, <3>2 DEF Campaign!Next
  <2>7. CASE FlightLost
    <3>1. flight.mission \in Missions
      BY <2>7 DEF FlightLost, InFlight, IInv, FlightNamesMission
    <3>2. Campaign!Fail(flight.mission)
      BY <2>2, <2>7 DEF FlightLost, Campaign!Fail, CanFail, Campaign!CanFail,
         Lost, Campaign!Lost
    <3> QED BY <3>1, <3>2 DEF Campaign!Next
  <2>8. ASSUME ~Advance, ~(\E l \in Loadouts : SetLoadout(l)), ~FlightWon, ~FlightLost,
               ~(\E m \in Missions : \E i \in Objectives(m) : FlightEarns(i))
        PROVE  status' = status
    BY <2>8 DEF Next, vars, SelectMission, Pause, Resume, AbortToTitle, FailScreen,
                Recover, EnterDebrief, ReturnToCampaign, LaunchSelected,
                FlightLostUnreported, SaveCheckpoint, RestoreCheckpoint
  <2> QED BY <2>1, <2>3, <2>4, <2>5, <2>6, <2>7, <2>8
<1> QED BY <1>1, <1>2, Invariance, PTL DEF Spec, Campaign!Spec

\* So what is proved of the campaign holds under the frontend: missions are
\* unlocked on merit, and without a lost mission there is one to play.
THEOREM PlayableTheorem == Spec => [](Campaign!UnlockedOnMerit /\ Campaign!NeverStuck)
<1>1. Campaign!MissionsAssumption
  BY MissionsAssumption
     DEF Campaign!MissionsAssumption, IsFiniteSet, Campaign!IsFiniteSet
<1>2. Campaign!PrerequisitesAssumption
  BY PrerequisitesAssumption DEF Campaign!PrerequisitesAssumption
<1>3. Campaign!ObjectiveCountAssumption
  BY ObjectiveCountAssumption DEF Campaign!ObjectiveCountAssumption
<1>4. Campaign!LoadoutsAssumption
  BY LoadoutsAssumption DEF Campaign!LoadoutsAssumption
<1>5. Campaign!Spec => []Campaign!UnlockedOnMerit
  BY <1>1, <1>2, <1>3, <1>4, Campaign!MeritTheorem, PTL
<1>6. Campaign!Spec => []Campaign!NeverStuck
  BY <1>1, <1>2, <1>3, <1>4, Campaign!NeverStuckTheorem, PTL
<1> QED BY CampaignTheorem, <1>5, <1>6, PTL
=============================================================================
