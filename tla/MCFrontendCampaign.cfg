CONSTANTS
    Missions <- MCMissions
    Prerequisites <- MCPrerequisites
    ObjectiveCount <- MCObjectiveCount
    Loadouts = {l1}
    NoLoadout = none
    NoMission = NoMission

SPECIFICATION Spec

INVARIANTS
    FlightIsRecordable
    ScreensAgree
PROPERTY ActiveOnlyByRoute
