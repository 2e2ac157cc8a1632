CONSTANTS
    Missions <- MCMissions
    Prerequisites <- MCPrerequisites
    ObjectiveCount <- MCObjectiveCount
    Loadouts = {l1}
    NoLoadout = none
    Mission = 1
    Bindings = {TRUE, FALSE}
    Units = {"player", "wave"}
    NoUnit = "none"
    LaunchUnits = {"player"}
    Player = "player"
    Faction <- MCFaction
    ObjectiveRows <- MCRows
    Events <- MCEvents
    Waves <- MCWaves
    AiRules <- MCAiRules
    FailureTick = 3
    Strides = {1, 2}
    MaxTick = 3
    HeldEvents = {"Pause", "Complete"}
    SaveTicks = {1}
    MaxRestores = 1

SPECIFICATION ExecutionSpec

INVARIANTS
    CompleteIsRecorded
    EventsInOrder
PROPERTIES
    BitsAreEarned
    FailureFirst
    PausedIsFrozen
