CONSTANTS
    Missions <- MCMissions
    Prerequisites <- MCPrerequisites
    ObjectiveCount <- MCObjectiveCount
    Loadouts = {l1}
    NoLoadout = none
    NoMission = 0
    Mission = 1
    Units = {"player", "enemy"}
    NoUnit = "none"
    LaunchUnits = {"player", "enemy"}
    Player = "player"
    Faction <- MCFaction
    ObjectiveRows <- ScriptRows
    Events <- NoEvents
    Waves <- NoWaves
    AiRules <- NoRules
    FailureTick = 0
    Strides = {1}
    MaxTick = 1
    Script <- EarlyScript
    Counters = {0, 1}
    Orders <- MCOrders
    MaxHops = 4
    MaxCounter = 1
    Modes = {"Payload", "Diagnostic", "Store", "Product", "FreeFlight"}
    NoSave = NoSave

SPECIFICATION Spec

INVARIANTS
    SavesAreResumable
    InStep
    BackRestarts
    ScriptEndEndsMission
