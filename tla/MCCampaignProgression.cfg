CONSTANTS
    Missions <- MCMissions
    Prerequisites <- MCPrerequisites
    ObjectiveCount <- MCObjectiveCount
    Loadouts = {l1, l2}
    NoLoadout = none
    Slots = {s1}
    NoSave = NoSave

SPECIFICATION Spec

INVARIANTS
    TypeOK
    UnlockedOnMerit
    NeverStuck
    SavesAreRestorable
    SaveRestoreIdentity
PROPERTY ProgressOnlyLostByRestore
