CONSTANTS
    boot = boot
    menu = menu
    other = other
    flight = flight
    neutral = neutral
    wait = wait
    press = press
    GuestStates = {boot, menu, other, flight}
    Boot = boot
    Cells = {"boot", "menu", "flight"}
    View <- MCView
    NoCheckpoint = NoCheckpoint
    Options = {neutral, wait, press}
    Hold <- MCHold
    Allowed <- MCAllowed
    Outcome <- MCOutcome
    Neutral = neutral
    MaxDecisions = 5
    MaxFrames = 6
    Interval = 2
    Faults = {"repeat", "wrong"}
    MaxRuns = 2

SPECIFICATION Spec

CHECK_DEADLOCK FALSE

INVARIANTS
    PathsLead
    CreditIsDue
    WithinBudget
