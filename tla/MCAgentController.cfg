CONSTANTS
    Sessions = {a, b}
    NoSession = none
    MaxSteps = 9
    Budget <- MCBudget
    Delay <- MCDelay

SPECIFICATION ControllerSpec

CHECK_DEADLOCK FALSE

INVARIANTS
    Released
    SuccessIsAcknowledged
