CONSTANTS
    Entry = entry
    Workers = {w1, w2}
    Events = {e}
    Mutants = {}
    Sections = {}
    SpinLocks = {}
    Raisers = {}
    NoThread = nobody
    NoHandle = none
    MaxCredits = 2
    MaxDepth = 1

SPECIFICATION Spec

CHECK_DEADLOCK FALSE

INVARIANT NoLostWakeup
