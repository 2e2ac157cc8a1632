CONSTANTS
    Entry = entry
    Workers = {w1}
    Events = {}
    Mutants = {m}
    Sections = {s}
    SpinLocks = {l}
    Raisers = {entry, w1}
    NoThread = nobody
    NoHandle = none
    MaxCredits = 1
    MaxDepth = 2

SPECIFICATION Spec

CHECK_DEADLOCK FALSE

INVARIANT DpcIsNotOrphaned
PROPERTY ShutdownEnds
