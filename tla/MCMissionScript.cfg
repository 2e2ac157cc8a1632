CONSTANTS
    Script <- MCScript
    Counters = {0, 1, 2}
    Orders <- MCOrders
    MaxHops = 6
    MaxCounter = 3

SPECIFICATION ScriptSpec

INVARIANTS
    CursorSurvivesSave
    RestsOnPlainStep
PROPERTY ScriptRunsOut
