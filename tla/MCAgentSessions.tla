--------------------------- MODULE MCAgentSessions ---------------------------
(* Three identifiers, two sessions at once, logs of two actions.           *)
EXTENDS AgentSessions

Action(sequence, tick, xinput) ==
    [sequence |-> sequence, tick |-> tick, xinput |-> xinput]
MCActions == {Action(0, 1, "roll"), Action(1, 0, "roll"), Action(1, 1, "fire")}
=============================================================================
