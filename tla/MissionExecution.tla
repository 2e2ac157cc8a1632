--------------------------- MODULE MissionExecution ---------------------------
(***************************************************************************)
(* One MissionExecution in the hands of a caller that ticks it, dispatches *)
(* events, works the objectives, the radio and the weapons, and keeps one  *)
(* checkpoint (src/product_runtime.cpp).  The campaign, when there is one, *)
(* has begun the mission and is changed by nobody else.                    *)
(***************************************************************************)
EXTENDS ExecutionOps

CONSTANTS
    Bindings,     \* of BOOLEAN: whether the execution is given a campaign
    HeldEvents,   \* the events bound to buttons that tick() may see held
    SaveTicks,    \* bound: checkpoints are taken at these ticks
    MaxRestores   \* bound: how often a checkpoint is restored

ASSUME CallerAssumption ==
    /\ Loadouts # {} /\ Bindings \subseteq BOOLEAN
    /\ HeldEvents \subseteq EventType /\ MaxRestores \in Nat

VARIABLES
    x,           \* the MissionExecution
    checkpoint,  \* the caller's Checkpoint, or NoCheckpoint
    restores     \* checkpoints restored so far

executionVars == <<x, checkpoint, restores>>

NoCheckpoint == [f \in {} |-> {}]

Armed ==
    [state |-> "Active", mask |-> {}, loadout |-> CHOOSE l \in Loadouts : TRUE]

ExecutionInit ==
    /\ \E bound \in Bindings : x = Unlaunched([Fresh EXCEPT ![Mission] = Armed], bound)
    /\ checkpoint = NoCheckpoint
    /\ restores = 0

Step(y) == x' = y /\ UNCHANGED <<checkpoint, restores>>

Launch == CanLaunch(x) /\ Step(Launched(x))

Dispatch(event) == CanDispatch(x, event) /\ Step(Dispatched(x, event))

ActivateObjective(i) == CanActivate(x, i) /\ Step(Activated(x, i))
CompleteObjective(i) == CanCompleteRow(x, i) /\ Step(RowCompleted(x, i))
FailObjective(i) == CanFailRow(x, i) /\ Step(RowFailed(x, i))
PlayRadio == CanPlayRadio(x) /\ Step(RadioStarted(x))

LockTarget(u) == CanLock(x, u) /\ Step(Locked(x, u))
FireWeapon == CanFire(x) /\ Step(Fired(x))

\* tick() with no bound button held.
Tick == x.launched /\ \E y \in Ticked(x) : Step(y)

\* tick() with a bound button held: a refused event drops the whole frame.
TickHolding(event) ==
    CanDispatch(x, event) /\ \E y \in Ticked(Dispatched(x, event)) : Step(y)

SaveCheckpoint ==
    /\ CanCheckpoint(x) /\ x.tick \in SaveTicks
    /\ checkpoint' = CheckpointOf(x)
    /\ UNCHANGED <<x, restores>>

RestoreCheckpoint ==
    /\ x.launched /\ checkpoint # NoCheckpoint /\ restores < MaxRestores
    /\ x' = Reloaded(x, checkpoint)
    /\ restores' = restores + 1
    /\ UNCHANGED checkpoint

ExecutionNext ==
    \/ Launch
    \/ \E event \in EventType : Dispatch(event)
    \/ \E i \in Rows : ActivateObjective(i) \/ CompleteObjective(i) \/ FailObjective(i)
    \/ PlayRadio
    \/ \E u \in Units : LockTarget(u)
    \/ FireWeapon
    \/ Tick
    \/ \E event \in HeldEvents : TickHolding(event)
    \/ SaveCheckpoint \/ RestoreCheckpoint

ExecutionSpec == ExecutionInit /\ [][ExecutionNext]_executionVars

-----------------------------------------------------------------------------
\* The execution is well formed; a checkpoint holds every field it should.
ExecutionTypeOK ==
    /\ x \in Execution
    /\ x.alive \subseteq Present(x) /\ x.registered \subseteq Present(x)
    /\ checkpoint \in Checkpoint \cup {NoCheckpoint}
    /\ restores \in 0..MaxRestores

\* A mission that is complete, or that a checkpoint would make complete, is
\* one the campaign has recorded as won: no order of objectives, checkpoints
\* and events completes it behind the campaign's back (dispatch(), 460-476).
CompleteIsRecorded ==
    ExecutionTypeOK /\ (x.bound =>
        /\ x.scenario = "Complete" => x.campaign[Mission].state = "Completed"
        /\ checkpoint # NoCheckpoint /\ checkpoint.scenario = "Complete" =>
              x.campaign[Mission].state = "Completed")

\* A campaign bit is set only in a step that completes its objective here,
\* so a replayed checkpoint cannot earn what was not flown.
BitsAreEarned ==
    [][\A i \in x'.campaign[Mission].mask \ x.campaign[Mission].mask :
          x.objectives[i] # "Complete" /\ x'.objectives[i] = "Complete"]_executionVars

\* The published events are a prefix of the sequence: whatever is refused,
\* retried or restored, no event overtakes an earlier one.
EventsInOrder ==
    \A k \in x.published : 1..k \subseteq x.published

\* "failure remains terminal when both conditions occur on the same tick"
\* (README.md:436-437): a tick that completes the mission ends before the
\* deadline with the player alive.
FailureFirst ==
    [][x'.tick > x.tick /\ x'.scenario = "Complete" =>
          /\ Player \in x'.alive
          /\ FailureTick = 0 \/ x'.tick < FailureTick]_executionVars

\* While the mission stays paused no unit dies, no wave comes, no event goes
\* out, the counter stands and what is in the air stays there (fire_weapon() may
\* add to it: it does not ask the HSM); only a restored checkpoint or a new
\* launch changes the world.
PausedIsFrozen ==
    [][x.scenario = "Paused" /\ x'.scenario = "Paused" /\ restores' = restores =>
          /\ UNCHANGED <<x.alive, x.tick, x.waves, x.published>>
          /\ x.shots \subseteq x'.shots]_executionVars

-----------------------------------------------------------------------------
(* What the documentation says and the code does not do.                   *)

\* "After a gameplay tick, the native execution closes the mission HSM
\* automatically when at least one objective exists and every required
\* objective is complete" (README.md:433-435).
AutoClose ==
    [][x'.tick > x.tick /\ Rows # {} /\ AllRequiredComplete(x') =>
          x'.scenario # "Gameplay"]_executionVars

\* "MissionExecution aborts automatically on player destruction or an optional
\* failure tick" (README.md:465-466).
AbortsOnPlayerDestruction ==
    [][x'.tick > x.tick /\ Player \notin x'.alive => x'.scenario # "Gameplay"]_executionVars

\* "objective success, mission completion and objective failure are propagated"
\* to the campaign (README.md:354-355): an objective that failed has cost the
\* campaign its mission.
FailurePropagated ==
    x.bound /\ (\E i \in Rows : x.objectives[i] = "Failed") =>
        x.campaign[Mission].state = "Failed"
=============================================================================
