---------------------------- MODULE RetailSession ----------------------------
(***************************************************************************)
(* A retail session (class RetailSession, src/retail_session.cpp): one     *)
(* mission of one campaign, its MissionExecution, its script and, with the *)
(* full content cache, the frontend, played with a controller one frame at *)
(* a time; a save written when the process leaves and read by the next one *)
(* (src/retail_commands.cpp, src/session_save.cpp).                        *)
(*                                                                         *)
(* A session is opened from a payload (Payload, or Diagnostic when the     *)
(* fixed tick drives the script), from the campaign part of the content    *)
(* cache (Store) or from all of it (Product; FreeFlight for play           *)
(* --free-flight, where the session's own flight model moves the player).  *)
(* It has no waves, no AI, no sequence, no radio and no deadline.          *)
(* Objective i (id i + 1 in the code) stands for sub-mission i.            *)
(***************************************************************************)
EXTENDS FrontendOps, ExecutionOps, ScriptOps

CONSTANTS
    Modes,   \* the ways to open a session that a process may choose
    NoSave   \* no save file

\* open_parsed() builds an objective per sub-mission, and counts them for the
\* campaign; it refuses an invalid loadout.
ASSUME SessionAssumption ==
    /\ Missions = {Mission} /\ ObjectiveCount[Mission] = SubMissionCount
    /\ Loadouts # {}
    /\ Modes \subseteq {"Payload", "Diagnostic", "Store", "Product", "FreeFlight"}
    /\ DOMAIN ObjectiveRows = SubMissions
    /\ \A i \in SubMissions :
          ObjectiveRows[i] = [required |-> TRUE, condition |-> "Manual", target |-> NoUnit]
    /\ Events = <<>> /\ Waves = {} /\ AiRules = <<>> /\ FailureTick = 0

VARIABLES
    session,  \* [mode, x, cursor, q, frontend]
    save      \* the AC6SESS file of the last process, or NoSave

vars == <<session, save>>

-----------------------------------------------------------------------------
(* Opening.                                                                *)

\* A diagnostic session is a payload session whose fixed tick drives the script.
HasCampaign(mode) == mode \in {"Store", "Product", "FreeFlight"}
HasFrontend(mode) == mode \in {"Product", "FreeFlight"}
FliesFree(mode) == mode = "FreeFlight"
HasWeapon(mode) == mode \in {"Payload", "Diagnostic"}
DriveByTick(mode) == mode = "Diagnostic"

Loadout == CHOOSE l \in Loadouts : TRUE

\* open_parsed(): through the screens of the frontend, or straight to Active.
BegunCampaign ==
    Begun(WithLoadout(Briefed(Fresh, Mission), Mission, Loadout), Mission)

MissionScreen ==
    [TitleScreen EXCEPT !.state = "Mission", !.selected = Mission]

\* track_objective(): activate_objective() refuses what is not Pending.
Tracked(x, sub) ==
    IF sub \in SubMissions /\ CanActivate(x, sub) THEN Activated(x, sub) ELSE x

\* The sequencer selects where the first step was, before the conditions of
\* that step may move the script on.
Opened(mode) ==
    LET first == Advance(StartOfScript)
        entered == Entered(NewSequencer.counters)
    IN [mode |-> mode,
        x |-> Tracked(Launched(Unlaunched(BegunCampaign, HasCampaign(mode))), entered.sub),
        cursor |-> entered,
        q |-> [NewSequencer EXCEPT !.sub = first.sub],
        frontend |-> IF HasFrontend(mode) THEN MissionScreen ELSE TitleScreen]

-----------------------------------------------------------------------------
(* Checkpoints.                                                            *)

SessionCheckpoint(s) ==
    [x |-> CheckpointOf(s.x), cursor |-> s.cursor, q |-> s.q]

CheckpointRestorable(c) ==
    /\ c.q.sub = c.cursor.sub
    /\ CursorRestorable(c.cursor) /\ SequencerRestorable(c.q)

\* Mutant: the sequencer, with its counters, stays as it is.
CheckpointRestoredPartly(s, c) ==
    [s EXCEPT !.x = Reloaded(@, c.x), !.cursor = RestoredCursor(c.cursor)]

\* restore_checkpoint(): the frontend and the campaign stay as they are.
CheckpointRestored(s, c) ==
    [s EXCEPT !.x = Reloaded(@, c.x),
              !.cursor = RestoredCursor(c.cursor),
              !.q = c.q]

LaunchCheckpoint(mode) == SessionCheckpoint(Opened(mode))

\* restart(): a paused frontend is resumed with the mission.  (Where the free
\* flight is, which it resets, is left out.)
Restarted(s) ==
    LET back == CheckpointRestored(s, LaunchCheckpoint(s.mode))
    IN IF HasFrontend(s.mode) /\ CanResume(back.frontend)
       THEN [back EXCEPT !.frontend = To(@, "Mission")]
       ELSE back

-----------------------------------------------------------------------------
(* One frame.                                                              *)

Buttons == {"Start", "Back", "Target", "Fire"}   \* those whose press is acted on

Toggled(s) ==
    CASE s.x.scenario = "Gameplay" /\ (HasFrontend(s.mode) => CanPause(s.frontend)) ->
            [s EXCEPT !.x = Dispatched(@, "Pause"),
                      !.frontend = IF HasFrontend(s.mode) THEN To(@, "Pause") ELSE @]
      [] s.x.scenario = "Paused" /\ (HasFrontend(s.mode) => CanResume(s.frontend)) ->
            [s EXCEPT !.x = Dispatched(@, "Resume"),
                      !.frontend = IF HasFrontend(s.mode) THEN To(@, "Mission") ELSE @]
      [] OTHER -> s

\* lock_nearest_target(): which hostile is the nearest is a choice.
LockedNearest(x) ==
    {Locked(x, u) : u \in {v \in Units : CanLock(x, v)}}
        \cup IF \E v \in Units : CanLock(x, v) THEN {} ELSE {x}

\* fire_primary(): its cooldown and range may refuse.
FiredPrimary(mode, x) ==
    {x} \cup IF HasWeapon(mode) /\ CanFire(x) THEN {Fired(x)} ELSE {}

\* Mutant: the sequencer is not told of the new sub-mission.
AdvancedAlone(s) ==
    LET before == s.cursor.sub
        cursor == Driven(s.cursor, s.q.counters)
        done == IF before \in SubMissions /\ CanCompleteRow(s.x, before)
                THEN RowCompleted(s.x, before) ELSE s.x
    IN IF cursor.sub = before THEN [s EXCEPT !.cursor = cursor]
       ELSE [s EXCEPT !.cursor = cursor, !.x = Tracked(done, cursor.sub)]

\* Mutant: the objective of the sub-mission arrived at is completed.
AdvancedAhead(s) ==
    LET cursor == Driven(s.cursor, s.q.counters)
        after == cursor.sub
        begun == Tracked(s.x, after)
        done == IF after \in SubMissions /\ CanCompleteRow(begun, after)
                THEN RowCompleted(begun, after) ELSE begun
    IN IF after = s.cursor.sub THEN [s EXCEPT !.cursor = cursor]
       ELSE [s EXCEPT !.cursor = cursor, !.q.sub = after, !.x = done]

\* advance_script(): leaving a sub-mission completes its objective, arriving
\* on one activates its own.
AdvancedScript(s) ==
    LET before == s.cursor.sub
        cursor == Driven(s.cursor, s.q.counters)
        done == IF before \in SubMissions /\ CanCompleteRow(s.x, before)
                THEN RowCompleted(s.x, before) ELSE s.x
    IN IF cursor.sub = before THEN [s EXCEPT !.cursor = cursor]
       ELSE [s EXCEPT !.cursor = cursor, !.q.sub = cursor.sub,
                      !.x = Tracked(done, cursor.sub)]

\* The end of tick(): a mission that ended sends the frontend to its debrief.
Debrief(s) ==
    LET outcome == CASE s.x.scenario = "Complete" -> "Success"
                     [] s.x.scenario = "Aborted" -> "Failure"
                     [] OTHER -> "InProgress"
    IN IF HasFrontend(s.mode) /\ CanDebrief(s.frontend, s.x.campaign, Mission, outcome)
       THEN [s EXCEPT !.frontend = Debriefed(@, Mission, outcome)]
       ELSE s

\* A free flight that cannot make its step drops the frame, after the buttons
\* and the script have been acted on.
FrameRefused(s) ==
    IF FliesFree(s.mode) /\ s.x.scenario = "Gameplay" THEN {s} ELSE {}

\* All that may come out of tick() with these buttons newly pressed.  Which
\* buttons were down before is left out: any press can be repeated by letting
\* the button go for a frame.
Frames(s, pressed) ==
    IF "Back" \in pressed /\ CheckpointRestorable(LaunchCheckpoint(s.mode))
    THEN {Restarted(s)}
    ELSE LET toggled == IF "Start" \in pressed THEN Toggled(s) ELSE s
             aimed == IF "Target" \in pressed THEN LockedNearest(toggled.x)
                      ELSE {toggled.x}
             shot == UNION {IF "Fire" \in pressed THEN FiredPrimary(s.mode, x) ELSE {x} :
                               x \in aimed}
             driven == {IF DriveByTick(s.mode) /\ ~toggled.cursor.ended
                        THEN AdvancedScript([toggled EXCEPT !.x = x])
                        ELSE [toggled EXCEPT !.x = x] : x \in shot}
         IN UNION {FrameRefused(d) \cup {Debrief([d EXCEPT !.x = y]) : y \in Ticked(d.x)} :
                      d \in driven}

-----------------------------------------------------------------------------
Init ==
    /\ \E mode \in Modes : session = Opened(mode)
    /\ save = NoSave

Frame(pressed) ==
    /\ session' \in Frames(session, pressed)
    /\ UNCHANGED save

\* A probe, or the headless loop, advances the script between two frames.
ProbeAdvance ==
    /\ ~session.cursor.ended
    /\ session' = AdvancedScript(session)
    /\ UNCHANGED save

ApplyFlagOrder(order) ==
    /\ \E value \in Results(order, session.q.counters[order.counter])
                       \cap (-MaxCounter..MaxCounter) :
          session' = [session EXCEPT !.q.counters[order.counter] = value]
    /\ UNCHANGED save

\* The save at the end of the play command, which has a campaign: not while a
\* projectile flies, and not before the first fixed step (valid_flight,
\* session_save.cpp:31).
SaveAtExit ==
    /\ HasCampaign(session.mode)
    /\ CanCheckpoint(session.x) /\ session.x.tick # 0
    /\ save' = [mode |-> session.mode, checkpoint |-> SessionCheckpoint(session),
                campaign |-> SnapshotOf(session.x.campaign)]
    /\ UNCHANGED session

\* The frontend is there or not with the content of the cache, which a save names.
SameContent(mode, s) == HasCampaign(mode) /\ HasFrontend(mode) = HasFrontend(s.mode)

\* restore_save() on a session just opened; when it is refused the process ends.
SaveRestorable(mode, s) ==
    /\ ~FliesFree(mode) /\ SameContent(mode, s)
    /\ DOMAIN s.campaign # {} => Restorable(s.campaign)
    /\ CheckpointRestorable(s.checkpoint)

SaveRestored(mode, s) ==
    LET opened == Opened(mode)
        resumed == IF DOMAIN s.campaign # {}
                   THEN [opened EXCEPT !.x.campaign = Restored(s.campaign)]
                   ELSE opened
    IN CheckpointRestored(resumed, s.checkpoint)

Resume(mode) ==
    /\ save # NoSave /\ SaveRestorable(mode, save)
    /\ session' = SaveRestored(mode, save)
    /\ UNCHANGED save

Next ==
    \/ \E pressed \in SUBSET Buttons : Frame(pressed)
    \/ ProbeAdvance
    \/ \E order \in Orders : ApplyFlagOrder(order)
    \/ SaveAtExit
    \/ \E mode \in Modes : Resume(mode)

Spec == Init /\ [][Next]_vars

-----------------------------------------------------------------------------
\* The parts are well formed, and a frontend that is not used stays where it is.
TypeOK ==
    /\ session.x \in Execution
    /\ session.cursor \in Cursor /\ session.q \in Sequencer
    /\ session.frontend \in Frontend
    /\ ~HasFrontend(session.mode) => session.frontend = TitleScreen

\* Every save a process can write, from a free flight too, is one that the next
\* process resumes, if it is opened without free flight on the same content:
\* cursor, sequencer and campaign are saved in step with each other (restore_save).
SavesAreResumable ==
    save # NoSave =>
        \A mode \in {"Store", "Product"} :
            SameContent(mode, save) => SaveRestorable(mode, save)

\* Script, sequencer and checkpoint agree on the sub-mission; without it
\* neither Back nor a save works (the test in restore_checkpoint, line 680).
SequencerFollows == session.q.sub = session.cursor.sub

\* The campaign, if there is one, lets objectives and the mission's end count.
CampaignOpen ==
    session.x.bound => session.x.campaign[Mission].state = "Active"

\* While the campaign lets objectives count, the objective of the sub-mission
\* under the cursor is in work, those behind it are done or, where a condition
\* leads past them, were never begun: restarts, pauses and resumed saves never
\* put script and objectives out of step.
ObjectivesFollowScript ==
    CampaignOpen =>
        \A i \in SubMissions :
            LET objective == session.x.objectives[i]
            IN CASE i < session.cursor.sub ->
                      objective = "Complete" \/ (objective = "Pending" /\ CanBeSkipped(i))
                 [] i = session.cursor.sub -> objective = "Active"
                 [] OTHER -> objective = "Pending"

\* What the mission counts as done is recorded in the campaign, though Back
\* rewinds the one and not the other.
MaskCoversObjectives ==
    session.x.bound =>
        {i \in SubMissions : session.x.objectives[i] = "Complete"}
            \subseteq session.x.campaign[Mission].mask

\* The pause screen is up only over a paused mission.
PauseScreenIsPaused ==
    session.frontend.state = "Pause" => session.x.scenario = "Paused"

\* Script, sequencer, objectives, campaign and pause screen stay in step
\* through restarts, pauses, Back and resumed saves.
InStep ==
    /\ TypeOK /\ SequencerFollows /\ ObjectivesFollowScript
    /\ MaskCoversObjectives /\ PauseScreenIsPaused

\* The script decides whether the mission completes: it is complete only with
\* the script at its end; in a mission the campaign has not closed, a frame
\* after the end of the script ends it, unless it is paused or the frame is
\* refused; and if the script jumped over a sub-mission, it never completes
\* (advance_script against dispatch(), which asks for every objective).
ScriptEndEndsMission ==
    LET jumpedOver == {i \in SubMissions : session.x.objectives[i] = "Pending"}
    IN /\ session.x.scenario = "Complete" => session.cursor.ended
       /\ session.cursor.ended /\ CampaignOpen =>
             \A s \in Frames(session, {}) :
                IF jumpedOver = {}
                THEN s.x.scenario \in {"Complete", "Aborted", "Paused"}
                     \/ s \in FrameRefused(session)
                ELSE s.x.scenario # "Complete"

\* "Back restores the exact launch cursor, world and combat state"
\* (tests/retail_session_tests.cpp:819-820): in every state a frame with Back
\* pressed ends where the session began, whatever else is pressed.
BackRestarts ==
    \A pressed \in SUBSET Buttons : "Back" \in pressed =>
        \A s \in Frames(session, pressed) :
            /\ s.cursor = Opened(s.mode).cursor /\ s.q = Opened(s.mode).q
            /\ CheckpointOf(s.x) = CheckpointOf(Opened(s.mode).x)
            /\ s.x.shots = {} /\ s.x.lock = NoUnit

-----------------------------------------------------------------------------
(* What the documentation says and the code does not do.                   *)

\* "Start toggles the retail gameplay HSM between Gameplay and Paused"
\* (include/ac6/retail_session.h:149-150): a paused mission can be resumed.
StartToggles ==
    session.x.scenario = "Paused" =>
        \A s \in Frames(session, {"Start"}) : s.x.scenario # "Paused"

\* "the mission ends when - and only when - the script runs out"
\* (include/ac6/retail_mission_script.h:17-18): the end of the script ends a
\* mission that the campaign has not closed, in the next frame.
ScriptEndSuffices ==
    session.cursor.ended /\ CampaignOpen =>
        \A s \in Frames(session, {}) :
            s.x.scenario \in {"Complete", "Aborted", "Paused"}
            \/ s \in FrameRefused(session)
=============================================================================
