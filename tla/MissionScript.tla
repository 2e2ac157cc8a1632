---------------------------- MODULE MissionScript ----------------------------
(***************************************************************************)
(* The script of a running mission: the session drives it one frame at a   *)
(* time until it ends, while flag orders change the counters its           *)
(* conditions read (RetailSession::advance_script, apply_flag_order).      *)
(***************************************************************************)
EXTENDS ScriptOps

VARIABLES
    cursor,    \* script_
    counters   \* the sequencer's counters_

scriptVars == <<cursor, counters>>

ScriptInit ==
    /\ counters = NewSequencer.counters
    /\ cursor = Entered(counters)

\* Callers stop driving a script that has ended.
Drive ==
    /\ ~cursor.ended
    /\ cursor' = Driven(cursor, counters)
    /\ UNCHANGED counters

ApplyOrder(order) ==
    /\ \E value \in Results(order, counters[order.counter]) \cap (-MaxCounter..MaxCounter) :
          counters' = [counters EXCEPT ![order.counter] = value]
    /\ UNCHANGED cursor

ScriptNext == Drive \/ \E order \in Orders : ApplyOrder(order)

\* A session calls advance_script() again and again.
ScriptSpec == ScriptInit /\ [][ScriptNext]_scriptVars /\ WF_scriptVars(Drive)

-----------------------------------------------------------------------------
\* The cursor is on a step the script has, and has none once it ran out.
ScriptTypeOK ==
    /\ cursor \in Cursor
    /\ counters \in [Counters -> -MaxCounter..MaxCounter]
    /\ cursor.current => HasStep(cursor.sub, cursor.step)
    /\ cursor.ended => ~cursor.current

\* Wherever the script stands, saving its position and restoring it gives the
\* same cursor again: restore_cursor() refuses nothing the driver can reach.
CursorSurvivesSave ==
    CursorRestorable(cursor) /\ RestoredCursor(cursor) = cursor

\* Conditions are followed through synchronously: between two frames the
\* cursor never rests on one (resolve_tag7_conditions, retail_session.cpp:718).
NeverOnCondition == ~AtCondition(cursor)

\* A script whose conditions only jump forward runs out, whatever the flag
\* orders do to the counters meanwhile.
ScriptRunsOut == <>cursor.ended

\* "the mission ends when - and only when - the script runs out"
\* (retail_mission_script.h:17-18): a script that has ended is past its last
\* sub-mission, wherever its conditions made it jump.
EndsPastTheLast ==
    cursor.ended => cursor.sub = SubMissionCount

\* Where the script stands between two frames: on a plain step that exists, or
\* past the last sub-mission for good.
RestsOnPlainStep == ScriptTypeOK /\ NeverOnCondition /\ EndsPastTheLast
=============================================================================
