---------------------------- MODULE ExecutionOps ----------------------------
(***************************************************************************)
(* The methods of class MissionExecution and of the services it drives     *)
(* (src/product_runtime.cpp, src/combat_scenario_frontend.cpp), as         *)
(* operators on one record x:                                              *)
(*   bound       it was given a campaign,                                  *)
(*   launched, scenario (the HSM's state), objectives,                     *)
(*   alive       the active units of the CombatWorld,                      *)
(*   registered  the active units of the UnitRegistry,                     *)
(*   shots       the units at which projectiles are flying,                *)
(*   lock        the player's locked target,                               *)
(*   playing     the radio is playing a message,                           *)
(*   tick        the fixed-step counter of the flight,                     *)
(*   published, waves  the events and waves already dispatched,            *)
(*   campaign    the table of the CampaignProgression, if it is bound.     *)
(* Positions, health, cooldowns and ranges are abstracted: whether a       *)
(* weapon fires, a projectile hits, and a hit kills is a choice.           *)
(***************************************************************************)
EXTENDS CampaignOps, Sequences

CONSTANTS
    Mission,        \* the mission this execution flies
    Units,          \* every unit that may ever be in the world
    NoUnit,         \* entity 0
    LaunchUnits,    \* the units of the launch definition
    Player,         \* its player_entity
    Faction,        \* Faction[u]
    ObjectiveRows,  \* row -> [required, condition, target]; rows are campaign bits
    Events,         \* the sequence: <<[tick, type, id], ...>>, sorted by tick
    Waves,          \* the waves: a set of [tick, unit]
    AiRules,        \* the AI rules: <<[first, period, entity, target], ...>>
    FailureTick,    \* 0 when no deadline is set
    Strides,        \* fixed steps one call of tick() may make
    MaxTick         \* bound: the counter stops here

Rows == DOMAIN ObjectiveRows

SequenceEventType ==
    {"ActivateObjective", "CompleteObjective", "FailObjective", "PlayRadio"}

ASSUME ExecutionAssumption ==
    /\ Mission \in Missions
    /\ NoUnit \notin Units /\ LaunchUnits \subseteq Units /\ Player \in LaunchUnits
    /\ Rows = 0 .. Cardinality(Rows) - 1
    /\ Events \in Seq([tick : Nat, type : SequenceEventType, id : Nat])
    /\ \A i, j \in DOMAIN Events : i < j => Events[i].tick <= Events[j].tick
    /\ Waves \subseteq [tick : Nat, unit : Units]
    /\ \A v, w \in Waves : v.unit = w.unit => v = w
    /\ FailureTick \in Nat /\ MaxTick \in Nat /\ Strides \subseteq Nat \ {0}

ScenarioState == {"Loading", "Briefing", "Gameplay", "Paused", "Complete", "Aborted"}
RowState == {"Pending", "Active", "Complete", "Failed"}

Execution ==
    [bound : BOOLEAN, launched : BOOLEAN,
     scenario : ScenarioState, objectives : [Rows -> RowState],
     alive : SUBSET Units, registered : SUBSET Units, shots : SUBSET Units,
     lock : Units \cup {NoUnit}, playing : BOOLEAN, tick : 0..MaxTick,
     published : SUBSET DOMAIN Events, waves : SUBSET Waves,
     campaign : [Missions -> MissionStatus]]

Unlaunched(campaign, bound) ==
    [bound |-> bound, launched |-> FALSE, scenario |-> "Loading",
     objectives |-> [i \in Rows |-> "Pending"],
     alive |-> {}, registered |-> {}, shots |-> {}, lock |-> NoUnit,
     playing |-> FALSE, tick |-> 0, published |-> {}, waves |-> {},
     campaign |-> campaign]

\* launch(): everything is fresh but the flight, whose counter goes on.
CanLaunch(x) == x.bound => x.campaign[Mission].state = "Active"
Launched(x) ==
    [Unlaunched(x.campaign, x.bound) EXCEPT
        !.launched = TRUE, !.scenario = "Gameplay",
        !.alive = LaunchUnits, !.registered = LaunchUnits, !.tick = x.tick]

Present(x) == LaunchUnits \cup {w.unit : w \in x.waves}

-----------------------------------------------------------------------------
(* The HSM's events.                                                       *)

EventType == {"StartMission", "Pause", "Resume", "Complete", "Abort"}
EventFrom == [StartMission |-> {"Loading", "Briefing"}, Pause |-> {"Gameplay"},
         Resume |-> {"Paused"}, Complete |-> {"Gameplay", "Paused"},
         Abort |-> ScenarioState \ {"Complete", "Aborted"}]
EventTo == [StartMission |-> "Gameplay", Pause |-> "Paused", Resume |-> "Gameplay",
       Complete |-> "Complete", Abort |-> "Aborted"]

AllRequiredComplete(x) ==
    \A i \in Rows : ObjectiveRows[i].required => x.objectives[i] = "Complete"

\* Mutant: dispatch() leaves the campaign's gate to complete(), too late.
CanDispatchUngated(x, event) ==
    /\ x.launched
    /\ x.scenario \in EventFrom[event]
    /\ event = "Complete" => AllRequiredComplete(x)
    /\ event = "Abort" /\ x.bound => CanFail(x.campaign, Mission)

CanDispatch(x, event) ==
    /\ x.launched
    /\ x.scenario \in EventFrom[event]
    /\ event = "Complete" =>
          AllRequiredComplete(x) /\ (x.bound => CanComplete(x.campaign, Mission))
    /\ event = "Abort" /\ x.bound => CanFail(x.campaign, Mission)

Dispatched(x, event) ==
    [x EXCEPT
        !.scenario = EventTo[event],
        !.campaign =
            CASE event = "Complete" /\ x.bound /\ CanComplete(@, Mission) ->
                    Won(@, Mission)
              [] event = "Abort" /\ x.bound -> Lost(@, Mission)
              [] OTHER -> @]

-----------------------------------------------------------------------------
(* Objectives and radio, as callers and the sequence use them.             *)

CanActivate(x, i) == x.launched /\ i \in Rows /\ x.objectives[i] = "Pending"
Activated(x, i) == [x EXCEPT !.objectives[i] = "Active"]

\* Mutant: the campaign is told without looking at the objective's own state.
CanCompleteRowEarly(x, i) ==
    /\ x.launched /\ i \in Rows
    /\ x.bound => CanCompleteObjective(x.campaign, Mission, i)

CanCompleteRow(x, i) ==
    /\ x.launched /\ i \in Rows /\ x.objectives[i] = "Active"
    /\ x.bound => CanCompleteObjective(x.campaign, Mission, i)
RowCompleted(x, i) ==
    [x EXCEPT
        !.objectives[i] = IF @ = "Active" THEN "Complete" ELSE @,
        !.campaign = IF x.bound THEN ObjectiveCompleted(@, Mission, i) ELSE @]

\* fail_objective() aborts the scenario before it asks the campaign, so it may
\* answer false and still have changed the mission.
CanFailRow(x, i) ==
    x.launched /\ i \in Rows /\ x.objectives[i] \notin {"Complete", "Failed"}
FailRowAnswer(x) == x.bound => CanFail(x.campaign, Mission)
RowFailed(x, i) ==
    [x EXCEPT
        !.objectives[i] = "Failed", !.scenario = "Aborted",
        !.campaign = IF x.bound /\ CanFail(@, Mission) THEN Lost(@, Mission) ELSE @]

CanPlayRadio(x) == x.launched /\ ~x.playing /\ x.scenario \in {"Gameplay", "Paused"}
RadioStarted(x) == [x EXCEPT !.playing = TRUE]

\* One event of the sequence: its answer and what it leaves.
Attempt(x, e) ==
    CASE e.type = "ActivateObjective" /\ CanActivate(x, e.id) ->
            [ok |-> TRUE, x |-> Activated(x, e.id)]
      [] e.type = "CompleteObjective" /\ CanCompleteRow(x, e.id) ->
            [ok |-> TRUE, x |-> RowCompleted(x, e.id)]
      [] e.type = "FailObjective" /\ CanFailRow(x, e.id) ->
            [ok |-> FailRowAnswer(x), x |-> RowFailed(x, e.id)]
      [] e.type = "PlayRadio" /\ CanPlayRadio(x) ->
            [ok |-> TRUE, x |-> RadioStarted(x)]
      [] OTHER -> [ok |-> FALSE, x |-> x]

\* Mutant: a refused event is skipped, the later ones still go out.
OfferedSkipping(acc, k) ==
    IF k \in acc.x.published \/ Events[k].tick > acc.x.tick THEN acc
    ELSE LET attempt == Attempt(acc.x, Events[k])
         IN IF attempt.ok
            THEN [acc EXCEPT !.x = [attempt.x EXCEPT !.published = @ \cup {k}]]
            ELSE [ok |-> FALSE, x |-> attempt.x]

\* Event k, offered after those before it have left acc.
Offered(acc, k) ==
    IF ~acc.ok \/ k \in acc.x.published \/ Events[k].tick > acc.x.tick THEN acc
    ELSE LET attempt == Attempt(acc.x, Events[k])
         IN IF attempt.ok
            THEN [acc EXCEPT !.x = [attempt.x EXCEPT !.published = @ \cup {k}]]
            ELSE [ok |-> FALSE, x |-> attempt.x]

\* dispatch_due(): in order, stopping at the first event that is refused.
\* (offered[k] is a singleton: a bound variable is evaluated once.)
DispatchDue(x) ==
    LET offered[k \in 0..Len(Events)] ==
            IF k = 0 THEN {[ok |-> TRUE, x |-> x]}
            ELSE {Offered(acc, k) : acc \in offered[k - 1]}
    IN CHOOSE acc \in offered[Len(Events)] : TRUE

-----------------------------------------------------------------------------
(* Combat.                                                                 *)

Hostile(u, v) == Faction[u] # Faction[v]

CanLock(x, u) == x.launched /\ {Player, u} \subseteq x.alive /\ Hostile(Player, u)
Locked(x, u) == [x EXCEPT !.lock = u]

\* fire_weapon() at the locked target; its cooldown and range are a choice.
CanFire(x) ==
    x.launched /\ x.lock # NoUnit /\ {Player, x.lock} \subseteq x.alive
Fired(x) == [x EXCEPT !.shots = @ \cup {x.lock}]

\* A frame of combat that kills these units, with projectiles left at those.
Fought(x, killed, flying) == [x EXCEPT !.alive = @ \ killed, !.shots = flying]

\* Mutant: the world goes on while the mission is paused.
CombatTicksAlways(x) ==
    {Fought(x, killed, flying) : killed \in SUBSET (x.shots \cap x.alive),
                                 flying \in SUBSET (x.shots \cap x.alive)}

\* CombatWorld::tick(): projectiles at a unit hit and may kill it, expire or
\* fly on; those at a unit already dead expire.
CombatTicks(x) ==
    IF x.scenario # "Gameplay" THEN {x}
    ELSE {Fought(x, killed, flying) : killed \in SUBSET (x.shots \cap x.alive),
                                      flying \in SUBSET (x.shots \cap x.alive)}

\* MissionRuntime::tick(): the counter stops while paused and at the end.
Flown(x, n) ==
    IF x.scenario \in {"Paused", "Complete", "Aborted"} THEN x
    ELSE [x EXCEPT !.tick = IF @ + n > MaxTick THEN MaxTick ELSE @ + n]

RadioTicks(x) ==
    IF x.scenario # "Gameplay" \/ ~x.playing THEN {x}
    ELSE {x, [x EXCEPT !.playing = FALSE]}

\* MissionWaveDirector::spawn_due(): all the due waves or none.
DueWaves(x) == {w \in Waves \ x.waves : w.tick <= x.tick}
WavesRefused(x) == \E w \in DueWaves(x) : w.unit \in Present(x)

WavesSpawned(x) ==
    [x EXCEPT !.waves = @ \cup DueWaves(x),
              !.alive = @ \cup {w.unit : w \in DueWaves(x)},
              !.registered = @ \cup {w.unit : w \in DueWaves(x)}]

\* MissionAiDirector::dispatch_due(): the rules in order, stopping at one
\* whose lock is refused; a rule with a missing or dead unit is skipped.
DueRules(x) ==
    {k \in DOMAIN AiRules :
        /\ x.tick >= AiRules[k].first
        /\ (x.tick - AiRules[k].first) % AiRules[k].period = 0
        /\ {AiRules[k].entity, AiRules[k].target} \subseteq x.alive}
RefusedRules(x) ==
    {k \in DueRules(x) : ~Hostile(AiRules[k].entity, AiRules[k].target)}
ReachedRules(x) == {k \in DueRules(x) : \A r \in RefusedRules(x) : k < r}
AiFirings(x) ==
    {[x EXCEPT !.shots = @ \cup {AiRules[k].target : k \in firing}] :
        firing \in SUBSET ReachedRules(x)}

-----------------------------------------------------------------------------
(* The tail of tick_impl().                                                *)

Synced(x) == [x EXCEPT !.registered = x.alive]

\* evaluate_combat(): conditions are judged on the fate of their target, and
\* the campaign is not told.
Judged(x) ==
    LET over(i) ==
            /\ x.objectives[i] = "Active"
            /\ ObjectiveRows[i].condition # "Manual"
            /\ ObjectiveRows[i].target \in Present(x) \ x.alive
        objectives ==
            [i \in Rows |->
                IF ~over(i) THEN x.objectives[i]
                ELSE IF ObjectiveRows[i].condition = "DestroyUnit" THEN "Complete"
                ELSE "Failed"]
    IN IF x.scenario # "Gameplay" THEN x
       ELSE [x EXCEPT
               !.objectives = objectives,
               !.scenario = IF \E i \in Rows : objectives[i] = "Failed"
                            THEN "Aborted" ELSE @]

Deadline(x) == FailureTick # 0 /\ x.tick >= FailureTick
FailureDue(x) == Player \notin x.alive \/ Deadline(x)

Given(condition, x, event) ==
    IF x.scenario = "Gameplay" /\ condition /\ CanDispatch(x, event)
    THEN Dispatched(x, event)
    ELSE x

FailureChecked(x) == Given(FailureDue(x), x, "Abort")
SuccessChecked(x) == Given(Rows # {} /\ AllRequiredComplete(x), x, "Complete")

\* Mutant: success is looked at before failure.
SettledSuccessFirst(x) == FailureChecked(SuccessChecked(Judged(Synced(x))))

Settled(x) == SuccessChecked(FailureChecked(Judged(Synced(x))))

\* Waves, AI, sequence, then the tail; a director that refuses ends the tick.
Directed(x) ==
    IF x.scenario # "Gameplay" THEN {Settled(x)}
    ELSE IF WavesRefused(x) THEN {x}
    ELSE {IF RefusedRules(fought) # {} THEN fought
          ELSE LET due == DispatchDue(fought)
               IN IF due.ok THEN Settled(due.x) ELSE due.x :
            fought \in AiFirings(WavesSpawned(x))}

\* All that may come out of a tick with no button held, once the held one
\* has been dispatched.
Ticked(x) ==
    UNION {UNION {Directed(heard) : heard \in RadioTicks(Flown(fought, n))} :
              fought \in CombatTicks(x), n \in Strides}

-----------------------------------------------------------------------------
(* Checkpoints.                                                            *)

Checkpoint ==
    [scenario : ScenarioState, objectives : [Rows -> RowState],
     alive : SUBSET Units, registered : SUBSET Units, playing : BOOLEAN,
     tick : 0..MaxTick, published : SUBSET DOMAIN Events, waves : SUBSET Waves]

CanCheckpoint(x) == x.launched /\ x.shots = {}
CheckpointOf(x) ==
    [scenario |-> x.scenario, objectives |-> x.objectives, alive |-> x.alive,
     registered |-> x.registered, playing |-> x.playing, tick |-> x.tick,
     published |-> x.published, waves |-> x.waves]

\* restore_checkpoint(): the campaign keeps what it knows.
Reloaded(x, c) ==
    [x EXCEPT !.scenario = c.scenario, !.objectives = c.objectives,
              !.alive = c.alive, !.registered = c.registered,
              !.playing = c.playing, !.tick = c.tick,
              !.published = c.published, !.waves = c.waves,
              !.shots = {}, !.lock = NoUnit]
=============================================================================
