----------------------------- MODULE ProductProofs -----------------------------
(***************************************************************************)
(* The properties of the mission (MissionExecution), its script            *)
(* (MissionScript) and the session that plays them (RetailSession), for    *)
(* every value of their constants.                                         *)
(*                                                                         *)
(*   The mission.  Consistent holds of an execution between two            *)
(*     operations, Keeps and Passes say what an operation may change; the  *)
(*     invariant ExecutionInv adds that a checkpoint is of the past.       *)
(*   The script.  AtRest holds of a cursor between two frames; ScriptInv   *)
(*     is inductive whenever the count bytes are the lengths of the        *)
(*     tables.  That it rests on a plain step needs conditions that jump   *)
(*     forward, no more of them than the loop may follow.                  *)
(*   The session.  Sound ties mission, cursor, sequencer, campaign and     *)
(*     screens of a session together, InOrder its objectives to its        *)
(*     script; SessionInv and OrderInv say so of the session and of the    *)
(*     one that was saved.  They need a script that starts on a plain      *)
(*     step, or one that takes its sub-missions one after another.         *)
(***************************************************************************)
EXTENDS MissionExecution, MissionScript, RetailSession, FunctionTheorems,
        FiniteSetTheorems, WellFoundedInduction, TLAPS

-----------------------------------------------------------------------------
(* The mission.                                                            *)

\* A mission won is won in the campaign it reports to.
WinRecorded(y) ==
    y.bound /\ y.scenario = "Complete" => y.campaign[Mission].state = "Completed"

\* The published events are a prefix of the sequence.
Prefix(published) == \A k \in published : 1..k \subseteq published

\* An execution as every operation finds it and leaves it.
Consistent(y) ==
    /\ y \in Execution
    /\ y.alive \subseteq Present(y) /\ y.registered \subseteq Present(y)
    /\ WinRecorded(y) /\ Prefix(y.published)

\* What every operation but a launch and a restored checkpoint keeps: a win the
\* campaign has recorded, the objectives that are done, and the campaign's bits
\* but for those of objectives completed meanwhile.
Keeps(y, z) ==
    /\ z.bound = y.bound /\ z.launched = y.launched /\ y.tick <= z.tick
    /\ y.campaign[Mission].state = "Completed" => z.campaign[Mission].state = "Completed"
    /\ \A i \in Rows : y.objectives[i] = "Complete" => z.objectives[i] = "Complete"
    /\ \A i \in z.campaign[Mission].mask \ y.campaign[Mission].mask :
          i \in Rows /\ y.objectives[i] # "Complete" /\ z.objectives[i] = "Complete"

\* What the parts of a tick do to the HSM: they end the mission or leave it.
Passes(y, z) == Keeps(y, z) /\ z.scenario \in {y.scenario, "Complete", "Aborted"}

-----------------------------------------------------------------------------
\* One operation after another keeps what each of them keeps.
LEMMA KeepsOn ==
    ASSUME NEW y \in Execution, NEW z \in Execution, NEW u \in Execution,
           Keeps(y, z), Keeps(z, u)
    PROVE  Keeps(y, u)
<1>1. y.tick \in Nat /\ z.tick \in Nat /\ u.tick \in Nat
  BY ExecutionAssumption DEF Execution
<1>2. y.tick <= u.tick
  BY <1>1 DEF Keeps
<1>3. ASSUME NEW i \in u.campaign[Mission].mask \ y.campaign[Mission].mask
      PROVE  i \in Rows /\ y.objectives[i] # "Complete" /\ u.objectives[i] = "Complete"
  BY <1>3 DEF Keeps
<1> QED BY <1>2, <1>3 DEF Keeps

\* One part of a tick after another does what a part does.
LEMMA PassesOn ==
    ASSUME NEW y \in Execution, NEW z \in Execution, NEW u \in Execution,
           Passes(y, z), Passes(z, u)
    PROVE  Passes(y, u)
BY KeepsOn DEF Passes

\* A refresh opens locked missions and does nothing else (refresh_unlocks).
LEMMA RefreshOpens ==
    ASSUME NEW s \in [Missions -> MissionStatus]
    PROVE  /\ RefreshUnlocks(s) \in [Missions -> MissionStatus]
           /\ \A m \in Missions :
                 s[m].state # "Locked" => RefreshUnlocks(s)[m] = s[m]
<1> DEFINE r == RefreshUnlocks(s)
<1>1. ASSUME NEW m \in Missions
      PROVE  r[m] \in MissionStatus /\ (s[m].state # "Locked" => r[m] = s[m])
  <2>1. r[m] = IF s[m].state = "Locked" /\ PrerequisitesComplete(s, m)
               THEN [s[m] EXCEPT !.state = "Available"] ELSE s[m]
    BY DEF RefreshUnlocks
  <2>2. s[m] \in MissionStatus
    OBVIOUS
  <2> QED BY <2>1, <2>2 DEF MissionStatus, MissionState
<1>2. r = [m \in Missions |-> r[m]]
  BY DEF RefreshUnlocks
<1> QED BY <1>1, <1>2

\* Winning, losing and earning change one mission of the table and keep its type.
LEMMA TableMoves ==
    ASSUME NEW s \in [Missions -> MissionStatus], s[Mission].state = "Active"
    PROVE  /\ Won(s, Mission) \in [Missions -> MissionStatus]
           /\ Won(s, Mission)[Mission].state = "Completed"
           /\ Won(s, Mission)[Mission].mask = s[Mission].mask
           /\ Won(s, Mission)[Mission].loadout = s[Mission].loadout
           /\ Lost(s, Mission) \in [Missions -> MissionStatus]
           /\ Lost(s, Mission)[Mission].state = "Failed"
           /\ Lost(s, Mission)[Mission].mask = s[Mission].mask
           /\ Lost(s, Mission)[Mission].loadout = s[Mission].loadout
           /\ \A i \in Objectives(Mission) :
                 LET e == ObjectiveCompleted(s, Mission, i)
                 IN  /\ e \in [Missions -> MissionStatus]
                     /\ e[Mission].state = "Active"
                     /\ e[Mission].mask = s[Mission].mask \cup {i}
                     /\ e[Mission].loadout = s[Mission].loadout
<1>0. Mission \in Missions /\ s[Mission] \in MissionStatus
  BY ExecutionAssumption
<1>1. ASSUME NEW state \in {"Completed", "Failed"}
      PROVE  LET t == [s EXCEPT ![Mission].state = state]
             IN  /\ t \in [Missions -> MissionStatus]
                 /\ t[Mission].state = state /\ t[Mission].mask = s[Mission].mask
                 /\ t[Mission].loadout = s[Mission].loadout
  <2>1. /\ [s[Mission] EXCEPT !.state = state] \in MissionStatus
        /\ [s[Mission] EXCEPT !.state = state].state = state
        /\ [s[Mission] EXCEPT !.state = state].mask = s[Mission].mask
        /\ [s[Mission] EXCEPT !.state = state].loadout = s[Mission].loadout
    BY <1>0 DEF MissionStatus, MissionState
  <2> QED BY <1>0, <2>1
<1>2. /\ Won(s, Mission) \in [Missions -> MissionStatus]
      /\ Won(s, Mission)[Mission].state = "Completed"
      /\ Won(s, Mission)[Mission].mask = s[Mission].mask
      /\ Won(s, Mission)[Mission].loadout = s[Mission].loadout
  <2> DEFINE t == [s EXCEPT ![Mission].state = "Completed"]
  <2>1. /\ t \in [Missions -> MissionStatus]
        /\ t[Mission].state = "Completed" /\ t[Mission].mask = s[Mission].mask
        /\ t[Mission].loadout = s[Mission].loadout
    BY <1>1
  <2>2. Won(s, Mission) = RefreshUnlocks(t)
    BY DEF Won
  <2> HIDE DEF t
  <2> QED BY <1>0, <2>1, <2>2, RefreshOpens
<1>3. ASSUME NEW i \in Objectives(Mission)
      PROVE  LET e == ObjectiveCompleted(s, Mission, i)
             IN  /\ e \in [Missions -> MissionStatus]
                 /\ e[Mission].state = "Active"
                 /\ e[Mission].mask = s[Mission].mask \cup {i}
                 /\ e[Mission].loadout = s[Mission].loadout
  <2>1. i \in Bits
    BY <1>0, ObjectiveCountAssumption DEF Objectives, Bits
  <2>2. /\ [s[Mission] EXCEPT !.mask = @ \cup {i}] \in MissionStatus
        /\ [s[Mission] EXCEPT !.mask = @ \cup {i}].state = s[Mission].state
        /\ [s[Mission] EXCEPT !.mask = @ \cup {i}].mask = s[Mission].mask \cup {i}
        /\ [s[Mission] EXCEPT !.mask = @ \cup {i}].loadout = s[Mission].loadout
    BY <1>0, <2>1 DEF MissionStatus
  <2> QED BY <1>0, <2>2 DEF ObjectiveCompleted
<1> QED BY <1>1, <1>2, <1>3 DEF Lost

-----------------------------------------------------------------------------
\* An event of the HSM that is accepted tells the campaign of the end, and
\* touches nothing else.
LEMMA DispatchedIsGood ==
    ASSUME NEW y, Consistent(y), NEW event \in EventType, CanDispatch(y, event)
    PROVE  LET z == Dispatched(y, event)
           IN  /\ Consistent(z) /\ Keeps(y, z)
               /\ z.scenario = EventTo[event]
               /\ z.objectives = y.objectives /\ z.alive = y.alive
               /\ z.waves = y.waves /\ z.shots = y.shots
               /\ z.published = y.published /\ z.tick = y.tick
<1> DEFINE won == event = "Complete" /\ y.bound
           lost == event = "Abort" /\ y.bound
           campaign == IF won THEN Won(y.campaign, Mission)
                       ELSE IF lost THEN Lost(y.campaign, Mission) ELSE y.campaign
           z == [y EXCEPT !.scenario = EventTo[event], !.campaign = campaign]
<1>1. Dispatched(y, event) = z
  BY DEF CanDispatch, Dispatched
<1>2. y \in Execution /\ y.campaign \in [Missions -> MissionStatus]
  BY DEF Consistent, Execution
<1>3. EventTo[event] \in ScenarioState /\ (EventTo[event] = "Complete" <=> event = "Complete")
  BY DEF EventType, EventTo, ScenarioState
<1>4. (won \/ lost) => y.campaign[Mission].state = "Active"
  BY DEF CanDispatch, CanComplete, CanFail
<1>5. /\ campaign \in [Missions -> MissionStatus]
      /\ campaign[Mission].mask = y.campaign[Mission].mask
      /\ won => campaign[Mission].state = "Completed"
      /\ y.campaign[Mission].state = "Completed" => campaign[Mission].state = "Completed"
  BY <1>2, <1>4, TableMoves
<1> HIDE DEF campaign
<1>6. /\ z \in Execution /\ z.scenario = EventTo[event] /\ z.campaign = campaign
      /\ z.bound = y.bound /\ z.launched = y.launched /\ z.objectives = y.objectives
      /\ z.alive = y.alive /\ z.registered = y.registered /\ z.waves = y.waves /\ z.shots = y.shots
      /\ z.published = y.published /\ z.tick = y.tick
  BY <1>2, <1>3, <1>5 DEF Execution
<1>7. y.tick <= z.tick
  BY <1>2, <1>6, ExecutionAssumption DEF Execution
<1>8. Consistent(z)
  BY <1>3, <1>5, <1>6 DEF Consistent, Present, WinRecorded
<1>9. Keeps(y, z)
  BY <1>5, <1>6, <1>7 DEF Keeps
<1> QED BY <1>1, <1>6, <1>8, <1>9

\* Activating an objective that is pending.
LEMMA ActivatedIsGood ==
    ASSUME NEW y, Consistent(y), NEW i, CanActivate(y, i)
    PROVE  LET z == Activated(y, i)
           IN  /\ Consistent(z) /\ Passes(y, z)
               /\ z.tick = y.tick /\ z.alive = y.alive /\ z.published = y.published
               /\ z.waves = y.waves /\ z.shots = y.shots
               /\ z.scenario = y.scenario
<1> DEFINE objectives == [y.objectives EXCEPT ![i] = "Active"]
           z == [y EXCEPT !.objectives = objectives]
<1>1. Activated(y, i) = z
  BY DEF Activated
<1>2. y \in Execution /\ i \in Rows /\ y.objectives[i] = "Pending"
  BY DEF Consistent, CanActivate
<1>3. /\ objectives \in [Rows -> RowState]
      /\ \A j \in Rows : y.objectives[j] = "Complete" => objectives[j] = "Complete"
  BY <1>2 DEF Execution, RowState
<1> HIDE DEF objectives
<1>4. /\ z \in Execution /\ z.scenario = y.scenario /\ z.campaign = y.campaign
      /\ z.bound = y.bound /\ z.launched = y.launched /\ z.objectives = objectives
      /\ z.alive = y.alive /\ z.registered = y.registered /\ z.waves = y.waves /\ z.shots = y.shots
      /\ z.published = y.published /\ z.tick = y.tick
  BY <1>2, <1>3 DEF Execution
<1>5. y.tick <= z.tick
  BY <1>2, <1>4, ExecutionAssumption DEF Execution
<1>6. Consistent(z)
  BY <1>4 DEF Consistent, Present, WinRecorded
<1>7. Passes(y, z)
  BY <1>3, <1>4, <1>5 DEF Passes, Keeps
<1> QED BY <1>1, <1>4, <1>6, <1>7

\* Completing an active objective sets the campaign's bit with it.
LEMMA RowCompletedIsGood ==
    ASSUME NEW y, Consistent(y), NEW i, CanCompleteRow(y, i)
    PROVE  LET z == RowCompleted(y, i)
           IN  /\ Consistent(z) /\ Passes(y, z)
               /\ z.tick = y.tick /\ z.alive = y.alive /\ z.published = y.published
               /\ z.waves = y.waves /\ z.shots = y.shots
               /\ z.scenario = y.scenario
<1> DEFINE objectives == [y.objectives EXCEPT ![i] = "Complete"]
           campaign == IF y.bound THEN ObjectiveCompleted(y.campaign, Mission, i)
                       ELSE y.campaign
           z == [y EXCEPT !.objectives = objectives, !.campaign = campaign]
<1>2. /\ y \in Execution /\ i \in Rows /\ y.objectives[i] = "Active"
      /\ y.campaign \in [Missions -> MissionStatus]
      /\ y.bound => y.campaign[Mission].state = "Active" /\ i \in Objectives(Mission)
  BY DEF Consistent, CanCompleteRow, CanCompleteObjective, Execution
<1>1. RowCompleted(y, i) = z
  BY <1>2 DEF RowCompleted
<1>3. /\ objectives \in [Rows -> RowState] /\ objectives[i] = "Complete"
      /\ \A j \in Rows : y.objectives[j] = "Complete" => objectives[j] = "Complete"
  BY <1>2 DEF Execution, RowState
<1>4. /\ campaign \in [Missions -> MissionStatus]
      /\ campaign[Mission].state = y.campaign[Mission].state
      /\ campaign[Mission].mask \ y.campaign[Mission].mask \subseteq {i}
  BY <1>2, TableMoves
<1> HIDE DEF objectives, campaign
<1>5. /\ z \in Execution /\ z.scenario = y.scenario /\ z.campaign = campaign
      /\ z.bound = y.bound /\ z.launched = y.launched /\ z.objectives = objectives
      /\ z.alive = y.alive /\ z.registered = y.registered /\ z.waves = y.waves /\ z.shots = y.shots
      /\ z.published = y.published /\ z.tick = y.tick
  BY <1>2, <1>3, <1>4 DEF Execution
<1>6. y.tick <= z.tick
  BY <1>2, <1>5, ExecutionAssumption DEF Execution
<1>7. Consistent(z)
  BY <1>4, <1>5 DEF Consistent, Present, WinRecorded
<1>8. Passes(y, z)
  BY <1>2, <1>3, <1>4, <1>5, <1>6 DEF Passes, Keeps
<1> QED BY <1>1, <1>5, <1>7, <1>8

\* Failing an objective aborts the mission, whatever the campaign says to it.
LEMMA RowFailedIsGood ==
    ASSUME NEW y, Consistent(y), NEW i, CanFailRow(y, i)
    PROVE  LET z == RowFailed(y, i)
           IN  /\ Consistent(z) /\ Passes(y, z)
               /\ z.tick = y.tick /\ z.alive = y.alive /\ z.published = y.published
               /\ z.waves = y.waves /\ z.shots = y.shots
               /\ z.scenario = "Aborted"
<1> DEFINE objectives == [y.objectives EXCEPT ![i] = "Failed"]
           campaign == IF y.bound /\ CanFail(y.campaign, Mission)
                       THEN Lost(y.campaign, Mission) ELSE y.campaign
           z == [y EXCEPT !.objectives = objectives, !.scenario = "Aborted",
                          !.campaign = campaign]
<1>1. RowFailed(y, i) = z
  BY DEF RowFailed
<1>2. /\ y \in Execution /\ i \in Rows /\ y.objectives[i] # "Complete"
      /\ y.campaign \in [Missions -> MissionStatus]
  BY DEF Consistent, CanFailRow, Execution
<1>3. /\ objectives \in [Rows -> RowState]
      /\ \A j \in Rows : y.objectives[j] = "Complete" => objectives[j] = "Complete"
  BY <1>2 DEF Execution, RowState
<1>4. /\ campaign \in [Missions -> MissionStatus]
      /\ y.campaign[Mission].state = "Completed" => campaign[Mission].state = "Completed"
      /\ campaign[Mission].mask = y.campaign[Mission].mask
  BY <1>2, TableMoves DEF CanFail
<1> HIDE DEF objectives, campaign
<1>5. /\ z \in Execution /\ z.scenario = "Aborted" /\ z.campaign = campaign
      /\ z.bound = y.bound /\ z.launched = y.launched /\ z.objectives = objectives
      /\ z.alive = y.alive /\ z.registered = y.registered /\ z.waves = y.waves /\ z.shots = y.shots
      /\ z.published = y.published /\ z.tick = y.tick
  BY <1>2, <1>3, <1>4 DEF Execution, ScenarioState
<1>6. y.tick <= z.tick
  BY <1>2, <1>5, ExecutionAssumption DEF Execution
<1>7. Consistent(z)
  BY <1>5 DEF Consistent, Present, WinRecorded
<1>8. Passes(y, z)
  BY <1>3, <1>4, <1>5, <1>6 DEF Passes, Keeps
<1> QED BY <1>1, <1>5, <1>7, <1>8

-----------------------------------------------------------------------------
(* Induction over the natural numbers, for a set.                          *)

\* Pairs of numbers in their order, which is well founded.
Smaller == {p \in Nat \X Nat : p[1] < p[2]}

\* A set of numbers that holds 0 and successors holds every number.
LEMMA NumbersByInduction ==
    ASSUME NEW S, 0 \in S, \A n \in Nat : n \in S => n + 1 \in S
    PROVE  Nat \subseteq S
<1>1. SUFFICES ASSUME Nat \ S # {} PROVE FALSE
  OBVIOUS
<1>2. IsWellFoundedOn(Smaller, Nat)
  <2>1. Smaller = OpToRel(<, Nat)
    BY DEF Smaller, OpToRel
  <2> QED BY <2>1, NatLessThanWellFounded
<1>3. PICK n \in Nat \ S : \A m \in Nat \ S : ~(<<m, n>> \in Smaller)
  BY <1>1, <1>2, WFMin, Nat \ S \subseteq Nat
<1>4. n # 0 /\ n - 1 \in Nat /\ (n - 1) + 1 = n
  <2>1. n # 0
    BY <1>3
  <2> QED BY <2>1
<1>5. n - 1 \in Nat \ S
  BY <1>3, <1>4
<1>6. <<n - 1, n>> \in Smaller
  BY <1>4 DEF Smaller
<1> QED BY <1>3, <1>5, <1>6

-----------------------------------------------------------------------------
(* The sequence.                                                           *)

\* What an offered event answers: whether it was accepted, and the mission.
Answers == [ok : BOOLEAN, x : Execution]

\* What offering events does to y on the way to z.
Sequenced(y, z) ==
    /\ Consistent(z) /\ Passes(y, z)
    /\ z.tick = y.tick /\ z.alive = y.alive
    /\ z.scenario \in {y.scenario, "Aborted"}

\* Where the loop stands after event k: while all were accepted, every due
\* event up to k is out.
OfferedTo(y, k, acc) ==
    /\ acc \in Answers /\ Sequenced(y, acc.x)
    /\ acc.ok => \A j \in 1..k : j \in acc.x.published \/ Events[j].tick > acc.x.tick

\* An operation that changes nothing keeps everything.
LEMMA PassesNowhere ==
    ASSUME NEW y \in Execution
    PROVE  Passes(y, y)
<1>1. y.tick <= y.tick
  BY ExecutionAssumption DEF Execution
<1> QED BY <1>1 DEF Passes, Keeps

\* The radio starts a message.
LEMMA RadioStartedIsGood ==
    ASSUME NEW y, Consistent(y)
    PROVE  LET z == RadioStarted(y)
           IN  Consistent(z) /\ Passes(y, z) /\ z.tick = y.tick /\ z.alive = y.alive
               /\ z.published = y.published /\ z.waves = y.waves /\ z.shots = y.shots
               /\ z.scenario = y.scenario
<1> DEFINE z == RadioStarted(y)
<1>1. y \in Execution
  BY DEF Consistent
<1>2. /\ z \in Execution /\ z.scenario = y.scenario /\ z.campaign = y.campaign
      /\ z.bound = y.bound /\ z.launched = y.launched /\ z.objectives = y.objectives
      /\ z.alive = y.alive /\ z.registered = y.registered /\ z.waves = y.waves /\ z.shots = y.shots
      /\ z.published = y.published /\ z.tick = y.tick
  BY <1>1 DEF Execution, RadioStarted
<1>3. y.tick <= z.tick
  BY <1>1, <1>2, ExecutionAssumption DEF Execution
<1> HIDE DEF z
<1> QED BY <1>2, <1>3 DEF z, Consistent, Present, WinRecorded, Passes, Keeps

\* One event of the sequence does what a caller could do.
LEMMA AttemptIsGood ==
    ASSUME NEW y, Consistent(y), NEW e
    PROVE  LET a == Attempt(y, e)
           IN  /\ a = [ok |-> a.ok, x |-> a.x] /\ a.ok \in BOOLEAN
               /\ Sequenced(y, a.x) /\ a.x.published = y.published
<1> DEFINE a == Attempt(y, e)
<1>0. y \in Execution
  BY DEF Consistent
<1>1. CASE e.type = "ActivateObjective" /\ CanActivate(y, e.id)
  <2>1. a = [ok |-> TRUE, x |-> Activated(y, e.id)]
    BY <1>1 DEF Attempt
  <2> HIDE DEF a
  <2> QED BY <1>1, <2>1, ActivatedIsGood DEF a, Sequenced
<1>2. CASE e.type = "CompleteObjective" /\ CanCompleteRow(y, e.id)
  <2>1. a = [ok |-> TRUE, x |-> RowCompleted(y, e.id)]
    BY <1>2 DEF Attempt
  <2> HIDE DEF a
  <2> QED BY <1>2, <2>1, RowCompletedIsGood DEF a, Sequenced
<1>3. CASE e.type = "FailObjective" /\ CanFailRow(y, e.id)
  <2>1. a = [ok |-> FailRowAnswer(y), x |-> RowFailed(y, e.id)]
    BY <1>3 DEF Attempt
  <2>2. FailRowAnswer(y) \in BOOLEAN
    BY DEF FailRowAnswer, CanFail
  <2> HIDE DEF a
  <2> QED BY <1>3, <2>1, <2>2, RowFailedIsGood DEF a, Sequenced
<1>4. CASE e.type = "PlayRadio" /\ CanPlayRadio(y)
  <2>1. a = [ok |-> TRUE, x |-> RadioStarted(y)]
    BY <1>4 DEF Attempt
  <2> HIDE DEF a
  <2> QED BY <2>1, RadioStartedIsGood DEF a, Sequenced
<1>5. CASE a = [ok |-> FALSE, x |-> y]
  <2> HIDE DEF a
  <2> QED BY <1>0, <1>5, PassesNowhere DEF a, Sequenced
<1> QED BY <1>1, <1>2, <1>3, <1>4, <1>5 DEF Attempt

\* An event that goes out after all the due ones before it.
LEMMA PublishedIsGood ==
    ASSUME NEW y, Consistent(y), NEW k \in DOMAIN Events,
           \A j \in 1..k : j # k => j \in y.published
    PROVE  LET z == [y EXCEPT !.published = @ \cup {k}]
           IN  /\ Consistent(z) /\ Passes(y, z)
               /\ z.tick = y.tick /\ z.alive = y.alive /\ z.scenario = y.scenario
               /\ z.published = y.published \cup {k}
<1> DEFINE published == y.published \cup {k}
           z == [y EXCEPT !.published = published]
<1>1. y \in Execution
  BY DEF Consistent
<1>2. published \in SUBSET DOMAIN Events
  BY <1>1 DEF Execution
<1>3. Prefix(published)
  BY DEF Consistent, Prefix
<1> HIDE DEF published
<1>4. /\ z \in Execution /\ z.scenario = y.scenario /\ z.campaign = y.campaign
      /\ z.bound = y.bound /\ z.launched = y.launched /\ z.objectives = y.objectives
      /\ z.alive = y.alive /\ z.registered = y.registered /\ z.waves = y.waves
      /\ z.published = published /\ z.tick = y.tick
  BY <1>1, <1>2 DEF Execution
<1>5. y.tick <= z.tick
  BY <1>1, <1>4, ExecutionAssumption DEF Execution
<1>6. Consistent(z)
  BY <1>3, <1>4 DEF Consistent, Present, WinRecorded
<1>7. Passes(y, z)
  BY <1>4, <1>5 DEF Passes, Keeps
<1> QED BY <1>4, <1>6, <1>7 DEF published

\* What one part of a sequence keeps, two of them keep.
LEMMA SequencedOn ==
    ASSUME NEW y, Consistent(y), NEW z, NEW u, Sequenced(y, z), Sequenced(z, u)
    PROVE  Sequenced(y, u)
<1>1. Passes(y, u)
  BY PassesOn DEF Consistent, Sequenced
<1> QED BY <1>1 DEF Sequenced

\* The loop takes one event more.
LEMMA OfferedIsGood ==
    ASSUME NEW y, Consistent(y), NEW k \in Nat, k + 1 \in DOMAIN Events,
           NEW acc, OfferedTo(y, k, acc)
    PROVE  OfferedTo(y, k + 1, Offered(acc, k + 1))
<1> DEFINE n == k + 1
           z == acc.x
           a == Attempt(z, Events[n])
<1>1. /\ acc \in Answers /\ Consistent(z) /\ z \in Execution /\ Sequenced(y, z)
      /\ z.tick \in Nat
  BY ExecutionAssumption DEF OfferedTo, Sequenced, Consistent, Execution
<1>2. /\ Events \in Seq([tick : Nat, type : SequenceEventType, id : Nat])
      /\ \A i, j \in DOMAIN Events : i < j => Events[i].tick <= Events[j].tick
  BY ExecutionAssumption
<1>3. /\ DOMAIN Events = 1..Len(Events) /\ Len(Events) \in Nat
      /\ \A i \in DOMAIN Events : Events[i].tick \in Nat
  <2>1. DOMAIN Events = 1..Len(Events) /\ Len(Events) \in Nat
    BY <1>2
  <2>2. ASSUME NEW i \in DOMAIN Events PROVE Events[i].tick \in Nat
    <3> DEFINE E == [tick : Nat, type : SequenceEventType, id : Nat]
    <3>1. Events \in Seq(E) /\ \A e \in E : e.tick \in Nat
      BY <1>2
    <3> HIDE DEF E
    <3>2. Events[i] \in E
      BY <2>1, <2>2, <3>1
    <3> QED BY <3>1, <3>2
  <2> QED BY <2>1, <2>2
<1>4. CASE ~acc.ok \/ n \in z.published \/ Events[n].tick > z.tick
  <2>1. Offered(acc, n) = acc
    BY <1>4 DEF Offered
  <2>2. acc.ok => \A j \in 1..n : j \in z.published \/ Events[j].tick > z.tick
    BY <1>4 DEF OfferedTo
  <2>3. acc \in Answers /\ Sequenced(y, z)
    BY <1>1
  <2> HIDE DEF n
  <2>4. OfferedTo(y, n, acc)
    BY <2>2, <2>3 DEF OfferedTo
  <2> QED BY <2>1, <2>4 DEF n
<1>5. CASE acc.ok /\ n \notin z.published /\ ~(Events[n].tick > z.tick)
  <2>1. /\ a = [ok |-> a.ok, x |-> a.x] /\ a.ok \in BOOLEAN
        /\ Sequenced(z, a.x) /\ a.x.published = z.published
    BY <1>1, AttemptIsGood
  <2>2. Sequenced(y, a.x)
    BY <1>1, <2>1, SequencedOn
  <2>3. Offered(acc, n) =
          IF a.ok THEN [acc EXCEPT !.x = [a.x EXCEPT !.published = @ \cup {n}]]
          ELSE [ok |-> FALSE, x |-> a.x]
    BY <1>5 DEF Offered
  <2>4. CASE ~a.ok
    <3>1. Offered(acc, n) = [ok |-> FALSE, x |-> a.x]
      BY <2>3, <2>4
    <3> DEFINE new == Offered(acc, n)
    <3>2. new = [ok |-> FALSE, x |-> a.x] /\ a.x \in Execution
      BY <2>2, <3>1 DEF Sequenced, Consistent
    <3> HIDE DEF a, new
    <3>3. new.ok = FALSE /\ new.x = a.x /\ new \in Answers
      BY <3>2 DEF Answers
    <3> QED BY <2>2, <3>3 DEF OfferedTo, new
  <2>5. CASE a.ok
    <3> DEFINE u == [a.x EXCEPT !.published = @ \cup {n}]
    <3>1. \A j \in 1..n : j # n => j \in z.published
      <4>1. ASSUME NEW j \in 1..n, j # n PROVE Events[j].tick <= Events[n].tick
        BY <1>2, <1>3, <4>1
      <4>2. ASSUME NEW j \in 1..n, j # n PROVE j \in 1..k
        BY <4>2
      <4>3. \A j \in 1..n : j \in DOMAIN Events
        BY <1>3
      <4> QED BY <1>1, <1>3, <1>5, <4>1, <4>2, <4>3 DEF OfferedTo
    <3>2. /\ Consistent(u) /\ Passes(a.x, u) /\ u.tick = a.x.tick /\ u.alive = a.x.alive
          /\ u.scenario = a.x.scenario /\ u.published = z.published \cup {n}
      <4> HIDE DEF a
      <4>1. Consistent(a.x) /\ \A j \in 1..n : j # n => j \in a.x.published
        BY <2>1, <2>2, <3>1 DEF Sequenced
      <4> QED BY <2>1, <4>1, PublishedIsGood
    <3>3. Sequenced(a.x, u)
      BY <3>2 DEF Sequenced
    <3>4. Sequenced(y, u)
      BY <2>2, <3>3, SequencedOn
    <3>5. Offered(acc, n) = [ok |-> TRUE, x |-> u]
      BY <1>1, <1>5, <2>3, <2>5 DEF Answers
    <3> DEFINE new == Offered(acc, n)
    <3>6. \A j \in 1..n : j \in u.published
      BY <3>1, <3>2
    <3>7. new = [ok |-> TRUE, x |-> u] /\ u \in Execution
      BY <3>2, <3>5 DEF Consistent
    <3> HIDE DEF u, new
    <3>8. new.ok = TRUE /\ new.x = u /\ new \in Answers
      BY <3>7 DEF Answers
    <3> QED BY <3>4, <3>6, <3>8 DEF OfferedTo, new
  <2> QED BY <2>1, <2>4, <2>5
<1> QED BY <1>1, <1>4, <1>5 DEF Answers

\* The loop as a whole: dispatch_due() is offered one event after another.
LEMMA DispatchDueIsGood ==
    ASSUME NEW y, Consistent(y)
    PROVE  Sequenced(y, DispatchDue(y).x)
<1> DEFINE n == Len(Events)
           F(m, f) == [k \in 0..m |->
                          IF k = 0 THEN {[ok |-> TRUE, x |-> y]}
                          ELSE {Offered(acc, k) : acc \in f[k - 1]}]
           offered == CHOOSE f : f = F(n, f)
<1>1. n \in Nat /\ DOMAIN Events = 1..n
  <2> DEFINE E == [tick : Nat, type : SequenceEventType, id : Nat]
  <2>1. Events \in Seq(E)
    BY ExecutionAssumption
  <2> HIDE DEF E
  <2> QED BY <2>1
<1>2. \E f : f = F(n, f)
  <2> DEFINE S == {m \in Nat : \E f : f = F(m, f)}
  <2>1. 0 \in S
    <3> DEFINE f == [k \in 0..0 |-> {[ok |-> TRUE, x |-> y]}]
    <3>1. f = F(0, f)
      OBVIOUS
    <3> HIDE DEF f, F
    <3> QED BY <3>1
  <2>2. ASSUME NEW m \in Nat, m \in S PROVE m + 1 \in S
    <3>1. PICK f : f = F(m, f)
      BY <2>2
    <3> DEFINE g == [k \in 0..m + 1 |-> IF k = m + 1 THEN {Offered(acc, k) : acc \in f[m]}
                                        ELSE f[k]]
    <3>2. \A k \in 0..m : f[k] = IF k = 0 THEN {[ok |-> TRUE, x |-> y]}
                                 ELSE {Offered(acc, k) : acc \in f[k - 1]}
      BY <3>1
    <3>3. ASSUME NEW k \in 0..m + 1
          PROVE  g[k] = IF k = 0 THEN {[ok |-> TRUE, x |-> y]}
                        ELSE {Offered(acc, k) : acc \in g[k - 1]}
      <4>1. CASE k = m + 1
        <5>1. k # 0 /\ k - 1 = m /\ m \in 0..m + 1 /\ m # m + 1
          BY <4>1
        <5> QED BY <4>1, <5>1
      <4>2. CASE k \in 1..m
        <5>1. k # 0 /\ k # m + 1 /\ k - 1 \in 0..m + 1 /\ k - 1 # m + 1 /\ k \in 0..m
          BY <4>2
        <5>2. g[k] = f[k] /\ g[k - 1] = f[k - 1]
          BY <5>1
        <5> HIDE DEF g
        <5> QED BY <3>2, <5>1, <5>2
      <4>3. CASE k = 0
        <5>1. k # m + 1 /\ 0 \in 0..m
          BY <4>3
        <5> QED BY <3>2, <4>3, <5>1
      <4> QED BY <4>1, <4>2, <4>3
    <3>4. g = [k \in 0..m + 1 |-> g[k]]
      OBVIOUS
    <3> HIDE DEF g
    <3>5. g = F(m + 1, g)
      BY <3>3, <3>4
    <3> HIDE DEF F
    <3> QED BY <3>5
  <2>3. Nat \subseteq S
    <3> HIDE DEF S
    <3> QED BY <2>1, <2>2, NumbersByInduction
  <2> HIDE DEF F
  <2> QED BY <1>1, <2>3
<1>3. offered = F(n, offered)
  <2> HIDE DEF F
  <2> QED BY <1>2
<1>4. DispatchDue(y) = CHOOSE acc \in offered[n] : TRUE
  BY DEF DispatchDue
<1> HIDE DEF offered
<1>5. /\ offered[0] = {[ok |-> TRUE, x |-> y]}
      /\ \A k \in Nat : k + 1 \in 0..n =>
            offered[k + 1] = {Offered(acc, k + 1) : acc \in offered[k]}
  <2>1. \A k \in 0..n : offered[k] = IF k = 0 THEN {[ok |-> TRUE, x |-> y]}
                                    ELSE {Offered(acc, k) : acc \in offered[k - 1]}
    BY <1>3
  <2>2. ASSUME NEW k \in Nat, k + 1 \in 0..n
        PROVE  offered[k + 1] = {Offered(acc, k + 1) : acc \in offered[(k + 1) - 1]}
    <3> DEFINE m == k + 1
    <3>1. m \in 0..n /\ m # 0
      BY <2>2
    <3> HIDE DEF m
    <3>2. offered[m] = {Offered(acc, m) : acc \in offered[m - 1]}
      BY <2>1, <3>1
    <3> QED BY <3>2 DEF m
  <2>3. \A k \in Nat : (k + 1) - 1 = k
    OBVIOUS
  <2>4. 0 \in 0..n
    BY <1>1
  <2> QED BY <2>1, <2>2, <2>3, <2>4
<1> DEFINE T == {k \in Nat : k \in 0..n => \E acc : offered[k] = {acc} /\ OfferedTo(y, k, acc)}
<1>6. 0 \in T
  <2> DEFINE start == [ok |-> TRUE, x |-> y]
  <2>1. y \in Execution /\ Passes(y, y)
    BY PassesNowhere DEF Consistent
  <2>2. start \in Answers /\ start.x = y /\ Sequenced(y, start.x)
    BY <2>1 DEF Answers, Sequenced
  <2>3. OfferedTo(y, 0, start)
    <3> HIDE DEF start
    <3> QED BY <2>2 DEF OfferedTo
  <2> QED BY <1>5, <2>3
<1>7. ASSUME NEW k \in Nat, k \in T PROVE k + 1 \in T
  <2> SUFFICES ASSUME k + 1 \in 0..n
               PROVE  \E acc : offered[k + 1] = {acc} /\ OfferedTo(y, k + 1, acc)
    OBVIOUS
  <2>1. k \in 0..n /\ k + 1 # 0 /\ (k + 1) - 1 = k /\ k + 1 \in DOMAIN Events
    BY <1>1
  <2>2. PICK acc : offered[k] = {acc} /\ OfferedTo(y, k, acc)
    BY <1>7, <2>1
  <2>3. offered[k + 1] = {Offered(acc, k + 1)}
    <3>1. offered[k + 1] = {Offered(b, k + 1) : b \in offered[k]}
      BY <1>5
    <3> QED BY <2>2, <3>1
  <2>4. OfferedTo(y, k + 1, Offered(acc, k + 1))
    BY <2>1, <2>2, OfferedIsGood
  <2> QED BY <2>3, <2>4
<1>8. Nat \subseteq T
  <2> HIDE DEF T
  <2> QED BY <1>6, <1>7, NumbersByInduction
<1>9. PICK acc : offered[n] = {acc} /\ OfferedTo(y, n, acc)
  BY <1>1, <1>8
<1> QED BY <1>4, <1>9 DEF OfferedTo

-----------------------------------------------------------------------------
(* The parts of a tick.                                                    *)

\* The world stands still; a shot may be added to those in flight.
SameWorld(y, z) ==
    /\ z.tick = y.tick /\ z.alive = y.alive /\ z.waves = y.waves
    /\ z.published = y.published /\ y.shots \subseteq z.shots

\* A change of the fields that no property is about.
LEMMA SideIsGood ==
    ASSUME NEW y, Consistent(y), NEW z \in Execution,
           z.bound = y.bound, z.launched = y.launched, z.scenario = y.scenario,
           z.objectives = y.objectives, z.campaign = y.campaign,
           z.published = y.published, y.tick <= z.tick,
           z.alive \subseteq Present(z), z.registered \subseteq Present(z)
    PROVE  Consistent(z) /\ Passes(y, z)
BY DEF Consistent, WinRecorded, Passes, Keeps

\* The combat of one frame takes units away, while the mission is in play.
LEMMA CombatIsGood ==
    ASSUME NEW y, Consistent(y), NEW z \in CombatTicks(y)
    PROVE  /\ Consistent(z) /\ Passes(y, z)
           /\ z.scenario = y.scenario /\ z.tick = y.tick
           /\ y.scenario # "Gameplay" => z = y
<1>0. y \in Execution
  BY DEF Consistent
<1>1. CASE y.scenario # "Gameplay"
  <2>1. z = y
    BY <1>1 DEF CombatTicks
  <2> QED BY <1>0, <2>1, PassesNowhere
<1>2. CASE y.scenario = "Gameplay"
  <2>1. PICK killed \in SUBSET (y.shots \cap y.alive), flying \in SUBSET (y.shots \cap y.alive) :
           z = Fought(y, killed, flying)
    BY <1>2 DEF CombatTicks
  <2>2. /\ z \in Execution /\ z.bound = y.bound /\ z.launched = y.launched
        /\ z.scenario = y.scenario /\ z.objectives = y.objectives
        /\ z.campaign = y.campaign /\ z.published = y.published /\ z.tick = y.tick
        /\ z.alive = y.alive \ killed /\ z.registered = y.registered /\ z.waves = y.waves
    BY <1>0, <2>1 DEF Execution, Fought
  <2>3. y.tick <= z.tick
    BY <1>0, <2>2, ExecutionAssumption DEF Execution
  <2>4. z.alive \subseteq Present(z) /\ z.registered \subseteq Present(z)
    BY <2>2 DEF Consistent, Present
  <2> QED BY <1>2, <2>2, <2>3, <2>4, SideIsGood
<1> QED BY <1>1, <1>2

\* The counter of the flight goes up to its bound.
LEMMA FlownIsGood ==
    ASSUME NEW y, Consistent(y), NEW n \in Strides
    PROVE  LET z == Flown(y, n)
           IN  /\ Consistent(z) /\ Passes(y, z) /\ z.scenario = y.scenario
               /\ y.scenario \in {"Paused", "Complete", "Aborted"} => z = y
<1> DEFINE z == Flown(y, n)
           tick == IF y.tick + n > MaxTick THEN MaxTick ELSE y.tick + n
<1>0. y \in Execution
  BY DEF Consistent
<1>1. CASE y.scenario \in {"Paused", "Complete", "Aborted"}
  <2>1. z = y
    BY <1>1 DEF Flown
  <2> QED BY <1>0, <2>1, PassesNowhere
<1>2. CASE y.scenario \notin {"Paused", "Complete", "Aborted"}
  <2>1. z = [y EXCEPT !.tick = tick]
    BY <1>2 DEF Flown
  <2>2. tick \in 0..MaxTick /\ y.tick <= tick
    <3>1. y.tick \in 0..MaxTick /\ MaxTick \in Nat /\ n \in Nat
      BY <1>0, ExecutionAssumption DEF Execution
    <3> QED BY <3>1
  <2> HIDE DEF tick, z
  <2>3. /\ z \in Execution /\ z.bound = y.bound /\ z.launched = y.launched
        /\ z.scenario = y.scenario /\ z.objectives = y.objectives
        /\ z.campaign = y.campaign /\ z.published = y.published /\ z.tick = tick
        /\ z.alive = y.alive /\ z.registered = y.registered /\ z.waves = y.waves
    BY <1>0, <2>1, <2>2 DEF Execution
  <2>4. z.alive \subseteq Present(z) /\ z.registered \subseteq Present(z)
    BY <2>3 DEF Consistent, Present
  <2> QED BY <1>2, <2>2, <2>3, <2>4, SideIsGood DEF z
<1> QED BY <1>1, <1>2

\* The radio falls silent or plays on.
LEMMA RadioIsGood ==
    ASSUME NEW y, Consistent(y), NEW z \in RadioTicks(y)
    PROVE  /\ Consistent(z) /\ Passes(y, z) /\ z.scenario = y.scenario
           /\ SameWorld(y, z)
           /\ y.scenario # "Gameplay" => z = y
<1>0. y \in Execution
  BY DEF Consistent
<1>1. CASE z = y
  BY <1>0, <1>1, PassesNowhere DEF SameWorld
<1>2. CASE z # y
  <2>1. y.scenario = "Gameplay" /\ z = [y EXCEPT !.playing = FALSE]
    BY <1>2 DEF RadioTicks
  <2>2. /\ z \in Execution /\ z.bound = y.bound /\ z.launched = y.launched
        /\ z.scenario = y.scenario /\ z.objectives = y.objectives
        /\ z.campaign = y.campaign /\ z.published = y.published /\ z.tick = y.tick
        /\ z.alive = y.alive /\ z.registered = y.registered
        /\ z.waves = y.waves /\ z.shots = y.shots
    BY <1>0, <2>1 DEF Execution
  <2>3. y.tick <= z.tick
    BY <1>0, <2>2, ExecutionAssumption DEF Execution
  <2>4. z.alive \subseteq Present(z) /\ z.registered \subseteq Present(z)
    BY <2>2 DEF Consistent, Present
  <2> QED BY <2>1, <2>2, <2>3, <2>4, SideIsGood DEF SameWorld
<1> QED BY <1>1, <1>2

\* The due waves bring their units into the world and into the registry.
LEMMA WavesAreGood ==
    ASSUME NEW y, Consistent(y)
    PROVE  LET z == WavesSpawned(y)
           IN  Consistent(z) /\ Passes(y, z) /\ z.scenario = y.scenario /\ z.tick = y.tick
<1> DEFINE z == WavesSpawned(y)
           due == DueWaves(y)
           arrived == {w.unit : w \in due}
<1>0. y \in Execution
  BY DEF Consistent
<1>1. due \subseteq Waves /\ arrived \subseteq Units
  <2>1. \A w \in Waves : w.unit \in Units
    BY ExecutionAssumption
  <2> QED BY <2>1 DEF DueWaves
<1>2. z = [y EXCEPT !.waves = @ \cup due, !.alive = @ \cup arrived,
                    !.registered = @ \cup arrived]
  BY DEF WavesSpawned
<1> HIDE DEF z, due
<1>3. arrived \subseteq Units
  BY <1>1
<1>4. /\ z \in Execution /\ z.bound = y.bound /\ z.launched = y.launched
      /\ z.scenario = y.scenario /\ z.objectives = y.objectives
      /\ z.campaign = y.campaign /\ z.published = y.published /\ z.tick = y.tick
      /\ z.alive = y.alive \cup arrived /\ z.registered = y.registered \cup arrived
      /\ z.waves = y.waves \cup due
  <2> HIDE DEF arrived
  <2> QED BY <1>0, <1>1, <1>2, <1>3 DEF Execution
<1>5. y.tick <= z.tick
  BY <1>0, <1>4, ExecutionAssumption DEF Execution
<1>6. z.alive \subseteq Present(z) /\ z.registered \subseteq Present(z)
  BY <1>4 DEF Consistent, Present
<1> QED BY <1>4, <1>5, <1>6, SideIsGood DEF z

\* The AI fires at units that are in the world.
LEMMA AiIsGood ==
    ASSUME NEW y, Consistent(y), NEW z \in AiFirings(y)
    PROVE  Consistent(z) /\ Passes(y, z) /\ z.scenario = y.scenario /\ z.tick = y.tick
<1>0. y \in Execution
  BY DEF Consistent
<1>1. PICK firing \in SUBSET ReachedRules(y) :
         z = [y EXCEPT !.shots = @ \cup {AiRules[k].target : k \in firing}]
  BY DEF AiFirings
<1>2. {AiRules[k].target : k \in firing} \subseteq Units
  BY <1>0 DEF ReachedRules, DueRules, Execution
<1>3. /\ z \in Execution /\ z.bound = y.bound /\ z.launched = y.launched
      /\ z.scenario = y.scenario /\ z.objectives = y.objectives
      /\ z.campaign = y.campaign /\ z.published = y.published /\ z.tick = y.tick
      /\ z.alive = y.alive /\ z.registered = y.registered /\ z.waves = y.waves
  BY <1>0, <1>1, <1>2 DEF Execution
<1>4. y.tick <= z.tick
  BY <1>0, <1>3, ExecutionAssumption DEF Execution
<1>5. z.alive \subseteq Present(z) /\ z.registered \subseteq Present(z)
  BY <1>3 DEF Consistent, Present
<1> QED BY <1>3, <1>4, <1>5, SideIsGood

\* The registry follows the world.
LEMMA SyncedIsGood ==
    ASSUME NEW y, Consistent(y)
    PROVE  LET z == Synced(y)
           IN  /\ Consistent(z) /\ Passes(y, z) /\ SameWorld(y, z)
               /\ z.scenario = y.scenario
<1> DEFINE z == Synced(y)
<1>0. y \in Execution
  BY DEF Consistent
<1>1. /\ z \in Execution /\ z.bound = y.bound /\ z.launched = y.launched
      /\ z.scenario = y.scenario /\ z.objectives = y.objectives
      /\ z.campaign = y.campaign /\ z.published = y.published /\ z.tick = y.tick
      /\ z.alive = y.alive /\ z.registered = y.alive /\ z.waves = y.waves /\ z.shots = y.shots
  BY <1>0 DEF Synced, Execution
<1> HIDE DEF z
<1>2. y.tick <= z.tick
  BY <1>0, <1>1, ExecutionAssumption DEF Execution
<1>3. z.alive \subseteq Present(z) /\ z.registered \subseteq Present(z)
  BY <1>1 DEF Consistent, Present
<1> QED BY <1>1, <1>2, <1>3, SideIsGood DEF SameWorld, z

\* The fate of a target completes or fails active objectives, and the campaign
\* is not told.
LEMMA JudgedIsGood ==
    ASSUME NEW y, Consistent(y)
    PROVE  LET z == Judged(y)
           IN  /\ Consistent(z) /\ Passes(y, z) /\ SameWorld(y, z)
               /\ z.scenario \in {y.scenario, "Aborted"}
               /\ y.scenario # "Gameplay" => z = y
<1>0. y \in Execution
  BY DEF Consistent
<1>1. CASE y.scenario # "Gameplay"
  <2>1. Judged(y) = y
    BY <1>1 DEF Judged
  <2> QED BY <1>0, <2>1, PassesNowhere DEF SameWorld
<1>2. CASE y.scenario = "Gameplay"
  <2> DEFINE over(i) == /\ y.objectives[i] = "Active"
                        /\ ObjectiveRows[i].condition # "Manual"
                        /\ ObjectiveRows[i].target \in Present(y) \ y.alive
             objectives ==
                [i \in Rows |->
                    IF ~over(i) THEN y.objectives[i]
                    ELSE IF ObjectiveRows[i].condition = "DestroyUnit" THEN "Complete"
                    ELSE "Failed"]
             scenario == IF \E i \in Rows : objectives[i] = "Failed" THEN "Aborted"
                         ELSE y.scenario
             z == [y EXCEPT !.objectives = objectives, !.scenario = scenario]
  <2>1. Judged(y) = z
    BY <1>2 DEF Judged
  <2>2. /\ objectives \in [Rows -> RowState]
        /\ \A i \in Rows : y.objectives[i] = "Complete" => objectives[i] = "Complete"
    BY <1>0 DEF Execution, RowState
  <2>3. scenario \in {y.scenario, "Aborted"} /\ scenario \in ScenarioState
    BY <1>0 DEF Execution, ScenarioState
  <2> HIDE DEF objectives, scenario
  <2>4. /\ z \in Execution /\ z.bound = y.bound /\ z.launched = y.launched
        /\ z.scenario = scenario /\ z.objectives = objectives
        /\ z.campaign = y.campaign /\ z.published = y.published /\ z.tick = y.tick
        /\ z.alive = y.alive /\ z.registered = y.registered
        /\ z.waves = y.waves /\ z.shots = y.shots
    BY <1>0, <2>2, <2>3 DEF Execution
  <2>5. y.tick <= z.tick
    BY <1>0, <2>4, ExecutionAssumption DEF Execution
  <2>6. Consistent(z)
    BY <1>2, <2>3, <2>4 DEF Consistent, Present, WinRecorded
  <2>7. Passes(y, z) /\ SameWorld(y, z)
    BY <2>2, <2>3, <2>4, <2>5 DEF Passes, Keeps, SameWorld
  <2> QED BY <1>2, <2>1, <2>3, <2>4, <2>6, <2>7
<1> QED BY <1>1, <1>2

\* An end that is due is given to the HSM, if it takes it.
LEMMA GivenIsGood ==
    ASSUME NEW y, Consistent(y), NEW event \in {"Complete", "Abort"},
           NEW condition \in BOOLEAN
    PROVE  LET z == Given(condition, y, event)
           IN  /\ Consistent(z) /\ Passes(y, z) /\ SameWorld(y, z)
               /\ z.scenario \in {y.scenario, EventTo[event]}
               /\ ~(y.scenario = "Gameplay" /\ condition /\ CanDispatch(y, event)) => z = y
<1> DEFINE z == Given(condition, y, event)
<1>0. y \in Execution
  BY DEF Consistent
<1>1. CASE y.scenario = "Gameplay" /\ condition /\ CanDispatch(y, event)
  <2>1. z = Dispatched(y, event)
    BY <1>1 DEF Given
  <2>2. event \in EventType /\ EventTo[event] \in {"Complete", "Aborted"}
    BY DEF EventType, EventTo
  <2> DEFINE u == Dispatched(y, event)
  <2>3. /\ Consistent(u) /\ Keeps(y, u) /\ u.scenario = EventTo[event]
        /\ u.alive = y.alive /\ u.waves = y.waves /\ u.shots = y.shots
        /\ u.published = y.published /\ u.tick = y.tick
    BY <1>1, <2>2, DispatchedIsGood
  <2>4. SameWorld(y, u)
    BY <2>3 DEF SameWorld
  <2> HIDE DEF z, u
  <2> QED BY <1>1, <2>1, <2>2, <2>3, <2>4 DEF Passes, z, u
<1>2. CASE ~(y.scenario = "Gameplay" /\ condition /\ CanDispatch(y, event))
  <2>1. z = y
    BY <1>2 DEF Given
  <2> QED BY <1>0, <1>2, <2>1, PassesNowhere DEF SameWorld
<1> QED BY <1>1, <1>2

\* The tail of a tick: failure is looked at before success, so that a mission
\* that fails and succeeds at once has failed.
LEMMA SettledIsGood ==
    ASSUME NEW y, Consistent(y)
    PROVE  LET z == Settled(y)
           IN  /\ Consistent(z) /\ Passes(y, z) /\ SameWorld(y, z)
               /\ y.scenario # "Gameplay" => z.scenario = y.scenario
               /\ y.scenario = "Gameplay" /\ z.scenario = "Complete" => ~FailureDue(z)
<1> DEFINE synced == Synced(y)
           judged == Judged(synced)
           failed == FailureChecked(judged)
           z == SuccessChecked(failed)
           success == Rows # {} /\ AllRequiredComplete(failed)
<1>1. /\ Consistent(synced) /\ Passes(y, synced) /\ SameWorld(y, synced)
      /\ synced.scenario = y.scenario
  BY SyncedIsGood
<1> HIDE DEF synced
<1>2. /\ Consistent(judged) /\ Passes(synced, judged) /\ SameWorld(synced, judged)
      /\ judged.scenario \in {synced.scenario, "Aborted"}
      /\ synced.scenario # "Gameplay" => judged = synced
  BY <1>1, JudgedIsGood
<1> HIDE DEF judged
<1>3. /\ Consistent(failed) /\ Passes(judged, failed) /\ SameWorld(judged, failed)
      /\ failed.scenario \in {judged.scenario, "Aborted"}
      /\ ~(judged.scenario = "Gameplay" /\ FailureDue(judged) /\ CanDispatch(judged, "Abort"))
            => failed = judged
  <2>1. FailureDue(judged) \in BOOLEAN /\ EventTo["Abort"] = "Aborted"
    BY DEF FailureDue, Deadline, EventTo
  <2> QED BY <1>2, <2>1, GivenIsGood DEF FailureChecked
<1> HIDE DEF failed
<1>4. /\ Consistent(z) /\ Passes(failed, z) /\ SameWorld(failed, z)
      /\ z.scenario \in {failed.scenario, "Complete"}
      /\ ~(failed.scenario = "Gameplay" /\ success /\ CanDispatch(failed, "Complete"))
            => z = failed
  <2>1. success \in BOOLEAN /\ EventTo["Complete"] = "Complete"
    BY DEF AllRequiredComplete, EventTo
  <2> QED BY <1>3, <2>1, GivenIsGood DEF SuccessChecked
<1>5. Settled(y) = z
  BY DEF Settled, synced, judged, failed
<1> HIDE DEF z, success
<1>6. Passes(y, z)
  <2>1. y \in Execution /\ synced \in Execution /\ judged \in Execution
        /\ failed \in Execution /\ z \in Execution
    BY <1>1, <1>2, <1>3, <1>4 DEF Consistent
  <2>2. Passes(y, judged)
    BY <1>1, <1>2, <2>1, PassesOn
  <2>3. Passes(y, failed)
    BY <1>3, <2>1, <2>2, PassesOn
  <2> QED BY <1>4, <2>1, <2>3, PassesOn
<1>7. SameWorld(y, z)
  BY <1>1, <1>2, <1>3, <1>4 DEF SameWorld
<1>8. ASSUME y.scenario # "Gameplay" PROVE z.scenario = y.scenario
  BY <1>1, <1>2, <1>3, <1>4, <1>8
<1>9. ASSUME y.scenario = "Gameplay", z.scenario = "Complete" PROVE ~FailureDue(z)
  <2>1. failed.scenario = "Gameplay" /\ CanDispatch(failed, "Complete")
    BY <1>1, <1>2, <1>3, <1>4, <1>9
  <2>2. judged.scenario = "Gameplay"
    BY <1>2, <1>3, <2>1
  <2>3. failed = judged
    \* An Abort that was dispatched would show.
    <3>1. CASE judged.scenario = "Gameplay" /\ FailureDue(judged)
               /\ CanDispatch(judged, "Abort")
      <4>1. failed = Dispatched(judged, "Abort")
        BY <3>1 DEF failed, FailureChecked, Given
      <4>2. failed.scenario = EventTo["Abort"]
        BY <1>2, <3>1, <4>1, DispatchedIsGood DEF EventType
      <4> QED BY <2>1, <4>2 DEF EventTo
    <3> QED BY <1>3, <3>1
  <2>4. CanDispatch(judged, "Abort")
    <3>1. judged.launched /\ (judged.bound => judged.campaign[Mission].state = "Active")
      BY <2>1, <2>3 DEF CanDispatch, CanComplete
    <3>2. judged.scenario \in EventFrom["Abort"]
      BY <2>2 DEF EventFrom, ScenarioState
    <3> QED BY <3>1, <3>2 DEF CanDispatch, CanFail
  <2>5. ~FailureDue(judged)
    <3> SUFFICES ASSUME FailureDue(judged) PROVE FALSE
      OBVIOUS
    <3>1. failed = Dispatched(judged, "Abort")
      BY <2>2, <2>4 DEF failed, FailureChecked, Given
    <3>2. failed.scenario = EventTo["Abort"]
      BY <1>2, <2>4, <3>1, DispatchedIsGood DEF EventType
    <3> QED BY <2>1, <3>2 DEF EventTo
  <2>6. z.alive = judged.alive /\ z.tick = judged.tick
    BY <1>3, <1>4 DEF SameWorld
  <2> QED BY <2>5, <2>6 DEF FailureDue, Deadline
<1> QED BY <1>4, <1>5, <1>6, <1>7, <1>8, <1>9

\* The directors and the tail.
LEMMA DirectedIsGood ==
    ASSUME NEW y, Consistent(y), NEW z \in Directed(y)
    PROVE  /\ Consistent(z) /\ Passes(y, z) /\ z.tick = y.tick
           /\ y.scenario # "Gameplay" => SameWorld(y, z) /\ z.scenario = y.scenario
           /\ y.scenario = "Gameplay" /\ z.scenario = "Complete" => ~FailureDue(z)
<1>0. y \in Execution
  BY DEF Consistent
<1>1. CASE y.scenario # "Gameplay"
  <2>1. z = Settled(y)
    BY <1>1 DEF Directed
  <2> QED BY <1>1, <2>1, SettledIsGood DEF SameWorld
<1>2. CASE y.scenario = "Gameplay" /\ WavesRefused(y)
  <2>1. z = y
    BY <1>2 DEF Directed
  <2> QED BY <1>0, <1>2, <2>1, PassesNowhere
<1>3. CASE y.scenario = "Gameplay" /\ ~WavesRefused(y)
  <2> DEFINE spawned == WavesSpawned(y)
  <2>1. /\ Consistent(spawned) /\ Passes(y, spawned) /\ spawned.scenario = "Gameplay"
        /\ spawned.tick = y.tick
    BY <1>3, WavesAreGood
  <2>2. PICK fought \in AiFirings(spawned) :
           z = IF RefusedRules(fought) # {} THEN fought
               ELSE LET due == DispatchDue(fought)
                    IN IF due.ok THEN Settled(due.x) ELSE due.x
    BY <1>3 DEF Directed
  <2> HIDE DEF spawned
  <2>3. /\ Consistent(fought) /\ Passes(spawned, fought) /\ fought.scenario = "Gameplay"
        /\ fought.tick = y.tick
    BY <2>1, AiIsGood
  <2>4. Passes(y, fought)
    BY <1>0, <2>1, <2>3, PassesOn DEF Consistent
  <2> DEFINE u == DispatchDue(fought).x
  <2>5. /\ Consistent(u) /\ Passes(fought, u) /\ u.tick = y.tick
        /\ u.scenario \in {"Gameplay", "Aborted"}
    BY <2>3, DispatchDueIsGood DEF Sequenced
  <2>6. Passes(y, u)
    BY <1>0, <2>3, <2>4, <2>5, PassesOn DEF Consistent
  <2>7. z \in {fought, u, Settled(u)}
    BY <2>2
  <2> HIDE DEF u
  <2>8. CASE z \in {fought, u}
    BY <1>3, <2>3, <2>4, <2>5, <2>6, <2>8
  <2>9. CASE z = Settled(u)
    <3>1. /\ Consistent(z) /\ Passes(u, z) /\ SameWorld(u, z)
          /\ u.scenario # "Gameplay" => z.scenario = u.scenario
          /\ u.scenario = "Gameplay" /\ z.scenario = "Complete" => ~FailureDue(z)
      BY <2>5, <2>9, SettledIsGood
    <3>2. Passes(y, z)
      BY <1>0, <2>5, <2>6, <3>1, PassesOn DEF Consistent
    <3> QED BY <1>3, <2>5, <3>1, <3>2 DEF SameWorld
  <2> QED BY <2>7, <2>8, <2>9
<1> QED BY <1>1, <1>2, <1>3

\* A tick: what was paused stands still, and what completes has not failed.
LEMMA TickedIsGood ==
    ASSUME NEW y, Consistent(y), NEW z \in Ticked(y)
    PROVE  /\ Consistent(z) /\ Passes(y, z)
           /\ y.scenario = "Paused" => SameWorld(y, z) /\ z.scenario = "Paused"
           /\ z.scenario = "Complete" => z.tick = y.tick \/ ~FailureDue(z)
<1>1. PICK fought \in CombatTicks(y), n \in Strides :
         z \in UNION {Directed(heard) : heard \in RadioTicks(Flown(fought, n))}
  BY DEF Ticked
<1> DEFINE flown == Flown(fought, n)
<1>2. PICK heard \in RadioTicks(flown) : z \in Directed(heard)
  BY <1>1
<1>3. /\ Consistent(fought) /\ Passes(y, fought)
      /\ fought.scenario = y.scenario /\ fought.tick = y.tick
      /\ y.scenario # "Gameplay" => fought = y
  BY CombatIsGood
<1>4. /\ Consistent(flown) /\ Passes(fought, flown) /\ flown.scenario = fought.scenario
      /\ fought.scenario \in {"Paused", "Complete", "Aborted"} => flown = fought
  BY <1>3, FlownIsGood
<1> HIDE DEF flown
<1>5. /\ Consistent(heard) /\ Passes(flown, heard) /\ heard.scenario = flown.scenario
      /\ flown.scenario # "Gameplay" => heard = flown
  BY <1>2, <1>4, RadioIsGood
<1>6. /\ Consistent(z) /\ Passes(heard, z) /\ z.tick = heard.tick
      /\ heard.scenario # "Gameplay" => SameWorld(heard, z) /\ z.scenario = heard.scenario
      /\ heard.scenario = "Gameplay" /\ z.scenario = "Complete" => ~FailureDue(z)
  BY <1>2, <1>5, DirectedIsGood
<1>7. Passes(y, z)
  <2>1. y \in Execution /\ fought \in Execution /\ flown \in Execution
        /\ heard \in Execution /\ z \in Execution
    BY <1>3, <1>4, <1>5, <1>6 DEF Consistent
  <2>2. Passes(y, flown)
    BY <1>3, <1>4, <2>1, PassesOn
  <2>3. Passes(y, heard)
    BY <1>5, <2>1, <2>2, PassesOn
  <2> QED BY <1>6, <2>1, <2>3, PassesOn
<1>8. ASSUME y.scenario = "Paused"
      PROVE  SameWorld(y, z) /\ z.scenario = "Paused"
  <2>1. heard = y
    BY <1>3, <1>4, <1>5, <1>8
  <2> QED BY <1>6, <1>8, <2>1
<1>9. z.scenario = "Complete" => z.tick = y.tick \/ ~FailureDue(z)
  <2>1. CASE heard.scenario = "Gameplay"
    BY <1>6, <2>1
  <2>2. CASE heard.scenario # "Gameplay"
    <3> SUFFICES ASSUME z.scenario = "Complete" PROVE z.tick = y.tick
      OBVIOUS
    <3>1. heard.scenario = "Complete"
      BY <1>6, <2>2
    <3>2. heard = y
      BY <1>3, <1>4, <1>5, <3>1
    <3> QED BY <1>6, <3>2
  <2> QED BY <2>1, <2>2
<1> QED BY <1>6, <1>7, <1>8, <1>9

-----------------------------------------------------------------------------
(* The caller.                                                             *)

\* A checkpoint is consistent as the execution it was taken of, is of its past,
\* and a win in it is recorded.
CheckpointIsPast ==
    checkpoint # NoCheckpoint =>
        /\ checkpoint.alive \subseteq LaunchUnits \cup {w.unit : w \in checkpoint.waves}
        /\ checkpoint.registered \subseteq LaunchUnits \cup {w.unit : w \in checkpoint.waves}
        /\ Prefix(checkpoint.published)
        /\ checkpoint.tick <= x.tick
        /\ x.bound /\ checkpoint.scenario = "Complete" =>
              x.campaign[Mission].state = "Completed"

\* The mission between two calls, with the checkpoint its caller keeps.
ExecutionInv ==
    /\ Consistent(x) /\ restores \in 0..MaxRestores
    /\ checkpoint \in Checkpoint \cup {NoCheckpoint}
    /\ CheckpointIsPast

\* A call that only aims or fires leaves everything else.
LEMMA AimIsGood ==
    ASSUME NEW y, Consistent(y), NEW u \in Units, NEW z,
           z = Locked(y, u) \/ (y.lock = u /\ z = Fired(y))
    PROVE  Consistent(z) /\ Passes(y, z) /\ SameWorld(y, z) /\ z.scenario = y.scenario
<1>0. y \in Execution
  BY DEF Consistent
<1>1. /\ z \in Execution /\ z.bound = y.bound /\ z.launched = y.launched
      /\ z.scenario = y.scenario /\ z.objectives = y.objectives
      /\ z.campaign = y.campaign /\ z.published = y.published /\ z.tick = y.tick
      /\ z.alive = y.alive /\ z.registered = y.registered
      /\ z.waves = y.waves /\ y.shots \subseteq z.shots
  <2>1. CASE z = Locked(y, u)
    BY <1>0, <2>1 DEF Execution, Locked
  <2>2. CASE y.lock = u /\ z = Fired(y)
    BY <1>0, <2>2 DEF Execution, Fired
  <2> QED BY <2>1, <2>2
<1>2. y.tick <= z.tick
  BY <1>0, <1>1, ExecutionAssumption DEF Execution
<1>3. z.alive \subseteq Present(z) /\ z.registered \subseteq Present(z)
  BY <1>1 DEF Consistent, Present
<1> QED BY <1>1, <1>2, <1>3, SideIsGood DEF SameWorld

\* A launch begins afresh, but for the counter of the flight and the campaign.
LEMMA LaunchedIsGood ==
    ASSUME NEW y, Consistent(y)
    PROVE  LET z == Launched(y)
           IN  /\ Consistent(z) /\ z.bound = y.bound /\ z.campaign = y.campaign
               /\ z.tick = y.tick /\ z.scenario = "Gameplay"
<1> DEFINE z == Launched(y)
<1>1. y \in Execution /\ LaunchUnits \subseteq Units
  BY ExecutionAssumption DEF Consistent
<1> DEFINE u == Unlaunched(y.campaign, y.bound)
<1>2. /\ u \in Execution /\ u.bound = y.bound /\ u.campaign = y.campaign
      /\ u.published = {} /\ u.waves = {}
  BY <1>1, ExecutionAssumption DEF Unlaunched, Execution, ScenarioState, RowState
<1>3. z = [u EXCEPT !.launched = TRUE, !.scenario = "Gameplay", !.alive = LaunchUnits,
                    !.registered = LaunchUnits, !.tick = y.tick]
  BY DEF Launched
<1> HIDE DEF u, z
<1>4. /\ z \in Execution /\ z.bound = y.bound /\ z.campaign = y.campaign
      /\ z.published = {} /\ z.waves = {} /\ z.alive = LaunchUnits
      /\ z.registered = LaunchUnits /\ z.tick = y.tick /\ z.scenario = "Gameplay"
  BY <1>1, <1>2, <1>3 DEF Execution, ScenarioState
<1> QED BY <1>4 DEF Consistent, Present, WinRecorded, Prefix, z

\* A checkpoint is restored with everything it holds; the campaign stays.
LEMMA ReloadedIsGood ==
    ASSUME NEW y, Consistent(y), NEW c \in Checkpoint,
           c.alive \subseteq LaunchUnits \cup {w.unit : w \in c.waves},
           c.registered \subseteq LaunchUnits \cup {w.unit : w \in c.waves},
           Prefix(c.published),
           y.bound /\ c.scenario = "Complete" => y.campaign[Mission].state = "Completed"
    PROVE  LET z == Reloaded(y, c)
           IN  /\ Consistent(z) /\ z.bound = y.bound /\ z.campaign = y.campaign
               /\ z.launched = y.launched /\ CheckpointOf(z) = c
               /\ z.shots = {} /\ z.lock = NoUnit
<1> DEFINE z == Reloaded(y, c)
<1>1. y \in Execution
  BY DEF Consistent
<1>2. /\ z \in Execution /\ z.bound = y.bound /\ z.launched = y.launched
      /\ z.scenario = c.scenario /\ z.objectives = c.objectives
      /\ z.campaign = y.campaign /\ z.published = c.published /\ z.tick = c.tick
      /\ z.alive = c.alive /\ z.registered = c.registered /\ z.waves = c.waves
      /\ z.playing = c.playing /\ z.shots = {} /\ z.lock = NoUnit
  BY <1>1 DEF Reloaded, Execution, Checkpoint
<1> HIDE DEF z
<1>3. Consistent(z)
  BY <1>2 DEF Consistent, Present, WinRecorded
<1>4. CheckpointOf(z) = c
  BY <1>2 DEF CheckpointOf, Checkpoint
<1> QED BY <1>2, <1>3, <1>4 DEF z

\* Taking a checkpoint copies what the world holds.
LEMMA CheckpointOfIsGood ==
    ASSUME NEW y, Consistent(y)
    PROVE  LET c == CheckpointOf(y)
           IN  /\ c \in Checkpoint
               /\ c.alive \subseteq LaunchUnits \cup {w.unit : w \in c.waves}
               /\ c.registered \subseteq LaunchUnits \cup {w.unit : w \in c.waves}
               /\ Prefix(c.published) /\ c.tick = y.tick
               /\ c.scenario = y.scenario
<1>1. y \in Execution
  BY DEF Consistent
<1>2. CheckpointOf(y) \in Checkpoint
  BY <1>1 DEF CheckpointOf, Checkpoint, Execution
<1> QED BY <1>2 DEF CheckpointOf, Consistent, Present

\* Before the launch: the campaign has begun the mission.
LEMMA ExecutionInitIsGood == ExecutionInit => ExecutionInv
<1> SUFFICES ASSUME ExecutionInit PROVE ExecutionInv
  OBVIOUS
<1>0. Mission \in Missions
  BY ExecutionAssumption
<1>1. AllLocked \in [Missions -> MissionStatus]
  BY DEF AllLocked, MissionStatus, MissionState
<1>2. Fresh \in [Missions -> MissionStatus]
  BY <1>1, RefreshOpens DEF Fresh
<1>3. Armed \in MissionStatus
  <2>1. (CHOOSE l \in Loadouts : TRUE) \in Loadouts
    BY CallerAssumption
  <2> QED BY <2>1 DEF Armed, MissionStatus, MissionState
<1> DEFINE campaign == [Fresh EXCEPT ![Mission] = Armed]
<1>4. campaign \in [Missions -> MissionStatus]
  BY <1>0, <1>2, <1>3
<1>5. PICK bound \in Bindings : x = Unlaunched(campaign, bound)
  BY DEF ExecutionInit
<1> HIDE DEF campaign
<1>6. /\ x \in Execution /\ x.scenario = "Loading" /\ x.alive = {} /\ x.registered = {}
      /\ x.published = {}
  BY <1>4, <1>5, CallerAssumption, ExecutionAssumption
     DEF Unlaunched, Execution, ScenarioState, RowState
<1>7. Consistent(x)
  BY <1>6 DEF Consistent, WinRecorded, Prefix
<1>8. checkpoint = NoCheckpoint /\ restores \in 0..MaxRestores
  BY CallerAssumption DEF ExecutionInit
<1> QED BY <1>7, <1>8 DEF ExecutionInv, CheckpointIsPast

\* What a step may do, as the action properties need it: it makes an execution
\* of x that keeps what is done, or launches or restores without a word to the
\* campaign.
Stepped ==
    \/ /\ Consistent(x') /\ Keeps(x, x')
       /\ UNCHANGED <<checkpoint, restores>>
    \/ /\ Consistent(x') /\ x'.bound = x.bound /\ x'.campaign = x.campaign
       /\ x'.tick = x.tick /\ x'.scenario = "Gameplay"
       /\ UNCHANGED <<checkpoint, restores>>
    \/ /\ checkpoint # NoCheckpoint /\ x' = Reloaded(x, checkpoint)
       /\ restores < MaxRestores /\ restores' = restores + 1 /\ UNCHANGED checkpoint
    \/ /\ checkpoint' = CheckpointOf(x) /\ UNCHANGED <<x, restores>>

\* What a step does to a paused mission.
FrozenStep == x.scenario = "Paused" /\ x'.scenario = "Paused" => SameWorld(x, x')

\* How a step completes a mission when the clock goes on.
FirstStep == x'.scenario = "Complete" => x'.tick = x.tick \/ ~FailureDue(x')

\* A call that stands still satisfies all three.
LEMMA CallIsStep ==
    ASSUME ExecutionInv, NEW y, Consistent(y), Keeps(x, y), SameWorld(x, y), Step(y)
    PROVE  Stepped /\ FrozenStep /\ FirstStep
BY DEF Step, Stepped, FrozenStep, FirstStep, SameWorld

\* Every action is such a step.
LEMMA NextIsStep ==
    ASSUME ExecutionInv, ExecutionNext
    PROVE  Stepped /\ (restores' = restores => FrozenStep /\ FirstStep)
<1>0. Consistent(x) /\ restores \in Nat
  BY CallerAssumption DEF ExecutionInv
<1>1. CASE Launch
  <2>1. x' = Launched(x) /\ UNCHANGED <<checkpoint, restores>>
    BY <1>1 DEF Launch, Step
  <2>2. /\ Consistent(x') /\ x'.bound = x.bound /\ x'.campaign = x.campaign
        /\ x'.tick = x.tick /\ x'.scenario = "Gameplay"
    BY <1>0, <2>1, LaunchedIsGood
  <2> QED BY <2>1, <2>2 DEF Stepped, FrozenStep, FirstStep
<1>2. ASSUME NEW event \in EventType, Dispatch(event)
      PROVE  Stepped /\ FrozenStep /\ FirstStep
  <2> DEFINE y == Dispatched(x, event)
  <2>1. Step(y) /\ CanDispatch(x, event)
    BY <1>2 DEF Dispatch
  <2>2. Consistent(y) /\ Keeps(x, y) /\ SameWorld(x, y)
    BY <1>0, <2>1, DispatchedIsGood DEF SameWorld
  <2> HIDE DEF y
  <2> QED BY <2>1, <2>2, CallIsStep
<1>3. ASSUME NEW i \in Rows, ActivateObjective(i) \/ CompleteObjective(i) \/ FailObjective(i)
      PROVE  Stepped /\ FrozenStep /\ FirstStep
  <2>1. CASE ActivateObjective(i)
    <3> DEFINE y == Activated(x, i)
    <3>1. Step(y) /\ CanActivate(x, i)
      BY <2>1 DEF ActivateObjective
    <3>2. Consistent(y) /\ Passes(x, y) /\ SameWorld(x, y)
      BY <1>0, <3>1, ActivatedIsGood DEF SameWorld
    <3> HIDE DEF y
    <3> QED BY <3>1, <3>2, CallIsStep DEF Passes
  <2>2. CASE CompleteObjective(i)
    <3> DEFINE y == RowCompleted(x, i)
    <3>1. Step(y) /\ CanCompleteRow(x, i)
      BY <2>2 DEF CompleteObjective
    <3>2. Consistent(y) /\ Passes(x, y) /\ SameWorld(x, y)
      BY <1>0, <3>1, RowCompletedIsGood DEF SameWorld
    <3> HIDE DEF y
    <3> QED BY <3>1, <3>2, CallIsStep DEF Passes
  <2>3. CASE FailObjective(i)
    <3> DEFINE y == RowFailed(x, i)
    <3>1. Step(y) /\ CanFailRow(x, i)
      BY <2>3 DEF FailObjective
    <3>2. Consistent(y) /\ Passes(x, y) /\ SameWorld(x, y)
      BY <1>0, <3>1, RowFailedIsGood DEF SameWorld
    <3> HIDE DEF y
    <3> QED BY <3>1, <3>2, CallIsStep DEF Passes
  <2> QED BY <1>3, <2>1, <2>2, <2>3
<1>4. CASE PlayRadio
  <2> DEFINE y == RadioStarted(x)
  <2>1. Step(y)
    BY <1>4 DEF PlayRadio
  <2>2. Consistent(y) /\ Passes(x, y) /\ SameWorld(x, y)
    BY <1>0, RadioStartedIsGood DEF SameWorld
  <2> HIDE DEF y
  <2> QED BY <2>1, <2>2, CallIsStep DEF Passes
<1>5. ASSUME NEW u \in Units, LockTarget(u)
      PROVE  Stepped /\ FrozenStep /\ FirstStep
  <2> DEFINE y == Locked(x, u)
  <2>1. Step(y)
    BY <1>5 DEF LockTarget
  <2>2. Consistent(y) /\ Passes(x, y) /\ SameWorld(x, y)
    BY <1>0, AimIsGood
  <2> HIDE DEF y
  <2> QED BY <2>1, <2>2, CallIsStep DEF Passes
<1>6. CASE FireWeapon
  <2> DEFINE y == Fired(x)
  <2>1. Step(y) /\ x.lock # NoUnit
    BY <1>6 DEF FireWeapon, CanFire
  <2>2. x.lock \in Units
    BY <1>0, <2>1 DEF Consistent, Execution
  <2>3. Consistent(y) /\ Passes(x, y) /\ SameWorld(x, y)
    BY <1>0, <2>2, AimIsGood
  <2> HIDE DEF y
  <2> QED BY <2>1, <2>3, CallIsStep DEF Passes
<1>7. CASE Tick
  <2>1. PICK y \in Ticked(x) : Step(y)
    BY <1>7 DEF Tick
  <2>2. /\ Consistent(y) /\ Passes(x, y)
        /\ x.scenario = "Paused" => SameWorld(x, y) /\ y.scenario = "Paused"
        /\ y.scenario = "Complete" => y.tick = x.tick \/ ~FailureDue(y)
    BY <1>0, TickedIsGood
  <2> QED BY <2>1, <2>2 DEF Step, Stepped, FrozenStep, FirstStep, Passes
<1>8. ASSUME NEW event \in HeldEvents, TickHolding(event)
      PROVE  Stepped /\ FrozenStep /\ FirstStep
  <2> DEFINE d == Dispatched(x, event)
  <2>1. CanDispatch(x, event) /\ event \in EventType
    BY <1>8, CallerAssumption DEF TickHolding
  <2>2. PICK y \in Ticked(d) : Step(y)
    BY <1>8 DEF TickHolding
  <2>3. /\ Consistent(d) /\ Keeps(x, d) /\ d.scenario = EventTo[event] /\ d.tick = x.tick
    BY <1>0, <2>1, DispatchedIsGood
  <2> HIDE DEF d
  <2>4. /\ Consistent(y) /\ Passes(d, y)
        /\ y.scenario = "Complete" => y.tick = d.tick \/ ~FailureDue(y)
    BY <2>2, <2>3, TickedIsGood
  <2>5. Keeps(x, y)
    <3>1. x \in Execution /\ d \in Execution /\ y \in Execution
      BY <1>0, <2>3, <2>4 DEF Consistent
    <3> QED BY <2>3, <2>4, <3>1, KeepsOn DEF Passes
  <2>6. x.scenario = "Paused" => y.scenario # "Paused"
    \* No event leads from Paused to Paused, and no tick leads there.
    <3>1. x.scenario = "Paused" => EventTo[event] # "Paused"
      BY <2>1 DEF CanDispatch, EventFrom, EventTo, EventType
    <3> QED BY <2>3, <2>4, <3>1 DEF Passes
  <2> QED BY <2>2, <2>3, <2>4, <2>5, <2>6 DEF Step, Stepped, FrozenStep, FirstStep
<1>9. CASE SaveCheckpoint
  BY <1>0, <1>9 DEF SaveCheckpoint, Stepped, FrozenStep, FirstStep, SameWorld
<1>10. CASE RestoreCheckpoint
  <2>1. restores' # restores
    BY <1>0, <1>10 DEF RestoreCheckpoint
  <2> QED BY <1>10, <2>1 DEF RestoreCheckpoint, Stepped
<1> QED BY <1>1, <1>2, <1>3, <1>4, <1>5, <1>6, <1>7, <1>8, <1>9, <1>10 DEF ExecutionNext

\* A step keeps the invariant.
LEMMA SteppedIsGood ==
    ASSUME ExecutionInv, Stepped
    PROVE  ExecutionInv'
<1>0. Consistent(x) /\ restores \in Nat /\ MaxRestores \in Nat
  BY CallerAssumption DEF ExecutionInv
<1>1. CASE Consistent(x') /\ Keeps(x, x') /\ UNCHANGED <<checkpoint, restores>>
  <2>1. CheckpointIsPast'
    <3> SUFFICES ASSUME checkpoint # NoCheckpoint PROVE CheckpointIsPast'
      BY <1>1 DEF CheckpointIsPast
    <3>1. checkpoint \in Checkpoint
      BY DEF ExecutionInv
    <3>2. checkpoint.tick \in Nat /\ x.tick \in Nat /\ x'.tick \in Nat
      BY <1>0, <1>1, <3>1, ExecutionAssumption DEF Consistent, Execution, Checkpoint
    <3>3. checkpoint.tick <= x'.tick
      BY <1>1, <3>2 DEF ExecutionInv, CheckpointIsPast, Keeps
    <3> QED BY <1>1, <3>3 DEF ExecutionInv, CheckpointIsPast, Keeps
  <2> QED BY <1>1, <2>1 DEF ExecutionInv
<1>2. CASE /\ Consistent(x') /\ x'.bound = x.bound /\ x'.campaign = x.campaign
           /\ x'.tick = x.tick /\ UNCHANGED <<checkpoint, restores>>
  BY <1>2 DEF ExecutionInv, CheckpointIsPast
<1>3. CASE /\ checkpoint # NoCheckpoint /\ x' = Reloaded(x, checkpoint)
           /\ restores < MaxRestores /\ restores' = restores + 1 /\ UNCHANGED checkpoint
  <2>1. checkpoint \in Checkpoint
    BY <1>3 DEF ExecutionInv
  <2>2. /\ Consistent(x') /\ x'.bound = x.bound /\ x'.campaign = x.campaign
        /\ CheckpointOf(x') = checkpoint
    BY <1>0, <1>3, <2>1, ReloadedIsGood DEF ExecutionInv, CheckpointIsPast
  <2>3. checkpoint.tick = x'.tick /\ x'.tick \in Nat
    BY <2>2, ExecutionAssumption DEF CheckpointOf, Consistent, Execution
  <2>4. CheckpointIsPast'
    BY <1>3, <2>2, <2>3 DEF ExecutionInv, CheckpointIsPast
  <2>5. restores' \in 0..MaxRestores
    BY <1>0, <1>3
  <2> QED BY <1>3, <2>1, <2>2, <2>4, <2>5 DEF ExecutionInv
<1>4. CASE checkpoint' = CheckpointOf(x) /\ UNCHANGED <<x, restores>>
  <2> DEFINE c == CheckpointOf(x)
  <2>1. /\ c \in Checkpoint
        /\ c.alive \subseteq LaunchUnits \cup {w.unit : w \in c.waves}
        /\ c.registered \subseteq LaunchUnits \cup {w.unit : w \in c.waves}
        /\ Prefix(c.published) /\ c.tick = x.tick /\ c.scenario = x.scenario
    BY <1>0, CheckpointOfIsGood
  <2> HIDE DEF c
  <2>2. x.tick \in Nat
    BY <1>0, ExecutionAssumption DEF Consistent, Execution
  <2>3. CheckpointIsPast'
    BY <1>0, <1>4, <2>1, <2>2 DEF c, CheckpointIsPast, Consistent, WinRecorded
  <2> QED BY <1>4, <2>1, <2>3 DEF ExecutionInv, c
<1> QED BY <1>1, <1>2, <1>3, <1>4 DEF Stepped

\* The inductive invariant of the mission.
THEOREM ExecutionInvariance == ExecutionSpec => []ExecutionInv
<1>1. ASSUME ExecutionInv, [ExecutionNext]_executionVars PROVE ExecutionInv'
  <2>1. CASE ExecutionNext
    BY <1>1, <2>1, NextIsStep, SteppedIsGood
  <2>2. CASE UNCHANGED executionVars
    BY <1>1, <2>2 DEF executionVars, ExecutionInv, CheckpointIsPast
  <2> QED BY <1>1, <2>1, <2>2
<1> QED BY <1>1, ExecutionInitIsGood, PTL DEF ExecutionSpec

\* A mission that is complete, or that a checkpoint would make complete, is
\* recorded as won in its campaign (dispatch, restore_checkpoint).
THEOREM CompleteTheorem == ExecutionSpec => []CompleteIsRecorded
<1>1. ExecutionInv => CompleteIsRecorded
  BY DEF ExecutionInv, CheckpointIsPast, Consistent, WinRecorded, CompleteIsRecorded,
         ExecutionTypeOK
<1> QED BY <1>1, ExecutionInvariance, PTL

\* No event of the sequence overtakes an earlier one (dispatch_due).
THEOREM EventsTheorem == ExecutionSpec => []EventsInOrder
<1>1. ExecutionInv => EventsInOrder
  BY DEF ExecutionInv, Consistent, Prefix, EventsInOrder
<1> QED BY <1>1, ExecutionInvariance, PTL

\* A bit of the campaign is earned in the step that completes its objective
\* (complete_objective, restore_checkpoint).
THEOREM BitsTheorem == ExecutionSpec => BitsAreEarned
<1> DEFINE A == \A i \in x'.campaign[Mission].mask \ x.campaign[Mission].mask :
                   x.objectives[i] # "Complete" /\ x'.objectives[i] = "Complete"
<1>1. ASSUME ExecutionInv, [ExecutionNext]_executionVars PROVE [A]_executionVars
  <2>1. CASE ExecutionNext
    <3>1. Stepped
      BY <1>1, <2>1, NextIsStep
    <3>2. CASE Keeps(x, x')
      BY <3>2 DEF Keeps
    <3>3. CASE x'.campaign = x.campaign
      BY <3>3
    <3>4. CASE checkpoint # NoCheckpoint /\ x' = Reloaded(x, checkpoint)
      <4>1. x'.campaign = x.campaign
        BY <1>1, <3>4 DEF ExecutionInv, Consistent, Execution, Reloaded
      <4> QED BY <4>1
    <3> QED BY <3>1, <3>2, <3>3, <3>4 DEF Stepped
  <2>2. CASE UNCHANGED executionVars
    BY <2>2
  <2> QED BY <1>1, <2>1, <2>2
<1> QED BY <1>1, ExecutionInvariance, PTL DEF ExecutionSpec, BitsAreEarned

\* A tick that completes the mission ends with the player alive and before the
\* deadline: failure is terminal (tick_impl, 665-682).
THEOREM FailureTheorem == ExecutionSpec => FailureFirst
<1> DEFINE A == x'.tick > x.tick /\ x'.scenario = "Complete" =>
                   /\ Player \in x'.alive
                   /\ FailureTick = 0 \/ x'.tick < FailureTick
<1>1. ASSUME ExecutionInv, [ExecutionNext]_executionVars PROVE [A]_executionVars
  <2>0. x.tick \in Nat
    BY <1>1, ExecutionAssumption DEF ExecutionInv, Consistent, Execution
  <2>1. CASE ExecutionNext
    <3>1. Stepped /\ (restores' = restores => FirstStep)
      BY <1>1, <2>1, NextIsStep
    <3>2. ExecutionInv'
      BY <1>1, <3>1, SteppedIsGood
    <3>3. x'.tick \in Nat /\ FailureTick \in Nat
      BY <3>2, ExecutionAssumption DEF ExecutionInv, Consistent, Execution
    <3>4. CASE restores' = restores
      <4> SUFFICES ASSUME x'.tick > x.tick, x'.scenario = "Complete"
                   PROVE  Player \in x'.alive /\ (FailureTick = 0 \/ x'.tick < FailureTick)
        OBVIOUS
      <4>1. ~FailureDue(x')
        BY <2>0, <3>1, <3>3, <3>4 DEF FirstStep
      <4> QED BY <3>3, <4>1 DEF FailureDue, Deadline
    <3>5. CASE restores' # restores
      \* A restored checkpoint is of the past.
      <4>1. x' = Reloaded(x, checkpoint) /\ checkpoint # NoCheckpoint
        BY <3>1, <3>5 DEF Stepped
      <4>2. checkpoint \in Checkpoint /\ checkpoint.tick <= x.tick
        BY <1>1, <4>1 DEF ExecutionInv, CheckpointIsPast
      <4>3. x'.tick = checkpoint.tick
        BY <1>1, <4>1 DEF ExecutionInv, Consistent, Execution, Reloaded
      <4>4. ~(x'.tick > x.tick)
        BY <2>0, <3>3, <4>2, <4>3
      <4> QED BY <4>4
    <3> QED BY <3>4, <3>5
  <2>2. CASE UNCHANGED executionVars
    BY <2>2
  <2> QED BY <1>1, <2>1, <2>2
<1> QED BY <1>1, ExecutionInvariance, PTL DEF ExecutionSpec, FailureFirst

\* A mission that stays paused stands still (tick_impl, CombatWorld::tick,
\* MissionRuntime::tick).
THEOREM PausedTheorem == ExecutionSpec => PausedIsFrozen
<1> DEFINE A == x.scenario = "Paused" /\ x'.scenario = "Paused" /\ restores' = restores =>
                   /\ UNCHANGED <<x.alive, x.tick, x.waves, x.published>>
                   /\ x.shots \subseteq x'.shots
<1>1. ASSUME ExecutionInv, [ExecutionNext]_executionVars PROVE [A]_executionVars
  <2>1. CASE ExecutionNext
    BY <1>1, <2>1, NextIsStep DEF FrozenStep, SameWorld
  <2>2. CASE UNCHANGED executionVars
    BY <2>2
  <2> QED BY <1>1, <2>1, <2>2
<1> QED BY <1>1, ExecutionInvariance, PTL DEF ExecutionSpec, PausedIsFrozen

-----------------------------------------------------------------------------
(* The script.                                                             *)

\* A cursor while the script is driven: on a step, or just past the last one.
OnScript(c) ==
    /\ c \in Cursor /\ ~c.ended
    /\ IF c.current THEN HasStep(c.sub, c.step)
       ELSE c.sub = SubMissionCount /\ c.step = 0

\* A cursor between two frames.
AtRest(c) ==
    /\ c \in Cursor /\ c.current = ~c.ended
    /\ IF c.ended THEN c.sub = SubMissionCount /\ c.step = 0
       ELSE HasStep(c.sub, c.step)

\* Cursor b is further on in the script than c.
Further(c, b) == b.sub > c.sub \/ (b.sub = c.sub /\ b.step > c.step)

\* The steps of a script are typed, and a condition names a target that exists.
LEMMA StepIsTyped ==
    ASSUME NEW s \in SubMissions
    PROVE  /\ s \in Nat /\ Script[s].count \in Nat
           /\ Len(Script[s].steps) \in Nat
           /\ DOMAIN Script[s].steps = 1..Len(Script[s].steps)
           /\ \A i \in DOMAIN Script[s].steps :
                 Script[s].steps[i].tag = 7 => Script[s].steps[i].target \in SubMissions
<1>1. s \in Nat /\ Script[s].count \in Nat /\ Script[s].steps \in Seq(ScriptStep)
  BY ScriptAssumption
<1>2. ASSUME NEW e \in ScriptStep, e.tag = 7 PROVE e.target \in SubMissions
  BY <1>2 DEF ScriptStep
<1> QED BY <1>1, <1>2

\* dispatch_step() leaves the cursor where it was sent.
LEMMA AtIsOn ==
    ASSUME NEW c \in Cursor, ~c.ended, NEW s \in Nat, NEW k \in Nat,
           HasStep(s, k) \/ (s = SubMissionCount /\ k = 0)
    PROVE  LET b == At(c, s, k)
           IN  OnScript(b) /\ b.sub = s /\ b.step = k
<1> DEFINE b == At(c, s, k)
<1>1. b \in Cursor /\ ~b.ended /\ b.sub = s /\ b.step = k /\ b.current = HasStep(s, k)
  BY DEF At, Cursor, HasStep
<1>2. OnScript(b)
  <2> HIDE DEF b
  <2> QED BY <1>1 DEF OnScript
<1> HIDE DEF b
<1> QED BY <1>1, <1>2 DEF b

\* advance() goes to the next step, or to the next sub-mission.
LEMMA AdvanceIsFurther ==
    ASSUME WellFormed, NEW c, OnScript(c), c.current
    PROVE  OnScript(Advance(c)) /\ Further(c, Advance(c))
<1>1. c \in Cursor /\ ~c.ended /\ c.sub \in SubMissions /\ c.sub \in Nat /\ c.step \in Nat
  BY DEF OnScript, Cursor, HasStep
<1>2. /\ Script[c.sub].count = Len(Script[c.sub].steps)
      /\ Script[c.sub].count \in Nat
  BY <1>1, StepIsTyped DEF WellFormed
<1>3. CASE c.step + 1 >= Script[c.sub].count
  <2>1. Advance(c) = At(c, c.sub + 1, 0)
    BY <1>1, <1>3 DEF Advance
  <2>2. HasStep(c.sub + 1, 0) \/ c.sub + 1 = SubMissionCount
    <3>1. CASE c.sub + 1 \in SubMissions
      <4>1. Script[c.sub + 1].count = Len(Script[c.sub + 1].steps) /\ Script[c.sub + 1].count > 0
        BY <3>1 DEF WellFormed
      <4> QED BY <3>1, <4>1 DEF HasStep
    <3>2. CASE c.sub + 1 \notin SubMissions
      BY <1>1, <3>2, ScriptAssumption
    <3> QED BY <3>1, <3>2
  <2>3. LET b == At(c, c.sub + 1, 0)
        IN  OnScript(b) /\ b.sub = c.sub + 1 /\ b.step = 0
    <3>1. c.sub + 1 \in Nat /\ 0 \in Nat
      BY <1>1
    <3> QED BY <1>1, <2>2, <3>1, AtIsOn
  <2>4. c.sub + 1 > c.sub
    BY <1>1
  <2> QED BY <2>1, <2>3, <2>4 DEF Further
<1>4. CASE ~(c.step + 1 >= Script[c.sub].count)
  <2>1. Advance(c) = At(c, c.sub, c.step + 1)
    BY <1>1, <1>4 DEF Advance
  <2>2. HasStep(c.sub, c.step + 1)
    BY <1>1, <1>2, <1>4 DEF HasStep
  <2>3. LET b == At(c, c.sub, c.step + 1)
        IN  OnScript(b) /\ b.sub = c.sub /\ b.step = c.step + 1
    <3> DEFINE k == c.step + 1
    <3>1. k \in Nat /\ HasStep(c.sub, k)
      BY <1>1, <2>2
    <3> HIDE DEF k
    <3>2. LET b == At(c, c.sub, k) IN OnScript(b) /\ b.sub = c.sub /\ b.step = k
      BY <1>1, <3>1, AtIsOn
    <3> QED BY <3>2 DEF k
  <2>4. c.step + 1 > c.step
    BY <1>1
  <2> DEFINE b == At(c, c.sub, c.step + 1)
  <2>5. OnScript(b) /\ b.sub = c.sub /\ b.step > c.step
    BY <2>3, <2>4
  <2> HIDE DEF b
  <2> QED BY <2>1, <2>5 DEF b, Further
<1> QED BY <1>3, <1>4

\* A hop leads to another step of the script, forward if all jumps do.
LEMMA HopIsOn ==
    ASSUME WellFormed, NEW c, OnScript(c), AtCondition(c), NEW counters0
    PROVE  /\ OnScript(Hop(c, counters0))
           /\ ConditionsJumpForward => Further(c, Hop(c, counters0))
<1> DEFINE step == CurrentStep(c)
           b == Hop(c, counters0)
<1>1. /\ c \in Cursor /\ ~c.ended /\ c.current
      /\ c.sub \in SubMissions /\ c.sub \in Nat /\ c.step \in Nat
      /\ c.step < Len(Script[c.sub].steps)
  BY DEF OnScript, Cursor, HasStep, AtCondition
<1>2. step.tag = 7 /\ step = Script[c.sub].steps[c.step + 1]
  BY DEF AtCondition, CurrentStep
<1>3. c.step + 1 \in DOMAIN Script[c.sub].steps
  BY <1>1, StepIsTyped
<1> HIDE DEF step
<1>4. step.target \in SubMissions
  BY <1>1, <1>2, <1>3, StepIsTyped
<1>5. ConditionsJumpForward /\ step.counter # 0 => step.target > c.sub
  BY <1>1, <1>2, <1>3 DEF ConditionsJumpForward
<1>6. CASE Satisfied(step, counters0)
  <2>1. b = At(c, step.target, 0)
    BY <1>6 DEF Hop, Select, step
  <2>2. Script[step.target].count = Len(Script[step.target].steps) /\ Script[step.target].count > 0
    BY <1>4 DEF WellFormed
  <2>3. step.target \in Nat /\ HasStep(step.target, 0)
    BY <1>4, <2>2, StepIsTyped DEF HasStep
  <2>4. step.counter # 0
    BY <1>6 DEF Satisfied
  <2>5. LET d == At(c, step.target, 0)
        IN  OnScript(d) /\ d.sub = step.target /\ d.step = 0
    <3>1. 0 \in Nat
      OBVIOUS
    <3> QED BY <1>1, <2>3, <3>1, AtIsOn
  <2>6. OnScript(b) /\ b.sub = step.target
    BY <2>1, <2>5
  <2> HIDE DEF b
  <2>7. ConditionsJumpForward => Further(c, b)
    BY <1>5, <2>4, <2>6 DEF Further
  <2> QED BY <2>6, <2>7 DEF b
<1>7. CASE ~Satisfied(step, counters0)
  <2>1. b = Advance(c)
    BY <1>7 DEF Hop, step
  <2> QED BY <1>1, <2>1, AdvanceIsFurther
<1> QED BY <1>6, <1>7

\* What every turn of the loop over the conditions keeps, S[n] after n turns,
\* holds of the cursor it leaves.
LEMMA ResolvedIsIn ==
    ASSUME NEW c, NEW counters0, NEW S, c \in S[0],
           ASSUME NEW n \in Nat, n < MaxHops, NEW b \in S[n]
           PROVE  Followed(b, counters0) \in S[n + 1]
    PROVE  Resolved(c, counters0) \in S[MaxHops]
<1> DEFINE F(m, f) == [n \in 0..m |->
                          IF n = 0 THEN {c} ELSE {Followed(b, counters0) : b \in f[n - 1]}]
           hopped == CHOOSE f : f = F(MaxHops, f)
<1>1. MaxHops \in Nat
  BY ScriptAssumption
<1>2. \E f : f = F(MaxHops, f)
  <2> DEFINE T == {m \in Nat : \E f : f = F(m, f)}
  <2>1. 0 \in T
    <3> DEFINE f == [n \in 0..0 |-> {c}]
    <3>1. f = F(0, f)
      OBVIOUS
    <3> HIDE DEF f, F
    <3> QED BY <3>1
  <2>2. ASSUME NEW m \in Nat, m \in T PROVE m + 1 \in T
    <3>1. PICK f : f = F(m, f)
      BY <2>2
    <3> DEFINE g == [n \in 0..m + 1 |->
                        IF n = m + 1 THEN {Followed(b, counters0) : b \in f[m]} ELSE f[n]]
    <3>2. \A n \in 0..m : f[n] = IF n = 0 THEN {c}
                                 ELSE {Followed(b, counters0) : b \in f[n - 1]}
      BY <3>1
    <3>3. ASSUME NEW n \in 0..m + 1
          PROVE  g[n] = IF n = 0 THEN {c} ELSE {Followed(b, counters0) : b \in g[n - 1]}
      <4>1. CASE n = m + 1
        <5>1. n # 0 /\ n - 1 = m /\ m \in 0..m + 1 /\ m # m + 1
          BY <4>1
        <5> QED BY <4>1, <5>1
      <4>2. CASE n \in 1..m
        <5>1. n # 0 /\ n # m + 1 /\ n - 1 \in 0..m + 1 /\ n - 1 # m + 1 /\ n \in 0..m
          BY <4>2
        <5>2. g[n] = f[n] /\ g[n - 1] = f[n - 1]
          BY <5>1
        <5> HIDE DEF g
        <5> QED BY <3>2, <5>1, <5>2
      <4>3. CASE n = 0
        <5>1. n # m + 1 /\ 0 \in 0..m
          BY <4>3
        <5> QED BY <3>2, <4>3, <5>1
      <4> QED BY <4>1, <4>2, <4>3
    <3>4. g = [n \in 0..m + 1 |-> g[n]]
      OBVIOUS
    <3> HIDE DEF g
    <3>5. g = F(m + 1, g)
      BY <3>3, <3>4
    <3> HIDE DEF F
    <3> QED BY <3>5
  <2>3. Nat \subseteq T
    <3> HIDE DEF T
    <3> QED BY <2>1, <2>2, NumbersByInduction
  <2> HIDE DEF F
  <2> QED BY <1>1, <2>3
<1>3. hopped = F(MaxHops, hopped)
  <2> HIDE DEF F
  <2> QED BY <1>2
<1>4. Resolved(c, counters0) = CHOOSE b \in hopped[MaxHops] : TRUE
  BY DEF Resolved
<1> HIDE DEF hopped
<1>5. /\ hopped[0] = {c}
      /\ \A n \in Nat : n + 1 \in 0..MaxHops =>
            hopped[n + 1] = {Followed(b, counters0) : b \in hopped[n]}
  <2>1. \A n \in 0..MaxHops :
            hopped[n] = IF n = 0 THEN {c} ELSE {Followed(b, counters0) : b \in hopped[n - 1]}
    BY <1>3
  <2>2. ASSUME NEW n \in Nat, n + 1 \in 0..MaxHops
        PROVE  hopped[n + 1] = {Followed(b, counters0) : b \in hopped[(n + 1) - 1]}
    <3> DEFINE m == n + 1
    <3>1. m \in 0..MaxHops /\ m # 0
      BY <2>2
    <3> HIDE DEF m
    <3>2. hopped[m] = {Followed(b, counters0) : b \in hopped[m - 1]}
      BY <2>1, <3>1
    <3> QED BY <3>2 DEF m
  <2>3. \A n \in Nat : (n + 1) - 1 = n
    OBVIOUS
  <2>4. 0 \in 0..MaxHops
    BY <1>1
  <2> QED BY <2>1, <2>2, <2>3, <2>4
<1> DEFINE T == {n \in Nat : n \in 0..MaxHops => \E b \in S[n] : hopped[n] = {b}}
<1>6. 0 \in T
  BY <1>5
<1>7. ASSUME NEW n \in Nat, n \in T PROVE n + 1 \in T
  <2> SUFFICES ASSUME n + 1 \in 0..MaxHops
               PROVE  \E b \in S[n + 1] : hopped[n + 1] = {b}
    OBVIOUS
  <2>1. n \in 0..MaxHops /\ n < MaxHops
    BY <1>1
  <2>2. PICK b \in S[n] : hopped[n] = {b}
    BY <1>7, <2>1
  <2>3. hopped[n + 1] = {Followed(b, counters0)}
    <3>1. hopped[n + 1] = {Followed(d, counters0) : d \in hopped[n]}
      BY <1>5
    <3> QED BY <2>2, <3>1
  <2>4. Followed(b, counters0) \in S[n + 1]
    BY <2>1
  <2> QED BY <2>3, <2>4
<1>8. Nat \subseteq T
  <2> HIDE DEF T
  <2> QED BY <1>6, <1>7, NumbersByInduction
<1>9. PICK b \in S[MaxHops] : hopped[MaxHops] = {b}
  BY <1>1, <1>8
<1> QED BY <1>4, <1>9

\* The conditions leave the cursor on the script.
LEMMA ResolvedIsOn ==
    ASSUME WellFormed, NEW c, OnScript(c), NEW counters0
    PROVE  OnScript(Resolved(c, counters0))
<1> DEFINE On == {b \in Cursor : OnScript(b)}
           S == [n \in Nat |-> On]
<1>1. c \in S[0]
  BY DEF OnScript
<1>2. ASSUME NEW n \in Nat, n < MaxHops, NEW b \in S[n]
      PROVE  Followed(b, counters0) \in S[n + 1]
  <2>1. OnScript(b)
    OBVIOUS
  <2>2. OnScript(Followed(b, counters0))
    BY <2>1, HopIsOn DEF Followed
  <2>3. Followed(b, counters0) \in On /\ n + 1 \in Nat
    BY <2>2 DEF OnScript
  <2> QED BY <2>3
<1> HIDE DEF S
<1>3. Resolved(c, counters0) \in S[MaxHops]
  BY <1>1, <1>2, ResolvedIsIn
<1> QED BY <1>3, ScriptAssumption DEF S

\* The conditions from where the cursor is on.
Ahead(c) == {p \in Conditions : p[1] > c.sub \/ (p[1] = c.sub /\ p[2] > c.step)}

\* The conditions of one sub-mission.
ConditionsIn(s) ==
    {<<s, i>> : i \in {j \in DOMAIN Script[s].steps : Script[s].steps[j].tag = 7}}

\* A script has finitely many conditions: each table is finite, and so are they.
LEMMA ConditionsAreFinite ==
    IsFiniteSet(Conditions) /\ Cardinality(Conditions) \in Nat
<1> DEFINE row == [s \in SubMissions |-> ConditionsIn(s)]
           rows == {ConditionsIn(s) : s \in SubMissions}
<1>1. IsFiniteSet(SubMissions)
  <2>1. 0 \in Int /\ SubMissionCount - 1 \in Int /\ SubMissions = 0 .. SubMissionCount - 1
    BY ScriptAssumption
  <2> QED BY <2>1, FS_Interval
<1>2. IsFiniteSet(rows)
  <2>1. row \in Surjection(SubMissions, rows)
    BY Fun_IsSurj
  <2> QED BY <1>1, <2>1, FS_Surjection
<1>3. ASSUME NEW s \in SubMissions PROVE IsFiniteSet(ConditionsIn(s))
  <2> DEFINE n == Len(Script[s].steps)
  <2>1. n \in Nat /\ DOMAIN Script[s].steps = 1..n
    BY StepIsTyped
  <2> HIDE DEF n
  <2>2. IsFiniteSet(1..n)
    BY <2>1, FS_Interval
  <2>3. IsFiniteSet({s} \X (1..n))
    BY <2>2, FS_Singleton, FS_Product
  <2>4. ConditionsIn(s) \in SUBSET ({s} \X (1..n))
    BY <2>1 DEF ConditionsIn
  <2> QED BY <2>3, <2>4, FS_Subset
<1>4. Conditions = UNION rows
  BY DEF Conditions, ConditionsIn
<1>5. \A T \in rows : IsFiniteSet(T)
  BY <1>3
<1> HIDE DEF rows
<1> QED BY <1>2, <1>4, <1>5, FS_UNION, FS_CardinalityType

\* A condition the cursor is on is ahead of it, and behind every cursor further on.
LEMMA AheadShrinks ==
    ASSUME NEW c, OnScript(c), AtCondition(c)
    PROVE  /\ Cardinality(Ahead(c)) \in Nat /\ Cardinality(Ahead(c)) > 0
           /\ \A b \in Cursor :
                 Further(c, b) => /\ Cardinality(Ahead(b)) \in Nat
                                  /\ Cardinality(Ahead(b)) < Cardinality(Ahead(c))
<1> DEFINE here == <<c.sub, c.step + 1>>
<1>1. /\ c.sub \in SubMissions /\ c.sub \in Nat /\ c.step \in Nat
      /\ c.step < Len(Script[c.sub].steps) /\ Script[c.sub].steps[c.step + 1].tag = 7
  BY DEF OnScript, Cursor, HasStep, AtCondition, CurrentStep
<1>2. c.step + 1 \in DOMAIN Script[c.sub].steps
  BY <1>1, StepIsTyped
<1>3. here \in Conditions
  BY <1>1, <1>2 DEF Conditions
<1>4. here \in Ahead(c)
  BY <1>1, <1>3 DEF Ahead
<1>5. IsFiniteSet(Ahead(c)) /\ Cardinality(Ahead(c)) \in Nat
  <2>1. Ahead(c) \in SUBSET Conditions
    BY DEF Ahead
  <2> QED BY <2>1, ConditionsAreFinite, FS_Subset, FS_CardinalityType
<1>6. Cardinality(Ahead(c)) > 0
  BY <1>4, <1>5, FS_EmptySet
<1>7. ASSUME NEW b \in Cursor, Further(c, b)
      PROVE  /\ Cardinality(Ahead(b)) \in Nat
             /\ Cardinality(Ahead(b)) < Cardinality(Ahead(c))
  <2>1. b.sub \in Nat /\ b.step \in Nat
    BY DEF Cursor
  <2>2. \A p \in Conditions : p[1] \in Nat /\ p[2] \in Nat
    BY StepIsTyped DEF Conditions
  <2>3. Ahead(b) \in SUBSET (Ahead(c) \ {here})
    BY <1>1, <1>7, <2>1, <2>2 DEF Ahead, Further
  <2>4. /\ IsFiniteSet(Ahead(c) \ {here})
        /\ Cardinality(Ahead(c) \ {here}) = Cardinality(Ahead(c)) - 1
    BY <1>4, <1>5, FS_RemoveElement
  <2>5. /\ IsFiniteSet(Ahead(b))
        /\ Cardinality(Ahead(b)) <= Cardinality(Ahead(c) \ {here})
    BY <2>3, <2>4, FS_Subset
  <2>6. Cardinality(Ahead(b)) \in Nat
    BY <2>5, FS_CardinalityType
  <2> QED BY <1>5, <2>4, <2>5, <2>6
<1> QED BY <1>5, <1>6, <1>7

\* Following its conditions as often as it has any, a script that only jumps
\* forward comes to rest on none.
LEMMA ResolvedIsPlain ==
    ASSUME WellFormed, ConditionsJumpForward, FewConditions,
           NEW c, OnScript(c), NEW counters0
    PROVE  ~AtCondition(Resolved(c, counters0))
<1> DEFINE Room(b, n) == AtCondition(b) => Cardinality(Ahead(b)) + n <= Cardinality(Conditions)
           S == [n \in Nat |-> {b \in Cursor : OnScript(b) /\ Room(b, n)}]
<1>1. \A b : Ahead(b) \in SUBSET Conditions
  BY DEF Ahead
<1>2. /\ IsFiniteSet(Conditions) /\ Cardinality(Conditions) \in Nat
      /\ Cardinality(Conditions) <= MaxHops /\ MaxHops \in Nat
  BY ScriptAssumption, ConditionsAreFinite DEF FewConditions
<1>3. \A b : Cardinality(Ahead(b)) \in Nat /\ Cardinality(Ahead(b)) <= Cardinality(Conditions)
  BY <1>1, <1>2, FS_Subset, FS_CardinalityType
<1>4. c \in S[0]
  BY <1>3 DEF OnScript
<1>5. ASSUME NEW n \in Nat, n < MaxHops, NEW b \in S[n]
      PROVE  Followed(b, counters0) \in S[n + 1]
  <2> DEFINE d == Followed(b, counters0)
  <2>1. b \in Cursor /\ OnScript(b) /\ Room(b, n)
    OBVIOUS
  <2>2. OnScript(d) /\ d \in Cursor
    BY <2>1, HopIsOn DEF Followed, OnScript
  <2>3. Room(d, n + 1)
    <3>1. CASE AtCondition(b)
      <4>1. d \in Cursor /\ Further(b, d)
        BY <2>1, <2>2, <3>1, HopIsOn DEF Followed
      <4>2. Cardinality(Ahead(d)) < Cardinality(Ahead(b))
        BY <2>1, <3>1, <4>1, AheadShrinks
      <4>3. Cardinality(Ahead(b)) + n <= Cardinality(Conditions)
        BY <2>1, <3>1
      <4>4. /\ Cardinality(Ahead(d)) \in Nat /\ Cardinality(Ahead(b)) \in Nat
            /\ Cardinality(Conditions) \in Nat
        BY <1>2, <1>3
      <4> QED BY <4>2, <4>3, <4>4
    <3>2. CASE ~AtCondition(b)
      <4>1. d = b
        BY <3>2 DEF Followed
      <4> QED BY <3>2, <4>1
    <3> QED BY <3>1, <3>2
  <2> HIDE DEF d, Room
  <2>4. d \in {e \in Cursor : OnScript(e) /\ Room(e, n + 1)} /\ n + 1 \in Nat
    BY <2>2, <2>3
  <2> QED BY <2>4 DEF d
<1> HIDE DEF S
<1>6. Resolved(c, counters0) \in S[MaxHops]
  BY <1>4, <1>5, ResolvedIsIn
<1>7. OnScript(Resolved(c, counters0)) /\ Room(Resolved(c, counters0), MaxHops)
  BY <1>2, <1>6 DEF S
<1> SUFFICES ASSUME AtCondition(Resolved(c, counters0)) PROVE FALSE
  OBVIOUS
<1>8. Cardinality(Ahead(Resolved(c, counters0))) > 0
  BY <1>7, AheadShrinks
<1> QED BY <1>2, <1>3, <1>7, <1>8

\* A frame of the driver leaves the cursor at rest on a step, or past the end.
LEMMA DrivenIsAtRest ==
    ASSUME WellFormed, NEW c, AtRest(c), ~c.ended, NEW counters0
    PROVE  /\ AtRest(Driven(c, counters0))
           /\ ConditionsJumpForward /\ FewConditions => ~AtCondition(Driven(c, counters0))
<1> DEFINE moved == Advance(c)
           b == IF moved.current THEN Resolved(moved, counters0) ELSE moved
<1>1. OnScript(c) /\ c.current
  BY DEF AtRest, OnScript
<1>2. OnScript(moved)
  BY <1>1, AdvanceIsFurther
<1>3. Driven(c, counters0) = Finished(b)
  BY DEF Driven
<1> HIDE DEF moved
<1>4. OnScript(b)
  BY <1>2, ResolvedIsOn
<1>5. ConditionsJumpForward /\ FewConditions => ~AtCondition(b)
  BY <1>2, ResolvedIsPlain DEF AtCondition
<1> HIDE DEF b
<1>6. /\ Finished(b) \in Cursor /\ Finished(b).ended = ~b.current
      /\ Finished(b).sub = b.sub /\ Finished(b).step = b.step
      /\ Finished(b).current = b.current /\ b.current \in BOOLEAN
  BY <1>4 DEF OnScript, Cursor, Finished
<1>7. AtRest(Finished(b))
  <2> DEFINE f == Finished(b)
  <2> HIDE DEF f
  <2>1. f.current = ~f.ended
    BY <1>6 DEF f
  <2>2. IF f.ended THEN f.sub = SubMissionCount /\ f.step = 0 ELSE HasStep(f.sub, f.step)
    BY <1>4, <1>6 DEF OnScript, f
  <2> QED BY <1>6, <2>1, <2>2 DEF AtRest, f
<1>8. AtCondition(Finished(b)) => AtCondition(b)
  BY <1>6 DEF AtCondition, CurrentStep
<1> QED BY <1>3, <1>5, <1>7, <1>8

\* So does the opening of the script.
LEMMA EnteredIsAtRest ==
    ASSUME WellFormed, SubMissions # {}, NEW counters0
    PROVE  /\ AtRest(Entered(counters0))
           /\ ConditionsJumpForward /\ FewConditions => ~AtCondition(Entered(counters0))
<1> DEFINE first == Advance(StartOfScript)
           b == Resolved(first, counters0)
<1>1. 0 \in SubMissions
  BY ScriptAssumption
<1>2. Script[0].count = Len(Script[0].steps) /\ Script[0].count > 0 /\ Script[0].count \in Nat
  BY <1>1, StepIsTyped DEF WellFormed
<1>3. first = At(StartOfScript, 0, 0) /\ StartOfScript \in Cursor /\ ~StartOfScript.ended
  BY <1>2 DEF Advance, StartOfScript, Cursor
<1>4. OnScript(first)
  <2>1. HasStep(0, 0) /\ 0 \in Nat
    BY <1>1, <1>2 DEF HasStep
  <2> QED BY <1>3, <2>1, AtIsOn
<1>5. first.current
  BY <1>1, <1>2, <1>3 DEF At, HasStep, StartOfScript
<1>6. Entered(counters0) = Finished(b)
  BY <1>5 DEF Entered
<1> HIDE DEF first
<1>7. OnScript(b)
  BY <1>4, ResolvedIsOn
<1>8. ConditionsJumpForward /\ FewConditions => ~AtCondition(b)
  BY <1>4, ResolvedIsPlain
<1> HIDE DEF b
<1>9. /\ Finished(b) \in Cursor /\ Finished(b).ended = ~b.current
      /\ Finished(b).sub = b.sub /\ Finished(b).step = b.step
      /\ Finished(b).current = b.current /\ b.current \in BOOLEAN
  BY <1>7 DEF OnScript, Cursor, Finished
<1>10. AtRest(Finished(b))
  <2> DEFINE f == Finished(b)
  <2> HIDE DEF f
  <2>1. f.current = ~f.ended
    BY <1>9 DEF f
  <2>2. IF f.ended THEN f.sub = SubMissionCount /\ f.step = 0 ELSE HasStep(f.sub, f.step)
    BY <1>7, <1>9 DEF OnScript, f
  <2> QED BY <1>9, <2>1, <2>2 DEF AtRest, f
<1>11. AtCondition(Finished(b)) => AtCondition(b)
  BY <1>9 DEF AtCondition, CurrentStep
<1> QED BY <1>6, <1>8, <1>10, <1>11

\* The script between two frames, whatever the flag orders did to its counters.
ScriptInv ==
    AtRest(cursor) /\ counters \in [Counters -> -MaxCounter..MaxCounter]

\* A script that was entered is at rest.
LEMMA ScriptInitIsGood ==
    ASSUME WellFormed, SubMissions # {}, ScriptInit
    PROVE  /\ ScriptInv
           /\ ConditionsJumpForward /\ FewConditions => NeverOnCondition
<1>1. counters \in [Counters -> -MaxCounter..MaxCounter]
  BY ScriptAssumption DEF ScriptInit, NewSequencer
<1> QED BY <1>1, EnteredIsAtRest DEF ScriptInit, ScriptInv, NeverOnCondition

\* A driven frame, or a flag order, finds and leaves the script at rest.
LEMMA ScriptNextIsGood ==
    ASSUME WellFormed, ScriptInv, [ScriptNext]_scriptVars
    PROVE  /\ ScriptInv'
           /\ ConditionsJumpForward /\ FewConditions /\ NeverOnCondition => NeverOnCondition'
<1>1. CASE Drive
  BY <1>1, DrivenIsAtRest DEF Drive, ScriptInv, NeverOnCondition
<1>2. ASSUME NEW order \in Orders, ApplyOrder(order)
      PROVE  ScriptInv' /\ cursor' = cursor
  BY <1>2 DEF ApplyOrder, ScriptInv
<1>3. CASE UNCHANGED scriptVars
  BY <1>3 DEF scriptVars, ScriptInv, NeverOnCondition
<1>4. cursor' = cursor => (NeverOnCondition => NeverOnCondition')
  BY DEF NeverOnCondition
<1> QED BY <1>1, <1>2, <1>3, <1>4 DEF ScriptNext

\* The script rests on one of its steps, or past the last sub-mission
\* (advance, drive_frame), when the count bytes are the lengths of the tables.
THEOREM ScriptInvariance ==
    ASSUME WellFormed, SubMissions # {}
    PROVE  ScriptSpec => []ScriptInv
<1>1. ScriptInit => ScriptInv
  BY ScriptInitIsGood
<1>2. ScriptInv /\ [ScriptNext]_scriptVars => ScriptInv'
  BY ScriptNextIsGood
<1> QED BY <1>1, <1>2, PTL DEF ScriptSpec

\* What a cursor at rest can do: it survives its save.
LEMMA RestSurvivesSave ==
    ASSUME WellFormed, NEW c, AtRest(c)
    PROVE  CursorRestorable(c) /\ RestoredCursor(c) = c
<1>1. c \in Cursor /\ c.current = ~c.ended
  BY DEF AtRest
<1>2. RestoredCursor(c) = c
  BY <1>1 DEF RestoredCursor, Cursor
<1>3. CursorRestorable(c)
  BY DEF AtRest, CursorRestorable, HasStep, WellFormed
<1> QED BY <1>2, <1>3

\* Wherever the script of a well formed mission stands, restore_cursor() takes
\* the saved position back and rebuilds the same cursor.
THEOREM CursorTheorem ==
    ASSUME WellFormed, SubMissions # {}
    PROVE  ScriptSpec => []CursorSurvivesSave
<1>1. ScriptInv => CursorSurvivesSave
  BY RestSurvivesSave DEF ScriptInv, CursorSurvivesSave
<1> QED BY <1>1, ScriptInvariance, PTL

\* If besides its conditions only jump forward, and are no more than kMaxHops,
\* the script never rests on a condition, and it ends past the last sub-mission
\* and nowhere else (resolve_tag7_conditions).
THEOREM RestsTheorem ==
    ASSUME WellFormed, SubMissions # {}, ConditionsJumpForward, FewConditions
    PROVE  ScriptSpec => []RestsOnPlainStep
<1>1. ScriptInit => ScriptInv /\ NeverOnCondition
  BY ScriptInitIsGood
<1>2. ScriptInv /\ NeverOnCondition /\ [ScriptNext]_scriptVars => ScriptInv' /\ NeverOnCondition'
  BY ScriptNextIsGood
<1>3. ScriptInv /\ NeverOnCondition => RestsOnPlainStep
  <2> SUFFICES ASSUME ScriptInv, NeverOnCondition PROVE RestsOnPlainStep
    OBVIOUS
  <2>1. cursor \in Cursor /\ cursor.current = ~cursor.ended
    BY DEF ScriptInv, AtRest
  <2>2. ScriptTypeOK /\ EndsPastTheLast
    BY <2>1 DEF ScriptInv, AtRest, ScriptTypeOK, EndsPastTheLast
  <2> QED BY <2>2 DEF RestsOnPlainStep
<1> QED BY <1>1, <1>2, <1>3, PTL DEF ScriptSpec

-----------------------------------------------------------------------------
(* The session.                                                            *)

\* The ways to open a session, and its state.
SessionMode == {"Payload", "Diagnostic", "Store", "Product", "FreeFlight"}

Session ==
    [mode : SessionMode, x : Execution, cursor : Cursor, q : Sequencer, frontend : Frontend]

\* The campaign of a mission under way, won or lost.
Underway(table) ==
    LET status == table[Mission]
    IN  /\ status.state \in {"Active", "Completed", "Failed"}
        /\ status.mask \subseteq Objectives(Mission) /\ status.loadout \in Loadouts
        /\ status.state = "Completed" => status.mask = Objectives(Mission)

\* The objectives that are done.
Done(y) == {i \in SubMissions : y.objectives[i] = "Complete"}

\* What the mission counts as done, the campaign it reports to knows.
Covered(y) == y.bound => Done(y) \subseteq y.campaign[Mission].mask

\* The mission of a session: launched, and with a campaign under way.
Flying(y) ==
    /\ Consistent(y) /\ y.launched /\ y.scenario \notin {"Loading", "Briefing"}
    /\ Underway(y.campaign) /\ Covered(y)

\* The frontend is not used, or agrees with the mission about a pause.
Shown(s) ==
    /\ ~HasFrontend(s.mode) => s.frontend = TitleScreen
    /\ s.frontend.state = "Pause" => s.x.scenario = "Paused"

\* A session between two frames: its mission, its script and its screens.
Sound(s) ==
    /\ s \in Session /\ Flying(s.x) /\ s.x.bound = HasCampaign(s.mode)
    /\ AtRest(s.cursor) /\ s.q.sub = s.cursor.sub /\ Shown(s)

\* The objectives stand where the script does: in work under the cursor, done or
\* skipped behind it.
Standing(y, sub) ==
    \A i \in SubMissions :
        IF i < sub
        THEN y.objectives[i] = "Complete" \/ (y.objectives[i] = "Pending" /\ CanBeSkipped(i))
        ELSE y.objectives[i] = IF i = sub THEN "Active" ELSE "Pending"

\* Every objective is done.
AllDone(y) == \A i \in SubMissions : y.objectives[i] = "Complete"

\* The campaign of a mission, if it has one, has not closed it.
Open(y) == y.bound => y.campaign[Mission].state = "Active"

\* Objectives and script agree while the campaign has not closed the mission,
\* and a mission that is won has done them all and run its script to the end.
InOrder(s) ==
    /\ Open(s.x) => Standing(s.x, s.cursor.sub)
    /\ s.x.scenario = "Complete" => s.cursor.ended /\ AllDone(s.x)

\* What the order rests on: every sub-mission begins with a plain step, and
\* conditions lead forward.
Forward == AllStartPlain /\ ConditionsJumpForward

\* A save is what some session saved.
SaveOf(s) ==
    [mode |-> s.mode, checkpoint |-> SessionCheckpoint(s), campaign |-> SnapshotOf(s.x.campaign)]

\* What a tick may do to the mission of a session: close its campaign's mission.
Closes(y, z) ==
    /\ z.bound = y.bound /\ z.launched = y.launched /\ z.objectives = y.objectives
    /\ z.campaign[Mission].mask = y.campaign[Mission].mask
    /\ z.campaign[Mission].loadout = y.campaign[Mission].loadout
    /\ \/ z.campaign[Mission].state = y.campaign[Mission].state
       \/ y.campaign[Mission].state = "Active" /\ z.campaign[Mission].state = "Failed"
       \/ /\ y.campaign[Mission].state = "Active" /\ z.campaign[Mission].state = "Completed"
          /\ y.campaign[Mission].mask = Objectives(Mission)

\* The fields a session's mission is judged by.
SameMission(y, z) ==
    /\ z.bound = y.bound /\ z.launched = y.launched /\ z.objectives = y.objectives
    /\ z.campaign = y.campaign /\ z.scenario = y.scenario

\* A session has no sequence, so its dispatch does nothing.
LEMMA NothingDue ==
    ASSUME NEW y
    PROVE  DispatchDue(y) = [ok |-> TRUE, x |-> y]
<1> DEFINE n == Len(Events)
           F(f) == [k \in 0..n |->
                       IF k = 0 THEN {[ok |-> TRUE, x |-> y]}
                       ELSE {Offered(acc, k) : acc \in f[k - 1]}]
           offered == CHOOSE f : f = F(f)
           f0 == [k \in 0..n |-> {[ok |-> TRUE, x |-> y]}]
<1>1. n = 0
  BY SessionAssumption
<1>2. f0 = F(f0)
  BY <1>1
<1>3. offered = F(offered)
  <2> HIDE DEF F, f0
  <2> QED BY <1>2
<1>4. DispatchDue(y) = CHOOSE acc \in offered[n] : TRUE
  BY DEF DispatchDue
<1> HIDE DEF offered
<1>5. offered[0] = {[ok |-> TRUE, x |-> y]}
  BY <1>1, <1>3
<1> QED BY <1>1, <1>4, <1>5

\* Without waves, rules or a sequence a tick is the tail, after a flight that
\* leaves the mission alone.
LEMMA TickedIsSettled ==
    ASSUME NEW y, Consistent(y), NEW z \in Ticked(y)
    PROVE  \E f : Consistent(f) /\ SameMission(y, f) /\ z = Settled(f)
<1>1. PICK fought \in CombatTicks(y), n \in Strides :
         z \in UNION {Directed(heard) : heard \in RadioTicks(Flown(fought, n))}
  BY DEF Ticked
<1> DEFINE flown == Flown(fought, n)
<1>2. PICK heard \in RadioTicks(flown) : z \in Directed(heard)
  BY <1>1
<1>3. Consistent(fought) /\ SameMission(y, fought)
  <2>1. Consistent(fought) /\ y \in Execution
    BY CombatIsGood DEF Consistent
  <2>2. CASE y.scenario # "Gameplay"
    BY <2>1, <2>2 DEF CombatTicks, SameMission
  <2>3. CASE y.scenario = "Gameplay"
    <3>1. PICK killed, flying : fought = Fought(y, killed, flying)
      BY <2>3 DEF CombatTicks
    <3> QED BY <2>1, <3>1 DEF Fought, SameMission, Execution
  <2> QED BY <2>2, <2>3
<1>4. Consistent(flown) /\ SameMission(fought, flown)
  <2>1. Consistent(flown) /\ fought \in Execution
    BY <1>3, FlownIsGood DEF Consistent
  <2> QED BY <2>1 DEF Flown, SameMission, Execution
<1> HIDE DEF flown
<1>5. Consistent(heard) /\ SameMission(flown, heard)
  <2>1. Consistent(heard) /\ flown \in Execution
    BY <1>2, <1>4, RadioIsGood DEF Consistent
  <2> QED BY <1>2, <2>1 DEF RadioTicks, SameMission, Execution
<1>6. SameMission(y, heard)
  BY <1>3, <1>4, <1>5 DEF SameMission
<1>7. CASE heard.scenario # "Gameplay"
  BY <1>2, <1>5, <1>6, <1>7 DEF Directed
<1>8. CASE heard.scenario = "Gameplay"
  <2> DEFINE spawned == WavesSpawned(heard)
  <2>1. DueWaves(heard) = {}
    BY SessionAssumption DEF DueWaves
  <2>2. ~WavesRefused(heard)
    BY <2>1 DEF WavesRefused
  <2>3. Consistent(spawned) /\ SameMission(heard, spawned)
    <3>1. heard \in Execution
      BY <1>5 DEF Consistent
    <3>2. SameMission(heard, spawned)
      BY <3>1 DEF WavesSpawned, SameMission, Execution
    <3>3. Consistent(spawned)
      BY <1>5, <2>2, WavesAreGood
    <3> QED BY <3>2, <3>3
  <2>4. PICK f \in AiFirings(spawned) :
            z = IF RefusedRules(f) # {} THEN f
                ELSE IF DispatchDue(f).ok THEN Settled(DispatchDue(f).x)
                ELSE DispatchDue(f).x
    BY <1>2, <1>8, <2>2 DEF Directed
  <2>5. RefusedRules(f) = {}
    BY SessionAssumption DEF RefusedRules, DueRules
  <2>6. z = Settled(f)
    BY <2>4, <2>5, NothingDue
  <2> HIDE DEF spawned
  <2>7. Consistent(f) /\ SameMission(spawned, f)
    <3>1. Consistent(f) /\ spawned \in Execution
      BY <2>3, AiIsGood DEF Consistent
    <3> QED BY <3>1 DEF AiFirings, SameMission, Execution
  <2>8. SameMission(y, f)
    BY <1>6, <2>3, <2>7 DEF SameMission
  <2> QED BY <2>6, <2>7, <2>8
<1> QED BY <1>7, <1>8

\* Closing one part after another closes the mission.
LEMMA ClosesOn ==
    ASSUME NEW y, NEW z, NEW u, Closes(y, z), Closes(z, u)
    PROVE  Closes(y, u)
BY DEF Closes

\* A part that leaves the mission alone closes nothing.
LEMMA ClosesNothing ==
    ASSUME NEW y, NEW z, SameMission(y, z)
    PROVE  Closes(y, z)
BY DEF Closes, SameMission

\* The manual objectives of a session are not judged; an objective that failed
\* still ends the mission.
LEMMA JudgedCloses ==
    ASSUME NEW y, Consistent(y)
    PROVE  LET z == Judged(y)
           IN  /\ Closes(y, z) /\ z.campaign = y.campaign
               /\ (\A i \in Rows : y.objectives[i] # "Failed") => z.scenario = y.scenario
<1> DEFINE z == Judged(y)
           over(i) ==
               /\ y.objectives[i] = "Active"
               /\ ObjectiveRows[i].condition # "Manual"
               /\ ObjectiveRows[i].target \in Present(y) \ y.alive
           objectives ==
               [i \in Rows |->
                   IF ~over(i) THEN y.objectives[i]
                   ELSE IF ObjectiveRows[i].condition = "DestroyUnit" THEN "Complete"
                   ELSE "Failed"]
<1>1. y \in Execution /\ y.objectives = [i \in Rows |-> y.objectives[i]]
  BY DEF Consistent, Execution
<1>2. \A i \in Rows : ObjectiveRows[i].condition = "Manual"
  BY SessionAssumption DEF Rows
<1>3. objectives = y.objectives
  <2>1. \A i \in Rows : objectives[i] = y.objectives[i]
    BY <1>2
  <2>2. objectives = [i \in Rows |-> objectives[i]]
    OBVIOUS
  <2> HIDE DEF objectives
  <2> QED BY <1>1, <2>1, <2>2
<1>4. z = IF y.scenario # "Gameplay" THEN y
          ELSE [y EXCEPT !.objectives = objectives,
                         !.scenario = IF \E i \in Rows : objectives[i] = "Failed"
                                      THEN "Aborted" ELSE @]
  BY DEF Judged
<1> HIDE DEF z, objectives
<1>5. /\ z.bound = y.bound /\ z.launched = y.launched /\ z.objectives = y.objectives
      /\ z.campaign = y.campaign
      /\ (\A i \in Rows : y.objectives[i] # "Failed") => z.scenario = y.scenario
  BY <1>1, <1>3, <1>4 DEF Execution
<1> QED BY <1>5 DEF Closes, z

\* An end given to the HSM closes the campaign's mission with it.
LEMMA GivenCloses ==
    ASSUME NEW y, Consistent(y), NEW event \in {"Complete", "Abort"}, NEW condition
    PROVE  Closes(y, Given(condition, y, event))
<1>0. y \in Execution /\ y.campaign \in [Missions -> MissionStatus]
  BY DEF Consistent, Execution
<1> DEFINE z == Given(condition, y, event)
<1>1. CASE z = y
  BY <1>1, ClosesNothing DEF SameMission
<1>2. CASE /\ y.scenario = "Gameplay" /\ condition /\ CanDispatch(y, event)
           /\ z = Dispatched(y, event)
  <2> DEFINE campaign == CASE event = "Complete" /\ y.bound /\ CanComplete(y.campaign, Mission) ->
                                 Won(y.campaign, Mission)
                           [] event = "Abort" /\ y.bound -> Lost(y.campaign, Mission)
                           [] OTHER -> y.campaign
  <2>1. z = [y EXCEPT !.scenario = EventTo[event], !.campaign = campaign]
    BY <1>2 DEF Dispatched
  <2> HIDE DEF z, campaign
  <2>2. /\ z.bound = y.bound /\ z.launched = y.launched /\ z.objectives = y.objectives
        /\ z.campaign = campaign
    BY <1>0, <2>1 DEF Execution
  <2>3. CASE event = "Complete" /\ y.bound
    <3>1. CanComplete(y.campaign, Mission)
      BY <1>2, <2>3 DEF CanDispatch
    <3>2. campaign = Won(y.campaign, Mission)
      BY <2>3, <3>1 DEF campaign
    <3>3. y.campaign[Mission].state = "Active" /\ y.campaign[Mission].mask = Objectives(Mission)
      BY <3>1 DEF CanComplete
    <3>4. /\ campaign[Mission].state = "Completed"
          /\ campaign[Mission].mask = y.campaign[Mission].mask
          /\ campaign[Mission].loadout = y.campaign[Mission].loadout
      BY <1>0, <3>2, <3>3, TableMoves
    <3> QED BY <2>2, <3>3, <3>4 DEF Closes, z
  <2>4. CASE event = "Abort" /\ y.bound
    <3>1. CanFail(y.campaign, Mission)
      BY <1>2, <2>4 DEF CanDispatch
    <3>2. campaign = Lost(y.campaign, Mission)
      BY <2>4 DEF campaign
    <3>3. y.campaign[Mission].state = "Active"
      BY <3>1 DEF CanFail
    <3>4. /\ campaign[Mission].state = "Failed"
          /\ campaign[Mission].mask = y.campaign[Mission].mask
          /\ campaign[Mission].loadout = y.campaign[Mission].loadout
      BY <1>0, <3>2, <3>3, TableMoves
    <3> QED BY <2>2, <3>3, <3>4 DEF Closes, z
  <2>5. CASE ~y.bound
    <3>1. campaign = y.campaign
      BY <2>5 DEF campaign
    <3> QED BY <2>2, <3>1 DEF Closes, z
  <2> QED BY <2>3, <2>4, <2>5
<1> QED BY <1>1, <1>2 DEF Given

\* A tick of a session's mission: it flies on, its objectives are what they
\* were, and its campaign is closed at most.
LEMMA FliesOn ==
    ASSUME NEW y, Flying(y), NEW z \in Ticked(y)
    PROVE  /\ Flying(z) /\ z.bound = y.bound /\ z.objectives = y.objectives
           /\ z.campaign[Mission].state = "Active" => y.campaign[Mission].state = "Active"
           /\ y.scenario = "Paused" => z.scenario = "Paused"
           /\ z.scenario = "Complete" => y.scenario = "Complete" \/ (Open(y) /\ AllDone(y))
<1>1. Consistent(y) /\ y.launched
  BY DEF Flying
<1>2. PICK f : Consistent(f) /\ SameMission(y, f) /\ z = Settled(f)
  BY <1>1, TickedIsSettled
<1>3. /\ Consistent(z) /\ Passes(y, z)
      /\ y.scenario = "Paused" => z.scenario = "Paused"
  BY <1>1, TickedIsGood
<1> DEFINE synced == Synced(f)
           judged == Judged(synced)
           failed == FailureChecked(judged)
<1>4. Consistent(synced) /\ SameMission(f, synced)
  <2>1. Consistent(synced)
    BY <1>2, SyncedIsGood
  <2>2. f \in Execution
    BY <1>2 DEF Consistent
  <2>3. SameMission(f, synced)
    BY <2>2 DEF Synced, SameMission, Execution
  <2> QED BY <2>1, <2>3
<1>5. z = SuccessChecked(failed)
  BY <1>2 DEF Settled
<1> HIDE DEF synced
<1>6. /\ Consistent(judged) /\ Closes(synced, judged)
      /\ judged.scenario \in {synced.scenario, "Aborted"}
  BY <1>4, JudgedIsGood, JudgedCloses
<1> HIDE DEF judged
<1>7. /\ Consistent(failed) /\ Closes(judged, failed)
      /\ failed.scenario \in {judged.scenario, "Aborted"}
  <2>1. FailureDue(judged) \in BOOLEAN /\ EventTo["Abort"] = "Aborted"
    BY DEF FailureDue, Deadline, EventTo
  <2> QED BY <1>6, <2>1, GivenIsGood, GivenCloses DEF FailureChecked
<1> HIDE DEF failed
<1>8. Closes(failed, z)
  BY <1>5, <1>7, GivenCloses DEF SuccessChecked
<1>9. Closes(y, failed) /\ Closes(y, z)
  <2>1. Closes(y, f) /\ Closes(f, synced)
    BY <1>2, <1>4, ClosesNothing
  <2>2. Closes(y, judged)
    BY <1>6, <2>1, ClosesOn
  <2> QED BY <1>7, <1>8, <2>2, ClosesOn
<1>10. z.scenario \notin {"Loading", "Briefing"}
  BY <1>3 DEF Flying, Passes
<1>11. Underway(z.campaign)
  BY <1>9 DEF Flying, Underway, Closes
<1>12. Covered(z)
  BY <1>9 DEF Flying, Covered, Done, Closes
<1>13. ASSUME z.scenario = "Complete", y.scenario # "Complete" PROVE Open(y) /\ AllDone(y)
  <2>1. failed.scenario # "Complete"
    BY <1>2, <1>4, <1>6, <1>7, <1>13 DEF SameMission
  <2>2. AllRequiredComplete(failed) /\ CanDispatch(failed, "Complete")
    BY <1>5, <1>13, <2>1 DEF SuccessChecked, Given
  <2>3. failed.bound => failed.campaign[Mission].state = "Active"
    BY <2>2 DEF CanDispatch, CanComplete
  <2>4. Open(y)
    BY <1>9, <2>3 DEF Open, Closes
  <2>5. AllDone(y)
    <3>1. failed.objectives = y.objectives
      BY <1>9 DEF Closes
    <3> QED BY <2>2, <3>1, SessionAssumption DEF AllRequiredComplete, AllDone, Rows
  <2> QED BY <2>4, <2>5
<1> QED BY <1>1, <1>3, <1>9, <1>10, <1>11, <1>12, <1>13 DEF Flying, Closes

\* When every objective is done and the campaign can be won, a tick of a
\* mission in play ends it.
LEMMA FliesToTheEnd ==
    ASSUME NEW y, Flying(y), y.scenario = "Gameplay", Rows # {},
           \A i \in Rows : y.objectives[i] = "Complete",
           y.bound => CanComplete(y.campaign, Mission),
           NEW z \in Ticked(y)
    PROVE  z.scenario \in {"Complete", "Aborted"}
<1>1. Consistent(y) /\ y.launched
  BY DEF Flying
<1>2. PICK f : Consistent(f) /\ SameMission(y, f) /\ z = Settled(f)
  BY <1>1, TickedIsSettled
<1> DEFINE synced == Synced(f)
           judged == Judged(synced)
           failed == FailureChecked(judged)
<1>4. Consistent(synced) /\ SameMission(y, synced)
  <2>1. Consistent(synced)
    BY <1>2, SyncedIsGood
  <2>2. f \in Execution
    BY <1>2 DEF Consistent
  <2>3. SameMission(y, synced)
    BY <1>2, <2>2 DEF Synced, SameMission, Execution
  <2> QED BY <2>1, <2>3
<1>5. z = SuccessChecked(failed)
  BY <1>2 DEF Settled
<1> HIDE DEF synced
<1>6. /\ Consistent(judged) /\ judged.scenario = "Gameplay" /\ judged.launched
      /\ judged.objectives = y.objectives
      /\ judged.campaign = y.campaign /\ judged.bound = y.bound
  <2>1. /\ Closes(synced, judged) /\ judged.campaign = synced.campaign
        /\ (\A i \in Rows : synced.objectives[i] # "Failed") => judged.scenario = synced.scenario
    BY <1>4, JudgedCloses
  <2>2. /\ synced.objectives = y.objectives /\ synced.scenario = "Gameplay" /\ synced.launched
        /\ synced.campaign = y.campaign /\ synced.bound = y.bound
    BY <1>1, <1>4 DEF SameMission
  <2>3. Consistent(judged)
    BY <1>4, JudgedIsGood
  <2> QED BY <2>1, <2>2, <2>3 DEF Closes
<1> HIDE DEF judged
<1>7. CASE FailureDue(judged)
  <2>1. CanDispatch(judged, "Abort")
    BY <1>6 DEF CanDispatch, CanFail, CanComplete, EventFrom, ScenarioState
  <2>2. failed = Dispatched(judged, "Abort")
    BY <1>6, <1>7, <2>1 DEF FailureChecked, Given
  <2>3. failed.scenario = "Aborted"
    BY <1>6, <2>1, <2>2, DispatchedIsGood DEF EventType, EventTo
  <2> HIDE DEF failed
  <2>4. z = failed
    BY <1>5, <2>3 DEF SuccessChecked, Given
  <2> QED BY <2>3, <2>4
<1>8. CASE ~FailureDue(judged)
  <2>1. failed = judged
    BY <1>8 DEF FailureChecked, Given
  <2>2. AllRequiredComplete(judged)
    BY <1>6 DEF AllRequiredComplete
  <2>3. CanDispatch(judged, "Complete")
    BY <1>6, <2>2 DEF CanDispatch, EventFrom
  <2>4. z = Dispatched(judged, "Complete")
    BY <1>5, <1>6, <2>1, <2>2, <2>3 DEF SuccessChecked, Given
  <2> QED BY <1>6, <2>3, <2>4, DispatchedIsGood DEF EventType, EventTo
<1> QED BY <1>7, <1>8

\* Leaving a sub-mission: its objective is done, and the campaign is told.
LEMMA CompletedFlies ==
    ASSUME NEW y, Flying(y), NEW i, CanCompleteRow(y, i)
    PROVE  LET z == RowCompleted(y, i)
           IN  /\ Flying(z) /\ z.bound = y.bound /\ z.scenario = y.scenario
               /\ z.campaign[Mission].state = y.campaign[Mission].state
               /\ z.objectives = [y.objectives EXCEPT ![i] = "Complete"]
<1> DEFINE z == RowCompleted(y, i)
           objectives == [y.objectives EXCEPT ![i] = "Complete"]
           campaign == IF y.bound THEN ObjectiveCompleted(y.campaign, Mission, i) ELSE y.campaign
<1>1. /\ y \in Execution /\ y.objectives[i] = "Active" /\ i \in SubMissions
      /\ y.objectives \in [SubMissions -> RowState] /\ y.campaign \in [Missions -> MissionStatus]
      /\ y.launched /\ y.scenario \notin {"Loading", "Briefing"}
      /\ Underway(y.campaign) /\ Covered(y)
  BY SessionAssumption DEF Flying, Consistent, Execution, CanCompleteRow, Rows
<1>2. Consistent(z) /\ z.scenario = y.scenario
  BY RowCompletedIsGood DEF Flying
<1>3. z = [y EXCEPT !.objectives = objectives, !.campaign = campaign]
  BY <1>1 DEF RowCompleted
<1> HIDE DEF objectives, campaign
<1>4. /\ z.bound = y.bound /\ z.launched = y.launched
      /\ z.objectives = objectives /\ z.campaign = campaign
  BY <1>1, <1>3 DEF Execution
<1>5. y.bound => /\ i \in Objectives(Mission)
                 /\ campaign[Mission].state = "Active" /\ y.campaign[Mission].state = "Active"
                 /\ campaign[Mission].mask = y.campaign[Mission].mask \cup {i}
                 /\ campaign[Mission].loadout = y.campaign[Mission].loadout
  <2> SUFFICES ASSUME y.bound
               PROVE  /\ i \in Objectives(Mission)
                      /\ campaign[Mission].state = "Active" /\ y.campaign[Mission].state = "Active"
                      /\ campaign[Mission].mask = y.campaign[Mission].mask \cup {i}
                      /\ campaign[Mission].loadout = y.campaign[Mission].loadout
    OBVIOUS
  <2>1. i \in Objectives(Mission) /\ y.campaign[Mission].state = "Active"
    BY DEF CanCompleteRow, CanCompleteObjective
  <2>2. campaign = ObjectiveCompleted(y.campaign, Mission, i)
    BY DEF campaign
  <2> QED BY <1>1, <2>1, <2>2, TableMoves
<1>6. ~y.bound => campaign = y.campaign
  BY DEF campaign
<1>7. Underway(campaign) /\ campaign[Mission].state = y.campaign[Mission].state
  BY <1>1, <1>5, <1>6 DEF Underway
<1>8. Covered(z)
  <2>1. \A j \in SubMissions : objectives[j] = "Complete" => j = i \/ y.objectives[j] = "Complete"
    BY <1>1 DEF objectives
  <2> HIDE DEF z
  <2> QED BY <1>1, <1>4, <1>5, <2>1 DEF Covered, Done
<1> QED BY <1>1, <1>2, <1>4, <1>7, <1>8 DEF Flying, objectives

\* Arriving on a sub-mission: its objective is in work, if it was pending.
LEMMA TrackedFlies ==
    ASSUME NEW y, Flying(y), NEW sub
    PROVE  LET z == Tracked(y, sub)
           IN  /\ Flying(z) /\ z.bound = y.bound /\ z.scenario = y.scenario
               /\ z.campaign = y.campaign
               /\ z.objectives = IF sub \in SubMissions /\ y.objectives[sub] = "Pending"
                                 THEN [y.objectives EXCEPT ![sub] = "Active"]
                                 ELSE y.objectives
<1> DEFINE z == Tracked(y, sub)
<1>1. /\ y \in Execution /\ Consistent(y)
      /\ y.objectives \in [SubMissions -> RowState]
      /\ y.launched /\ y.scenario \notin {"Loading", "Briefing"}
      /\ Underway(y.campaign) /\ Covered(y)
  BY SessionAssumption DEF Flying, Consistent, Execution, Rows
<1>2. CASE sub \in SubMissions /\ y.objectives[sub] = "Pending"
  <2> DEFINE objectives == [y.objectives EXCEPT ![sub] = "Active"]
  <2>1. CanActivate(y, sub)
    BY <1>1, <1>2, SessionAssumption DEF CanActivate, Rows
  <2>2. z = Activated(y, sub)
    BY <1>2, <2>1 DEF Tracked
  <2>3. Consistent(z)
    BY <1>1, <2>1, <2>2, ActivatedIsGood
  <2>4. z = [y EXCEPT !.objectives = objectives]
    BY <2>2 DEF Activated
  <2>5. \A j \in SubMissions : objectives[j] = "Complete" => y.objectives[j] = "Complete"
    BY <1>1, <1>2
  <2> HIDE DEF z, objectives
  <2>6. /\ z.bound = y.bound /\ z.launched = y.launched /\ z.scenario = y.scenario
        /\ z.objectives = objectives /\ z.campaign = y.campaign
    BY <1>1, <2>4 DEF Execution
  <2>7. Covered(z)
    BY <1>1, <2>5, <2>6 DEF Covered, Done
  <2>8. Flying(z)
    BY <1>1, <2>3, <2>6, <2>7 DEF Flying
  <2> QED BY <1>2, <2>6, <2>8 DEF z, objectives
<1>3. CASE ~(sub \in SubMissions /\ y.objectives[sub] = "Pending")
  <2>1. z = y
    BY <1>3 DEF Tracked, CanActivate
  <2> QED BY <1>3, <2>1
<1> QED BY <1>2, <1>3

\* A frame of the driver stays on the sub-mission or goes forward, over none
\* but those that a condition can skip.
LEMMA DrivenForward ==
    ASSUME WellFormed, Forward, NEW c, AtRest(c), ~c.ended, NEW counters0
    PROVE  LET sub == Driven(c, counters0).sub
           IN  /\ sub \in Nat /\ sub >= c.sub
               /\ \A i \in SubMissions : c.sub < i /\ i < sub => CanBeSkipped(i)
<1> DEFINE Leads(t) == t > c.sub /\ \A i \in SubMissions : c.sub < i /\ i < t => CanBeSkipped(i)
           Near(b) == OnScript(b) /\ (b.sub = c.sub \/ (Leads(b.sub) /\ b.step = 0))
           moved == Advance(c)
           S == [n \in Nat |-> {b \in Cursor : Near(b)}]
<1>1. OnScript(c) /\ c.current /\ c.sub \in Nat /\ c.step \in Nat
  BY DEF AtRest, OnScript, Cursor
<1>2. Leads(c.sub + 1)
  <2>1. \A i \in SubMissions : i \in Nat
    BY StepIsTyped
  <2> QED BY <1>1, <2>1
<1>3. ASSUME NEW b, OnScript(b), b.current, b.sub = c.sub PROVE Near(Advance(b))
  <2>1. OnScript(Advance(b))
    BY <1>3, AdvanceIsFurther
  <2>2. b \in Cursor
    BY <1>3 DEF OnScript
  <2>3. \/ Advance(b).sub = c.sub
        \/ Advance(b).sub = c.sub + 1 /\ Advance(b).step = 0
    BY <1>3, <2>2 DEF Advance, At, Cursor
  <2> HIDE DEF Leads
  <2> QED BY <1>2, <2>1, <2>3
<1>4. ASSUME NEW b, Near(b) PROVE Near(Followed(b, counters0))
  <2>1. CASE ~AtCondition(b)
    BY <1>4, <2>1 DEF Followed
  <2>2. CASE AtCondition(b)
    <3> DEFINE step == CurrentStep(b)
    <3>1. /\ OnScript(b) /\ b.current /\ b \in Cursor
          /\ b.sub \in SubMissions /\ b.step \in Nat /\ b.step < Len(Script[b.sub].steps)
          /\ step = Script[b.sub].steps[b.step + 1] /\ step.tag = 7
      BY <1>4, <2>2 DEF AtCondition, OnScript, HasStep, CurrentStep, Cursor
    <3>2. b.step + 1 \in DOMAIN Script[b.sub].steps
      BY <3>1, StepIsTyped
    <3>3. b.step # 0
      BY <3>1 DEF Forward, AllStartPlain, StartsPlain
    <3>4. b.sub = c.sub
      BY <1>4, <3>3
    <3>5. step.counter # 0 => Leads(step.target)
      <4> SUFFICES ASSUME step.counter # 0 PROVE Leads(step.target)
        OBVIOUS
      <4>1. step.target > c.sub
        BY <3>1, <3>2, <3>4 DEF Forward, ConditionsJumpForward
      <4>2. ASSUME NEW i \in SubMissions, c.sub < i, i < step.target PROVE CanBeSkipped(i)
        <5>1. Script[b.sub].steps[b.step + 1].target > i
          <6>1. step.target \in Nat /\ i \in Nat
            BY <3>1, <3>2, StepIsTyped
          <6> QED BY <3>1, <4>2, <6>1
        <5> HIDE DEF step
        <5> QED BY <3>1, <3>2, <3>4, <4>2, <5>1 DEF CanBeSkipped, step
      <4> QED BY <4>1, <4>2
    <3>6. Followed(b, counters0) = Hop(b, counters0) /\ OnScript(Hop(b, counters0))
      BY <2>2, <3>1, HopIsOn DEF Followed
    <3> HIDE DEF step, Leads
    <3>7. CASE Satisfied(step, counters0)
      <4>1. Leads(step.target) /\ Hop(b, counters0) = At(b, step.target, 0)
        BY <3>5, <3>7 DEF Satisfied, Hop, Select, step
      <4>2. Hop(b, counters0).sub = step.target /\ Hop(b, counters0).step = 0
        BY <3>1, <4>1 DEF At, Cursor
      <4> QED BY <3>6, <4>1, <4>2
    <3>8. CASE ~Satisfied(step, counters0)
      <4>1. Hop(b, counters0) = Advance(b)
        BY <3>8 DEF Hop, step
      <4> QED BY <1>3, <3>1, <3>4, <3>6, <4>1
    <3> QED BY <3>7, <3>8
  <2> QED BY <2>1, <2>2
<1>5. Near(IF moved.current THEN Resolved(moved, counters0) ELSE moved)
  <2>1. Near(moved) /\ moved \in S[0]
    BY <1>1, <1>3 DEF OnScript
  <2>2. ASSUME NEW n \in Nat, n < MaxHops, NEW b \in S[n]
        PROVE  Followed(b, counters0) \in S[n + 1]
    <3>1. Near(b)
      OBVIOUS
    <3>2. Near(Followed(b, counters0))
      BY <1>4, <3>1
    <3>3. Followed(b, counters0) \in {d \in Cursor : Near(d)} /\ n + 1 \in Nat
      BY <3>2 DEF OnScript
    <3> QED BY <3>3
  <2> HIDE DEF S, moved, Near
  <2>3. Resolved(moved, counters0) \in S[MaxHops]
    BY <2>1, <2>2, ResolvedIsIn
  <2>4. Near(Resolved(moved, counters0))
    BY <2>3, ScriptAssumption DEF S
  <2> QED BY <2>1, <2>4
<1> DEFINE b == IF moved.current THEN Resolved(moved, counters0) ELSE moved
<1>6. b \in Cursor /\ (b.sub = c.sub \/ Leads(b.sub))
  BY <1>5 DEF OnScript
<1> HIDE DEF b
<1>7. Driven(c, counters0).sub = b.sub /\ b.sub \in Nat
  BY <1>6 DEF Driven, Finished, Cursor, b
<1>8. ASSUME NEW i \in SubMissions, c.sub < i, i < b.sub PROVE CanBeSkipped(i)
  <2>1. i \in Nat
    BY StepIsTyped
  <2> QED BY <1>1, <1>6, <1>7, <1>8, <2>1
<1>9. b.sub >= c.sub
  BY <1>1, <1>6, <1>7
<1> QED BY <1>7, <1>8, <1>9

\* A session with another mission, script, sequencer and screen than s.
With(s, y, c, q, f) == [mode |-> s.mode, x |-> y, cursor |-> c, q |-> q, frontend |-> f]

\* A session put together from sound parts that agree is sound.
LEMMA SoundWith ==
    ASSUME NEW s, Sound(s), NEW y, Flying(y), y.bound = s.x.bound,
           NEW c, AtRest(c), NEW q \in Sequencer, q.sub = c.sub,
           NEW f \in Frontend, ~HasFrontend(s.mode) => f = TitleScreen,
           f.state = "Pause" => y.scenario = "Paused"
    PROVE  Sound(With(s, y, c, q, f))
<1> DEFINE t == With(s, y, c, q, f)
<1>1. /\ t.mode = s.mode /\ t.x = y /\ t.cursor = c /\ t.q = q /\ t.frontend = f
      /\ t = [mode |-> t.mode, x |-> t.x, cursor |-> t.cursor, q |-> t.q, frontend |-> t.frontend]
  BY DEF With
<1> HIDE DEF t
<1>2. y \in Execution /\ c \in Cursor
  BY DEF Flying, Consistent, AtRest
<1>3. t \in Session
  BY <1>1, <1>2 DEF Sound, Session
<1> QED BY <1>1, <1>3 DEF Sound, Shown, t

\* The parts of a session.
LEMMA SoundParts ==
    ASSUME NEW s, Sound(s)
    PROVE  /\ s = With(s, s.x, s.cursor, s.q, s.frontend)
           /\ s.mode \in SessionMode
           /\ s.x \in Execution /\ Flying(s.x) /\ s.x.bound = HasCampaign(s.mode)
           /\ s.cursor \in Cursor /\ AtRest(s.cursor)
           /\ s.q \in Sequencer /\ s.q.sub = s.cursor.sub
           /\ s.frontend \in Frontend /\ Shown(s)
BY DEF Sound, Session, With

\* advance_script() keeps script, sequencer and campaign together; where the
\* script only leads forward, the objectives follow too.
LEMMA AdvancedIsSound ==
    ASSUME WellFormed, NEW s, Sound(s), ~s.cursor.ended
    PROVE  LET t == AdvancedScript(s)
           IN  /\ Sound(t) /\ t.mode = s.mode /\ t.frontend = s.frontend
               /\ t.x.scenario = s.x.scenario
               /\ Forward /\ InOrder(s) => InOrder(t)
<1> DEFINE before == s.cursor.sub
           cursor1 == Driven(s.cursor, s.q.counters)
           after == cursor1.sub
           done == IF before \in SubMissions /\ CanCompleteRow(s.x, before)
                   THEN RowCompleted(s.x, before) ELSE s.x
           y == Tracked(done, after)
           q == [s.q EXCEPT !.sub = after]
           t == AdvancedScript(s)
<1>1. /\ s = With(s, s.x, s.cursor, s.q, s.frontend)
      /\ s.mode \in SessionMode
      /\ s.x \in Execution /\ Flying(s.x) /\ s.x.bound = HasCampaign(s.mode)
      /\ s.cursor \in Cursor /\ AtRest(s.cursor)
      /\ s.q \in Sequencer /\ s.q.sub = s.cursor.sub
      /\ s.frontend \in Frontend /\ Shown(s)
  BY SoundParts
<1>2. AtRest(cursor1) /\ cursor1 \in Cursor /\ after \in Nat
  <2>1. AtRest(cursor1)
    BY <1>1, DrivenIsAtRest
  <2> HIDE DEF cursor1
  <2> QED BY <2>1 DEF AtRest, Cursor
<1>3. /\ Flying(done) /\ done.bound = s.x.bound /\ done.scenario = s.x.scenario
      /\ done.campaign[Mission].state = s.x.campaign[Mission].state
      /\ done.objectives = IF before \in SubMissions /\ CanCompleteRow(s.x, before)
                           THEN [s.x.objectives EXCEPT ![before] = "Complete"]
                           ELSE s.x.objectives
  BY <1>1, CompletedFlies
<1> HIDE DEF cursor1, done
<1>4. /\ Flying(y) /\ y.bound = done.bound /\ y.scenario = done.scenario
      /\ y.campaign = done.campaign
      /\ y.objectives = IF after \in SubMissions /\ done.objectives[after] = "Pending"
                        THEN [done.objectives EXCEPT ![after] = "Active"]
                        ELSE done.objectives
  BY <1>3, TrackedFlies
<1>5. CASE after = before
  <2>1. t = [s EXCEPT !.cursor = cursor1]
    BY <1>5 DEF AdvancedScript, cursor1
  <2>2. t = With(s, s.x, cursor1, s.q, s.frontend)
    BY <1>1, <2>1 DEF With
  <2>3. Sound(t)
    <3>1. s.q.sub = after
      BY <1>1, <1>5
    <3> QED BY <1>1, <1>2, <2>2, <3>1, SoundWith DEF Shown
  <2>4. /\ t.mode = s.mode /\ t.frontend = s.frontend /\ t.x = s.x
        /\ t.cursor.sub = s.cursor.sub
    BY <1>5, <2>2 DEF With
  <2> HIDE DEF t
  <2>5. InOrder(s) => InOrder(t)
    BY <2>4 DEF InOrder
  <2> QED BY <2>3, <2>4, <2>5 DEF t
<1>6. CASE after # before
  <2>1. t = [s EXCEPT !.cursor = cursor1, !.q.sub = after, !.x = y]
    BY <1>6 DEF AdvancedScript, cursor1, done
  <2> HIDE DEF y
  <2>2. t = With(s, y, cursor1, q, s.frontend)
    BY <1>1, <2>1 DEF With
  <2>3. q \in Sequencer /\ q.sub = after
    BY <1>1, <1>2 DEF Sequencer
  <2>4. Sound(t)
    <3> HIDE DEF q
    <3>1. y.bound = s.x.bound /\ y.scenario = s.x.scenario
      BY <1>3, <1>4
    <3> QED BY <1>1, <1>2, <1>4, <2>2, <2>3, <3>1, SoundWith DEF Shown
  <2>5. /\ t.mode = s.mode /\ t.frontend = s.frontend /\ t.x = y
        /\ t.cursor = cursor1
    BY <2>2 DEF With
  <2> HIDE DEF t, q
  <2>6. ASSUME Forward, InOrder(s) PROVE InOrder(t)
    <3>1. s.x.scenario # "Complete"
      \* A mission that is won has ended its script.
      BY <2>6 DEF InOrder
    <3> SUFFICES ASSUME Open(t.x) PROVE Standing(t.x, t.cursor.sub)
      BY <1>3, <1>4, <2>5, <3>1 DEF InOrder
    <3>2. Open(s.x) /\ Standing(s.x, before)
      BY <1>3, <1>4, <2>5, <2>6 DEF InOrder, Open
    <3>3. /\ before \in Nat /\ before \in SubMissions /\ after > before
          /\ \A i \in SubMissions : before < i /\ i < after => CanBeSkipped(i)
      <4>1. before \in SubMissions /\ before \in Nat
        BY <1>1 DEF AtRest, HasStep, Cursor
      <4>2. /\ after >= before
            /\ \A i \in SubMissions : before < i /\ i < after => CanBeSkipped(i)
        BY <1>1, <2>6, DrivenForward DEF cursor1
      <4> QED BY <1>2, <1>6, <4>1, <4>2
    <3>4. s.x.objectives \in [SubMissions -> RowState]
      BY <1>1, SessionAssumption DEF Execution, Rows
    <3>5. CanCompleteRow(s.x, before)
      <4>1. s.x.objectives[before] = "Active"
        BY <3>2, <3>3 DEF Standing
      <4>2. before \in Objectives(Mission)
        BY <3>3, ScriptAssumption, SessionAssumption DEF Objectives
      <4> QED BY <1>1, <3>2, <3>3, <4>1, <4>2, SessionAssumption
            DEF CanCompleteRow, CanCompleteObjective, Flying, Open, Rows
    <3>6. done.objectives = [s.x.objectives EXCEPT ![before] = "Complete"]
      BY <1>3, <3>3, <3>5
    <3>7. ASSUME NEW i \in SubMissions
          PROVE  IF i < after
                 THEN \/ y.objectives[i] = "Complete"
                      \/ y.objectives[i] = "Pending" /\ CanBeSkipped(i)
                 ELSE y.objectives[i] = IF i = after THEN "Active" ELSE "Pending"
      <4>1. i \in Nat
        BY StepIsTyped
      <4>2. IF i < before
            THEN \/ s.x.objectives[i] = "Complete"
                 \/ s.x.objectives[i] = "Pending" /\ CanBeSkipped(i)
            ELSE s.x.objectives[i] = IF i = before THEN "Active" ELSE "Pending"
        BY <3>2 DEF Standing
      <4>3. CASE i < before
        BY <1>2, <1>4, <3>3, <3>4, <3>6, <4>1, <4>2, <4>3
      <4>4. CASE i = before
        BY <1>2, <1>4, <3>3, <3>4, <3>6, <4>1, <4>2, <4>4
      <4>5. CASE before < i /\ i < after
        BY <1>2, <1>4, <3>3, <3>4, <3>6, <4>1, <4>2, <4>5
      <4>6. CASE i = after
        BY <1>2, <1>4, <3>3, <3>4, <3>6, <4>1, <4>2, <4>6
      <4>7. CASE i > after
        BY <1>2, <1>4, <3>3, <3>4, <3>6, <4>1, <4>2, <4>7
      <4> QED BY <1>2, <3>3, <4>1, <4>3, <4>4, <4>5, <4>6, <4>7
    <3> QED BY <2>5, <3>7 DEF Standing
  <2> QED BY <1>3, <1>4, <2>4, <2>5, <2>6 DEF t
<1> QED BY <1>5, <1>6

\* The script of a session has a first sub-mission.
LEMMA FirstExists == 0 \in SubMissions
<1>1. ObjectiveCount[Mission] = SubMissionCount /\ ObjectiveCount[Mission] \in 1..32
  BY SessionAssumption, ObjectiveCountAssumption
<1> QED BY <1>1, ScriptAssumption

\* A script that starts on a plain step opens there.
LEMMA EnteredAtStart ==
    ASSUME WellFormed, StartsPlain(0), NEW counters0
    PROVE  Entered(counters0).sub = 0
<1> DEFINE first == Advance(StartOfScript)
           S == [n \in Nat |-> {first}]
<1>1. 0 \in SubMissions
  BY FirstExists
<1>2. Script[0].count = Len(Script[0].steps) /\ Script[0].count > 0 /\ Script[0].count \in Nat
  BY <1>1, StepIsTyped DEF WellFormed
<1>3. first = At(StartOfScript, 0, 0)
  BY <1>2 DEF Advance, StartOfScript
<1>4. first.sub = 0 /\ first.step = 0 /\ first.current /\ first \in Cursor
  <2>1. HasStep(0, 0)
    BY <1>1, <1>2 DEF HasStep
  <2> HIDE DEF first
  <2>2. first = [sub |-> 0, step |-> 0, current |-> HasStep(0, 0), ended |-> FALSE]
    BY <1>3 DEF At, StartOfScript
  <2> QED BY <2>1, <2>2 DEF Cursor
<1>5. Followed(first, counters0) = first
  BY <1>4 DEF Followed, AtCondition, CurrentStep, StartsPlain
<1> HIDE DEF first
<1>6. Resolved(first, counters0) = first
  <2>1. first \in S[0]
    OBVIOUS
  <2>2. ASSUME NEW n \in Nat, n < MaxHops, NEW b \in S[n]
        PROVE  Followed(b, counters0) \in S[n + 1]
    BY <1>5
  <2> HIDE DEF S
  <2>3. Resolved(first, counters0) \in S[MaxHops]
    BY <2>1, <2>2, ResolvedIsIn
  <2> QED BY <2>3, ScriptAssumption DEF S
<1>7. Entered(counters0) = Finished(first)
  BY <1>4, <1>6 DEF Entered, first
<1> QED BY <1>4, <1>7 DEF Finished, Cursor

\* open_parsed() leaves the campaign at the mission's start.
LEMMA BegunIsUnderway ==
    /\ BegunCampaign \in [Missions -> MissionStatus] /\ Underway(BegunCampaign)
    /\ BegunCampaign[Mission].state = "Active"
<1>0. Mission \in Missions
  BY ExecutionAssumption
<1>1. AllLocked \in [Missions -> MissionStatus] /\ AllLocked[Mission].mask = {}
  BY <1>0 DEF AllLocked, MissionStatus, MissionState
<1>2. Fresh \in [Missions -> MissionStatus]
  BY <1>1, RefreshOpens DEF Fresh
<1>3. Fresh[Mission].mask = {}
  <2>1. AllLocked[Mission] \in MissionStatus
    BY <1>0, <1>1
  <2>2. [AllLocked[Mission] EXCEPT !.state = "Available"].mask = {}
    BY <1>1, <2>1 DEF MissionStatus
  <2> QED BY <1>0, <1>1, <2>2 DEF Fresh, RefreshUnlocks
<1>4. Loadout \in Loadouts
  BY SessionAssumption DEF Loadout
<1> DEFINE a == [Fresh EXCEPT ![Mission].state = "Briefing"]
           b == [a EXCEPT ![Mission].loadout = Loadout]
           d == [b EXCEPT ![Mission].state = "Active"]
<1>5. a \in [Missions -> MissionStatus] /\ a[Mission].mask = {}
  <2>1. /\ [Fresh[Mission] EXCEPT !.state = "Briefing"] \in MissionStatus
        /\ [Fresh[Mission] EXCEPT !.state = "Briefing"].mask = {}
    BY <1>0, <1>2, <1>3 DEF MissionStatus, MissionState
  <2> QED BY <1>0, <1>2, <2>1
<1> HIDE DEF a
<1>6. b \in [Missions -> MissionStatus] /\ b[Mission].mask = {} /\ b[Mission].loadout = Loadout
  <2>1. /\ [a[Mission] EXCEPT !.loadout = Loadout] \in MissionStatus
        /\ [a[Mission] EXCEPT !.loadout = Loadout].mask = {}
        /\ [a[Mission] EXCEPT !.loadout = Loadout].loadout = Loadout
    BY <1>0, <1>4, <1>5 DEF MissionStatus
  <2> QED BY <1>0, <1>5, <2>1
<1> HIDE DEF b
<1>7. /\ d \in [Missions -> MissionStatus] /\ d[Mission].mask = {} /\ d[Mission].loadout = Loadout
      /\ d[Mission].state = "Active"
  <2>1. /\ [b[Mission] EXCEPT !.state = "Active"] \in MissionStatus
        /\ [b[Mission] EXCEPT !.state = "Active"].mask = {}
        /\ [b[Mission] EXCEPT !.state = "Active"].loadout = Loadout
        /\ [b[Mission] EXCEPT !.state = "Active"].state = "Active"
    BY <1>0, <1>6 DEF MissionStatus, MissionState
  <2> QED BY <1>0, <1>6, <2>1
<1>8. BegunCampaign = d
  BY DEF BegunCampaign, Briefed, WithLoadout, Begun, a, b
<1> HIDE DEF d
<1> QED BY <1>4, <1>7, <1>8 DEF Underway

\* A session opens at the start of its script, with nothing done.
LEMMA OpenedIsSound ==
    ASSUME WellFormed, StartsPlain(0),
           NEW mode \in SessionMode
    PROVE  LET s == Opened(mode)
           IN  /\ Sound(s) /\ s.mode = mode /\ s.cursor.sub = 0
               /\ s.x.scenario = "Gameplay" /\ s.x.campaign[Mission].state = "Active"
               /\ Done(s.x) = {} /\ Standing(s.x, 0) /\ s.x.shots = {} /\ s.x.lock = NoUnit
               /\ s.frontend.state # "Pause"
<1> DEFINE c == Entered(NewSequencer.counters)
           u == Unlaunched(BegunCampaign, HasCampaign(mode))
           l == Launched(u)
           y == Tracked(l, c.sub)
           q == [NewSequencer EXCEPT !.sub = Advance(StartOfScript).sub]
           f == IF HasFrontend(mode) THEN MissionScreen ELSE TitleScreen
           s == Opened(mode)
<1>1. s = [mode |-> mode, x |-> y, cursor |-> c, q |-> q, frontend |-> f]
  BY DEF Opened
<1>2. AtRest(c) /\ c.sub = 0
  <2>1. SubMissions # {}
    BY FirstExists
  <2> QED BY <2>1, EnteredIsAtRest, EnteredAtStart
<1>3. q \in Sequencer /\ q.sub = 0
  <2>1. NewSequencer \in Sequencer
    BY ScriptAssumption DEF NewSequencer, Sequencer
  <2>2. 0 \in SubMissions
    BY FirstExists
  <2>3. Advance(StartOfScript).sub = 0
    <3>1. Script[0].count \in Nat /\ Script[0].count > 0
      BY <2>2, StepIsTyped DEF WellFormed
    <3>2. Advance(StartOfScript) = At(StartOfScript, 0, 0)
      BY <3>1 DEF Advance, StartOfScript
    <3> QED BY <3>2 DEF At, StartOfScript
  <2> QED BY <2>1, <2>3 DEF Sequencer
<1>4. /\ f \in Frontend /\ (~HasFrontend(mode) => f = TitleScreen) /\ f.state # "Pause"
  BY ExecutionAssumption
     DEF MissionScreen, TitleScreen, NoDebrief, Frontend, FrontendState, Outcome
<1>5. /\ u \in Execution /\ Consistent(u) /\ u.bound = HasCampaign(mode)
      /\ u.campaign = BegunCampaign
  <2>1. HasCampaign(mode) \in BOOLEAN
    BY DEF HasCampaign
  <2>2. /\ u \in Execution /\ u.bound = HasCampaign(mode) /\ u.campaign = BegunCampaign
        /\ u.scenario = "Loading" /\ u.alive = {} /\ u.registered = {} /\ u.published = {}
    BY <2>1, BegunIsUnderway, ExecutionAssumption
       DEF Unlaunched, Execution, ScenarioState, RowState
  <2> HIDE DEF u
  <2> QED BY <2>2 DEF Consistent, WinRecorded, Prefix
<1>6. /\ Consistent(l) /\ l.bound = HasCampaign(mode) /\ l.campaign = BegunCampaign
      /\ l.scenario = "Gameplay" /\ l.launched
      /\ l.objectives = [i \in SubMissions |-> "Pending"]
      /\ l.shots = {} /\ l.lock = NoUnit
  <2>1. /\ Consistent(l) /\ l.bound = u.bound /\ l.campaign = u.campaign
        /\ l.scenario = "Gameplay"
    BY <1>5, LaunchedIsGood
  <2>2. /\ l.launched /\ l.objectives = [i \in Rows |-> "Pending"]
        /\ l.shots = {} /\ l.lock = NoUnit
    BY DEF Launched, Unlaunched
  <2> HIDE DEF l
  <2> QED BY <1>5, <2>1, <2>2, SessionAssumption DEF Rows
<1> HIDE DEF u, l, c, q, f
<1>7. Flying(l)
  <2>1. Done(l) = {}
    BY <1>6 DEF Done
  <2> QED BY <1>6, <2>1, BegunIsUnderway DEF Flying, Covered
<1>8. /\ Flying(y) /\ y.bound = HasCampaign(mode) /\ y.scenario = "Gameplay"
      /\ y.campaign = BegunCampaign
      /\ y.objectives = [l.objectives EXCEPT ![0] = "Active"]
      /\ y.shots = {} /\ y.lock = NoUnit
  <2>1. 0 \in SubMissions
    BY FirstExists
  <2>2. l \in Execution /\ l.objectives[0] = "Pending"
    BY <1>6, <2>1 DEF Consistent
  <2>3. y.shots = l.shots /\ y.lock = l.lock
    BY <2>2 DEF Tracked, Activated, Execution
  <2> QED BY <1>2, <1>6, <1>7, <2>1, <2>2, <2>3, TrackedFlies
<1> HIDE DEF y
<1>9. Standing(y, 0) /\ Done(y) = {}
  <2>1. \A i \in SubMissions : y.objectives[i] = IF i = 0 THEN "Active" ELSE "Pending"
    BY <1>6, <1>8
  <2>2. \A i \in SubMissions : i \in Nat
    BY StepIsTyped
  <2> QED BY <2>1, <2>2 DEF Standing, Done
<1>10. /\ s.mode = mode /\ s.x = y /\ s.cursor = c /\ s.q = q /\ s.frontend = f
       /\ s = [mode |-> s.mode, x |-> s.x, cursor |-> s.cursor, q |-> s.q,
               frontend |-> s.frontend]
  BY <1>1
<1> HIDE DEF s
<1>11. Sound(s)
  <2>1. s \in Session
    BY <1>2, <1>3, <1>4, <1>8, <1>10 DEF Session, Flying, Consistent, AtRest
  <2> QED BY <1>2, <1>3, <1>4, <1>8, <1>10, <2>1 DEF Sound, Shown
<1>12. y.campaign[Mission].state = "Active"
  BY <1>8, BegunIsUnderway
<1> QED BY <1>2, <1>4, <1>8, <1>9, <1>10, <1>11, <1>12 DEF s

\* A checkpoint of one session restored in another: everything but the campaign
\* and the screen is as it was saved (restore_checkpoint), and nothing of it is
\* refused.
LEMMA RestoredFlies ==
    ASSUME WellFormed, NEW s, Sound(s), NEW t, Sound(t),
           s.x.bound /\ t.x.scenario = "Complete" => s.x.campaign[Mission].state = "Completed",
           s.x.bound => Done(t.x) \subseteq s.x.campaign[Mission].mask
    PROVE  LET c == SessionCheckpoint(t)
               z == CheckpointRestored(s, c)
           IN  /\ CheckpointRestorable(c)
               /\ z = With(s, z.x, t.cursor, t.q, s.frontend)
               /\ Flying(z.x) /\ z.x.bound = s.x.bound /\ z.x.campaign = s.x.campaign
               /\ z.x.scenario = t.x.scenario /\ z.x.objectives = t.x.objectives
               /\ CheckpointOf(z.x) = CheckpointOf(t.x)
               /\ z.x.shots = {} /\ z.x.lock = NoUnit
<1> DEFINE c == SessionCheckpoint(t)
           p == CheckpointOf(t.x)
           y == Reloaded(s.x, p)
           z == CheckpointRestored(s, c)
<1>1. /\ s = With(s, s.x, s.cursor, s.q, s.frontend)
      /\ Flying(s.x) /\ Consistent(s.x) /\ s.x \in Execution
  BY SoundParts DEF Flying
<1>2. /\ Flying(t.x) /\ Consistent(t.x) /\ t.x \in Execution
      /\ AtRest(t.cursor) /\ t.cursor \in Cursor
      /\ t.q \in Sequencer /\ t.q.sub = t.cursor.sub
  BY SoundParts DEF Flying
<1>3. c.x = p /\ c.cursor = t.cursor /\ c.q = t.q
  BY DEF SessionCheckpoint
<1>4. RestoredCursor(t.cursor) = t.cursor /\ CursorRestorable(t.cursor)
  BY <1>2, RestSurvivesSave
<1>5. CheckpointRestorable(c)
  <2>1. SequencerRestorable(t.q)
    <3>1. CASE t.cursor.ended
      BY <1>2, <3>1 DEF AtRest, SequencerRestorable
    <3>2. CASE ~t.cursor.ended
      <4>1. HasStep(t.cursor.sub, t.cursor.step) /\ t.cursor.step \in Nat
        BY <1>2, <3>2 DEF AtRest, Cursor
      <4>2. HasStep(t.q.sub, 0)
        BY <1>2, <4>1, StepIsTyped DEF HasStep
      <4> QED BY <4>2 DEF SequencerRestorable
    <3> QED BY <3>1, <3>2
  <2> HIDE DEF c
  <2> QED BY <1>2, <1>3, <1>4, <2>1 DEF CheckpointRestorable
<1>6. z = [s EXCEPT !.x = y, !.cursor = t.cursor, !.q = t.q]
  BY <1>3, <1>4 DEF CheckpointRestored
<1>7. z = With(s, y, t.cursor, t.q, s.frontend) /\ z.x = y
  <2> HIDE DEF z, y
  <2> QED BY <1>1, <1>6 DEF With
<1>8. /\ p \in Checkpoint /\ p.scenario = t.x.scenario /\ p.objectives = t.x.objectives
      /\ p.alive \subseteq LaunchUnits \cup {w.unit : w \in p.waves}
      /\ p.registered \subseteq LaunchUnits \cup {w.unit : w \in p.waves}
      /\ Prefix(p.published)
  <2>1. p.objectives = t.x.objectives
    BY DEF CheckpointOf
  <2> QED BY <1>2, <2>1, CheckpointOfIsGood
<1> HIDE DEF p
<1>9. /\ Consistent(y) /\ y.bound = s.x.bound /\ y.campaign = s.x.campaign
      /\ y.launched = s.x.launched /\ CheckpointOf(y) = p
      /\ y.shots = {} /\ y.lock = NoUnit
  BY <1>1, <1>8, ReloadedIsGood
<1> HIDE DEF y
<1>10. y.scenario = t.x.scenario /\ y.objectives = t.x.objectives
  <2>1. CheckpointOf(y).scenario = y.scenario /\ CheckpointOf(y).objectives = y.objectives
    BY DEF CheckpointOf
  <2> QED BY <1>8, <1>9, <2>1
<1>11. Flying(y)
  <2>1. Covered(y)
    BY <1>9, <1>10 DEF Covered, Done
  <2> QED BY <1>1, <1>2, <1>9, <1>10, <2>1 DEF Flying
<1> HIDE DEF z
<1> QED BY <1>5, <1>7, <1>9, <1>10, <1>11 DEF z, c, p

\* Back: the session begins again, whatever it was doing.
LEMMA RestartedIsSound ==
    ASSUME WellFormed, StartsPlain(0), NEW s, Sound(s)
    PROVE  LET o == Opened(s.mode)
               z == Restarted(s)
           IN  /\ CheckpointRestorable(LaunchCheckpoint(s.mode))
               /\ Sound(z) /\ z.mode = s.mode /\ InOrder(z)
               /\ z.cursor = o.cursor /\ z.q = o.q /\ CheckpointOf(z.x) = CheckpointOf(o.x)
               /\ z.x.shots = {} /\ z.x.lock = NoUnit
<1> DEFINE o == Opened(s.mode)
           back == CheckpointRestored(s, LaunchCheckpoint(s.mode))
           z == Restarted(s)
           f == IF HasFrontend(s.mode) /\ CanResume(s.frontend)
                THEN To(s.frontend, "Mission") ELSE s.frontend
<1>1. /\ s.mode \in SessionMode
      /\ s.x.bound = HasCampaign(s.mode) /\ s.frontend \in Frontend /\ Shown(s)
  BY SoundParts
<1>2. /\ Sound(o) /\ o.mode = s.mode /\ o.cursor.sub = 0
      /\ o.x.scenario = "Gameplay" /\ Done(o.x) = {} /\ Standing(o.x, 0)
  BY <1>1, OpenedIsSound
<1>3. LaunchCheckpoint(s.mode) = SessionCheckpoint(o)
  BY DEF LaunchCheckpoint
<1> HIDE DEF o
<1>4. /\ AtRest(o.cursor) /\ o.q \in Sequencer /\ o.q.sub = o.cursor.sub
  BY <1>2, SoundParts
<1>5. /\ CheckpointRestorable(LaunchCheckpoint(s.mode))
      /\ back = With(s, back.x, o.cursor, o.q, s.frontend)
      /\ Flying(back.x) /\ back.x.bound = s.x.bound /\ back.x.campaign = s.x.campaign
      /\ back.x.scenario = "Gameplay" /\ back.x.objectives = o.x.objectives
      /\ CheckpointOf(back.x) = CheckpointOf(o.x)
      /\ back.x.shots = {} /\ back.x.lock = NoUnit
  <2>1. o.x.scenario # "Complete" /\ Done(o.x) \subseteq s.x.campaign[Mission].mask
    BY <1>2
  <2> QED BY <1>2, <1>3, <2>1, RestoredFlies
<1>6. z = IF HasFrontend(s.mode) /\ CanResume(back.frontend)
          THEN [back EXCEPT !.frontend = To(@, "Mission")] ELSE back
  BY DEF Restarted
<1> HIDE DEF back, z
<1>7. z = With(s, back.x, o.cursor, o.q, f)
  BY <1>5, <1>6 DEF With
<1>8. f \in Frontend /\ (~HasFrontend(s.mode) => f = TitleScreen) /\ f.state # "Pause"
  <2>1. CASE HasFrontend(s.mode) /\ CanResume(s.frontend)
    BY <1>1, <2>1 DEF To, Frontend, FrontendState
  <2>2. CASE ~(HasFrontend(s.mode) /\ CanResume(s.frontend))
    BY <1>1, <2>2 DEF Shown, CanResume, TitleScreen
  <2> QED BY <2>1, <2>2
<1> HIDE DEF f
<1>9. Sound(z)
  BY <1>4, <1>5, <1>7, <1>8, SoundWith
<1>10. z.mode = s.mode /\ z.x = back.x /\ z.cursor = o.cursor /\ z.q = o.q
  BY <1>7 DEF With
<1>11. InOrder(z)
  <2>1. Standing(back.x, 0)
    BY <1>2, <1>5 DEF Standing
  <2> QED BY <1>2, <1>5, <1>10, <2>1 DEF InOrder
<1> QED BY <1>5, <1>9, <1>10, <1>11 DEF z, o

\* A change of the mission that its objectives and its campaign do not see.
LEMMA SameFlies ==
    ASSUME NEW y, Flying(y), NEW z, Consistent(z), SameMission(y, z)
    PROVE  Flying(z)
BY DEF Flying, SameMission, Covered, Done

\* A session whose mission changes so is as sound and as orderly as before.
LEMMA SoundWithMission ==
    ASSUME NEW s, Sound(s), NEW y, Flying(y), y.bound = s.x.bound,
           s.x.scenario = "Paused" => y.scenario = "Paused"
    PROVE  LET z == [s EXCEPT !.x = y]
           IN  /\ Sound(z) /\ z.mode = s.mode /\ z.x = y
               /\ z.cursor = s.cursor /\ z.frontend = s.frontend
               /\ z = With(s, y, s.cursor, s.q, s.frontend)
<1> DEFINE z == [s EXCEPT !.x = y]
<1>1. /\ s = With(s, s.x, s.cursor, s.q, s.frontend)
      /\ AtRest(s.cursor) /\ s.q \in Sequencer /\ s.q.sub = s.cursor.sub
      /\ s.frontend \in Frontend /\ Shown(s)
  BY SoundParts
<1>2. z = With(s, y, s.cursor, s.q, s.frontend)
  BY <1>1 DEF With
<1> HIDE DEF z
<1>3. Sound(z)
  BY <1>1, <1>2, SoundWith DEF Shown
<1>4. z.mode = s.mode /\ z.x = y /\ z.cursor = s.cursor /\ z.frontend = s.frontend
  BY <1>2 DEF With
<1> QED BY <1>2, <1>3, <1>4 DEF z

\* Start pauses mission and screen together, and resumes them together.
LEMMA ToggledIsSound ==
    ASSUME NEW s, Sound(s)
    PROVE  LET z == Toggled(s)
           IN  /\ Sound(z) /\ z.mode = s.mode /\ z.cursor = s.cursor
               /\ z.x.bound = s.x.bound
               /\ z.x.objectives = s.x.objectives /\ z.x.campaign = s.x.campaign
               /\ z.x.scenario = "Complete" => s.x.scenario = "Complete"
<1> DEFINE z == Toggled(s)
<1>1. /\ s = With(s, s.x, s.cursor, s.q, s.frontend) /\ s.x \in Execution
      /\ Flying(s.x) /\ Consistent(s.x) /\ s.x.launched
      /\ AtRest(s.cursor) /\ s.q \in Sequencer /\ s.q.sub = s.cursor.sub
      /\ s.frontend \in Frontend /\ Shown(s)
  BY SoundParts DEF Flying
<1>2. ASSUME NEW event \in {"Pause", "Resume"}, s.x.scenario \in EventFrom[event],
             NEW screen \in {"Pause", "Mission"},
             screen = "Pause" => event = "Pause",
             ~HasFrontend(s.mode) \/ s.frontend.state \in {"Pause", "Mission"},
             z = [s EXCEPT !.x = Dispatched(@, event),
                           !.frontend = IF HasFrontend(s.mode) THEN To(@, screen) ELSE @]
      PROVE  /\ Sound(z) /\ z.mode = s.mode /\ z.cursor = s.cursor
             /\ z.x.bound = s.x.bound
             /\ z.x.objectives = s.x.objectives /\ z.x.campaign = s.x.campaign
             /\ z.x.scenario # "Complete"
  <2> DEFINE y == Dispatched(s.x, event)
             f == IF HasFrontend(s.mode) THEN To(s.frontend, screen) ELSE s.frontend
  <2>1. CanDispatch(s.x, event) /\ event \in EventType
    BY <1>1, <1>2 DEF CanDispatch, EventType
  <2>2. Consistent(y) /\ y.scenario = EventTo[event] /\ y.objectives = s.x.objectives
    BY <1>1, <2>1, DispatchedIsGood
  <2>3. y.campaign = s.x.campaign /\ y.bound = s.x.bound /\ y.launched = s.x.launched
    BY <1>1, <1>2 DEF Dispatched, Execution
  <2> HIDE DEF y
  <2>4. y.scenario \in {"Paused", "Gameplay"} /\ (event = "Pause" => y.scenario = "Paused")
    BY <1>2, <2>2 DEF EventTo
  <2>5. Flying(y)
    BY <1>1, <2>2, <2>3, <2>4 DEF Flying, Covered, Done
  <2>6. /\ f \in Frontend /\ (~HasFrontend(s.mode) => f = TitleScreen)
        /\ f.state = "Pause" => y.scenario = "Paused"
    BY <1>1, <1>2, <2>4 DEF To, Frontend, FrontendState, Shown, TitleScreen
  <2> HIDE DEF f
  <2>7. z = With(s, y, s.cursor, s.q, f)
    BY <1>1, <1>2 DEF With, y, f
  <2> HIDE DEF z
  <2>8. Sound(z)
    BY <1>1, <2>3, <2>5, <2>6, <2>7, SoundWith
  <2> QED BY <2>2, <2>3, <2>4, <2>7, <2>8 DEF With
<1>3. CASE z = s
  BY <1>3
<1>4. CASE /\ s.x.scenario = "Gameplay" /\ (HasFrontend(s.mode) => CanPause(s.frontend))
           /\ z = [s EXCEPT !.x = Dispatched(@, "Pause"),
                            !.frontend = IF HasFrontend(s.mode) THEN To(@, "Pause") ELSE @]
  <2> HIDE DEF z
  <2> QED BY <1>2, <1>4 DEF EventFrom, CanPause, z
<1>5. CASE /\ s.x.scenario = "Paused" /\ (HasFrontend(s.mode) => CanResume(s.frontend))
           /\ z = [s EXCEPT !.x = Dispatched(@, "Resume"),
                            !.frontend = IF HasFrontend(s.mode) THEN To(@, "Mission") ELSE @]
  <2> HIDE DEF z
  <2> QED BY <1>2, <1>5 DEF EventFrom, CanResume, z
<1> QED BY <1>3, <1>4, <1>5 DEF Toggled

\* The screen a mission that ended is left for.
LEMMA DebriefIsSound ==
    ASSUME NEW s, Sound(s)
    PROVE  LET z == Debrief(s)
           IN  /\ Sound(z) /\ z.mode = s.mode /\ z.x = s.x /\ z.cursor = s.cursor
<1> DEFINE outcome == CASE s.x.scenario = "Complete" -> "Success"
                        [] s.x.scenario = "Aborted" -> "Failure"
                        [] OTHER -> "InProgress"
           f == Debriefed(s.frontend, Mission, outcome)
           z == Debrief(s)
<1>1. /\ s = With(s, s.x, s.cursor, s.q, s.frontend)
      /\ Flying(s.x)
      /\ AtRest(s.cursor) /\ s.q \in Sequencer /\ s.q.sub = s.cursor.sub
      /\ s.frontend \in Frontend /\ Shown(s)
  BY SoundParts
<1>2. CASE z = s
  BY <1>2
<1>3. CASE HasFrontend(s.mode) /\ z = [s EXCEPT !.frontend = f]
  <2>1. outcome \in Outcome
    BY DEF Outcome
  <2> HIDE DEF outcome
  <2>2. f \in Frontend /\ f.state # "Pause"
    BY <1>1, <2>1, ExecutionAssumption DEF Debriefed, To, Frontend, FrontendState
  <2> HIDE DEF f
  <2>3. z = With(s, s.x, s.cursor, s.q, f)
    BY <1>1, <1>3 DEF With
  <2> HIDE DEF z
  <2>4. Sound(z)
    BY <1>1, <1>3, <2>2, <2>3, SoundWith
  <2> QED BY <2>3, <2>4 DEF With, z
<1> QED BY <1>2, <1>3 DEF Debrief

\* Aiming and firing leave the mission what it was.
LEMMA AimedFlies ==
    ASSUME NEW y, Flying(y), NEW mode, NEW z \in LockedNearest(y) \cup FiredPrimary(mode, y)
    PROVE  Flying(z) /\ SameMission(y, z)
<1>1. Consistent(y) /\ y \in Execution
  BY DEF Flying, Consistent
<1>2. CASE z = y
  BY <1>2 DEF SameMission
<1>3. ASSUME NEW u \in Units, z = Locked(y, u) PROVE Flying(z) /\ SameMission(y, z)
  <2>1. Consistent(z)
    BY <1>1, <1>3, AimIsGood
  <2>2. SameMission(y, z)
    BY <1>1, <1>3 DEF SameMission, Locked, Execution
  <2> QED BY <2>1, <2>2, SameFlies
<1>4. CASE CanFire(y) /\ z = Fired(y)
  <2>1. y.lock \in Units
    BY <1>1, <1>4 DEF CanFire, Execution
  <2>2. Consistent(z)
    BY <1>1, <1>4, <2>1, AimIsGood
  <2>3. SameMission(y, z)
    BY <1>1, <1>4 DEF SameMission, Fired, Execution
  <2> QED BY <2>2, <2>3, SameFlies
<1> QED BY <1>2, <1>3, <1>4 DEF LockedNearest, FiredPrimary

\* What keeps the objectives in order.
LEMMA InOrderOn ==
    ASSUME NEW s, NEW z, z.x.bound = s.x.bound, z.x.objectives = s.x.objectives,
           z.cursor = s.cursor,
           z.x.campaign[Mission].state = "Active" => s.x.campaign[Mission].state = "Active",
           z.x.scenario = "Complete" =>
              s.x.scenario = "Complete" \/ (s.cursor.ended /\ AllDone(s.x)),
           InOrder(s)
    PROVE  InOrder(z)
BY DEF InOrder, Open, Standing, AllDone

\* With every objective done no objective is in work, so the script has ended.
LEMMA DoneAtTheEnd ==
    ASSUME NEW s, Sound(s), InOrder(s), Open(s.x), AllDone(s.x)
    PROVE  s.cursor.ended
<1>1. AtRest(s.cursor)
  BY SoundParts
<1>2. Standing(s.x, s.cursor.sub)
  BY DEF InOrder
<1>3. s.cursor.sub \notin SubMissions
  <2> SUFFICES ASSUME s.cursor.sub \in SubMissions PROVE FALSE
    OBVIOUS
  <2>1. s.cursor.sub \in Nat
    BY StepIsTyped
  <2> QED BY <1>2, <2>1 DEF Standing, AllDone
<1> QED BY <1>1, <1>3 DEF AtRest, HasStep

\* A frame, with whatever buttons newly pressed.
LEMMA FrameIsSound ==
    ASSUME WellFormed, StartsPlain(0), NEW s, Sound(s), NEW pressed,
           NEW z \in Frames(s, pressed)
    PROVE  /\ Sound(z) /\ z.mode = s.mode
           /\ Forward /\ InOrder(s) => InOrder(z)
<1>1. CheckpointRestorable(LaunchCheckpoint(s.mode))
  BY RestartedIsSound
<1>2. CASE "Back" \in pressed
  <2>1. z = Restarted(s)
    BY <1>1, <1>2 DEF Frames
  <2> QED BY <2>1, RestartedIsSound
<1>3. CASE "Back" \notin pressed
  <2> DEFINE toggled == IF "Start" \in pressed THEN Toggled(s) ELSE s
             aimed == IF "Target" \in pressed THEN LockedNearest(toggled.x) ELSE {toggled.x}
             shot == UNION {IF "Fire" \in pressed THEN FiredPrimary(s.mode, y) ELSE {y} :
                               y \in aimed}
             Drawn(y) == IF DriveByTick(s.mode) /\ ~toggled.cursor.ended
                         THEN AdvancedScript([toggled EXCEPT !.x = y])
                         ELSE [toggled EXCEPT !.x = y]
  <2>1. z \in UNION {FrameRefused(d) \cup {Debrief([d EXCEPT !.x = v]) : v \in Ticked(d.x)} :
                        d \in {Drawn(y) : y \in shot}}
    BY <1>3 DEF Frames
  <2>2. PICK y \in shot :
            z \in FrameRefused(Drawn(y))
                    \cup {Debrief([Drawn(y) EXCEPT !.x = v]) : v \in Ticked(Drawn(y).x)}
    <3> HIDE DEF Drawn, shot
    <3> QED BY <2>1
  <2>3. /\ Sound(toggled) /\ toggled.mode = s.mode /\ toggled.cursor = s.cursor
        /\ toggled.x.bound = s.x.bound
        /\ toggled.x.objectives = s.x.objectives /\ toggled.x.campaign = s.x.campaign
        /\ toggled.x.scenario = "Complete" => s.x.scenario = "Complete"
    BY ToggledIsSound
  <2>4. InOrder(s) => InOrder(toggled)
    <3> HIDE DEF toggled
    <3> QED BY <2>3, InOrderOn
  <2>5. Flying(y) /\ SameMission(toggled.x, y)
    <3> HIDE DEF toggled
    <3>1. PICK a \in aimed : y \in IF "Fire" \in pressed THEN FiredPrimary(s.mode, a) ELSE {a}
      BY <2>2
    <3>2. Flying(toggled.x)
      BY <2>3, SoundParts
    <3>3. Flying(a) /\ SameMission(toggled.x, a)
      BY <3>2, AimedFlies DEF SameMission
    <3>4. Flying(y) /\ SameMission(a, y)
      BY <3>1, <3>3, AimedFlies DEF SameMission
    <3> QED BY <3>3, <3>4 DEF SameMission
  <2> HIDE DEF toggled, aimed, shot
  <2> DEFINE armed == [toggled EXCEPT !.x = y]
             d == Drawn(y)
  <2>6. /\ Sound(armed) /\ armed.mode = s.mode /\ armed.cursor = toggled.cursor
        /\ InOrder(toggled) => InOrder(armed)
    <3>1. y.bound = toggled.x.bound /\ y.scenario = toggled.x.scenario
          /\ y.objectives = toggled.x.objectives /\ y.campaign = toggled.x.campaign
      BY <2>5 DEF SameMission
    <3>2. /\ Sound(armed) /\ armed.mode = toggled.mode /\ armed.x = y
          /\ armed.cursor = toggled.cursor
      BY <2>3, <2>5, <3>1, SoundWithMission
    <3> HIDE DEF armed
    <3>3. InOrder(toggled) => InOrder(armed)
      BY <3>1, <3>2, InOrderOn
    <3> QED BY <2>3, <3>2, <3>3
  <2>7. d = IF DriveByTick(s.mode) /\ ~toggled.cursor.ended THEN AdvancedScript(armed) ELSE armed
    OBVIOUS
  <2> HIDE DEF armed
  <2>8. /\ Sound(d) /\ d.mode = s.mode
        /\ Forward /\ InOrder(armed) => InOrder(d)
    BY <2>6, <2>7, AdvancedIsSound
  <2>9. CASE z \in FrameRefused(d)
    <3>1. z = d
      BY <2>9 DEF FrameRefused
    <3> QED BY <2>4, <2>6, <2>8, <3>1
  <2> SUFFICES ASSUME z \notin FrameRefused(d)
               PROVE  Sound(z) /\ z.mode = s.mode /\ (Forward /\ InOrder(s) => InOrder(z))
    BY <2>9
  <2>10. PICK v \in Ticked(d.x) : z = Debrief([d EXCEPT !.x = v])
    BY <2>2
  <2> HIDE DEF d, Drawn
  <2> DEFINE t == [d EXCEPT !.x = v]
  <2>11. /\ Flying(v) /\ v.bound = d.x.bound /\ v.objectives = d.x.objectives
         /\ v.campaign[Mission].state = "Active" => d.x.campaign[Mission].state = "Active"
         /\ d.x.scenario = "Paused" => v.scenario = "Paused"
         /\ v.scenario = "Complete" => d.x.scenario = "Complete" \/ (Open(d.x) /\ AllDone(d.x))
    BY <2>8, <2>10, SoundParts, FliesOn
  <2>12. Sound(t) /\ t.mode = d.mode /\ t.x = v /\ t.cursor = d.cursor
    BY <2>8, <2>11, SoundWithMission
  <2> HIDE DEF t
  <2>13. InOrder(d) => InOrder(t)
    BY <2>8, <2>11, <2>12, DoneAtTheEnd, InOrderOn
  <2>14. Sound(z) /\ z.mode = t.mode /\ z.x = t.x /\ z.cursor = t.cursor
    BY <2>10, <2>12, DebriefIsSound DEF t
  <2>15. InOrder(t) => InOrder(z)
    BY <2>14, InOrderOn
  <2> QED BY <2>4, <2>6, <2>8, <2>12, <2>13, <2>14, <2>15
<1> QED BY <1>2, <1>3

\* The campaign of a session survives its snapshot.
LEMMA SnapshotSurvives ==
    ASSUME NEW table \in [Missions -> MissionStatus], Underway(table)
    PROVE  LET snapshot == SnapshotOf(table)
           IN  /\ DOMAIN snapshot # {} /\ Restorable(snapshot) /\ Restored(snapshot) = table
<1> DEFINE snapshot == SnapshotOf(table)
<1>1. Missions = {Mission} /\ table[Mission].state \in {"Active", "Completed", "Failed"}
  BY SessionAssumption DEF Underway
<1>2. {n \in Missions : table[n].state \in Recorded} = {Mission}
  BY <1>1 DEF Recorded
<1>3. snapshot = [m \in {Mission} |-> table[m]]
  BY <1>2 DEF SnapshotOf
<1> HIDE DEF snapshot
<1>4. DOMAIN snapshot = {Mission} /\ snapshot[Mission] = table[Mission]
  BY <1>3
<1>5. Restorable(snapshot)
  BY <1>1, <1>4 DEF Restorable, Underway, Recorded
<1>6. Restored(snapshot) = table
  <2>1. [m \in Missions |-> IF m \in DOMAIN snapshot THEN snapshot[m] ELSE AllLocked[m]] = table
    BY <1>1, <1>4
  <2>2. Restored(snapshot) = RefreshUnlocks(table)
    BY <2>1 DEF Restored
  <2>3. /\ RefreshUnlocks(table) = [m \in Missions |-> RefreshUnlocks(table)[m]]
        /\ \A m \in Missions : RefreshUnlocks(table)[m] = table[m]
    <3>1. \A m \in Missions : table[m].state # "Locked"
      BY <1>1
    <3> QED BY <3>1, RefreshOpens DEF RefreshUnlocks
  <2> QED BY <2>2, <2>3
<1> QED BY <1>4, <1>5, <1>6 DEF snapshot

\* A save is accepted by the session the next process opens on the same content
\* without free flight, which then stands where the one that saved stood.
LEMMA ResumedIsSound ==
    ASSUME WellFormed, StartsPlain(0), NEW s, Sound(s), HasCampaign(s.mode),
           NEW mode \in SessionMode, ~FliesFree(mode), SameContent(mode, SaveOf(s))
    PROVE  LET z == SaveRestored(mode, SaveOf(s))
           IN  /\ SaveRestorable(mode, SaveOf(s)) /\ Sound(z)
               /\ InOrder(s) => InOrder(z)
<1> DEFINE o == Opened(mode)
           c == SessionCheckpoint(s)
           snapshot == SnapshotOf(s.x.campaign)
           y == [o.x EXCEPT !.campaign = s.x.campaign]
           resumed == [o EXCEPT !.x = y]
           z == SaveRestored(mode, SaveOf(s))
<1>0. HasCampaign(mode) /\ HasFrontend(mode) = HasFrontend(s.mode)
  BY DEF SameContent, SaveOf
<1>1. /\ s.mode \in SessionMode
      /\ s.x \in Execution /\ Flying(s.x) /\ s.x.bound = HasCampaign(s.mode)
      /\ AtRest(s.cursor) /\ s.q \in Sequencer /\ s.q.sub = s.cursor.sub
  BY SoundParts
<1>2. /\ Consistent(s.x) /\ Underway(s.x.campaign) /\ Covered(s.x)
      /\ s.x.campaign \in [Missions -> MissionStatus]
  BY <1>1 DEF Flying, Execution
<1>3. /\ Sound(o) /\ o.mode = mode /\ o.x.scenario = "Gameplay" /\ Done(o.x) = {}
      /\ o.frontend.state # "Pause"
  BY <1>1, OpenedIsSound
<1> HIDE DEF o
<1>4. DOMAIN snapshot # {} /\ Restorable(snapshot) /\ Restored(snapshot) = s.x.campaign
  BY <1>2, SnapshotSurvives
<1> HIDE DEF snapshot
<1>5. z = CheckpointRestored(resumed, c)
  <2>1. /\ SaveOf(s).mode = s.mode /\ SaveOf(s).checkpoint = c /\ SaveOf(s).campaign = snapshot
    BY DEF SaveOf, snapshot
  <2>2. [o EXCEPT !.x.campaign = Restored(snapshot)] = resumed
    BY <1>4
  <2> HIDE DEF c, resumed
  <2> QED BY <1>4, <2>1, <2>2 DEF SaveRestored, o
<1>6. /\ o.x \in Execution /\ Flying(o.x) /\ Consistent(o.x) /\ o.x.bound = HasCampaign(mode)
      /\ Shown(o) /\ o.frontend \in Frontend
  BY <1>3, SoundParts DEF Flying
<1>7. /\ y \in Execution /\ y.campaign = s.x.campaign /\ y.bound = o.x.bound
      /\ y.scenario = o.x.scenario /\ y.launched = o.x.launched
      /\ y.objectives = o.x.objectives /\ y.alive = o.x.alive
      /\ y.registered = o.x.registered /\ y.waves = o.x.waves /\ y.published = o.x.published
  BY <1>2, <1>6 DEF Execution
<1> HIDE DEF y
<1>8. Flying(y)
  <2>1. Consistent(y)
    BY <1>3, <1>6, <1>7 DEF Consistent, Present, WinRecorded
  <2>2. Covered(y)
    BY <1>3, <1>7 DEF Covered, Done
  <2> QED BY <1>2, <1>3, <1>6, <1>7, <2>1, <2>2 DEF Flying
<1>9. /\ Sound(resumed) /\ resumed.mode = mode /\ resumed.x = y
      /\ resumed.frontend = o.frontend
  BY <1>3, <1>7, <1>8, SoundWithMission
<1> HIDE DEF resumed
<1>10. /\ CheckpointRestorable(c)
       /\ z = With(resumed, z.x, s.cursor, s.q, resumed.frontend)
       /\ Flying(z.x) /\ z.x.bound = resumed.x.bound /\ z.x.campaign = resumed.x.campaign
       /\ z.x.scenario = s.x.scenario /\ z.x.objectives = s.x.objectives
  <2>1. /\ s.x.scenario = "Complete" => resumed.x.campaign[Mission].state = "Completed"
        /\ Done(s.x) \subseteq resumed.x.campaign[Mission].mask
    BY <1>1, <1>2, <1>7, <1>9 DEF Consistent, WinRecorded, Covered
  <2> QED BY <1>5, <1>9, <2>1, RestoredFlies
<1>11. SaveRestorable(mode, SaveOf(s))
  <2>1. SaveOf(s).checkpoint = c /\ SaveOf(s).campaign = snapshot
    BY DEF SaveOf, snapshot
  <2> HIDE DEF c
  <2> QED BY <1>4, <1>10, <2>1 DEF SaveRestorable
<1> HIDE DEF z, c
<1>12. Sound(z)
  <2>1. /\ resumed.frontend \in Frontend
        /\ ~HasFrontend(resumed.mode) => resumed.frontend = TitleScreen
    BY <1>3, <1>6, <1>9 DEF Shown
  <2> QED BY <1>1, <1>3, <1>9, <1>10, <2>1, SoundWith
<1>13. InOrder(s) => InOrder(z)
  <2>1. z.x.campaign = s.x.campaign /\ z.x.bound = s.x.bound
    BY <1>0, <1>1, <1>6, <1>7, <1>9, <1>10
  <2>2. z.cursor = s.cursor
    BY <1>10 DEF With
  <2> QED BY <1>10, <2>1, <2>2, InOrderOn
<1> QED BY <1>11, <1>12, <1>13 DEF z

-----------------------------------------------------------------------------
\* The session is sound, and a save is that of a sound session.
SessionInv ==
    /\ Sound(session)
    /\ save # NoSave =>
          \E s \in Session : Sound(s) /\ HasCampaign(s.mode) /\ save = SaveOf(s)

\* Under a script that only leads forward, both are in order.
OrderInv ==
    /\ Sound(session) /\ InOrder(session)
    /\ save # NoSave =>
          \E s \in Session : Sound(s) /\ InOrder(s) /\ HasCampaign(s.mode) /\ save = SaveOf(s)

\* A session as it opens.
LEMMA SessionInitIsGood ==
    ASSUME WellFormed, StartsPlain(0), Init
    PROVE  SessionInv /\ OrderInv
<1>1. PICK mode \in Modes : session = Opened(mode)
  BY DEF Init
<1>2. mode \in SessionMode
  BY SessionAssumption DEF SessionMode
<1>3. /\ Sound(session) /\ session.cursor.sub = 0 /\ Standing(session.x, 0)
      /\ session.x.scenario = "Gameplay"
  BY <1>1, <1>2, OpenedIsSound
<1> QED BY <1>3 DEF Init, SessionInv, OrderInv, InOrder

\* What a step does to the session and to the save.
LEMMA SessionNextIsGood ==
    ASSUME WellFormed, StartsPlain(0), SessionInv, [Next]_vars
    PROVE  /\ SessionInv'
           /\ Forward /\ OrderInv => OrderInv'
<1>0. Sound(session)
  BY DEF SessionInv
<1>1. ASSUME Sound(session'), UNCHANGED save, Forward /\ InOrder(session) => InOrder(session')
      PROVE  SessionInv' /\ (Forward /\ OrderInv => OrderInv')
  BY <1>1 DEF SessionInv, OrderInv
<1>2. ASSUME NEW pressed \in SUBSET Buttons, Frame(pressed)
      PROVE  SessionInv' /\ (Forward /\ OrderInv => OrderInv')
  BY <1>0, <1>1, <1>2, FrameIsSound DEF Frame
<1>3. CASE ProbeAdvance
  BY <1>0, <1>1, <1>3, AdvancedIsSound DEF ProbeAdvance
<1>4. ASSUME NEW order \in Orders, ApplyFlagOrder(order)
      PROVE  SessionInv' /\ (Forward /\ OrderInv => OrderInv')
  <2>1. PICK value \in -MaxCounter..MaxCounter :
            session' = [session EXCEPT !.q.counters[order.counter] = value]
    BY <1>4 DEF ApplyFlagOrder
  <2> DEFINE table == [session.q.counters EXCEPT ![order.counter] = value]
             q == [session.q EXCEPT !.counters = table]
  <2>2. /\ session = With(session, session.x, session.cursor, session.q, session.frontend)
        /\ session.x \in Execution /\ Flying(session.x) /\ AtRest(session.cursor)
        /\ session.q \in Sequencer /\ session.q.sub = session.cursor.sub
        /\ session.frontend \in Frontend /\ Shown(session)
    BY <1>0, SoundParts
  <2>3. q \in Sequencer /\ q.sub = session.cursor.sub
    BY <2>2 DEF Sequencer
  <2>4. session' = With(session, session.x, session.cursor, q, session.frontend)
    BY <2>1, <2>2 DEF With
  <2> HIDE DEF q
  <2>5. Sound(session')
    BY <1>0, <2>2, <2>3, <2>4, SoundWith DEF Shown
  <2>6. session'.x = session.x /\ session'.cursor = session.cursor
    BY <2>4 DEF With
  <2>7. InOrder(session) => InOrder(session')
    BY <2>6 DEF InOrder
  <2> QED BY <1>1, <1>4, <2>5, <2>7 DEF ApplyFlagOrder
<1>5. CASE SaveAtExit
  <2>1. /\ save' = SaveOf(session) /\ session' = session /\ HasCampaign(session.mode)
    BY <1>5 DEF SaveAtExit, SaveOf
  <2>2. session \in Session
    BY <1>0 DEF Sound
  <2> QED BY <1>0, <2>1, <2>2 DEF SessionInv, OrderInv
<1>6. ASSUME NEW mode \in Modes, Resume(mode)
      PROVE  SessionInv' /\ (Forward /\ OrderInv => OrderInv')
  <2>0. mode \in SessionMode /\ ~FliesFree(mode) /\ SameContent(mode, save)
    BY <1>6, SessionAssumption DEF SessionMode, Resume, SaveRestorable
  <2>1. PICK s \in Session : Sound(s) /\ HasCampaign(s.mode) /\ save = SaveOf(s)
    BY <1>6 DEF Resume, SessionInv
  <2>2. Sound(session') /\ save' = save
    BY <1>6, <2>0, <2>1, ResumedIsSound DEF Resume
  <2>3. SessionInv'
    BY <2>2 DEF SessionInv
  <2>4. ASSUME OrderInv PROVE OrderInv'
    <3>1. PICK t \in Session :
              Sound(t) /\ InOrder(t) /\ HasCampaign(t.mode) /\ save = SaveOf(t)
      BY <1>6, <2>4 DEF Resume, OrderInv
    <3>2. InOrder(session')
      BY <1>6, <2>0, <3>1, ResumedIsSound DEF Resume
    <3> QED BY <2>2, <2>4, <3>2 DEF OrderInv
  <2> QED BY <2>3, <2>4
<1>7. CASE UNCHANGED vars
  BY <1>7 DEF vars, SessionInv, OrderInv
<1> QED BY <1>2, <1>3, <1>4, <1>5, <1>6, <1>7 DEF Next

\* Every session in every state of every process is sound, and so is the one a
\* save was written by (src/retail_session.cpp, src/session_save.cpp), when the
\* count bytes are the lengths of the tables and the first step is no condition.
THEOREM SessionInvariance ==
    ASSUME WellFormed, StartsPlain(0)
    PROVE  Spec => []SessionInv
<1>1. Init => SessionInv
  BY SessionInitIsGood
<1>2. SessionInv /\ [Next]_vars => SessionInv'
  BY SessionNextIsGood
<1> QED BY <1>1, <1>2, PTL DEF Spec

\* A script whose sub-missions begin with plain steps starts on one.
LEMMA FirstIsPlain ==
    ASSUME AllStartPlain
    PROVE  StartsPlain(0)
BY FirstExists DEF AllStartPlain

\* When sub-missions begin with plain steps and conditions lead forward, the
\* objectives stand where the script does, in the session and in the save
\* (advance_script, track_objective).
THEOREM OrderInvariance ==
    ASSUME WellFormed, AllStartPlain, ConditionsJumpForward
    PROVE  Spec => []OrderInv
<1>0. StartsPlain(0) /\ Forward
  BY FirstIsPlain DEF Forward
<1>1. Init => SessionInv /\ OrderInv
  BY <1>0, SessionInitIsGood
<1>2. (SessionInv /\ OrderInv) /\ [Next]_vars => (SessionInv /\ OrderInv)'
  BY <1>0, SessionNextIsGood
<1> QED BY <1>1, <1>2, PTL DEF Spec

\* No save this program writes is refused by a process that resumes it without
\* free flight on the same content (restore_save, src/session_save.cpp).
THEOREM SavesTheorem ==
    ASSUME WellFormed, StartsPlain(0)
    PROVE  Spec => []SavesAreResumable
<1>1. SessionInv => SavesAreResumable
  <2> SUFFICES ASSUME SessionInv, save # NoSave, NEW mode \in {"Store", "Product"},
                      SameContent(mode, save)
               PROVE  SaveRestorable(mode, save)
    BY DEF SavesAreResumable
  <2>1. PICK s \in Session : Sound(s) /\ HasCampaign(s.mode) /\ save = SaveOf(s)
    BY DEF SessionInv
  <2>2. mode \in SessionMode /\ ~FliesFree(mode)
    BY DEF SessionMode, FliesFree
  <2> QED BY <2>1, <2>2, ResumedIsSound
<1> QED BY <1>1, SessionInvariance, PTL

\* Back restores cursor, counters, world and combat of the launch, whatever the
\* session was doing and whatever else is pressed (RetailSession::tick, restart).
THEOREM BackTheorem ==
    ASSUME WellFormed, StartsPlain(0)
    PROVE  Spec => []BackRestarts
<1>1. SessionInv => BackRestarts
  <2> SUFFICES ASSUME SessionInv, NEW pressed \in SUBSET Buttons, "Back" \in pressed,
                      NEW s \in Frames(session, pressed)
               PROVE  /\ s.cursor = Opened(s.mode).cursor /\ s.q = Opened(s.mode).q
                      /\ CheckpointOf(s.x) = CheckpointOf(Opened(s.mode).x)
                      /\ s.x.shots = {} /\ s.x.lock = NoUnit
    BY DEF BackRestarts
  <2>1. Sound(session)
    BY DEF SessionInv
  <2>2. s = Restarted(session)
    BY <2>1, RestartedIsSound DEF Frames
  <2> QED BY <2>1, <2>2, RestartedIsSound
<1> QED BY <1>1, SessionInvariance, PTL

\* Script, sequencer, objectives, campaign and pause screen stay in step.
THEOREM InStepTheorem ==
    ASSUME WellFormed, AllStartPlain, ConditionsJumpForward
    PROVE  Spec => []InStep
<1>1. OrderInv => InStep
  <2> SUFFICES ASSUME OrderInv PROVE InStep
    OBVIOUS
  <2>1. /\ session.x \in Execution /\ Flying(session.x)
        /\ session.cursor \in Cursor /\ session.q \in Sequencer
        /\ session.q.sub = session.cursor.sub
        /\ session.frontend \in Frontend /\ Shown(session)
    BY SoundParts DEF OrderInv
  <2>2. TypeOK
    BY <2>1 DEF TypeOK, Shown
  <2>3. SequencerFollows
    BY <2>1 DEF SequencerFollows
  <2>4. ObjectivesFollowScript
    <3> DEFINE o == session.x.objectives
               sub == session.cursor.sub
    <3> SUFFICES ASSUME CampaignOpen, NEW i \in SubMissions
                 PROVE  CASE i < sub -> o[i] = "Complete" \/ (o[i] = "Pending" /\ CanBeSkipped(i))
                          [] i = sub -> o[i] = "Active"
                          [] OTHER -> o[i] = "Pending"
      BY DEF ObjectivesFollowScript
    <3>1. IF i < sub THEN o[i] = "Complete" \/ (o[i] = "Pending" /\ CanBeSkipped(i))
          ELSE o[i] = IF i = sub THEN "Active" ELSE "Pending"
      BY DEF OrderInv, InOrder, Standing, CampaignOpen, Open
    <3>2. i \in Int /\ sub \in Int
      BY <2>1, ScriptAssumption DEF Cursor
    <3> HIDE DEF o, sub
    <3> QED BY <3>1, <3>2
  <2>5. MaskCoversObjectives
    BY <2>1 DEF MaskCoversObjectives, Flying, Covered, Done
  <2>6. PauseScreenIsPaused
    BY <2>1 DEF PauseScreenIsPaused, Shown
  <2> QED BY <2>2, <2>3, <2>4, <2>5, <2>6 DEF InStep
<1> QED BY <1>1, OrderInvariance, PTL

\* A frame of a session whose script has run out, in a mission that is not
\* closed: the mission ends, unless it is paused or the frame is refused; and it
\* does not complete if an objective was skipped.
LEMMA EndedFrameEnds ==
    ASSUME NEW s, Sound(s), InOrder(s), s.cursor.ended, Open(s.x),
           NEW z \in Frames(s, {})
    PROVE  IF \E i \in SubMissions : s.x.objectives[i] = "Pending"
           THEN z.x.scenario # "Complete"
           ELSE z.x.scenario \in {"Complete", "Aborted", "Paused"} \/ z \in FrameRefused(s)
<1> DEFINE skipped == \E i \in SubMissions : s.x.objectives[i] = "Pending"
<1>1. /\ s = With(s, s.x, s.cursor, s.q, s.frontend)
      /\ s.x \in Execution /\ Flying(s.x) /\ s.cursor \in Cursor /\ AtRest(s.cursor)
  BY SoundParts
<1>2. s.cursor.sub = SubMissionCount /\ Standing(s.x, SubMissionCount)
  BY <1>1 DEF AtRest, InOrder
<1>3. Rows = SubMissions /\ Rows # {}
  <2>1. SubMissionCount \in 1..32
    BY SessionAssumption, ObjectiveCountAssumption
  <2>2. 0 \in SubMissions
    BY <2>1, ScriptAssumption
  <2> QED BY <2>2, SessionAssumption DEF Rows
<1>4. ~skipped => AllDone(s.x)
  BY <1>2, ScriptAssumption DEF Standing, AllDone
<1>5. AllDone(s.x) /\ s.x.bound => CanComplete(s.x.campaign, Mission)
  <2> SUFFICES ASSUME AllDone(s.x), s.x.bound
               PROVE  s.x.campaign[Mission].mask = Objectives(Mission)
    BY DEF CanComplete, Open
  <2>1. Done(s.x) = SubMissions
    BY DEF Done, AllDone
  <2>2. Objectives(Mission) = SubMissions
    BY SessionAssumption, ScriptAssumption DEF Objectives
  <2> QED BY <1>1, <2>1, <2>2 DEF Flying, Covered, Underway
<1>6. z \in FrameRefused(s) \cup {Debrief([s EXCEPT !.x = y]) : y \in Ticked(s.x)}
  <2> DEFINE pressed == {}
             toggled == IF "Start" \in pressed THEN Toggled(s) ELSE s
             aimed == IF "Target" \in pressed THEN LockedNearest(toggled.x) ELSE {toggled.x}
             shot == UNION {IF "Fire" \in pressed THEN FiredPrimary(s.mode, y) ELSE {y} :
                               y \in aimed}
             Drawn(y) == IF DriveByTick(s.mode) /\ ~toggled.cursor.ended
                         THEN AdvancedScript([toggled EXCEPT !.x = y])
                         ELSE [toggled EXCEPT !.x = y]
  <2>1. pressed = {}
    OBVIOUS
  <2>2. z \in Frames(s, pressed)
    OBVIOUS
  <2> HIDE DEF pressed
  <2>3. z \in UNION {FrameRefused(d) \cup {Debrief([d EXCEPT !.x = y]) : y \in Ticked(d.x)} :
                        d \in {Drawn(y) : y \in shot}}
    BY <2>1, <2>2 DEF Frames
  <2>4. toggled = s
    BY <2>1
  <2>5. shot = {s.x}
    BY <2>1, <2>4
  <2>6. Drawn(s.x) = s
    BY <1>1, <2>4 DEF With
  <2> HIDE DEF Drawn, shot
  <2> QED BY <2>3, <2>5, <2>6
<1> HIDE DEF skipped
<1>7. CASE z \in FrameRefused(s)
  <2>1. z = s /\ s.x.scenario = "Gameplay"
    BY <1>7 DEF FrameRefused
  <2> QED BY <1>7, <2>1 DEF skipped
<1>8. CASE z \notin FrameRefused(s)
  <2>1. PICK y \in Ticked(s.x) : z = Debrief([s EXCEPT !.x = y])
    BY <1>6, <1>8
  <2> DEFINE t == [s EXCEPT !.x = y]
  <2>2. /\ Flying(y) /\ y.bound = s.x.bound
        /\ s.x.scenario = "Paused" => y.scenario = "Paused"
        /\ y.scenario = "Complete" => s.x.scenario = "Complete" \/ AllDone(s.x)
    BY <1>1, FliesOn
  <2>3. z.x = y
    <3>1. Sound(t) /\ t.x = y
      BY <2>2, SoundWithMission
    <3> QED BY <2>1, <3>1, DebriefIsSound
  <2>4. CASE skipped
    <3>1. ~AllDone(s.x)
      BY <2>4 DEF AllDone, skipped
    <3>2. s.x.scenario # "Complete"
      BY <3>1 DEF InOrder
    <3> QED BY <2>2, <2>3, <2>4, <3>1, <3>2 DEF skipped
  <2>5. CASE ~skipped
    <3>1. \A i \in Rows : s.x.objectives[i] = "Complete"
      BY <1>3, <1>4, <2>5 DEF AllDone
    <3>2. Consistent(s.x) /\ s.x.scenario \in {"Gameplay", "Paused", "Complete", "Aborted"}
      BY <1>1 DEF Flying, Execution, ScenarioState
    <3>3. y.scenario \in {"Complete", "Aborted", "Paused"}
      <4>1. CASE s.x.scenario = "Gameplay"
        BY <1>1, <1>3, <1>4, <1>5, <2>5, <3>1, <4>1, FliesToTheEnd
      <4>2. CASE s.x.scenario # "Gameplay"
        <5>1. y.scenario \in {s.x.scenario, "Complete", "Aborted"}
          BY <3>2, TickedIsGood DEF Passes
        <5> QED BY <3>2, <4>2, <5>1
      <4> QED BY <4>1, <4>2
    <3> QED BY <2>3, <2>5, <3>3 DEF skipped
  <2> QED BY <2>4, <2>5
<1> QED BY <1>7, <1>8

\* A mission is complete only with its script at the end; and when the script
\* has run out, in a mission that the campaign has not closed, the next frame
\* ends it, unless it is paused or the frame is refused, if no sub-mission was
\* jumped over, and does not complete it otherwise (advance_script, settle).
THEOREM EndTheorem ==
    ASSUME WellFormed, AllStartPlain, ConditionsJumpForward
    PROVE  Spec => []ScriptEndEndsMission
<1>1. OrderInv => ScriptEndEndsMission
  <2> SUFFICES ASSUME OrderInv PROVE ScriptEndEndsMission
    OBVIOUS
  <2> DEFINE jumpedOver == {i \in SubMissions : session.x.objectives[i] = "Pending"}
  <2>1. session.x.scenario = "Complete" => session.cursor.ended
    BY DEF OrderInv, InOrder
  <2>2. ASSUME session.cursor.ended, CampaignOpen, NEW s \in Frames(session, {})
        PROVE  IF jumpedOver = {}
               THEN s.x.scenario \in {"Complete", "Aborted", "Paused"}
                    \/ s \in FrameRefused(session)
               ELSE s.x.scenario # "Complete"
    <3>1. Sound(session) /\ InOrder(session) /\ Open(session.x)
      BY <2>2 DEF OrderInv, Open, CampaignOpen
    <3>2. jumpedOver = {} <=> ~\E i \in SubMissions : session.x.objectives[i] = "Pending"
      OBVIOUS
    <3> HIDE DEF jumpedOver
    <3> QED BY <2>2, <3>1, <3>2, EndedFrameEnds
  <2> QED BY <2>1, <2>2 DEF ScriptEndEndsMission
<1> QED BY <1>1, OrderInvariance, PTL
=============================================================================
