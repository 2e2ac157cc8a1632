--------------------------- MODULE AgentController ---------------------------
(***************************************************************************)
(* The autonomous controller (controller/ac6_fsm.py): one policy frame for *)
(* each sound observation, and a neutral frame when it stops for whatever  *)
(* reason.  Observations and acknowledgements are the environment's and    *)
(* may be anything the v2 protocol can carry.                              *)
(***************************************************************************)
EXTENDS Integers, Sequences, SequencesExt

CONSTANTS
    Sessions,       \* session identifiers in observations
    NoSession,
    MaxSteps,       \* config["max_steps"]
    Budget,         \* config["state_budgets"]
    Delay           \* config["delays"]

VARIABLES
    fsm,            \* the fields of AC6AgentFSM
    sent            \* history: the frames given to emu_step, and the answers

controllerVars == <<fsm, sent>>

-----------------------------------------------------------------------------
Order == <<"wait_boot", "press_start", "navigate_frontend", "loading",
           "stabilize_flight", "navigate", "acquire", "attack",
           "track_objective", "terminal">>
States == ToSet(Order)
NextState(state) == Order[(CHOOSE i \in DOMAIN Order : Order[i] = state) + 1]

Domains == {"player", "camera", "flight", "objective", "target"}
Required ==
    [s \in States |->
        CASE s = "stabilize_flight" -> {"player", "camera", "flight"}
          [] s = "navigate" -> {"player", "camera", "flight", "objective"}
          [] s = "acquire" -> {"camera", "flight", "target"}
          [] s = "attack" -> {"flight", "target"}
          [] s = "track_objective" -> {"flight", "target", "objective"}
          [] OTHER -> {}]

ASSUME ConfigAssumption ==
    /\ MaxSteps \in Nat \ {0}
    /\ Budget \in [States \ {"terminal"} -> Nat \ {0}]
    /\ Delay \in [{"press_start", "frontend_confirm", "attack_burst"} -> Nat]
    /\ Delay["attack_burst"] >= 1
ASSUME SessionAssumption == NoSession \notin Sessions

\* An observation, reduced to what the controller looks at: who and when it
\* is of, the terminal domain, the milestones (the one the current state
\* waits for, a lost target, a mission that went wrong), the domains that
\* are not available, and whether the target is locked.
ObservationOf(kind, session, sequence, newer) ==
    [kind |-> kind, session |-> session, sequence |-> sequence,
     newer |-> newer, terminal |-> "active", marks |-> {}, lacking |-> {},
     locked |-> FALSE]

Contexts ==
    {ObservationOf("malformed", NoSession, 0, FALSE)}
    \cup {ObservationOf(kind, session, sequence, newer) :
            kind \in {"unavailable", "available"}, session \in Sessions,
            sequence \in 0..MaxSteps + 1, newer \in BOOLEAN}

Contents ==
    [terminal : {"lacking", "active", "succeeded", "failed", "other"},
     marks : SUBSET {"next", "lost", "negative"},
     lacking : {{}} \cup {{d} : d \in Domains}, locked : BOOLEAN]

\* The observation c with the contents d.
Filled(c, d) == [c EXCEPT !.terminal = d.terminal, !.marks = d.marks,
                          !.lacking = d.lacking, !.locked = d.locked]

-----------------------------------------------------------------------------
(* _observe().                                                             *)

InContext(o) ==
    /\ o.kind = "available"
    /\ fsm.session \in {NoSession, o.session}
    /\ o.sequence > fsm.lastSequence /\ o.newer
    /\ o.sequence = fsm.sequence

\* The session of the first available observation is taken over before its
\* sequence and tick are looked at.
Adopted(o) ==
    IF o.kind = "available" /\ fsm.session = NoSession
    THEN [fsm EXCEPT !.session = o.session] ELSE fsm

Accepted(o) ==
    [Adopted(o) EXCEPT !.lastSequence = o.sequence, !.ticked = TRUE]

-----------------------------------------------------------------------------
(* _emit(), _fail() and _succeed().                                        *)

CanEmit(f) == f.session # NoSession /\ f.sequence < MaxSteps

\* A frame with the tick of the last observation taken over.  Without one
\* the tick is -1, which validate_action() rejects with an exception.
Emits(f, frame, ack) ==
    IF f.ticked
    THEN /\ fsm' = [f EXCEPT !.sequence = @ + 1]
         /\ sent' = Append(sent, [frame |-> frame, ack |-> ack])
    ELSE /\ fsm' = [f EXCEPT !.raised = TRUE]
         /\ UNCHANGED sent

Failed(f) == [f EXCEPT !.state = "terminal", !.status = "failed"]

Fails(f, ack) ==
    IF CanEmit(f) THEN Emits(Failed(f), "neutral", ack)
    ELSE fsm' = Failed(f) /\ UNCHANGED sent

\* Mutant: success is claimed before the release is answered.
SucceedsEarly(f, ack) ==
    LET done == [f EXCEPT !.state = "terminal", !.status = "succeeded"]
    IN  IF CanEmit(f) THEN Emits(done, "neutral", ack)
        ELSE fsm' = done /\ UNCHANGED sent

Succeeds(f, ack) ==
    LET done == [f EXCEPT !.state = "terminal",
                          !.status = IF CanEmit(f) /\ ack THEN "succeeded"
                                     ELSE "failed"]
    IN  IF CanEmit(f) THEN Emits(done, "neutral", ack)
        ELSE fsm' = done /\ UNCHANGED sent

-----------------------------------------------------------------------------
(* step().                                                                 *)

Running == fsm.status = "running"

\* An observation that is malformed, unavailable, of another session, stale
\* or not the one asked for.
Rejects(o, ack) ==
    /\ Running /\ ~InContext(o)
    /\ Fails(Adopted(o), ack)

Hopeless(o) ==
    \/ o.terminal \in {"lacking", "failed", "other"}
    \/ "negative" \in o.marks
    \/ "lost" \in o.marks
    \/ fsm.state \in {"acquire", "attack", "track_objective"} /\ "target" \in o.lacking
    \/ Required[fsm.state] \cap o.lacking # {}

Stops(o, ack) ==
    /\ Running /\ InContext(o)
    /\ o.terminal # "succeeded" /\ Hopeless(o)
    /\ Fails(Accepted(o), ack)

Moves(o) == "next" \in o.marks \/ (fsm.state = "acquire" /\ o.locked)

\* _transition(): at most one state further.
Transitioned(o) ==
    IF Moves(o)
    THEN [Accepted(o) EXCEPT !.state = NextState(@), !.stateSteps = 0]
    ELSE Accepted(o)

Finishes(o, ack) ==
    /\ Running /\ InContext(o)
    /\ \/ o.terminal = "succeeded"
       \/ ~Hopeless(o) /\ Transitioned(o).state = "terminal"
    /\ Succeeds(Accepted(o), ack)

\* _frame(): on course for the waypoint the stick may be centred.
Frames(f) ==
    CASE f.state = "press_start" ->
            {IF f.stateSteps >= Delay["press_start"] THEN "active" ELSE "neutral"}
      [] f.state = "navigate_frontend" ->
            {IF f.stateSteps >= Delay["frontend_confirm"] THEN "active" ELSE "neutral"}
      [] f.state = "navigate" -> {"active", "neutral"}
      [] f.state = "attack" ->
            {IF f.stateSteps < Delay["attack_burst"] THEN "active" ELSE "neutral"}
      [] OTHER -> {"neutral"}

\* Mutant: active frames may take the last slot too.
OutOfBudgetLate(f) ==
    f.stateSteps >= Budget[f.state] \/ f.sequence >= MaxSteps

OutOfBudget(f) ==
    f.stateSteps >= Budget[f.state] \/ f.sequence >= MaxSteps - 1

Exhausted(o, ack) ==
    /\ Running /\ InContext(o)
    /\ o.terminal # "succeeded" /\ ~Hopeless(o)
    /\ Transitioned(o).state # "terminal" /\ OutOfBudget(Transitioned(o))
    /\ Fails(Transitioned(o), ack)

Policy(o) ==
    /\ Running /\ InContext(o)
    /\ o.terminal # "succeeded" /\ ~Hopeless(o)
    /\ Transitioned(o).state # "terminal" /\ ~OutOfBudget(Transitioned(o))

Plays(o, frame) ==
    /\ Policy(o)
    /\ frame \in Frames(Transitioned(o))
    /\ Emits([Transitioned(o) EXCEPT !.stateSteps = @ + 1], frame, TRUE)

\* emu_step raises or does not acknowledge: an active frame is followed by
\* a release at once, a neutral one is a release already.
LosesBackend(o, frame, ack) ==
    /\ Policy(o)
    /\ frame \in Frames(Transitioned(o))
    /\ LET f == Failed(Transitioned(o))
           lost == Append(sent, [frame |-> frame, ack |-> FALSE])
       IN  IF frame = "active" /\ f.sequence + 1 < MaxSteps
           THEN /\ fsm' = [f EXCEPT !.sequence = @ + 2]
                /\ sent' = Append(lost, [frame |-> "neutral", ack |-> ack])
           ELSE /\ fsm' = [f EXCEPT !.sequence = @ + 1]
                /\ sent' = lost

ControllerInit ==
    /\ fsm = [state |-> "wait_boot", status |-> "running", sequence |-> 0,
              stateSteps |-> 0, session |-> NoSession, lastSequence |-> -1,
              ticked |-> FALSE, raised |-> FALSE]
    /\ sent = <<>>

\* Only an observation in context is looked into.
ControllerNext ==
    \E ack \in BOOLEAN, c \in Contexts :
       \/ Rejects(c, ack)
       \/ /\ InContext(c)
          /\ \E d \in Contents :
                LET o == Filled(c, d)
                IN  \/ Stops(o, ack) \/ Finishes(o, ack) \/ Exhausted(o, ack)
                    \/ \E frame \in {"active", "neutral"} :
                          Plays(o, frame) \/ LosesBackend(o, frame, ack)

ControllerSpec == ControllerInit /\ [][ControllerNext]_controllerVars

-----------------------------------------------------------------------------
(* Properties.                                                             *)

\* The fields are in range, and the sequence counts the frames sent.
TypeOK ==
    /\ fsm.state \in States
    /\ fsm.status \in {"running", "succeeded", "failed"}
    /\ fsm.state = "terminal" <=> fsm.status # "running"
    /\ fsm.sequence = Len(sent) /\ fsm.sequence <= MaxSteps
    /\ fsm.session \in Sessions \cup {NoSession}
    /\ fsm.lastSequence \in -1..MaxSteps
    /\ fsm.ticked \in BOOLEAN /\ fsm.raised \in BOOLEAN

\* "a non-positive backend result ends the episode with a neutral frame" and
\* "Active frames are therefore never emitted in the final slot"
\* (ac6_fsm.py:3-5, 57): whichever way the controller stops, no control is
\* left pressed.
Released ==
    TypeOK /\ (~Running /\ sent # <<>> => Last(sent).frame = "neutral")

\* Success is claimed only if every frame, the release included, was
\* acknowledged.
SuccessIsAcknowledged ==
    fsm.status = "succeeded" => sent # <<>> /\ \A i \in DOMAIN sent : sent[i].ack

-----------------------------------------------------------------------------
(* What the documentation says and the code does not do.                   *)

\* "On malformed input, retain only the last validated session/tick and
\* attempt its neutral release; no data from the malformed envelope is used"
\* (ac6_fsm.py:148-149): a rejected observation never makes step() raise.
RejectionIsQuiet == ~fsm.raised
=============================================================================
