------------------------------ MODULE AgentProofs ------------------------------
(***************************************************************************)
(* The properties of the two agents that play the game: AgentController,   *)
(* proved for every configuration that the assumptions admit and every     *)
(* sequence of observations and answers, and VisionEngine, proved for      *)
(* every set of cells and of options, every deterministic guest, all       *)
(* budgets and any number of runs.                                         *)
(*                                                                         *)
(* The invariant of the controller says what a running one has kept back   *)
(* for its end: a slot for the neutral frame, the identity and the tick    *)
(* that frame needs as soon as any frame was sent, and only acknowledged   *)
(* frames so far.                                                          *)
(*                                                                         *)
(* The invariant of the engine follows one action through the pipes.  What *)
(* is on the wire is either the pending action itself, not yet applied, or *)
(* an observation; receipts are named after decisions, so that the receipt *)
(* of an older action is never that of the pending one; and when a receipt *)
(* is accepted, the guest is in the state that the engine's path leads to, *)
(* unless the path goes on from a checkpoint that it did not lead to.      *)
(***************************************************************************)
EXTENDS AgentController, VisionEngine, WellFoundedInduction, TLAPS

-----------------------------------------------------------------------------
(* The controller.                                                         *)

Sent == [frame : {"active", "neutral"}, ack : BOOLEAN]

FSM == [state : States, status : {"running", "succeeded", "failed"},
        sequence : 0..MaxSteps, stateSteps : Nat,
        session : Sessions \cup {NoSession}, lastSequence : -1..MaxSteps,
        ticked : BOOLEAN, raised : BOOLEAN]

Identified(f) == sent # <<>> => f.ticked /\ f.session # NoSession

AllAcknowledged == \A i \in DOMAIN sent : sent[i].ack

ControllerInv ==
    /\ fsm \in FSM /\ sent \in Seq(Sent)
    /\ fsm.sequence = Len(sent)
    /\ fsm.state = "terminal" <=> fsm.status # "running"
    /\ Identified(fsm)
    /\ Running => fsm.sequence < MaxSteps /\ AllAcknowledged
    /\ Released /\ SuccessIsAcknowledged

\* What an observation of the protocol carries, as far as it is kept.
Sound(o) == o.kind = "available" => o.session \in Sessions

-----------------------------------------------------------------------------
\* Every state but the last has a next one (AgentState's order).
LEMMA NextStateIsState ==
    ASSUME NEW s \in States, s # "terminal"
    PROVE  NextState(s) \in States
<1>1. DOMAIN Order = 1..10 /\ Order[10] = "terminal"
  BY DEF Order
<1>2. States = {Order[i] : i \in 1..10}
  BY <1>1 DEF States, ToSet
<1> DEFINE k == CHOOSE i \in DOMAIN Order : Order[i] = s
<1>3. k \in 1..10 /\ Order[k] = s
  BY <1>1, <1>2
<1>4. k + 1 \in 1..10
  <2> HIDE DEF k
  <2>1. k # 10
    BY <1>1, <1>3
  <2> QED BY <1>3, <2>1
<1> QED BY <1>2, <1>4 DEF NextState

\* The first and the last of the controller's states are states.
LEMMA TerminalIsState == "terminal" \in States /\ "wait_boot" \in States
<1>1. DOMAIN Order = 1..10 /\ Order[10] = "terminal" /\ Order[1] = "wait_boot"
  BY DEF Order
<1> QED BY <1>1 DEF States, ToSet

\* Contents of an observation do not change whose it is.
LEMMA ContentsAreSound ==
    ASSUME NEW c \in Contexts
    PROVE  Sound(c) /\ \A d \in Contents : Sound(Filled(c, d))
<1>1. Sound(c)
  BY DEF Contexts, ObservationOf, Sound
<1>2. ASSUME NEW d \in Contents
      PROVE  Filled(c, d).kind = c.kind /\ Filled(c, d).session = c.session
  BY DEF Contexts, ObservationOf, Filled
<1> QED BY <1>1, <1>2 DEF Sound

\* Taking the session over keeps everything else.
LEMMA AdoptedFacts ==
    ASSUME ControllerInv, NEW o, Sound(o)
    PROVE  LET f == Adopted(o)
           IN  /\ f \in FSM /\ Identified(f)
               /\ f.state = fsm.state /\ f.status = fsm.status
               /\ f.sequence = fsm.sequence
               /\ f.ticked = fsm.ticked
<1>1. fsm \in FSM /\ Identified(fsm)
  BY DEF ControllerInv
<1>2. CASE o.kind = "available" /\ fsm.session = NoSession
  <2>1. Adopted(o) = [fsm EXCEPT !.session = o.session] /\ o.session \in Sessions
    BY <1>2 DEF Adopted, Sound
  <2> QED BY <1>1, <2>1, SessionAssumption DEF FSM, Identified
<1>3. CASE ~(o.kind = "available" /\ fsm.session = NoSession)
  BY <1>1, <1>3 DEF Adopted
<1> QED BY <1>2, <1>3

\* An observation in context leaves the controller identified and ticked.
LEMMA AcceptedFacts ==
    ASSUME ControllerInv, NEW o, Sound(o), InContext(o)
    PROVE  LET f == Accepted(o)
           IN  /\ f \in FSM
               /\ f.state = fsm.state /\ f.status = fsm.status
               /\ f.sequence = fsm.sequence
               /\ f.ticked /\ f.session # NoSession
<1> DEFINE g == Adopted(o)
<1>1. g \in FSM /\ g.state = fsm.state /\ g.status = fsm.status
      /\ g.sequence = fsm.sequence
  BY AdoptedFacts
<1>2. g.session # NoSession
  <2>1. o.kind = "available" /\ o.session \in Sessions
        /\ fsm.session \in {NoSession, o.session}
    BY DEF InContext, Sound
  <2>2. fsm \in FSM
    BY DEF ControllerInv
  <2> QED BY <2>1, <2>2, SessionAssumption DEF Adopted, FSM
<1>3. o.sequence \in -1..MaxSteps
  <2>1. fsm.sequence \in 0..MaxSteps
    BY DEF ControllerInv, FSM
  <2> QED BY <2>1, ConfigAssumption DEF InContext
<1> HIDE DEF g
<1>4. [g EXCEPT !.lastSequence = o.sequence, !.ticked = TRUE] \in FSM
  BY <1>1, <1>3 DEF FSM
<1> QED BY <1>1, <1>2, <1>4 DEF Accepted, FSM, g

\* A transition goes to the next state, which may be the last.
LEMMA TransitionedFacts ==
    ASSUME ControllerInv, Running, NEW o, Sound(o), InContext(o)
    PROVE  LET f == Transitioned(o)
           IN  /\ f \in FSM /\ f.status = "running"
               /\ f.sequence = fsm.sequence
               /\ f.ticked /\ f.session # NoSession
<1> DEFINE g == Accepted(o)
<1>1. /\ g \in FSM /\ g.state = fsm.state /\ g.status = fsm.status
      /\ g.sequence = fsm.sequence /\ g.ticked /\ g.session # NoSession
  BY AcceptedFacts
<1>2. g.status = "running" /\ NextState(g.state) \in States
  <2>1. g.state \in States /\ g.state # "terminal"
    BY <1>1 DEF ControllerInv, Running, FSM
  <2> QED BY <1>1, <2>1, NextStateIsState DEF Running
<1> HIDE DEF g
<1>3. [g EXCEPT !.state = NextState(g.state), !.stateSteps = 0] \in FSM
  BY <1>1, <1>2 DEF FSM
<1> QED BY <1>1, <1>2, <1>3 DEF Transitioned, FSM, g

\* A frame more at the end of those sent.
LEMMA SentFacts ==
    ASSUME sent \in Seq(Sent), NEW x \in Sent
    PROVE  LET longer == Append(sent, x)
           IN  /\ longer \in Seq(Sent) /\ longer # <<>>
               /\ Len(longer) = Len(sent) + 1 /\ Last(longer) = x
               /\ AllAcknowledged /\ x.ack => \A i \in DOMAIN longer : longer[i].ack
<1> DEFINE longer == Append(sent, x)
<1>1. /\ longer \in Seq(Sent) /\ Len(sent) \in Nat /\ Len(longer) = Len(sent) + 1
      /\ longer[Len(sent) + 1] = x
      /\ \A i \in 1..Len(sent) : longer[i] = sent[i]
  OBVIOUS
<1> HIDE DEF longer
<1>2. longer # <<>> /\ Last(longer) = x
  BY <1>1 DEF Last
<1>3. DOMAIN longer = 1..Len(sent) + 1 /\ DOMAIN sent = 1..Len(sent)
  BY <1>1
<1>4. ASSUME AllAcknowledged, x.ack, NEW i \in DOMAIN longer PROVE longer[i].ack
  BY <1>1, <1>3, <1>4 DEF AllAcknowledged
<1> QED BY <1>1, <1>2, <1>4 DEF longer

\* A controller that stops with status failed, and a neutral frame if it can
\* send one: it can unless no frame was sent at all (_fail).
LEMMA FailingIsGood ==
    ASSUME ControllerInv, Running, NEW f \in FSM, f.sequence = fsm.sequence, Identified(f),
           NEW ack \in BOOLEAN, Fails(f, ack)
    PROVE  ControllerInv'
<1> DEFINE g == Failed(f)
<1>1. /\ g \in FSM /\ g.state = "terminal" /\ g.status = "failed"
      /\ g.sequence = fsm.sequence /\ g.ticked = f.ticked /\ g.session = f.session
  BY TerminalIsState DEF Failed, FSM
<1>2. /\ sent \in Seq(Sent) /\ fsm.sequence = Len(sent)
      /\ fsm.sequence \in 0..MaxSteps - 1 /\ MaxSteps \in Nat
  BY ConfigAssumption DEF ControllerInv, FSM
<1>3. CASE CanEmit(f) /\ f.ticked
  <2> DEFINE x == [frame |-> "neutral", ack |-> ack]
  <2>1. fsm' = [g EXCEPT !.sequence = @ + 1] /\ sent' = Append(sent, x)
    BY <1>1, <1>3 DEF Fails, Emits
  <2>2. x \in Sent /\ x.frame = "neutral"
    BY DEF Sent
  <2> HIDE DEF x, g
  <2>3. /\ sent' \in Seq(Sent) /\ Len(sent') = Len(sent) + 1 /\ Last(sent') = x
    BY <1>2, <2>1, <2>2, SentFacts
  <2>4. /\ fsm' \in FSM /\ fsm'.sequence = Len(sent') /\ fsm'.sequence <= MaxSteps
        /\ fsm'.state = "terminal" /\ fsm'.status = "failed"
        /\ fsm'.ticked /\ fsm'.session # NoSession
    <3>1. f.sequence + 1 \in 0..MaxSteps /\ f.ticked /\ f.session # NoSession
      BY <1>2, <1>3 DEF CanEmit
    <3>2. fsm'.sequence = g.sequence + 1 /\ fsm' \in FSM
      BY <1>1, <2>1, <3>1 DEF FSM
    <3>3. fsm'.state = g.state /\ fsm'.status = g.status
          /\ fsm'.ticked = g.ticked /\ fsm'.session = g.session
      BY <1>1, <2>1 DEF FSM
    <3> QED BY <1>1, <1>2, <2>3, <3>1, <3>2, <3>3
  <2> QED BY <2>2, <2>3, <2>4 DEF ControllerInv, Identified, Running, Released, TypeOK,
             SuccessIsAcknowledged, FSM
<1>4. CASE ~(CanEmit(f) /\ f.ticked)
  <2>1. sent = <<>>
    BY <1>2, <1>4 DEF CanEmit, Identified
  <2>2. sent' = sent /\ fsm' \in {g, [g EXCEPT !.raised = TRUE]}
    BY <1>1, <1>4 DEF Fails, Emits
  <2> HIDE DEF g
  <2>3. /\ fsm' \in FSM /\ fsm'.sequence = fsm.sequence
        /\ fsm'.state = "terminal" /\ fsm'.status = "failed"
    BY <1>1, <2>2 DEF FSM
  <2> QED BY <1>2, <2>1, <2>2, <2>3 DEF ControllerInv, Identified, Running, Released, TypeOK,
             SuccessIsAcknowledged, FSM
<1> QED BY <1>3, <1>4

\* Success is claimed with an acknowledged release, and every frame before it
\* was acknowledged (_succeed).
LEMMA SucceedingIsGood ==
    ASSUME ControllerInv, Running, NEW f \in FSM, f.sequence = fsm.sequence,
           f.ticked, f.session # NoSession, NEW ack \in BOOLEAN, Succeeds(f, ack)
    PROVE  ControllerInv'
<1> DEFINE status == IF ack THEN "succeeded" ELSE "failed"
           g == [f EXCEPT !.state = "terminal", !.status = status]
           x == [frame |-> "neutral", ack |-> ack]
<1>1. /\ sent \in Seq(Sent) /\ fsm.sequence = Len(sent)
      /\ fsm.sequence \in 0..MaxSteps - 1 /\ MaxSteps \in Nat /\ AllAcknowledged
  BY ConfigAssumption DEF ControllerInv, FSM
<1>2. CanEmit(f)
  BY <1>1 DEF CanEmit
<1>3. /\ g \in FSM /\ g.state = "terminal" /\ g.status = status
      /\ g.sequence = fsm.sequence /\ g.ticked /\ g.session # NoSession
  BY TerminalIsState DEF FSM
<1>4. fsm' = [g EXCEPT !.sequence = @ + 1] /\ sent' = Append(sent, x)
  BY <1>2, <1>3 DEF Succeeds, Emits
<1>5. x \in Sent /\ x.frame = "neutral" /\ x.ack = ack
  BY DEF Sent
<1> HIDE DEF x, g
<1>6. /\ sent' \in Seq(Sent) /\ Len(sent') = Len(sent) + 1 /\ Last(sent') = x
      /\ ack => \A i \in DOMAIN sent' : sent'[i].ack
  <2>1. ASSUME ack PROVE \A i \in DOMAIN sent' : sent'[i].ack
    BY <1>1, <1>4, <1>5, <2>1, SentFacts
  <2> QED BY <1>1, <1>4, <1>5, <2>1, SentFacts
<1>7. /\ fsm' \in FSM /\ fsm'.sequence = Len(sent') /\ fsm'.sequence <= MaxSteps
      /\ fsm'.state = "terminal" /\ fsm'.status = status
      /\ fsm'.ticked /\ fsm'.session # NoSession
  <2>1. g.sequence + 1 \in 0..MaxSteps
    BY <1>1, <1>3
  <2>2. fsm' \in FSM /\ fsm'.sequence = g.sequence + 1
    BY <1>3, <1>4, <2>1 DEF FSM
  <2>3. fsm'.state = g.state /\ fsm'.status = g.status
        /\ fsm'.ticked = g.ticked /\ fsm'.session = g.session
    BY <1>3, <1>4 DEF FSM
  <2> QED BY <1>1, <1>3, <1>6, <2>1, <2>2, <2>3
<1> QED BY <1>5, <1>6, <1>7 DEF ControllerInv, Identified, Running, Released, TypeOK,
           SuccessIsAcknowledged, FSM

\* A policy frame leaves the last slot free (_frame, _step).
LEMMA PlayingIsGood ==
    ASSUME ControllerInv, NEW o, Sound(o), NEW frame \in {"active", "neutral"}, Plays(o, frame)
    PROVE  ControllerInv'
<1> DEFINE f == Transitioned(o)
           g == [f EXCEPT !.stateSteps = @ + 1]
           x == [frame |-> frame, ack |-> TRUE]
<1>1. /\ Running /\ f \in FSM /\ f.status = "running" /\ f.sequence = fsm.sequence
      /\ f.ticked /\ f.session # NoSession
  BY TransitionedFacts DEF Plays, Policy
<1>2. f.state # "terminal" /\ ~OutOfBudget(f) /\ Emits(g, frame, TRUE)
  BY DEF Plays, Policy
<1>3. /\ sent \in Seq(Sent) /\ fsm.sequence = Len(sent)
      /\ fsm.sequence \in Nat /\ MaxSteps \in Nat /\ AllAcknowledged
  BY <1>1, ConfigAssumption DEF ControllerInv, FSM
<1>4. f.sequence + 1 < MaxSteps
  <2>1. ~(f.sequence >= MaxSteps - 1)
    BY <1>2 DEF OutOfBudget
  <2> QED BY <1>1, <1>3, <2>1
<1> HIDE DEF f
<1>5. /\ g \in FSM /\ g.state = f.state /\ g.status = "running"
      /\ g.sequence = fsm.sequence /\ g.ticked /\ g.session # NoSession
  BY <1>1 DEF FSM
<1>6. fsm' = [g EXCEPT !.sequence = @ + 1] /\ sent' = Append(sent, x)
  BY <1>2, <1>5 DEF Emits
<1>7. x \in Sent /\ x.ack
  BY DEF Sent
<1> HIDE DEF g, x
<1>8. /\ sent' \in Seq(Sent) /\ Len(sent') = Len(sent) + 1
      /\ \A i \in DOMAIN sent' : sent'[i].ack
  BY <1>3, <1>6, <1>7, SentFacts
<1>9. /\ fsm' \in FSM /\ fsm'.sequence = Len(sent') /\ fsm'.sequence < MaxSteps
      /\ fsm'.state = f.state /\ fsm'.status = "running"
      /\ fsm'.ticked /\ fsm'.session # NoSession
  <2>1. g.sequence + 1 \in 0..MaxSteps /\ g.sequence + 1 < MaxSteps
    BY <1>1, <1>3, <1>4, <1>5
  <2>2. fsm' \in FSM /\ fsm'.sequence = g.sequence + 1
    BY <1>5, <1>6, <2>1 DEF FSM
  <2>3. fsm'.state = g.state /\ fsm'.status = g.status
        /\ fsm'.ticked = g.ticked /\ fsm'.session = g.session
    BY <1>5, <1>6 DEF FSM
  <2> QED BY <1>3, <1>5, <1>8, <2>1, <2>2, <2>3
<1>10. fsm'.sequence <= MaxSteps
  BY <1>3, <1>9 DEF FSM
<1> QED BY <1>2, <1>8, <1>9, <1>10 DEF ControllerInv, Identified, Running, Released, TypeOK,
           SuccessIsAcknowledged, AllAcknowledged, FSM

\* Losing the backend over an active frame is followed by a release, for which
\* there always is a slot (_step, _fail).
LEMMA LosingIsGood ==
    ASSUME ControllerInv, NEW o, Sound(o), NEW frame \in {"active", "neutral"},
           NEW ack \in BOOLEAN, LosesBackend(o, frame, ack)
    PROVE  ControllerInv'
<1> DEFINE t == Transitioned(o)
           f == Failed(t)
           x == [frame |-> frame, ack |-> FALSE]
           y == [frame |-> "neutral", ack |-> ack]
           lost == Append(sent, x)
<1>1. /\ Running /\ t \in FSM /\ t.sequence = fsm.sequence
      /\ t.ticked /\ t.session # NoSession /\ ~OutOfBudget(t)
  BY TransitionedFacts DEF LosesBackend, Policy
<1>2. /\ sent \in Seq(Sent) /\ fsm.sequence = Len(sent)
      /\ fsm.sequence \in Nat /\ MaxSteps \in Nat
  BY <1>1, ConfigAssumption DEF ControllerInv, FSM
<1>3. t.sequence + 1 < MaxSteps
  <2>1. ~(t.sequence >= MaxSteps - 1)
    BY <1>1 DEF OutOfBudget
  <2> QED BY <1>1, <1>2, <2>1
<1>4. IF frame = "active" /\ f.sequence + 1 < MaxSteps
      THEN fsm' = [f EXCEPT !.sequence = @ + 2] /\ sent' = Append(lost, y)
      ELSE fsm' = [f EXCEPT !.sequence = @ + 1] /\ sent' = lost
  BY DEF LosesBackend
<1> HIDE DEF t
<1>5. /\ f \in FSM /\ f.state = "terminal" /\ f.status = "failed"
      /\ f.sequence = fsm.sequence /\ f.ticked /\ f.session # NoSession
  BY <1>1, TerminalIsState DEF Failed, FSM
<1>6. x \in Sent /\ y \in Sent /\ x.frame = frame /\ y.frame = "neutral"
  BY DEF Sent
<1> HIDE DEF f, x, y
<1>7. lost \in Seq(Sent) /\ Len(lost) = Len(sent) + 1 /\ Last(lost) = x
  BY <1>2, <1>6, SentFacts
<1> HIDE DEF lost
<1>8. PICK n \in {1, 2} : /\ fsm' = [f EXCEPT !.sequence = @ + n]
                          /\ sent' \in Seq(Sent) /\ Len(sent') = Len(sent) + n
                          /\ Last(sent').frame = "neutral"
  <2>1. CASE frame = "active"
    <3>1. fsm' = [f EXCEPT !.sequence = @ + 2] /\ sent' = Append(lost, y)
      BY <1>1, <1>3, <1>4, <1>5, <2>1
    <3>2. /\ Append(lost, y) \in Seq(Sent) /\ Len(Append(lost, y)) = Len(lost) + 1
          /\ Append(lost, y)[Len(lost) + 1] = y
      BY <1>6, <1>7
    <3>3. Last(Append(lost, y)) = y
      BY <3>2 DEF Last
    <3> QED BY <1>2, <1>6, <1>7, <3>1, <3>2, <3>3
  <2>2. CASE frame = "neutral"
    BY <1>4, <1>6, <1>7, <2>2
  <2> QED BY <2>1, <2>2
<1>9. /\ fsm' \in FSM /\ fsm'.sequence = Len(sent') /\ fsm'.sequence <= MaxSteps
      /\ fsm'.state = "terminal" /\ fsm'.status = "failed"
      /\ fsm'.ticked /\ fsm'.session # NoSession
  <2>1. f.sequence + n \in 0..MaxSteps
    BY <1>1, <1>2, <1>3, <1>5, <1>8
  <2>2. fsm' \in FSM /\ fsm'.sequence = f.sequence + n
    BY <1>5, <1>8, <2>1 DEF FSM
  <2>3. fsm'.state = f.state /\ fsm'.status = f.status
        /\ fsm'.ticked = f.ticked /\ fsm'.session = f.session
    BY <1>5, <1>8 DEF FSM
  <2> QED BY <1>2, <1>5, <1>8, <2>1, <2>2, <2>3
<1> QED BY <1>8, <1>9 DEF ControllerInv, Identified, Running, Released, TypeOK,
           SuccessIsAcknowledged, FSM

-----------------------------------------------------------------------------
\* The controller before it starts satisfies ControllerInv.
LEMMA ControllerInitIsGood == ControllerInit => ControllerInv
<1> SUFFICES ASSUME ControllerInit PROVE ControllerInv
  OBVIOUS
<1>1. fsm \in FSM
  BY TerminalIsState, ConfigAssumption DEF ControllerInit, FSM
<1>2. sent = <<>> /\ Len(sent) = 0 /\ sent \in Seq(Sent) /\ DOMAIN sent = {}
  BY DEF ControllerInit
<1> QED BY <1>1, <1>2, ConfigAssumption DEF ControllerInit, ControllerInv, Identified, Running,
           AllAcknowledged, Released, TypeOK, SuccessIsAcknowledged, FSM

\* Every way a step ends keeps the slot for the release, or uses it.
LEMMA StepIsGood ==
    ASSUME ControllerInv, NEW o, Sound(o), NEW ack \in BOOLEAN,
           \/ Rejects(o, ack) \/ Stops(o, ack) \/ Finishes(o, ack) \/ Exhausted(o, ack)
           \/ \E frame \in {"active", "neutral"} :
                 Plays(o, frame) \/ LosesBackend(o, frame, ack)
    PROVE  ControllerInv'
<1>1. CASE Rejects(o, ack)
  BY <1>1, AdoptedFacts, FailingIsGood DEF Rejects
<1>2. CASE Stops(o, ack)
  BY <1>2, AcceptedFacts, FailingIsGood DEF Stops, Identified
<1>3. CASE Finishes(o, ack)
  BY <1>3, AcceptedFacts, SucceedingIsGood DEF Finishes
<1>4. CASE Exhausted(o, ack)
  BY <1>4, TransitionedFacts, FailingIsGood DEF Exhausted, Identified
<1>5. ASSUME NEW frame \in {"active", "neutral"}, Plays(o, frame) PROVE ControllerInv'
  BY <1>5, PlayingIsGood
<1>6. ASSUME NEW frame \in {"active", "neutral"}, LosesBackend(o, frame, ack)
      PROVE  ControllerInv'
  BY <1>6, LosingIsGood
<1> QED BY <1>1, <1>2, <1>3, <1>4, <1>5, <1>6

\* The controller keeps a slot and the identity for its last frame.
THEOREM ControllerInvariance == ControllerSpec => []ControllerInv
<1>1. ASSUME ControllerInv, ControllerNext PROVE ControllerInv'
  <2>1. PICK ack \in BOOLEAN, c \in Contexts :
           \/ Rejects(c, ack)
           \/ \E d \in Contents :
                 LET o == Filled(c, d)
                 IN  \/ Stops(o, ack) \/ Finishes(o, ack) \/ Exhausted(o, ack)
                     \/ \E frame \in {"active", "neutral"} :
                           Plays(o, frame) \/ LosesBackend(o, frame, ack)
    BY <1>1 DEF ControllerNext
  <2>2. Sound(c) /\ \A d \in Contents : Sound(Filled(c, d))
    BY ContentsAreSound
  <2> HIDE DEF ControllerInv
  <2>3. CASE Rejects(c, ack)
    BY <1>1, <2>2, <2>3, StepIsGood
  <2>4. CASE \E d \in Contents :
                 LET o == Filled(c, d)
                 IN  \/ Stops(o, ack) \/ Finishes(o, ack) \/ Exhausted(o, ack)
                     \/ \E frame \in {"active", "neutral"} :
                           Plays(o, frame) \/ LosesBackend(o, frame, ack)
    BY <1>1, <2>2, <2>4, StepIsGood
  <2> QED BY <2>1, <2>3, <2>4
<1>2. ControllerInv /\ UNCHANGED controllerVars => ControllerInv'
  BY DEF controllerVars, ControllerInv, Identified, Running, AllAcknowledged, Released, TypeOK,
         SuccessIsAcknowledged
<1> QED BY <1>1, <1>2, ControllerInitIsGood, PTL DEF ControllerSpec

-----------------------------------------------------------------------------
\* The fields stay in range, and no control is left pressed, whichever way the
\* controller stops: the last slot is never given to an active frame
\* (ac6_fsm.py:3-5, 57).
THEOREM ReleasedTheorem == ControllerSpec => []Released
<1>1. ControllerInv => Released
  BY DEF ControllerInv
<1> QED BY <1>1, ControllerInvariance, PTL

\* Success is claimed only if every frame was acknowledged, the release
\* included (_succeed, emu_step's answers).
THEOREM SuccessTheorem == ControllerSpec => []SuccessIsAcknowledged
<1>1. ControllerInv => SuccessIsAcknowledged
  BY DEF ControllerInv
<1> QED BY <1>1, ControllerInvariance, PTL

-----------------------------------------------------------------------------
(* The vision engine.                                                      *)

Kept == GuestStates \cup {NoCheckpoint}
Receipts == [id : Nat \cup {-1}, frames : Int, checkpoint : Kept]
Inputs == [id : Nat, op : {"input"}, cell : Cells, what : Options]
Restores == [id : Nat, op : {"restore"}, cell : Cells, what : GuestStates]
Observations == [cell : Cells, checkpoint : Kept, receipt : Receipts]
Entries == [seen : BOOLEAN, path : Seq(Options), astray : BOOLEAN,
            checkpoint : Kept, outcomes : [Options -> SUBSET Cells]]

Typed ==
    /\ engine \in [at : {"reading", "saving", "ended"}, path : Seq(Options),
                   astray : BOOLEAN, pending : {NoAction} \cup Inputs \cup Restores,
                   decisions : 0..MaxDecisions, frames : 0..MaxFrames]
    /\ wire \in Inputs \cup Restores \cup Observations
    /\ guest \in [state : GuestStates, frames : Nat, last : Receipts]

\* An archive whose entries are true of the guest.
Truthful(a) ==
    /\ a \in [Cells -> Entries]
    /\ \A c \in Cells :
          /\ a[c].seen => View[Walk(a[c].path)] = c \/ a[c].astray
          /\ \A o \in Options : a[c].outcomes[o] \subseteq Results(c, o)

\* The engine's path leads to state s.
OnPath(s) == Walk(engine.path) = s \/ engine.astray

\* Where the action on the wire leads.
Ahead == IF wire.op = "restore" THEN wire.what ELSE Outcome[guest.state][wire.what].state

\* An observation that is accepted shows what came of the pending action.
Answered ==
    /\ OnPath(guest.state)
    /\ engine.pending.op = "input" =>
          wire.cell \in Results(engine.pending.cell, engine.pending.what)

\* The frames that the action on the wire may still take.
Outstanding == IF wire \in Inputs THEN Hold[wire.what] ELSE 0

InFlight ==
    /\ engine.pending.id = engine.decisions - 1
    /\ guest.last.id <= engine.pending.id
    /\ Asked => /\ wire = engine.pending
                /\ guest.last.id < wire.id
                /\ View[guest.state] = wire.cell
                /\ OnPath(Ahead)
    /\ ~Asked => /\ wire.cell = View[guest.state]
                 /\ ReceiptAccepted(wire.receipt) => Answered

InStep ==
    /\ Typed /\ InFlight
    /\ guest.frames + Outstanding <= engine.frames

IInv == InStep /\ Truthful(archive) /\ Truthful(disk)

-----------------------------------------------------------------------------
(* Induction over the natural numbers, for a set.                          *)

Less == {p \in Nat \X Nat : p[1] < p[2]}

\* The numbers are well founded.
LEMMA LessIsWellFounded == IsWellFoundedOn(Less, Nat)
<1>1. Less = OpToRel(<, Nat)
  BY DEF Less, OpToRel
<1> QED BY <1>1, NatLessThanWellFounded

\* A set of numbers that holds 0 and successors holds every number.
LEMMA SetInduction ==
    ASSUME NEW S, 0 \in S, \A n \in Nat : n \in S => n + 1 \in S
    PROVE  Nat \subseteq S
<1>1. SUFFICES ASSUME Nat \ S # {} PROVE FALSE
  OBVIOUS
<1>2. PICK x \in Nat \ S : \A y \in Nat \ S : ~(<<y, x>> \in Less)
  BY <1>1, LessIsWellFounded, WFMin, Nat \ S \subseteq Nat
<1>3. x # 0 /\ x - 1 \in Nat /\ (x - 1) + 1 = x
  <2>1. x # 0
    BY <1>2
  <2> QED BY <2>1
<1>4. x - 1 \in Nat \ S
  BY <1>3, <1>2
<1>5. <<x - 1, x>> \in Less
  BY <1>3 DEF Less
<1> QED BY <1>2, <1>4, <1>5

\* The states on the way along a path.
Traces(path, on) ==
    /\ on \in [0..Len(path) -> GuestStates] /\ on[0] = Boot
    /\ \A i \in 1..Len(path) : on[i] = Outcome[on[i - 1]][path[i]].state

\* A trace, one state longer with every option.
Extended(on, n, o) ==
    [i \in 0..(n + 1) |-> IF i = n + 1 THEN Outcome[on[n]][o].state ELSE on[i]]

LEMMA ExtendedFacts ==
    ASSUME NEW n \in Nat, NEW on \in [0..n -> GuestStates], NEW o \in Options
    PROVE  LET further == Extended(on, n, o)
           IN  /\ further \in [0..(n + 1) -> GuestStates]
               /\ \A i \in 0..n : further[i] = on[i]
               /\ further[n + 1] = Outcome[on[n]][o].state
<1>1. on[n] \in GuestStates /\ Outcome[on[n]][o].state \in GuestStates
  BY GuestAssumption
<1> QED BY <1>1 DEF Extended

\* Every path has a trace: the guest takes every option in every state.
LEMMA EveryPathIsTraced ==
    ASSUME NEW path \in Seq(Options)
    PROVE  \E on : Traces(path, on)
<1> DEFINE S == {n \in Nat : n <= Len(path) =>
                    \E on \in [0..n -> GuestStates] :
                       /\ on[0] = Boot
                       /\ \A i \in 1..n : on[i] = Outcome[on[i - 1]][path[i]].state}
<1>1. 0 \in S
  <2> DEFINE on == [i \in 0..0 |-> Boot]
  <2>1. on \in [0..0 -> GuestStates] /\ on[0] = Boot /\ 1..0 = {}
    BY GuestAssumption
  <2> HIDE DEF on
  <2> QED BY <2>1
<1>2. ASSUME NEW n \in Nat, n \in S PROVE n + 1 \in S
  <2> SUFFICES ASSUME n + 1 <= Len(path)
               PROVE  \E on \in [0..(n + 1) -> GuestStates] :
                         /\ on[0] = Boot
                         /\ \A i \in 1..(n + 1) :
                               on[i] = Outcome[on[i - 1]][path[i]].state
    OBVIOUS
  <2>1. n <= Len(path) /\ path[n + 1] \in Options
    OBVIOUS
  <2>2. PICK on \in [0..n -> GuestStates] :
           /\ on[0] = Boot
           /\ \A i \in 1..n : on[i] = Outcome[on[i - 1]][path[i]].state
    BY <1>2, <2>1
  <2> DEFINE further == Extended(on, n, path[n + 1])
  <2>3. /\ further \in [0..(n + 1) -> GuestStates]
        /\ \A i \in 0..n : further[i] = on[i]
        /\ further[n + 1] = Outcome[on[n]][path[n + 1]].state
    BY <2>1, <2>2, ExtendedFacts
  <2> HIDE DEF further
  <2>4. \A i \in 1..(n + 1) : further[i] = Outcome[further[i - 1]][path[i]].state
    <3> TAKE i \in 1..(n + 1)
    <3>1. CASE i = n + 1
      BY <2>3, <3>1
    <3>2. CASE i \in 1..n
      BY <2>2, <2>3, <3>2
    <3> QED BY <3>1, <3>2
  <2>5. further[0] = Boot
    BY <2>2, <2>3
  <2> QED BY <2>3, <2>4, <2>5
<1>3. Nat \subseteq S
  <2> HIDE DEF S
  <2> QED BY <1>1, <1>2, SetInduction
<1>4. Len(path) \in Nat
  OBVIOUS
<1> QED BY <1>3, <1>4 DEF Traces

\* The walk and a trace agree in every step.
LEMMA WalkFollowsTrace ==
    ASSUME NEW path \in Seq(Options), NEW on, Traces(path, on)
    PROVE  Walk(path) = on[Len(path)]
<1> DEFINE n == Len(path)
           F(f) == [i \in 0..n |->
                       IF i = 0 THEN Boot ELSE Outcome[f[i - 1]][path[i]].state]
           at == CHOOSE f : f = F(f)
<1>1. n \in Nat
  OBVIOUS
<1>2. /\ on \in [0..n -> GuestStates] /\ on[0] = Boot
      /\ \A i \in 1..n : on[i] = Outcome[on[i - 1]][path[i]].state
  BY DEF Traces
<1>3. at = F(at)
  <2>1. on = F(on)
    BY <1>1, <1>2
  <2> HIDE DEF F
  <2> QED BY <2>1
<1>4. \A i \in 0..n : at[i] = IF i = 0 THEN Boot ELSE Outcome[at[i - 1]][path[i]].state
  BY <1>3
<1> HIDE DEF at
<1> DEFINE S == {i \in Nat : i \in 0..n => at[i] = on[i]}
<1>5. 0 \in S
  BY <1>1, <1>2, <1>4
<1>6. ASSUME NEW i \in Nat, i \in S PROVE i + 1 \in S
  BY <1>1, <1>2, <1>4, <1>6
<1>7. Nat \subseteq S
  <2> HIDE DEF S
  <2> QED BY <1>5, <1>6, SetInduction
<1>8. at[n] = on[n]
  BY <1>1, <1>7
<1> QED BY <1>8 DEF Walk, at

\* A path leads to a state; the empty one to the boot, and one option more
\* one step further.
LEMMA WalkFacts ==
    ASSUME NEW path \in Seq(Options)
    PROVE  /\ Walk(path) \in GuestStates
           /\ path = <<>> => Walk(path) = Boot
           /\ \A o \in Options : Walk(Append(path, o)) = Outcome[Walk(path)][o].state
<1> DEFINE n == Len(path)
<1>1. PICK on : Traces(path, on)
  BY EveryPathIsTraced
<1>2. n \in Nat /\ Walk(path) = on[n]
  BY <1>1, WalkFollowsTrace
<1>3. /\ on \in [0..n -> GuestStates] /\ on[0] = Boot
      /\ \A i \in 1..n : on[i] = Outcome[on[i - 1]][path[i]].state
  BY <1>1 DEF Traces
<1>4. ASSUME NEW o \in Options PROVE Walk(Append(path, o)) = Outcome[Walk(path)][o].state
  <2> DEFINE longer == Append(path, o)
             further == Extended(on, n, o)
  <2>1. /\ longer \in Seq(Options) /\ Len(longer) = n + 1 /\ longer[n + 1] = o
        /\ \A i \in 1..n : longer[i] = path[i]
    OBVIOUS
  <2>2. /\ further \in [0..(n + 1) -> GuestStates]
        /\ \A i \in 0..n : further[i] = on[i]
        /\ further[n + 1] = Outcome[on[n]][o].state
    BY <1>2, <1>3, ExtendedFacts
  <2> HIDE DEF longer, further
  <2>3. \A i \in 1..(n + 1) : further[i] = Outcome[further[i - 1]][longer[i]].state
    <3> TAKE i \in 1..(n + 1)
    <3>1. CASE i = n + 1
      <4>1. i - 1 = n /\ n \in 0..n
        BY <1>2, <3>1
      <4>2. further[i - 1] = on[n] /\ longer[i] = o
        BY <2>1, <2>2, <3>1, <4>1
      <4> QED BY <2>2, <3>1, <4>2
    <3>2. CASE i \in 1..n
      <4>1. i - 1 \in 0..n /\ i \in 0..n
        BY <1>2, <3>2
      <4>2. /\ further[i - 1] = on[i - 1] /\ further[i] = on[i]
            /\ longer[i] = path[i]
        BY <2>1, <2>2, <3>2, <4>1
      <4> QED BY <1>3, <3>2, <4>2
    <3> QED BY <1>2, <3>1, <3>2
  <2>4. Traces(longer, further)
    BY <1>2, <1>3, <2>1, <2>2, <2>3 DEF Traces
  <2>5. Walk(longer) = further[n + 1]
    BY <2>1, <2>4, WalkFollowsTrace
  <2> QED BY <1>2, <2>2, <2>5 DEF longer
<1>5. ASSUME path = <<>> PROVE Walk(path) = Boot
  <2>1. n = 0
    BY <1>5
  <2> QED BY <1>2, <1>3, <2>1
<1> QED BY <1>2, <1>3, <1>4, <1>5

-----------------------------------------------------------------------------
\* An observation carries a receipt, an action an operation, and never both.
LEMMA WireKinds ==
    ASSUME Typed
    PROVE  /\ Asked <=> wire \in Inputs \cup Restores
           /\ ~Asked <=> wire \in Observations
           /\ "receipt" \in DOMAIN wire => ~Asked
           /\ wire \in Inputs <=> Asked /\ wire.op = "input"
           /\ wire \in Restores <=> Asked /\ wire.op = "restore"
  BY DEF Typed, Asked, Inputs, Restores, Observations

\* Archive.observe() of a state that the engine's path leads to.
LEMMA ObservedIsTruthful ==
    ASSUME NEW a, Truthful(a), Typed, NEW o \in Observations,
           o.cell = View[guest.state], OnPath(guest.state)
    PROVE  Truthful(Observed(a, o))
<1> DEFINE b == Observed(a, o)
<1>1. /\ engine.path \in Seq(Options) /\ engine.astray \in BOOLEAN
      /\ o.cell \in Cells /\ o.checkpoint \in Kept
  BY DEF Typed, Observations
<1>2. a \in [Cells -> Entries] /\ a[o.cell] \in Entries
  BY <1>1 DEF Truthful
<1> DEFINE known == a[o.cell]
           better == ~known.seen \/ known.path = <<>>
                                 \/ Len(engine.path) < Len(known.path)
           path == IF better THEN engine.path ELSE known.path
           astray == IF better THEN engine.astray ELSE known.astray
           kept == IF known.checkpoint = NoCheckpoint THEN o.checkpoint
                   ELSE known.checkpoint
           e == [known EXCEPT !.seen = TRUE, !.path = path, !.astray = astray,
                              !.checkpoint = kept]
<1>3. path \in Seq(Options) /\ astray \in BOOLEAN /\ kept \in Kept
  <2> HIDE DEF better
  <2> QED BY <1>1, <1>2 DEF Entries
<1>4. View[Walk(path)] = o.cell \/ astray
  <2>1. ~better => known.seen
    OBVIOUS
  <2>2. known.seen => View[Walk(known.path)] = o.cell \/ known.astray
    BY <1>1 DEF Truthful
  <2>3. View[Walk(engine.path)] = o.cell \/ engine.astray
    BY DEF OnPath
  <2> HIDE DEF better, known
  <2> QED BY <2>1, <2>2, <2>3
<1>5. b = [a EXCEPT ![o.cell] = e]
  BY <1>1, <1>2 DEF Observed, Entries
<1> HIDE DEF path, astray, kept, better
<1>6. /\ e \in Entries /\ e.path = path /\ e.astray = astray
      /\ e.outcomes = known.outcomes
  BY <1>2, <1>3 DEF Entries
<1> HIDE DEF e
<1>7. \A c \in Cells : b[c] = IF c = o.cell THEN e ELSE a[c]
  BY <1>1, <1>2, <1>5
<1>8. b \in [Cells -> Entries]
  BY <1>2, <1>5, <1>6
<1> HIDE DEF b
<1> SUFFICES Truthful(b)
  BY DEF b
<1> QED BY <1>1, <1>4, <1>6, <1>7, <1>8 DEF Truthful

\* Archive.update() with an observation of what came of the action.
LEMMA CreditedIsTruthful ==
    ASSUME NEW a, Truthful(a), Typed, NEW o \in Observations,
           engine.pending.op = "input" =>
              o.cell \in Results(engine.pending.cell, engine.pending.what)
    PROVE  Truthful(Credited(a, o))
<1> DEFINE p == engine.pending
           b == Credited(a, o)
<1>1. CASE p.op # "input"
  BY <1>1 DEF Credited
<1>2. CASE p.op = "input"
  <2>1. p \in Inputs /\ o.cell \in Results(p.cell, p.what)
    BY <1>2 DEF Typed, NoAction, Restores
  <2>2. p.cell \in Cells /\ p.what \in Options /\ o.cell \in Cells
    BY <2>1 DEF Inputs, Observations
  <2>3. a \in [Cells -> Entries] /\ a[p.cell] \in Entries
    BY <2>2 DEF Truthful
  <2> DEFINE e == [a[p.cell] EXCEPT !.outcomes[p.what] = @ \cup {o.cell}]
  <2>4. b = [a EXCEPT ![p.cell] = e]
    BY <1>2, <2>2, <2>3 DEF Credited
  <2>5. /\ e \in Entries
        /\ e.seen = a[p.cell].seen /\ e.path = a[p.cell].path
        /\ e.astray = a[p.cell].astray
        /\ \A x \in Options :
              e.outcomes[x] = IF x = p.what THEN a[p.cell].outcomes[x] \cup {o.cell}
                              ELSE a[p.cell].outcomes[x]
    BY <2>2, <2>3 DEF Entries
  <2> HIDE DEF e
  <2>6. b \in [Cells -> Entries] /\ \A c \in Cells : b[c] = IF c = p.cell THEN e ELSE a[c]
    BY <2>2, <2>3, <2>4, <2>5
  <2>7. \A x \in Options : e.outcomes[x] \subseteq Results(p.cell, x)
    <3>1. \A x \in Options : a[p.cell].outcomes[x] \subseteq Results(p.cell, x)
      BY <2>2 DEF Truthful
    <3>2. SUFFICES ASSUME NEW x \in Options
                   PROVE  e.outcomes[x] \subseteq Results(p.cell, x)
      OBVIOUS
    <3>3. a[p.cell].outcomes[x] \subseteq Results(p.cell, x)
      BY <3>1
    <3> HIDE DEF p
    <3>4. CASE x = p.what
      <4>1. e.outcomes[x] = a[p.cell].outcomes[x] \cup {o.cell}
        BY <2>5, <3>4
      <4>2. o.cell \in Results(p.cell, x)
        BY <2>1, <3>4
      <4> QED BY <4>1, <4>2, <3>3
    <3>5. CASE x # p.what
      <4>1. e.outcomes[x] = a[p.cell].outcomes[x]
        BY <2>5, <3>5
      <4> QED BY <4>1, <3>3
    <3> QED BY <3>4, <3>5
  <2> HIDE DEF b
  <2>8. Truthful(b)
    BY <2>2, <2>5, <2>6, <2>7 DEF Truthful
  <2> QED BY <2>5, <2>6, <2>8 DEF b
<1> QED BY <1>1, <1>2

-----------------------------------------------------------------------------
Booted ==
    /\ engine = Started
    /\ \E kept \in Checkpoints(Boot) : wire = Observation(Boot, kept, NoReceipt)
    /\ guest = [state |-> Boot, frames |-> 0, last |-> NoReceipt]

\* A run starts at the boot with an empty path and nothing pending.
LEMMA BootIsGood == Booted => InStep
<1> SUFFICES ASSUME engine = Started, NEW kept \in Checkpoints(Boot),
                    wire = Observation(Boot, kept, NoReceipt),
                    guest = [state |-> Boot, frames |-> 0, last |-> NoReceipt]
             PROVE  InStep
  BY DEF Booted
<1>1. NoReceipt \in Receipts
  BY DEF NoReceipt, Receipts, Kept
<1>2. wire \in Observations /\ wire.cell = View[Boot]
  BY <1>1, GuestAssumption DEF Observation, Observations, Checkpoints, Kept
<1>3. Typed
  BY <1>1, <1>2, GuestAssumption, BudgetsAssumption DEF Typed, Started
<1>4. ~Asked /\ wire \notin Inputs
  BY <1>2, <1>3, WireKinds
<1>5. Answered
  <2>1. <<>> \in Seq(Options)
    OBVIOUS
  <2>2. Walk(<<>>) = Boot
    BY <2>1, WalkFacts
  <2> QED BY <2>2 DEF Answered, OnPath, Started, NoAction
<1>6. InFlight
  BY <1>2, <1>4, <1>5 DEF InFlight, Started, NoAction, NoReceipt
<1>8. guest.frames + Outstanding <= engine.frames
  BY <1>4 DEF Outstanding, Started
<1> QED BY <1>3, <1>6, <1>8 DEF InStep

\* An archive without entries is truthful.
LEMMA InitIsGood == Init => IInv
<1> SUFFICES ASSUME Init PROVE IInv
  OBVIOUS
<1>1. InStep
  BY BootIsGood DEF Init, Booted
<1>2. Unseen \in Entries /\ Unseen.seen = FALSE
      /\ \A o \in Options : Unseen.outcomes[o] = {}
  BY DEF Unseen, Entries, Kept
<1>3. Truthful(archive) /\ Truthful(disk)
  BY <1>2 DEF Init, Truthful
<1> QED BY <1>1, <1>3 DEF IInv

\* What Refuses, Saves and Dies leave alone is all that the invariant says of
\* the engine.
LEMMA OnlyItsPlaceChanges ==
    ASSUME IInv, NEW at \in {"reading", "saving", "ended"},
           engine' = [engine EXCEPT !.at = at],
           UNCHANGED <<archive, wire, guest, runs>>, disk' \in {disk, archive}
    PROVE  IInv'
<1>1. /\ engine'.path = engine.path /\ engine'.pending = engine.pending
      /\ engine'.astray = engine.astray
      /\ engine'.decisions = engine.decisions /\ engine'.frames = engine.frames
      /\ Typed'
  BY DEF IInv, InStep, Typed
<1>2. Outstanding' = Outstanding /\ (Asked <=> Asked')
  BY <1>1 DEF Outstanding, Asked
<1>3. InFlight'
  BY <1>1, <1>2 DEF IInv, InStep, InFlight, ReceiptAccepted, Answered, OnPath, Ahead
<1>4. Truthful(archive') /\ Truthful(disk')
  BY DEF IInv, InStep
<1>5. IInv' <=> /\ Typed' /\ InFlight' /\ Truthful(archive') /\ Truthful(disk')
                /\ guest'.frames + Outstanding' <= engine'.frames
  BY DEF IInv, InStep, Truthful
<1> QED BY <1>1, <1>2, <1>3, <1>4, <1>5 DEF IInv, InStep

\* What the bridge does keeps the invariant if it leaves an observation of the
\* guest's state that is accepted only if it answers the pending action, and
\* has run no more frames than were given.
LEMMA AnswersAreGood ==
    ASSUME IInv, NEW o \in Observations, wire' = o, o.cell = View[guest'.state],
           guest' \in [state : GuestStates, frames : Nat, last : Receipts],
           guest'.last.id <= engine.pending.id,
           ReceiptAccepted(o.receipt) => Answered',
           guest'.frames <= engine.frames,
           UNCHANGED <<engine, archive, disk, runs>>
    PROVE  IInv'
<1>1. Typed'
  BY DEF IInv, InStep, Typed
<1>2. wire' \notin Inputs /\ ~Asked'
  BY DEF Asked, Inputs, Observations
<1>3. InFlight'
  BY <1>2 DEF IInv, InStep, InFlight, ReceiptAccepted
<1>4. guest'.frames + Outstanding' <= engine'.frames
  BY <1>1, <1>2 DEF Outstanding, Typed
<1>6. Truthful(archive)' /\ Truthful(disk)'
  BY DEF IInv, InStep, Truthful
<1> QED BY <1>1, <1>3, <1>4, <1>6 DEF IInv, InStep

\* A restore, of the right or of another checkpoint.
LEMMA RestoringIsGood ==
    ASSUME IInv, Asked, wire.op = "restore", NEW c \in GuestStates, Shows(c, 0, c)
    PROVE  IInv'
<1> DEFINE receipt == [id |-> wire.id, frames |-> 0, checkpoint |-> c]
<1>1. wire \in Restores /\ wire = engine.pending /\ Typed /\ OnPath(wire.what)
  BY WireKinds DEF IInv, InStep, InFlight, Ahead
<1>2. receipt \in Receipts /\ receipt.id = engine.pending.id
      /\ receipt.checkpoint = c
  BY <1>1 DEF Receipts, Restores, Kept
<1>3. /\ guest' = [state |-> c, frames |-> guest.frames + 0, last |-> receipt]
      /\ UNCHANGED <<engine, archive, disk, runs>>
  BY DEF Shows
<1>4. PICK kept \in Checkpoints(c) : wire' = Observation(c, kept, receipt)
  BY DEF Shows
<1> DEFINE o == Observation(c, kept, receipt)
<1>5. o \in Observations /\ o.cell = View[c] /\ o.receipt = receipt
  BY <1>2, GuestAssumption DEF Observation, Observations, Checkpoints, Kept
<1>6. ASSUME ReceiptAccepted(o.receipt) PROVE Answered'
  <2>1. wire.what = c /\ engine.pending.op = "restore"
    BY <1>1, <1>2, <1>5, <1>6 DEF ReceiptAccepted, Restores
  <2>2. engine' = engine /\ guest'.state = c
    BY <1>3
  <2> QED BY <1>1, <2>1, <2>2 DEF Answered, OnPath
<1>7. guest.frames \in Nat /\ engine.frames \in Nat /\ guest.frames <= engine.frames
  <2>1. wire \notin Inputs
    BY <1>1 DEF Inputs, Restores
  <2> QED BY <1>1, <2>1, BudgetsAssumption DEF Typed, IInv, InStep, Outstanding
<1>8. guest' \in [state : GuestStates, frames : Nat, last : Receipts]
      /\ guest'.state = c /\ guest'.frames = guest.frames /\ guest'.last = receipt
  BY <1>2, <1>3, <1>7
<1>9. engine.pending.id \in Nat
  BY <1>1 DEF Restores
<1> HIDE DEF o, receipt
<1> QED BY <1>2, <1>3, <1>4, <1>5, <1>6, <1>7, <1>8, <1>9, AnswersAreGood DEF o

\* An input, applied by the guest.
LEMMA ApplyingIsGood ==
    ASSUME IInv, Asked, wire.op = "input", Applies
    PROVE  IInv'
<1> DEFINE next == Outcome[guest.state][wire.what]
           receipt == [id |-> wire.id, frames |-> next.frames,
                       checkpoint |-> NoCheckpoint]
<1>1. /\ wire \in Inputs /\ wire = engine.pending /\ Typed
      /\ View[guest.state] = wire.cell /\ OnPath(next.state)
      /\ guest.state \in GuestStates
  BY WireKinds DEF IInv, InStep, InFlight, Ahead, Typed
<1>2. wire.cell \in Cells /\ wire.what \in Options /\ wire.id \in Nat
      /\ Hold[wire.what] \in Nat
  BY <1>1, OptionsAssumption DEF Inputs
<1>3. next.state \in GuestStates /\ next.frames \in Nat /\ next.frames <= Hold[wire.what]
  BY <1>1, <1>2, GuestAssumption
<1>4. receipt \in Receipts /\ receipt.id = engine.pending.id
  BY <1>1, <1>2, <1>3 DEF Receipts, Kept
<1>5. Shows(next.state, next.frames, NoCheckpoint)
  BY <1>1 DEF Applies, Inputs
<1>6. /\ guest' = [state |-> next.state, frames |-> guest.frames + next.frames,
                   last |-> receipt]
      /\ UNCHANGED <<engine, archive, disk, runs>>
  BY <1>5 DEF Shows
<1>7. PICK kept \in Checkpoints(next.state) :
         wire' = Observation(next.state, kept, receipt)
  BY <1>5 DEF Shows
<1> DEFINE o == Observation(next.state, kept, receipt)
<1>8. o \in Observations /\ o.cell = View[next.state] /\ o.receipt = receipt
  BY <1>3, <1>4, GuestAssumption DEF Observation, Observations, Checkpoints, Kept
<1>9. Answered'
  <2>1. /\ engine' = engine /\ guest'.state = next.state /\ wire' = o
        /\ engine.pending = wire
    BY <1>1, <1>6, <1>7
  <2>2. View[next.state] \in Results(wire.cell, wire.what)
    BY <1>1 DEF Results
  <2> HIDE DEF next, o
  <2> QED BY <1>1, <1>8, <2>1, <2>2 DEF Answered, OnPath
<1>10. guest.frames \in Nat /\ guest.frames + Hold[wire.what] <= engine.frames
  BY <1>1 DEF Typed, IInv, InStep, Outstanding
<1>11. guest.frames + next.frames \in Nat
       /\ guest.frames + next.frames <= engine.frames
  <2>1. engine.frames \in Nat
    BY <1>1, BudgetsAssumption DEF Typed
  <2> HIDE DEF next
  <2> QED BY <1>2, <1>3, <1>10, <2>1
<1>12. guest' \in [state : GuestStates, frames : Nat, last : Receipts]
       /\ guest'.state = next.state /\ guest'.last = receipt
       /\ guest'.frames = guest.frames + next.frames
  BY <1>3, <1>4, <1>6, <1>11
<1>13. guest'.last.id <= engine.pending.id
  BY <1>1, <1>2, <1>4, <1>12
<1> HIDE DEF o, receipt, next
<1> QED BY <1>6, <1>7, <1>8, <1>9, <1>11, <1>12, <1>13, AnswersAreGood DEF o

\* A repeated observation has the receipt of an older action.
LEMMA RepeatingIsGood == IInv /\ Repeats => IInv'
<1> SUFFICES ASSUME IInv, Repeats PROVE IInv'
  OBVIOUS
<1> DEFINE o == Observation(guest.state, NoCheckpoint, guest.last)
<1>1. /\ Asked /\ Typed /\ wire = engine.pending
      /\ guest.last.id < engine.pending.id
  BY DEF IInv, InStep, InFlight, Repeats
<1>2. guest.state \in GuestStates /\ guest.last \in Receipts /\ guest.frames \in Nat
  BY <1>1 DEF Typed
<1>3. engine.pending \in Inputs \cup Restores
  BY <1>1, WireKinds
<1>4. guest.last.id \in Int /\ engine.pending.id \in Nat
  BY <1>2, <1>3 DEF Receipts, Inputs, Restores
<1>5. o \in Observations /\ o.cell = View[guest.state] /\ o.receipt = guest.last
  BY <1>2, GuestAssumption DEF Observation, Observations, Kept
<1>6. ~ReceiptAccepted(o.receipt)
  <2>1. engine.pending.op # "none" /\ guest.last.id # engine.pending.id
    BY <1>1, <1>3, <1>4 DEF Inputs, Restores
  <2> HIDE DEF o
  <2> QED BY <1>5, <2>1 DEF ReceiptAccepted
<1>7. guest.frames <= engine.frames
  <2>1. Outstanding \in Nat
    BY OptionsAssumption DEF Outstanding, Inputs
  <2>2. engine.frames \in Nat
    BY <1>1, BudgetsAssumption DEF Typed
  <2> QED BY <1>2, <2>1, <2>2 DEF IInv, InStep
<1>8. wire' = o /\ guest' = guest /\ UNCHANGED <<engine, archive, disk, runs>>
  BY DEF Repeats
<1>9. guest \in [state : GuestStates, frames : Nat, last : Receipts]
  BY <1>1 DEF Typed
<1> HIDE DEF o
<1> QED BY <1>1, <1>4, <1>5, <1>6, <1>7, <1>8, <1>9, AnswersAreGood

\* An action goes out: the receipts so far are of older ones, and the guest is
\* in the state that was observed.
LEMMA SendingIsGood ==
    ASSUME IInv, Reads, InBudget, Truthful(archive'), UNCHANGED <<disk, guest, runs>>,
           engine' \in [at : {"saving"}, path : Seq(Options),
                        astray : BOOLEAN, pending : Inputs \cup Restores,
                        decisions : Nat, frames : 0..MaxFrames],
           engine'.decisions = engine.decisions + 1,
           engine'.pending.id = engine.decisions,
           engine'.pending.cell = View[guest.state],
           wire' = engine'.pending, OnPath(Ahead)',
           engine.frames + (IF engine'.pending \in Inputs
                            THEN Hold[engine'.pending.what] ELSE 0)
              <= engine'.frames
    PROVE  IInv'
<1>1. Typed /\ ~Asked
  BY WireKinds DEF IInv, InStep, Reads
<1>2. engine.decisions \in Nat /\ engine.decisions + 1 <= MaxDecisions
  BY <1>1, BudgetsAssumption DEF Typed, InBudget
<1>3. Typed'
  BY <1>1, <1>2, BudgetsAssumption DEF Typed
<1>4. Asked'
  BY DEF Asked, Inputs, Restores
<1>5. guest.last.id < engine.decisions
  <2>1. engine.pending.id = engine.decisions - 1 /\ guest.last.id <= engine.pending.id
    BY DEF IInv, InStep, InFlight
  <2>2. guest.last.id \in Int
    BY <1>1 DEF Typed, Receipts
  <2> QED BY <2>1, <2>2, <1>2
<1>6. InFlight'
  <2>1. engine'.pending.id = engine'.decisions - 1
    BY <1>2
  <2>2. guest'.last.id <= engine'.pending.id /\ guest'.last.id < wire'.id
    <3>1. guest.last.id \in Int
      BY <1>1 DEF Typed, Receipts
    <3> QED BY <1>2, <1>5, <3>1
  <2> QED BY <2>1, <2>2, <1>4 DEF InFlight
<1>7. guest'.frames + Outstanding' <= engine'.frames
  <2>1. guest.frames \in Nat /\ engine.frames \in Nat /\ guest.frames <= engine.frames
    <3>1. wire \notin Inputs
      BY <1>1, WireKinds
    <3> QED BY <1>1, <3>1, BudgetsAssumption DEF Typed, IInv, InStep, Outstanding
  <2>2. Outstanding' = IF engine'.pending \in Inputs
                       THEN Hold[engine'.pending.what] ELSE 0
    BY DEF Outstanding
  <2>3. Outstanding' \in Nat
    BY <2>2, OptionsAssumption DEF Inputs
  <2>4. engine'.frames \in Nat /\ guest'.frames = guest.frames
    BY BudgetsAssumption
  <2> QED BY <2>1, <2>2, <2>3, <2>4
<1>8. Truthful(disk')
  BY DEF IInv, InStep
<1> QED BY <1>3, <1>6, <1>7, <1>8 DEF IInv, InStep

\* An observation is learned only if the path leads to it, and the action goes
\* out from there.
LEMMA DecidingIsGood == IInv /\ Decides => IInv'
<1> SUFFICES ASSUME IInv, Decides PROVE IInv'
  OBVIOUS
<1>1. /\ Reads /\ InBudget /\ ReceiptAccepted(wire.receipt)
      /\ archive' = Learned(wire) /\ wire' = engine'.pending
      /\ UNCHANGED <<disk, guest, runs>>
  BY DEF Decides
<1>2. Typed /\ ~Asked /\ wire \in Observations /\ InFlight
  BY <1>1, WireKinds DEF IInv, InStep, Reads
<1>3. /\ wire.cell = View[guest.state] /\ wire.cell \in Cells /\ guest.state \in GuestStates
      /\ Answered
  BY <1>1, <1>2 DEF IInv, InStep, InFlight, Observations, Typed
<1>4. Truthful(Observed(archive, wire))
  BY <1>2, <1>3, ObservedIsTruthful DEF IInv, Answered
<1>5. Truthful(Learned(wire))
  BY <1>2, <1>3, <1>4, CreditedIsTruthful DEF Learned, Answered
<1>6. /\ engine.decisions \in Nat /\ engine.frames \in 0..MaxFrames
      /\ engine.path \in Seq(Options)
      /\ engine.astray \in BOOLEAN
      /\ engine = [at |-> engine.at, path |-> engine.path, astray |-> engine.astray,
                   pending |-> engine.pending, decisions |-> engine.decisions, frames |-> engine.frames]
  BY <1>2, BudgetsAssumption DEF Typed
<1>7. ASSUME NEW c \in Restorable(wire), engine' = Restoring(wire, c) PROVE IInv'
  <2> DEFINE known == Learned(wire)[c]
             astray == Walk(known.path) # known.checkpoint
  <2>1. c \in Cells /\ known.checkpoint # NoCheckpoint
    BY <1>7 DEF Restorable
  <2>2. known.path \in Seq(Options) /\ known.checkpoint \in GuestStates
    BY <1>5, <2>1 DEF Truthful, Entries, Kept
  <2>3. engine' = [at |-> "saving", path |-> known.path, astray |-> astray,
                   pending |-> Action("restore", wire.cell, known.checkpoint),
                   decisions |-> engine.decisions + 1, frames |-> engine.frames]
    BY <1>6, <1>7 DEF Restoring
  <2> HIDE DEF known
  <2>4. Action("restore", wire.cell, known.checkpoint) \in Restores
        /\ Action("restore", wire.cell, known.checkpoint) \notin Inputs
    BY <1>3, <1>6, <2>2 DEF Action, Restores, Inputs
  <2>5. OnPath(Ahead)'
    <3>1. wire'.op = "restore" /\ wire'.what = known.checkpoint
      BY <1>1, <2>3 DEF Action
    <3>2. engine'.path = known.path /\ engine'.astray = astray
      BY <2>3
    <3> QED BY <3>1, <3>2 DEF OnPath, Ahead
  <2>6. engine.frames + 0 <= engine.frames
    BY <1>6, BudgetsAssumption
  <2>7. engine'.pending.id = engine.decisions /\ engine'.pending.cell = View[guest.state]
    BY <1>3, <2>3 DEF Action
  <2>8. astray \in BOOLEAN
    OBVIOUS
  <2> HIDE DEF astray, Action
  <2> QED BY <1>1, <1>5, <1>6, <2>2, <2>3, <2>4, <2>5, <2>6, <2>7, <2>8, SendingIsGood
<1>8. ASSUME NEW o \in Allowed[wire.cell],
             engine' = Playing(wire, Affordable(o)) PROVE IInv'
  <2> DEFINE option == Affordable(o)
  <2>1. /\ option \in Options /\ Hold[option] \in Nat
        /\ engine.frames + Hold[option] <= MaxFrames
    BY <1>1, <1>3, <1>6, OptionsAssumption, BudgetsAssumption DEF Affordable, InBudget
  <2> HIDE DEF option
  <2>2. engine' = [at |-> "saving", path |-> Append(engine.path, option),
                   astray |-> engine.astray,
                   pending |-> Action("input", wire.cell, option),
                   decisions |-> engine.decisions + 1,
                   frames |-> engine.frames + Hold[option]]
    BY <1>6, <1>8 DEF Playing, option
  <2>3. Action("input", wire.cell, option) \in Inputs
    BY <1>3, <1>6, <2>1 DEF Action, Inputs
  <2>4. wire'.op = "input" /\ wire'.what = option
    BY <1>1, <2>2 DEF Action
  <2>5. OnPath(Ahead)'
    <3>1. Walk(Append(engine.path, option)) = Outcome[Walk(engine.path)][option].state
      BY <1>6, <2>1, WalkFacts
    <3>2. engine'.path = Append(engine.path, option) /\ engine'.astray = engine.astray
      BY <2>2
    <3>3. Walk(engine.path) = guest.state \/ engine.astray
      BY <1>3 DEF Answered, OnPath
    <3> QED BY <1>1, <2>4, <3>1, <3>2, <3>3 DEF OnPath, Ahead
  <2>6. /\ engine'.pending.id = engine.decisions
        /\ engine'.pending.cell = View[guest.state] /\ engine'.pending.what = option
    BY <1>3, <2>2 DEF Action
  <2>7. engine.frames + Hold[option] \in 0..MaxFrames
    BY <1>6, <2>1, BudgetsAssumption
  <2>8. Append(engine.path, option) \in Seq(Options)
    BY <1>6, <2>1
  <2>9. /\ engine' \in [at : {"saving"}, path : Seq(Options),
                        astray : BOOLEAN, pending : Inputs \cup Restores,
                        decisions : Nat, frames : 0..MaxFrames]
        /\ engine'.decisions = engine.decisions + 1
        /\ engine'.pending \in Inputs
        /\ engine'.frames = engine.frames + Hold[option]
    BY <1>6, <2>2, <2>3, <2>7, <2>8
  <2> QED BY <1>1, <1>5, <1>6, <2>1, <2>5, <2>6, <2>9, SendingIsGood
<1> QED BY <1>7, <1>8 DEF Decides

\* The next run starts from the archive in the file.
LEMMA RestartingIsGood == IInv /\ Restarts => IInv'
<1> SUFFICES ASSUME IInv, Restarts PROVE IInv'
  OBVIOUS
<1>1. Booted' /\ archive' = disk /\ disk' = disk
  BY DEF Restarts, Booted
<1>2. Booted' => InStep'
  BY BootIsGood, PTL
<1> QED BY <1>1, <1>2 DEF IInv

\* Every step of the engine and of the bridge keeps the invariant.
LEMMA NextIsGood == IInv /\ [Next]_vars => IInv'
<1> SUFFICES ASSUME IInv, [Next]_vars PROVE IInv'
  OBVIOUS
<1>1. CASE Refuses
  BY <1>1, OnlyItsPlaceChanges DEF Refuses
<1>2. CASE Decides
  BY <1>2, DecidingIsGood
<1>3. CASE Saves
  BY <1>3, OnlyItsPlaceChanges DEF Saves
<1>4. CASE Dies
  BY <1>4, OnlyItsPlaceChanges DEF Dies
<1>5. CASE Restarts
  BY <1>5, RestartingIsGood
<1>6. CASE Applies
  <2>1. Asked /\ wire \in Inputs \cup Restores
    BY <1>6, WireKinds DEF IInv, InStep, Applies
  <2>2. CASE wire.op = "restore"
    <3>1. wire.what \in GuestStates
      BY <2>1, <2>2 DEF Inputs, Restores
    <3> QED BY <1>6, <2>1, <2>2, <3>1, RestoringIsGood DEF Applies
  <2>3. CASE wire.op = "input"
    BY <1>6, <2>1, <2>3, ApplyingIsGood
  <2> QED BY <2>1, <2>2, <2>3 DEF Inputs, Restores
<1>7. CASE Repeats
  BY <1>7, RepeatingIsGood
<1>8. CASE RestoresWrong
  BY <1>8, RestoringIsGood DEF RestoresWrong
<1>9. CASE UNCHANGED vars
  <2>1. engine' = [engine EXCEPT !.at = engine.at]
        /\ engine.at \in {"reading", "saving", "ended"}
    BY <1>9 DEF vars, IInv, InStep, Typed
  <2> QED BY <1>9, <2>1, OnlyItsPlaceChanges DEF vars
<1> QED BY <1>1, <1>2, <1>3, <1>4, <1>5, <1>6, <1>7, <1>8, <1>9 DEF Next

\* What is on the wire belongs to the pending action in every run.
THEOREM Invariance == Spec => []IInv
  BY InitIsGood, NextIsGood, PTL DEF Spec

-----------------------------------------------------------------------------
\* Every best path, in memory and in the file, leads to its cell, through any
\* restores, lost actions and ends of the process, for guests that have many
\* states behind one picture; but for a path that goes on from a checkpoint
\* which the best path of its cell did not lead to (Archive.observe,
\* restore_action).
THEOREM PathsLeadTheorem == Spec => []PathsLead
<1>1. IInv => PathsLead
  BY DEF IInv, Truthful, PathsLead
<1> QED BY <1>1, Invariance, PTL

\* The statistics of an option in a cell hold nothing but what the guest does
\* with it there (validate_receipt, step).
THEOREM CreditIsDueTheorem == Spec => []CreditIsDue
<1>1. IInv => CreditIsDue
  BY DEF IInv, InStep, Truthful, CreditIsDue
<1> QED BY <1>1, Invariance, PTL

\* The guest runs for no frame beyond max_guest_frames, and no decision is
\* taken beyond max_decisions (step).
THEOREM WithinBudgetTheorem == Spec => []WithinBudget
<1>1. IInv => WithinBudget
  <2> SUFFICES ASSUME IInv PROVE WithinBudget
    OBVIOUS
  <2>1. /\ guest.frames \in Nat /\ engine.frames \in 0..MaxFrames
        /\ engine.decisions \in 0..MaxDecisions
    BY DEF IInv, InStep, Typed
  <2>2. Outstanding \in Nat
    BY OptionsAssumption DEF Outstanding, Inputs
  <2> QED BY <2>1, <2>2, BudgetsAssumption DEF IInv, InStep, WithinBudget
<1> QED BY <1>1, Invariance, PTL
=============================================================================
