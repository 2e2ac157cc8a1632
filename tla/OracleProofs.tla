----------------------------- MODULE OracleProofs -----------------------------
(***************************************************************************)
(* The properties of OracleRun, proved for every route, every set of log   *)
(* texts and of shared memory segments, and every number of SIGTERMs.      *)
(*                                                                         *)
(* The inductive invariant follows the processes (Custody): a live process *)
(* is one that close() can find, and the further close() has come, the     *)
(* fewer are alive; what they left in /dev/shm is listed by the sweep and  *)
(* stays there until the sweep unlinks it, so that only a segment of       *)
(* another run can make it fail.  Passing says that what fails is noted.   *)
(* Reading follows the log: the matches lie in the text that was taken off *)
(* the pending text, each beyond the one before it and beyond what the     *)
(* file held at the sync-log before it, and (Counted) there are as many of *)
(* them as the steps that are done hold waits.                             *)
(***************************************************************************)
EXTENDS OracleRun, FiniteSetTheorems, SequenceTheorems, WellFoundedInduction, TLAPS

\* Where a first SIGTERM strands a child: see CloseIsWhole.
Unsafe == Spawning \union Closing

Typed ==
    /\ pc \in {"inventory"} \union Trying \union Closing \union Sweeping \union Over
    /\ proc \in [Procs -> {"none", "live", "clean", "ended"}]
    /\ held \subseteq Procs
    /\ terms \in Nat
    /\ terms = 0 => struck = "nowhere"
    /\ terms = 0 /\ pc # "inventory" => handler = "raise"
    /\ terms > 0 => handler = "ignore"
    /\ before \subseteq OtherSegs
    /\ pc = "inventory" =>
          terms = 0 /\ ~Live("game") /\ ~Live("xvfb") /\ shm \subseteq OtherSegs

Custody ==
    struck \notin Unsafe =>
       /\ Live("xvfb") => "xvfb" \in held \/ pc = "bindX"
       /\ Live("game") => "game" \in held \/ pc = "bindG"
       /\ pc \in {"reapX"} \union Sweeping \union Over => ~Live("game")
       /\ pc \in Sweeping \union Over => ~Live("xvfb")
       /\ pc = "sweep" =>
             shm \intersect OwnSegs \subseteq listed /\ listed \ shm \subseteq OtherSegs
       /\ struck \notin Sweeping /\ pc \in {"recount"} \union Over =>
             shm \intersect OwnSegs = {} \/ halted \intersect OtherSegs # {}

\* A run in which nothing failed was not struck, and its sweep came to an end.
Passing ==
    /\ struck # "nowhere" /\ pc \notin Over => error # "none"
    /\ pc = "recount" /\ error = "none" => shm \intersect OwnSegs = {}
    /\ verdict = "pass" =>
          /\ pc = "done" /\ struck = "nowhere" /\ shm \intersect OwnSegs = {}

Milestones == [text : Texts, at : Nat, synced : [file : Nat, log : Nat]]

Reading ==
    /\ log \in Seq(Texts)
    /\ flushed \in 0..Len(log) /\ from \in 0..flushed
    /\ synced \in [file : 0..from, log : Nat]
    /\ milestones \in Seq(Milestones)
    /\ \A i \in 1..Len(milestones) :
          /\ milestones[i].at \in 1..from
          /\ milestones[i].at > milestones[i].synced.file
          /\ log[milestones[i].at] = milestones[i].text
    /\ \A i \in 1..Len(milestones) - 1 : milestones[i].at < milestones[i + 1].at

Waits(n) == {i \in 1..n : Route[i].op = "wait"}

Counted ==
    /\ step \in 1..Len(Route) + 1
    /\ Len(milestones) = Cardinality(Waits(step - 1))
    /\ pc \in {"request"} \union Closing \union Sweeping /\ error = "none" =>
          step = Len(Route) + 1
    /\ verdict = "pass" => pc = "done" /\ step = Len(Route) + 1

IInv == Typed /\ Custody /\ Passing /\ Reading /\ Counted

-----------------------------------------------------------------------------
(* Facts about numbers and sets.                                           *)

Less == {p \in Nat \X Nat : p[1] < p[2]}

\* A set of numbers that is not empty has a least one, and Min gives it.
LEMMA MinIsLeast ==
    ASSUME NEW S, S \subseteq Nat, S # {}
    PROVE  Min(S) \in S /\ \A n \in S : Min(S) <= n
<1>1. IsWellFoundedOn(Less, Nat)
  <2>1. Less = OpToRel(<, Nat)
    BY DEF Less, OpToRel
  <2> QED BY <2>1, NatLessThanWellFounded
<1>2. PICK m \in S : \A n \in S : ~(<<n, m>> \in Less)
  BY <1>1, WFMin
<1>3. ASSUME NEW n \in S PROVE m <= n
  <2>1. m \in Nat /\ n \in Nat
    OBVIOUS
  <2>2. ~(<<n, m>> \in Less)
    BY <1>2
  <2>3. ~(n < m)
    BY <2>1, <2>2 DEF Less
  <2> QED BY <2>1, <2>3
<1> QED BY <1>3 DEF Min

\* A step that is done adds a wait if it is one.
LEMMA WaitsGrow ==
    ASSUME NEW n \in 1..Len(Route)
    PROVE  /\ Cardinality(Waits(n - 1)) \in Nat
           /\ Cardinality(Waits(n)) = IF Route[n].op = "wait"
                                      THEN Cardinality(Waits(n - 1)) + 1
                                      ELSE Cardinality(Waits(n - 1))
<1>1. n \in Nat \ {0}
  BY RouteAssumption
<1>2. IsFiniteSet(Waits(n - 1)) /\ n \notin Waits(n - 1)
  <2>1. IsFiniteSet(1..n - 1)
    BY <1>1, FS_Interval
  <2>2. Waits(n - 1) \subseteq 1..n - 1
    BY DEF Waits
  <2>3. n \notin Waits(n - 1)
    BY <1>1 DEF Waits
  <2> QED BY <2>1, <2>2, <2>3, FS_Subset
<1>3. Waits(n) = IF Route[n].op = "wait" THEN Waits(n - 1) \union {n} ELSE Waits(n - 1)
  BY <1>1 DEF Waits
<1> QED BY <1>2, <1>3, FS_AddElement, FS_CardinalityType

-----------------------------------------------------------------------------
\* A process that ends leaves the other as it is; a game's end keeps what the
\* file holds of its log, and adds no segment.
LEMMA EndsFacts ==
    ASSUME Typed, Reading, NEW p \in Procs, NEW how \in {"clean", "ended"},
           NEW tidy \in BOOLEAN, Ends(p, how, tidy)
    PROVE  /\ proc' \in [Procs -> {"none", "live", "clean", "ended"}]
           /\ \A q \in Procs : proc'[q] = IF q = p THEN how ELSE proc[q]
           /\ shm' \subseteq shm
           /\ log' \in Seq(Texts) /\ flushed' \in flushed..Len(log')
           /\ \A k \in 1..flushed : log'[k] = log[k]
<1>1. /\ proc' = [proc EXCEPT ![p] = how]
      /\ proc \in [Procs -> {"none", "live", "clean", "ended"}]
  BY DEF Ends, Typed
<1>2. log \in Seq(Texts) /\ Len(log) \in Nat /\ flushed \in 0..Len(log)
  BY DEF Reading
<1>3. CASE p # "game" \/ tidy
  <2>1. log' = log /\ flushed' \in {flushed, Len(log)} /\ shm' \subseteq shm
    BY <1>3 DEF Ends
  <2> QED BY <1>1, <1>2, <2>1
<1>4. CASE p = "game" /\ ~tidy
  <2>1. log' = SubSeq(log, 1, flushed) /\ flushed' = flushed /\ shm' = shm
    BY <1>4 DEF Ends
  <2>2. /\ SubSeq(log, 1, flushed) \in Seq(Texts)
        /\ Len(SubSeq(log, 1, flushed)) = flushed
        /\ \A k \in 1..flushed : SubSeq(log, 1, flushed)[k] = log[k]
    BY <1>2, SubSeqProperties, \A k \in 1..flushed : log[k] \in Texts
  <2> QED BY <1>1, <1>2, <2>1, <2>2
<1> QED BY <1>3, <1>4

\* What the file held stays in it, and so do the matches.
LEMMA LogGrows ==
    ASSUME Reading, UNCHANGED <<from, synced, milestones>>,
           log' \in Seq(Texts), flushed' \in flushed..Len(log'),
           \A k \in 1..flushed : log'[k] = log[k]
    PROVE  Reading'
<1>1. from \in 0..flushed /\ flushed \in Nat /\ synced \in [file : 0..from, log : Nat]
      /\ Len(log') \in Nat
  BY DEF Reading
<1>2. from \in 0..flushed' /\ flushed' \in 0..Len(log')
  BY <1>1
<1>3. \A i \in 1..Len(milestones) : log'[milestones[i].at] = milestones[i].text
  <2> SUFFICES ASSUME NEW i \in 1..Len(milestones)
               PROVE  log'[milestones[i].at] = milestones[i].text
    OBVIOUS
  <2>1. milestones[i].at \in 1..from /\ log[milestones[i].at] = milestones[i].text
    BY DEF Reading
  <2>2. milestones[i].at \in 1..flushed
    BY <1>1, <2>1
  <2> QED BY <2>1, <2>2
<1> QED BY <1>1, <1>2, <1>3 DEF Reading

\* The run before its first process satisfies IInv.
LEMMA InitIsGood == Init => IInv
<1> SUFFICES ASSUME Init PROVE IInv
  OBVIOUS
<1>0. /\ pc = "inventory" /\ step = 1 /\ proc = [p \in Procs |-> "none"]
      /\ held = {} /\ terms = 0 /\ struck = "nowhere"
      /\ log = <<>> /\ flushed = 0 /\ from = 0 /\ milestones = <<>>
      /\ error = "none" /\ shm \subseteq OtherSegs /\ before = {}
      /\ verdict = "none"
  BY DEF Init
<1>1. Typed
  <2>1. proc \in [Procs -> {"none", "live", "clean", "ended"}]
        /\ ~Live("game") /\ ~Live("xvfb")
    BY <1>0 DEF Live, Procs
  <2> QED BY <1>0, <2>1 DEF Typed
<1>2. Custody
  BY <1>0, <1>1 DEF Custody, Live, Procs, Sweeping, Over
<1>3. Reading
  <2>1. Len(<<>>) = 0 /\ <<>> \in Seq(Texts) /\ <<>> \in Seq(Milestones)
    OBVIOUS
  <2>2. synced \in [file : 0..0, log : Nat]
    BY DEF Init
  <2> QED BY <1>0, <2>1, <2>2 DEF Reading
<1>4. Counted
  <2>1. Waits(0) = {}
    BY DEF Waits
  <2>2. Cardinality(Waits(0)) = 0
    BY <2>1, FS_EmptySet
  <2>3. step = 1 /\ Len(milestones) = 0 /\ step - 1 = 0
    BY <1>0
  <2> QED BY <1>0, <2>2, <2>3, RouteAssumption DEF Counted, Closing, Sweeping
<1>5. Passing
  BY <1>0 DEF Passing, Over
<1> QED BY <1>1, <1>2, <1>3, <1>4, <1>5 DEF IInv

-----------------------------------------------------------------------------
\* The control points, the processes and the handler stay in range.
LEMMA TypedStep == IInv /\ [Next]_vars => Typed'
<1> SUFFICES ASSUME IInv, [Next]_vars PROVE Typed'
  OBVIOUS
<1>0. Typed /\ Reading
  BY DEF IInv
<1> USE DEF frame, procVars, termVars, logVars, textVars, stepVars, outside,
           sweepVars, sweepFrame
<1> USE DEF Live, Procs, Spawning, Closing, Sweeping, Trying, Over
<1>1. CASE Inventory
  BY <1>0, <1>1 DEF Inventory, Typed
<1>2. CASE Start
  <2>1. ASSUME Spawn("spawnX", "xvfb", "bindX") PROVE Typed'
    BY <1>0, <2>1 DEF Spawn, Finally, Typed
  <2>2. ASSUME Spawn("spawnG", "game", "bindG") PROVE Typed'
    BY <1>0, <2>2 DEF Spawn, Finally, Typed
  <2>3. ASSUME Bind("bindX", "xvfb", "warmX") PROVE Typed'
    BY <1>0, <2>3 DEF Bind, Typed
  <2>4. ASSUME Bind("bindG", "game", "route") PROVE Typed'
    BY <1>0, <2>4 DEF Bind, Typed
  <2>5. CASE WarmX
    BY <1>0, <2>5 DEF WarmX, Finally, Typed
  <2> QED BY <1>2, <2>1, <2>2, <2>3, <2>4, <2>5 DEF Start
<1>3. CASE Walk
  <2>1. CASE Act \/ Match \/ Look \/ SyncLog \/ PresentBegins \/ PresentEnds
    BY <1>0, <2>1 DEF Act, Match, Look, SyncLog, PresentBegins, PresentEnds, Typed
  <2>2. CASE GivesUp
    BY <1>0, <2>2 DEF GivesUp, Finally, Typed
  <2>3. CASE RouteEnds
    BY <1>0, <2>3 DEF RouteEnds, Typed
  <2> QED BY <1>3, <2>1, <2>2, <2>3 DEF Walk
<1>4. CASE Close
  <2>1. ASSUME NEW at \in {"request", "ask"}, NEW next \in Closing, NEW wanted,
               Asks(at, next, wanted)
        PROVE  Typed'
    <3>1. proc' \in [Procs -> {"none", "live", "clean", "ended"}]
      BY <1>0, <2>1, EndsFacts DEF Asks, Untouched, Typed
    <3> QED BY <1>0, <2>1, <3>1 DEF Asks, Typed
  <2>2. ASSUME NEW at \in {"reapGame", "reapX"}, NEW p \in Procs,
               NEW next \in {"reapX"} \union Sweeping, Reap(at, p, next)
        PROVE  Typed'
    <3>1. proc' \in [Procs -> {"none", "live", "clean", "ended"}]
      BY <1>0, <2>2, EndsFacts DEF Reap, Untouched, Typed
    <3> QED BY <1>0, <2>2, <3>1 DEF Reap, Typed
  <2>3. CASE Sweep
    BY <1>0, <2>3 DEF Sweep, Survey, List, Unlink, SweepEnds, Recount, SweepFails, Judge,
                      Typed
  <2> QED BY <1>4, <2>1, <2>2, <2>3 DEF Close, Request, Ask
<1>5. CASE SigTerm
  BY <1>0, <1>5 DEF SigTerm, AfterTerm, Typed
<1>6. CASE GameWrites \/ LogFlushes \/ GameMaps
  BY <1>0, <1>6 DEF GameWrites, LogFlushes, GameMaps, Typed
<1>7. CASE ProcessExits
  BY <1>0, <1>7, EndsFacts DEF ProcessExits, Typed
<1>8. CASE OtherRun
  BY <1>0, <1>8 DEF OtherRun, Typed
<1>9. CASE TimeRunsOut \/ UNCHANGED vars
  BY <1>0, <1>9 DEF TimeRunsOut, vars, Typed
<1> QED BY <1>1, <1>2, <1>3, <1>4, <1>5, <1>6, <1>7, <1>8, <1>9
        DEF Next, Driver, Surroundings

\* What is alive can be found by close(), and close() leaves nothing alive.
LEMMA CustodyStep == IInv /\ [Next]_vars => Custody'
<1> SUFFICES ASSUME IInv, [Next]_vars PROVE Custody'
  OBVIOUS
<1>0. Typed /\ Reading /\ Custody
  BY DEF IInv
<1> USE DEF frame, procVars, termVars, logVars, textVars, stepVars, outside,
           sweepVars, sweepFrame
<1> USE DEF Live, Spawning, Closing, Sweeping, Trying, Over
<1>1. CASE Inventory
  BY <1>0, <1>1 DEF Inventory, Typed, Custody
<1>2. CASE Start
  <2>1. ASSUME Spawn("spawnX", "xvfb", "bindX") PROVE Custody'
    BY <1>0, <2>1 DEF Spawn, Finally, Typed, Custody, Procs
  <2>2. ASSUME Spawn("spawnG", "game", "bindG") PROVE Custody'
    BY <1>0, <2>2 DEF Spawn, Finally, Typed, Custody, Procs
  <2>3. ASSUME Bind("bindX", "xvfb", "warmX") PROVE Custody'
    BY <1>0, <2>3 DEF Bind, Custody
  <2>4. ASSUME Bind("bindG", "game", "route") PROVE Custody'
    BY <1>0, <2>4 DEF Bind, Custody
  <2>5. CASE WarmX
    BY <1>0, <2>5 DEF WarmX, Finally, Custody
  <2> QED BY <1>2, <2>1, <2>2, <2>3, <2>4, <2>5 DEF Start
<1>3. CASE Walk
  <2>1. CASE Act \/ Match \/ Look \/ SyncLog \/ PresentBegins \/ PresentEnds
    BY <1>0, <2>1 DEF Act, Match, Look, SyncLog, PresentBegins, PresentEnds, Custody
  <2>2. CASE GivesUp
    BY <1>0, <2>2 DEF GivesUp, Finally, Custody
  <2>3. CASE RouteEnds
    BY <1>0, <2>3 DEF RouteEnds, Custody
  <2> QED BY <1>3, <2>1, <2>2, <2>3 DEF Walk
<1>4. CASE Request \/ Ask
  <2>1. ASSUME NEW at \in {"request", "ask"}, NEW next \in {"ask", "reapGame"},
               NEW wanted, Asks(at, next, wanted)
        PROVE  Custody'
    <3>1. \A q \in Procs : proc'[q] = "live" => proc[q] = "live"
      BY <1>0, <2>1, EndsFacts DEF Asks, Untouched, Procs
    <3> QED BY <1>0, <2>1, <3>1 DEF Asks, Custody, Procs
  <2> QED BY <1>4, <2>1 DEF Request, Ask
<1>5. CASE Reap("reapGame", "game", "reapX")
  <2>1. \A q \in Procs : proc'[q] = "live" => proc[q] = "live"
    BY <1>0, <1>5, EndsFacts DEF Reap, Untouched, Procs
  <2>2. pc' = "reapX" => ~("game" \in held /\ proc'["game"] = "live")
    BY <1>0, <1>5, EndsFacts DEF Reap, Untouched, Procs
  <2>3. pc = "reapGame" /\ pc' \in {"reapGame", "reapX"} /\ UNCHANGED <<held, struck>>
    BY <1>5 DEF Reap
  <2> QED BY <1>0, <2>1, <2>2, <2>3 DEF Custody, Procs
<1>6. ASSUME NEW next \in {"survey", "list"}, Reap("reapX", "xvfb", next)
      PROVE  Custody'
  <2>1. \A q \in Procs : proc'[q] = "live" => proc[q] = "live"
    BY <1>0, <1>6, EndsFacts DEF Reap, Untouched, Procs
  <2>2. pc' \in Sweeping => ~("xvfb" \in held /\ proc'["xvfb"] = "live")
    BY <1>0, <1>6, EndsFacts DEF Reap, Untouched, Procs
  <2>3. pc = "reapX" /\ pc' \in {"reapX", "survey", "list"} /\ UNCHANGED <<held, struck>>
    BY <1>6 DEF Reap
  <2> QED BY <1>0, <2>1, <2>2, <2>3 DEF Custody, Procs
<1>7. CASE Sweep
  <2>1. /\ pc \in Sweeping /\ pc' \in Sweeping \union Over
        /\ UNCHANGED <<proc, held, struck, before>>
    BY <1>7 DEF Sweep, Survey, List, Unlink, SweepEnds, Recount, SweepFails, Judge
  <2>2. ASSUME struck \notin Unsafe, struck \notin Sweeping, pc' \in {"recount"} \union Over
        PROVE  shm' \intersect OwnSegs = {} \/ halted' \intersect OtherSegs # {}
    <3>1. CASE Survey
      BY <2>2, <3>1 DEF Survey, LosesEntry
    <3>2. CASE List
      BY <2>2, <3>2 DEF List, LosesEntry
    <3>3. CASE Unlink
      BY <1>0, <2>2, <3>3 DEF Unlink, Custody
    <3>4. CASE SweepEnds
      BY <1>0, <2>2, <3>4 DEF SweepEnds, Custody
    <3>5. CASE Recount
      BY <1>0, <2>2, <3>5 DEF Recount, LosesEntry, Custody
    <3> QED BY <1>7, <3>1, <3>2, <3>3, <3>4, <3>5 DEF Sweep
  <2>3. ASSUME struck \notin Unsafe, pc' = "sweep"
        PROVE  /\ shm' \intersect OwnSegs \subseteq listed'
               /\ listed' \ shm' \subseteq OtherSegs
    <3>1. CASE List
      BY <1>0, <2>3, <3>1, SegsAssumption DEF List, SweepFails, Typed
    <3>2. CASE Unlink
      BY <1>0, <2>3, <3>2 DEF Unlink, SweepFails, Custody
    <3>3. CASE Survey \/ SweepEnds \/ Recount
      BY <2>3, <3>3 DEF Survey, SweepEnds, Recount, Judge
    <3> QED BY <1>7, <3>1, <3>2, <3>3 DEF Sweep
  <2> QED BY <1>0, <2>1, <2>2, <2>3 DEF Custody
<1>8. CASE SigTerm
  <2>1. /\ UNCHANGED <<proc, held, sweepVars>> /\ pc \notin Over
        /\ struck' = IF terms = 0 THEN pc ELSE struck
    BY <1>8 DEF SigTerm
  <2>2. CASE handler = "ignore"
    <3>1. pc' = pc
      BY <1>8, <2>2 DEF SigTerm
    <3> QED BY <1>0, <2>1, <3>1 DEF Custody, Typed, Unsafe
  <2>3. CASE handler # "ignore"
    <3>1. terms = 0 /\ struck' = pc /\ struck = "nowhere"
      BY <1>0, <2>1, <2>3 DEF Typed
    <3>2. CASE pc \in Unsafe
      BY <3>1, <3>2 DEF Custody
    <3>3. CASE pc \in Sweeping
      <4>1. pc' = "gone"
        BY <1>8, <2>3, <3>3 DEF SigTerm
      <4> QED BY <1>0, <2>1, <3>1, <3>3, <4>1 DEF Custody, Unsafe
    <3>4. CASE pc \notin Unsafe \union Sweeping
      <4>1. pc \in Trying /\ pc' = "ask"
        BY <1>0, <1>8, <2>3, <3>4 DEF SigTerm, Typed, Unsafe
      <4> QED BY <1>0, <2>1, <3>1, <3>4, <4>1 DEF Custody, Unsafe
    <3> QED BY <3>2, <3>3, <3>4
  <2> QED BY <2>2, <2>3
<1>9. CASE GameWrites \/ LogFlushes \/ TimeRunsOut
  BY <1>0, <1>9 DEF GameWrites, LogFlushes, TimeRunsOut, Custody
<1>10. CASE GameMaps
  BY <1>0, <1>10 DEF GameMaps, Custody
<1>11. CASE ProcessExits
  <2>1. /\ \A q \in Procs : proc'[q] = "live" => proc[q] = "live"
        /\ pc' = pc /\ pc \notin Over /\ UNCHANGED <<held, struck>>
    BY <1>0, <1>11, EndsFacts DEF ProcessExits, Procs
  <2>2. struck \notin Unsafe => pc \notin Sweeping
    BY <1>0, <1>11 DEF ProcessExits, Procs, Custody
  <2> QED BY <1>0, <2>1, <2>2 DEF Custody, Procs
<1>12. CASE OtherRun
  BY <1>0, <1>12, SegsAssumption DEF OtherRun, Custody
<1>13. CASE UNCHANGED vars
  BY <1>0, <1>13 DEF vars, Custody
<1> QED BY <1>1, <1>2, <1>3, <1>4, <1>5, <1>6, <1>7, <1>8, <1>9, <1>10, <1>11,
           <1>12, <1>13 DEF Next, Driver, Close, Surroundings

\* What fails is noted, so that a run that passes has swept to the end.
LEMMA PassingStep == IInv /\ [Next]_vars => Passing'
<1> SUFFICES ASSUME IInv, [Next]_vars PROVE Passing'
  OBVIOUS
<1>0. Typed /\ Custody /\ Passing
  BY DEF IInv
<1> USE DEF frame, procVars, termVars, logVars, textVars, stepVars, outside,
           sweepVars, sweepFrame
<1> USE DEF Live, Spawning, Closing, Sweeping, Trying, Over
\* Before the sweep, and beside it, nothing is judged.
<1>1. ASSUME pc' # "recount", UNCHANGED <<struck, verdict>>,
             error' = error \/ error' # "none", pc \notin Over
      PROVE  Passing'
  BY <1>0, <1>1 DEF Passing
<1>2. CASE Inventory \/ Start \/ Walk
  BY <1>1, <1>2 DEF Inventory, Start, Spawn, Bind, WarmX, Finally, Walk, Act, Match, Look,
                    SyncLog, PresentBegins, PresentEnds, GivesUp, RouteEnds, At
<1>3. CASE Request \/ Ask \/ Reap("reapGame", "game", "reapX")
  BY <1>1, <1>3 DEF Request, Ask, Asks, Reap
<1>4. ASSUME NEW next \in {"survey", "list"}, Reap("reapX", "xvfb", next) PROVE Passing'
  BY <1>1, <1>4 DEF Reap
<1>5. CASE Survey \/ List
  BY <1>0, <1>5 DEF Survey, List, SweepFails, Passing
<1>6. CASE Unlink
  BY <1>0, <1>6 DEF Unlink, SweepFails, Passing
<1>7. CASE SweepEnds
  <2>1. error = "none" => shm \intersect OwnSegs = {} /\ struck = "nowhere"
    BY <1>0, <1>7 DEF SweepEnds, Passing, Custody, Unsafe
  <2> QED BY <1>0, <1>7, <2>1 DEF SweepEnds, Judge, Passing
<1>8. CASE Recount
  BY <1>0, <1>8 DEF Recount, Judge, Passing
<1>9. CASE SigTerm
  BY <1>0, <1>9 DEF SigTerm, AfterTerm, Typed, Passing
<1>10. CASE GameMaps
  <2>1. ~(pc = "recount" /\ error = "none") /\ verdict # "pass"
    BY <1>0, <1>10 DEF GameMaps, Passing, Custody, Unsafe
  <2> QED BY <1>0, <1>10, <2>1 DEF GameMaps, Passing
<1>11. ASSUME shm' \intersect OwnSegs \subseteq shm \intersect OwnSegs,
              UNCHANGED <<pc, struck, error, verdict>>
       PROVE  Passing'
  BY <1>0, <1>11 DEF Passing
<1>12. CASE ProcessExits
  BY <1>11, <1>12 DEF ProcessExits, Ends
<1>13. CASE OtherRun
  BY <1>11, <1>13, SegsAssumption DEF OtherRun
<1>14. CASE GameWrites \/ LogFlushes \/ TimeRunsOut \/ UNCHANGED vars
  BY <1>11, <1>14 DEF GameWrites, LogFlushes, TimeRunsOut, vars
<1> QED BY <1>2, <1>3, <1>4, <1>5, <1>6, <1>7, <1>8, <1>9, <1>10, <1>12, <1>13, <1>14
        DEF Next, Driver, Close, Sweep, Surroundings

\* A match is beyond what was taken off before, and the file only grows.
LEMMA ReadingStep == IInv /\ [Next]_vars => Reading'
<1> SUFFICES ASSUME IInv, [Next]_vars PROVE Reading'
  OBVIOUS
<1>0. Typed /\ Reading
  BY DEF IInv
<1>1. /\ Len(log) \in Nat /\ flushed \in 0..Len(log) /\ from \in 0..flushed
      /\ synced \in [file : 0..from, log : Nat] /\ log \in Seq(Texts)
  BY <1>0 DEF Reading
<1> USE DEF frame, procVars, termVars, logVars, textVars, stepVars, outside,
           sweepVars, sweepFrame
<1>2. ASSUME UNCHANGED <<log, flushed, from, synced, milestones>> PROVE Reading'
  BY <1>0, <1>2 DEF Reading
<1>3. CASE Inventory \/ Start \/ SigTerm \/ UNCHANGED vars
  BY <1>2, <1>3 DEF Inventory, Start, Spawn, Bind, WarmX, SigTerm, vars
<1>4. CASE Match
  <2> DEFINE k == Min(Matches)
             m == [text |-> Arg, at |-> k, synced |-> synced]
  <2>1. k \in Matches
    <3>1. Matches \subseteq Nat
      BY <1>1 DEF Matches
    <3>2. Matches # {}
      BY <1>4 DEF Match
    <3> QED BY <3>1, <3>2, MinIsLeast
  <2>2. /\ milestones' = Append(milestones, m) /\ from' = k
        /\ UNCHANGED <<log, flushed, synced>>
    BY <1>4 DEF Match
  <2> HIDE DEF k
  <2>3. k \in from + 1..flushed /\ log[k] = Arg
    BY <2>1 DEF Matches
  <2>4. m \in Milestones
    BY <1>1, <2>3 DEF Milestones
  <2>5. /\ milestones \in Seq(Milestones) /\ Len(milestones) \in Nat
        /\ \A i \in 1..Len(milestones) :
              milestones[i] \in Milestones /\ milestones[i].at \in 1..from
    BY <1>0 DEF Reading
  <2>6. /\ milestones' \in Seq(Milestones)
        /\ Len(milestones') = Len(milestones) + 1
        /\ milestones'[Len(milestones) + 1] = m
        /\ \A i \in 1..Len(milestones) : milestones'[i] = milestones[i]
    BY <2>2, <2>4, <2>5
  <2>7. from' \in 0..flushed' /\ synced' \in [file : 0..from', log : Nat] /\ from <= from'
    BY <1>1, <2>2, <2>3
  <2>8. /\ m.at = k /\ m.synced = synced /\ m.text = Arg
        /\ m.synced.file \in 0..from
    BY <1>1
  <2> HIDE DEF m
  <2>9. \A i \in 1..Len(milestones') :
           /\ milestones'[i].at \in 1..from'
           /\ milestones'[i].at > milestones'[i].synced.file
           /\ log'[milestones'[i].at] = milestones'[i].text
    <3> TAKE i \in 1..Len(milestones')
    <3>1. CASE i = Len(milestones) + 1
      BY <1>1, <2>2, <2>3, <2>6, <2>8, <3>1
    <3>2. CASE i \in 1..Len(milestones)
      BY <1>0, <1>1, <2>2, <2>3, <2>5, <2>6, <2>7, <3>2 DEF Reading
    <3> QED BY <2>5, <2>6, <3>1, <3>2
  <2>10. \A i \in 1..Len(milestones') - 1 : milestones'[i].at < milestones'[i + 1].at
    <3> TAKE i \in 1..Len(milestones') - 1
    <3>1. CASE i = Len(milestones)
      <4>1. /\ milestones'[i].at = milestones[i].at /\ milestones[i].at \in 1..from
            /\ milestones'[i + 1] = m
        BY <2>5, <2>6, <3>1
      <4> QED BY <1>1, <2>3, <2>8, <4>1
    <3>2. CASE i \in 1..Len(milestones) - 1
      <4>1. milestones'[i] = milestones[i] /\ milestones'[i + 1] = milestones[i + 1]
        BY <2>5, <2>6, <3>2
      <4>2. milestones[i].at < milestones[i + 1].at
        BY <1>0, <3>2 DEF Reading
      <4> QED BY <4>1, <4>2
    <3> QED BY <2>5, <2>6, <3>1, <3>2
  <2> QED BY <1>1, <2>2, <2>6, <2>7, <2>9, <2>10 DEF Reading
<1>5. CASE SyncLog
  <2>1. /\ from' = flushed /\ synced' = [file |-> flushed, log |-> Len(log)]
        /\ UNCHANGED <<log, flushed, milestones>>
    BY <1>5 DEF SyncLog, Discarded
  <2>2. /\ from' \in 0..flushed' /\ synced' \in [file : 0..from', log : Nat]
        /\ 1..from \subseteq 1..from'
    BY <1>1, <2>1
  <2> QED BY <1>0, <2>1, <2>2 DEF Reading
<1>6. CASE Act \/ Look \/ PresentBegins \/ PresentEnds \/ GivesUp \/ RouteEnds
  BY <1>2, <1>6 DEF Act, Look, PresentBegins, PresentEnds, GivesUp, RouteEnds
<1>7. CASE Close
  <2>1. ASSUME Untouched, UNCHANGED textVars PROVE Reading'
    BY <1>2, <2>1 DEF Untouched
  <2>2. ASSUME NEW p \in Procs, NEW how \in {"clean", "ended"},
               NEW tidy \in BOOLEAN, Ends(p, how, tidy), UNCHANGED textVars
        PROVE  Reading'
    BY <1>0, <2>2, EndsFacts, LogGrows
  <2>3. ASSUME NEW at, NEW next, NEW wanted, Asks(at, next, wanted) PROVE Reading'
    BY <2>1, <2>2, <2>3 DEF Asks, Procs
  <2>4. ASSUME NEW at, NEW p \in Procs, NEW next, Reap(at, p, next) PROVE Reading'
    BY <2>1, <2>2, <2>4 DEF Reap
  <2>5. CASE Sweep
    BY <1>2, <2>5 DEF Sweep, Survey, List, Unlink, SweepEnds, Recount
  <2> QED BY <1>7, <2>3, <2>4, <2>5 DEF Close, Request, Ask, Procs
<1>8. CASE GameWrites
  <2>1. PICK l \in Texts : log' = Append(log, l)
    BY <1>8 DEF GameWrites
  <2>2. UNCHANGED <<flushed, from, synced, milestones>>
    BY <1>8 DEF GameWrites
  <2>3. log' \in Seq(Texts) /\ Len(log') = Len(log) + 1
        /\ \A k \in 1..flushed : log'[k] = log[k]
    BY <1>1, <2>1
  <2> QED BY <1>0, <1>1, <2>2, <2>3, LogGrows
<1>9. CASE LogFlushes
  BY <1>0, <1>1, <1>9, LogGrows DEF LogFlushes
<1>10. CASE GameMaps \/ OtherRun \/ TimeRunsOut
  BY <1>2, <1>10 DEF GameMaps, OtherRun, TimeRunsOut
<1>11. CASE ProcessExits
  BY <1>0, <1>11, EndsFacts, LogGrows DEF ProcessExits
<1> QED BY <1>3, <1>4, <1>5, <1>6, <1>7, <1>8, <1>9, <1>10, <1>11
        DEF Next, Driver, Walk, Surroundings

\* Every wait that is done has a match, and a run without an error goes to the
\* end of its route before it closes.
LEMMA CountedStep == IInv /\ [Next]_vars => Counted'
<1> SUFFICES ASSUME IInv, [Next]_vars PROVE Counted'
  OBVIOUS
<1>0. Typed /\ Reading /\ Counted
  BY DEF IInv
<1>1. Len(Route) \in Nat /\ step \in 1..Len(Route) + 1 /\ Len(milestones) \in Nat
  <2>1. milestones \in Seq(Milestones)
    BY <1>0 DEF Reading
  <2>2. step \in 1..Len(Route) + 1
    BY <1>0 DEF Counted
  <2>3. Len(milestones) \in Nat
    BY <2>1
  <2> QED BY <2>2, <2>3, RouteAssumption
<1> USE DEF frame, procVars, termVars, logVars, textVars, stepVars, outside,
           sweepVars, sweepFrame
<1>2. ASSUME UNCHANGED <<step, milestones, verdict>>, verdict = "pass" => pc' = pc,
             pc' \in {"request"} \union Closing \union Sweeping /\ error' = "none" =>
                \/ pc \in {"request"} \union Closing \union Sweeping /\ error = "none"
                \/ step = Len(Route) + 1
      PROVE  Counted'
  BY <1>0, <1>2 DEF Counted
<1>3. ASSUME pc = "route", step \in 1..Len(Route), step' = step + 1,
             UNCHANGED <<pc, verdict>>,
             Len(milestones') = Len(milestones)
                                  + (IF Route[step].op = "wait" THEN 1 ELSE 0)
      PROVE  Counted'
  <2>1. Len(milestones') = Cardinality(Waits(step' - 1))
    <3>1. step' - 1 = step
      BY <1>1, <1>3
    <3>2. Len(milestones) = Cardinality(Waits(step - 1))
      BY <1>0 DEF Counted
    <3> QED BY <1>1, <1>3, <3>1, <3>2, WaitsGrow
  <2>2. verdict # "pass" /\ pc' = "route"
    BY <1>0, <1>3 DEF Counted
  <2>3. step' \in 1..Len(Route) + 1
    BY <1>1, <1>3
  <2> QED BY <1>3, <2>1, <2>2, <2>3 DEF Counted, Closing, Sweeping
<1>4. CASE Inventory \/ Start
  BY <1>0, <1>2, <1>4 DEF Inventory, Start, Spawn, Bind, WarmX, Finally, Closing, Sweeping,
                         Counted
<1>5. CASE Match
  <2>1. Len(milestones') = Len(milestones) + 1
    BY <1>0, <1>1, <1>5 DEF Match, Reading
  <2> QED BY <1>1, <1>3, <1>5, <2>1 DEF Match, At
<1>6. CASE Act \/ SyncLog \/ PresentEnds
  BY <1>1, <1>3, <1>6 DEF Act, SyncLog, PresentEnds, At
<1>7. CASE Look \/ PresentBegins
  BY <1>2, <1>7 DEF Look, PresentBegins
<1>8. CASE GivesUp
  BY <1>0, <1>2, <1>8 DEF GivesUp, Finally, Counted
<1>9. CASE RouteEnds
  <2>1. step = Len(Route) + 1
    BY <1>1, <1>9 DEF RouteEnds
  <2> QED BY <1>0, <1>2, <1>9, <2>1 DEF RouteEnds, Counted
<1>10. CASE Close /\ ~Sweep
  BY <1>0, <1>2, <1>10 DEF Close, Request, Ask, Asks, Reap, Closing, Sweeping,
                          Counted
<1>11. CASE Sweep
  <2>1. /\ pc \in Sweeping /\ pc' \in Sweeping \union Over
        /\ UNCHANGED <<step, milestones>>
        /\ error' = error \/ error' # "none"
        /\ \/ verdict' = verdict
           \/ verdict' = "pass" => pc' = "done" /\ error = "none"
    BY <1>11 DEF Sweep, Survey, List, Unlink, SweepEnds, Recount, SweepFails, Judge,
                 Sweeping, Over
  <2>2. verdict # "pass"
    BY <1>0, <2>1 DEF Counted, Sweeping
  <2> QED BY <1>0, <2>1, <2>2 DEF Counted, Closing, Sweeping, Over
<1>12. CASE SigTerm
  BY <1>0, <1>2, <1>12 DEF SigTerm, Trying, Over, Closing, Sweeping, Spawning, Counted
<1>13. CASE (Surroundings /\ ~SigTerm) \/ UNCHANGED vars
  BY <1>2, <1>13 DEF Surroundings, GameWrites, LogFlushes, GameMaps, ProcessExits,
                     OtherRun, TimeRunsOut, vars
<1> QED BY <1>4, <1>5, <1>6, <1>7, <1>8, <1>9, <1>10, <1>11, <1>12, <1>13
        DEF Next, Driver, Walk, Close, Surroundings

\* Custody and Reading are kept by the driver and by everything around it.
THEOREM Invariance == Spec => []IInv
<1>1. IInv /\ [Next]_vars => IInv'
  BY TypedStep, CustodyStep, PassingStep, ReadingStep, CountedStep DEF IInv
<1> QED BY <1>1, InitIsGood, PTL DEF Spec

-----------------------------------------------------------------------------
\* The X server and the game do not outlive the driver, whatever ends the run,
\* but for a first SIGTERM while a child is created or while close() runs; and
\* they leave no segment, but for a sweep that a SIGTERM interrupts or that
\* fails at a segment of another run; a run that passes leaves none (OracleRun.close,
\* cleanup_owned_shm, the SIGTERM handler).
THEOREM ReapedTheorem == Spec => []Reaped
<1>1. IInv => Reaped
  BY DEF IInv, Custody, Passing, Reaped, Unsafe, Procs, Over, Live
<1> QED BY <1>1, Invariance, PTL

\* Waits match texts of their own, in order, beyond the last sync-log; a run
\* that passes has matched every wait of the route (wait_log, execute).
THEOREM MatchesAreFreshTheorem == Spec => []MatchesAreFresh
<1>1. IInv => MatchesAreFresh
  <2> SUFFICES ASSUME IInv PROVE MatchesAreFresh
    OBVIOUS
  <2>1. \A i \in 1..Len(milestones) :
           /\ milestones[i].at > milestones[i].synced.file
           /\ log[milestones[i].at] = milestones[i].text
    BY DEF IInv, Reading
  <2>2. \A i \in 1..Len(milestones) - 1 : milestones[i].at < milestones[i + 1].at
    BY DEF IInv, Reading
  <2>3. ASSUME verdict = "pass"
        PROVE  Len(milestones) = Cardinality(Waits(Len(Route)))
    <3>1. (Len(Route) + 1) - 1 = Len(Route)
      BY RouteAssumption
    <3> QED BY <2>3, <3>1 DEF IInv, Counted
  <2>4. Waits(Len(Route)) = {i \in 1..Len(Route) : Route[i].op = "wait"}
    BY DEF Waits
  <2> QED BY <2>1, <2>2, <2>3, <2>4 DEF MatchesAreFresh, Quantify
<1> QED BY <1>1, Invariance, PTL
=============================================================================
