------------------------------ MODULE OracleRun ------------------------------
(***************************************************************************)
(* The oracle runner: tools/ac6-oracle-run.py on its own ("runner") and    *)
(* the release gate that drives a subclass of it, run_gate.py ("gate").    *)
(* The driver starts a private X server and the game, each in a process    *)
(* group of its own, walks a route of steps against the game's log, and    *)
(* then reaps both processes and unlinks the shared memory they left.      *)
(*                                                                         *)
(* Around it: the game writes its log through a buffer that reaches the    *)
(* file later, either process may exit at any moment, other runs share     *)
(* /dev/shm, the duration runs out, and timeout(1) sends SIGTERM to the    *)
(* driver alone, between any two of its steps.  A SIGTERM raises           *)
(* KeyboardInterrupt where the driver stands.                              *)
(***************************************************************************)
EXTENDS Naturals, Sequences, FiniteSetsExt

CONSTANTS Route,      \* the steps of the route: records [op, arg]
          Texts,      \* what the game may write to its log: a line is one
                      \* of these or several, and a predicate finds one
          OwnSegs,    \* rexglue_memory_N segments this game may create
          OtherSegs,  \* rexglue_memory_N segments of other runs
          MaxTexts,   \* bound on the length of the log
          MaxTerms    \* bound on the SIGTERMs sent

ASSUME RouteAssumption == Len(Route) \in Nat
\* A segment belongs to the run that creates it.
ASSUME SegsAssumption == OwnSegs \intersect OtherSegs = {}

Procs == {"xvfb", "game"}

VARIABLES driver,     \* which of the two main() functions runs
          movie,      \* a XAM movie is recorded: close() asks the window first
          pc,         \* where the driver is
          stage,      \* the signal terminate_owned() sends next: INT, TERM, KILL
          step,       \* the step of the route being executed
          goal,       \* the PRESENT count a present step waits for, 0 when none
          proc,       \* the two processes; clean: it exited with status 0
          held,       \* those assigned to self.xvfb and self.game
          handler,    \* what a SIGTERM does: "raise" or "ignore"
          terms,      \* SIGTERMs sent
          struck,     \* where the first of them landed (history)
          log,        \* the texts the game has written
          flushed,    \* how many of them the file holds
          read,       \* how many of them new_log_text() has returned
          from,       \* how many of them pending_log_text no longer holds
          synced,     \* how many the file held, and the game had written, at
                      \* the last sync-log (history)
          milestones, \* the matches recorded: [text, at, synced]
          shm, before,\* segments in /dev/shm: now, and when the run began
          listed,     \* segments the sweep has listed and not unlinked yet
          halted,     \* the segment that an inventory or the sweep failed at
                      \* (history)
          late,       \* the duration is over
          error, verdict

procVars  == <<proc, held>>
logVars   == <<log, flushed>>
textVars  == <<read, from, synced, milestones>>
termVars  == <<handler, terms, struck>>
sweepVars == <<shm, listed, halted>>
frame     == <<driver, movie>>
vars == <<frame, pc, stage, step, goal, procVars, termVars, logVars, textVars,
          sweepVars, before, late, error, verdict>>

Live(p) == proc[p] = "live"
Spawning == {"bindX", "bindG"}
Closing  == {"ask", "reapGame", "reapX"}
Trying   == {"spawnX", "warmX", "spawnG", "route", "request"} \union Spawning
Sweeping == {"survey", "list", "sweep", "recount"}
Over     == {"done", "gone"}

Init ==
  /\ driver \in {"runner", "gate"}
  /\ movie \in BOOLEAN
  /\ pc = "inventory" /\ stage = 1 /\ step = 1 /\ goal = 0
  /\ proc = [p \in Procs |-> "none"] /\ held = {}
  /\ handler = "default" /\ terms = 0 /\ struck = "nowhere"
  /\ log = <<>> /\ flushed = 0
  /\ read = 0 /\ from = 0 /\ milestones = <<>>
  /\ synced = [file |-> 0, log |-> 0]
  /\ listed = {} /\ halted = {}
  /\ shm \in SUBSET OtherSegs /\ before = {}
  /\ late = FALSE /\ error = "none" /\ verdict = "none"

-----------------------------------------------------------------------------
(* Starting: a fork, then the assignment that lets close() find the child. *)

\* before = shm_inventory(); OracleRun.__init__ installs the SIGTERM handler.
Inventory ==
  /\ pc = "inventory"
  /\ before' = shm /\ handler' = "raise" /\ pc' = "spawnX"
  /\ UNCHANGED <<frame, stage, step, goal, procVars, terms, struck, logVars,
                 textVars, sweepVars, late, error, verdict>>

\* Everything raised in the try block ends in the finally clause: close().
Finally(why) == error' = why /\ pc' = "ask"

Spawn(at, p, next) ==
  /\ pc = at
  /\ \/ proc' = [proc EXCEPT ![p] = "live"] /\ pc' = next /\ UNCHANGED error
     \/ Finally("error") /\ UNCHANGED proc
  /\ UNCHANGED <<frame, stage, step, goal, held, termVars, logVars, textVars,
                 sweepVars, before, late, verdict>>

Bind(at, p, next) ==
  /\ pc = at
  /\ held' = held \union {p} /\ pc' = next
  /\ UNCHANGED <<frame, stage, step, goal, proc, termVars, logVars, textVars,
                 sweepVars, before, late, error, verdict>>

\* After two seconds the X server must still be there.
WarmX ==
  /\ pc = "warmX"
  /\ IF Live("xvfb") THEN pc' = "spawnG" /\ UNCHANGED error ELSE Finally("error")
  /\ UNCHANGED <<frame, stage, step, goal, procVars, termVars, logVars, textVars,
                 sweepVars, before, late, verdict>>

Start == \/ Spawn("spawnX", "xvfb", "bindX")
         \/ Bind("bindX", "xvfb", "warmX")
         \/ WarmX
         \/ Spawn("spawnG", "game", "bindG")
         \/ Bind("bindG", "game", "route")

-----------------------------------------------------------------------------
(* The route.                                                              *)

At(op) == pc = "route" /\ step <= Len(Route) /\ Route[step].op = op
Arg == Route[step].arg
HasTime == ~late /\ Live("game")      \* require_time() returns

stepVars == <<frame, pc, stage, procVars, termVars, logVars, sweepVars, before,
              late, error, verdict>>

\* sleep, key and mouse steps call require_time(); capture and arm-trace do not.
Act ==
  /\ \/ (At("sleep") \/ At("key")) /\ HasTime
     \/ At("capture") \/ At("arm")
  /\ step' = step + 1
  /\ UNCHANGED <<stepVars, goal, textVars>>

\* The first pending text that matches, once everything visible is read;
\* what follows it, in its line too, stays pending.
Matches == {k \in from + 1 .. flushed : log[k] = Arg}

Match ==
  /\ At("wait") /\ HasTime /\ Matches # {}
  /\ LET k == Min(Matches) IN
     /\ from' = k
     /\ milestones' =
          Append(milestones, [text |-> Arg, at |-> k, synced |-> synced])
  /\ read' = flushed /\ step' = step + 1
  /\ UNCHANGED <<stepVars, goal, synced>>

\* A round of wait_log() that finds nothing keeps the text it has read.
Look ==
  /\ At("wait") /\ HasTime /\ Matches = {} /\ read # flushed
  /\ read' = flushed
  /\ UNCHANGED <<stepVars, step, goal, from, synced, milestones>>

\* Mutant: sync-log forgets the pending text and reads nothing.
DiscardedPending == [from |-> read, read |-> read]

\* sync-log forgets the pending text, and what it can read now.
Discarded == [from |-> flushed, read |-> flushed]

SyncLog ==
  /\ At("sync")
  /\ from' = Discarded.from /\ read' = Discarded.read
  /\ synced' = [file |-> flushed, log |-> Len(log)] /\ step' = step + 1
  /\ UNCHANGED <<stepVars, goal, milestones>>

Presents == Quantify(1 .. flushed, LAMBDA k : log[k] = "PRESENT")

PresentBegins ==
  /\ At("present") /\ goal = 0
  /\ goal' = Presents + Arg
  /\ UNCHANGED <<stepVars, step, textVars>>

PresentEnds ==
  /\ At("present") /\ goal # 0 /\ Presents >= goal
  /\ goal' = 0 /\ step' = step + 1
  /\ UNCHANGED <<stepVars, textVars>>

\* Mutant: a wait looks at the game and not at the clock.
GivesUpAtExit ==
  /\ pc = "route" /\ step <= Len(Route) /\ ~Live("game")
  /\ Finally("error")
  /\ UNCHANGED <<frame, stage, step, goal, procVars, termVars, logVars, textVars,
                 sweepVars, before, late, verdict>>

\* A step fails: the time is over, the game is gone, or, but for a sleep, its
\* own limit has passed or a tool returned an error.
GivesUp ==
  /\ pc = "route" /\ step <= Len(Route) /\ ~At("sync")
  /\ At("sleep") => ~HasTime
  /\ Finally("error")
  /\ UNCHANGED <<frame, stage, step, goal, procVars, termVars, logVars, textVars,
                 sweepVars, before, late, verdict>>

\* Past the last step the gate still asks the window to close.
RouteEnds ==
  /\ pc = "route" /\ step > Len(Route)
  /\ pc' = IF driver = "gate" THEN "request" ELSE "ask"
  /\ UNCHANGED <<frame, stage, step, goal, procVars, termVars, logVars, textVars,
                 sweepVars, before, late, error, verdict>>

Walk == Act \/ Match \/ Look \/ SyncLog \/ PresentBegins \/ PresentEnds
          \/ GivesUp \/ RouteEnds

-----------------------------------------------------------------------------
(* Closing.                                                                *)

\* A process ends; a game that ends tidily takes its segments along and
\* leaves its whole log.
Ends(p, how, tidy) ==
  /\ proc' = [proc EXCEPT ![p] = how]
  /\ IF p # "game" THEN UNCHANGED <<shm, log, flushed>>
     ELSE IF tidy
          THEN /\ shm' = shm \ OwnSegs
               /\ flushed' = Len(log) /\ UNCHANGED log
          ELSE log' = SubSeq(log, 1, flushed) /\ UNCHANGED <<shm, flushed>>

Untouched == UNCHANGED proc /\ UNCHANGED <<shm, log, flushed>>

\* The window is asked to close and given 30 seconds: by request_clean_close()
\* of the gate, and by close() when a movie was recorded.
Asks(at, next, wanted) ==
  /\ pc = at /\ pc' = next
  /\ IF wanted /\ "game" \in held /\ Live("game")
     THEN Untouched \/ \E how \in {"clean", "ended"} : Ends("game", how, how = "clean")
     ELSE Untouched
  /\ UNCHANGED <<frame, stage, step, goal, held, termVars, textVars, before,
                 listed, halted, late, error, verdict>>

Request == Asks("request", "ask", TRUE)
Ask == Asks("ask", "reapGame", movie)

\* terminate_owned(): INT, TERM and KILL to the group, until its leader ends.
Kill == 3

Reap(at, p, next) ==
  /\ pc = at
  /\ IF p \in held /\ Live(p)
     THEN \/ /\ \E tidy \in BOOLEAN : (stage = Kill => ~tidy) /\ Ends(p, "ended", tidy)
             /\ pc' = next /\ stage' = 1
          \/ /\ stage # Kill                  \* SIGKILL cannot be refused
             /\ stage' = stage + 1 /\ Untouched /\ UNCHANGED pc
     ELSE pc' = next /\ stage' = 1 /\ Untouched
  /\ UNCHANGED <<frame, step, goal, held, termVars, textVars, before,
                 listed, halted, late, error, verdict>>

-----------------------------------------------------------------------------
(* The sweep of /dev/shm, between two inventories of the runner.           *)

\* An inventory lists the segments and then asks for the size of each: it
\* fails if another run removes one in between.
LosesEntry ==
  \E s \in shm \intersect OtherSegs : shm' = shm \ {s} /\ halted' = {s}

sweepFrame == <<frame, stage, step, goal, procVars, termVars, logVars, textVars,
                before, late>>

\* The runner's first inventory is outside its try block.
Survey ==
  /\ pc = "survey"
  /\ \/ pc' = "list" /\ UNCHANGED <<shm, halted>>
     \/ LosesEntry /\ pc' = "gone"
  /\ UNCHANGED <<sweepFrame, listed, error, verdict>>

\* The runner notes the failure; in the gate it leaves the finally clause.
SweepFails ==
  IF driver = "gate"
  THEN pc' = "gone" /\ UNCHANGED error
  ELSE pc' = "recount" /\ error' = IF error = "none" THEN "sweep" ELSE error

\* cleanup_owned_shm(): the segments that were not there at the start.
List ==
  /\ pc = "list"
  /\ \/ listed' = shm \ before /\ pc' = "sweep" /\ UNCHANGED <<shm, halted, error>>
     \/ LosesEntry /\ SweepFails /\ UNCHANGED listed
  /\ UNCHANGED <<sweepFrame, verdict>>

\* One segment at a time.  One that is gone meanwhile ends the sweep, and so
\* does one of another user; which user another run has is left open.
Unlink ==
  /\ pc = "sweep"
  /\ \E s \in listed :
        \/ /\ s \in shm /\ shm' = shm \ {s} /\ listed' = listed \ {s}
           /\ UNCHANGED <<pc, halted, error>>
        \/ /\ s \notin shm \/ s \in OtherSegs
           /\ halted' = {s} /\ SweepFails /\ UNCHANGED <<shm, listed>>
  /\ UNCHANGED <<sweepFrame, verdict>>

\* What was interrupted leaves the gate without a verdict.
Judge(tidy) ==
  IF driver = "gate" /\ error = "interrupted"
  THEN pc' = "gone" /\ UNCHANGED verdict
  ELSE /\ pc' = "done"
       /\ verdict' = IF /\ error = "none" /\ tidy
                        /\ ~\E k \in 1 .. flushed : log[k] = "fatal"
                     THEN "pass" ELSE "fail"

\* The gate passes when every step ran and the game had exited with status 0
\* before close().
SweepEnds ==
  /\ pc = "sweep" /\ listed = {}
  /\ IF driver = "gate" THEN Judge(proc["game"] = "clean")
     ELSE pc' = "recount" /\ UNCHANGED verdict
  /\ UNCHANGED <<sweepFrame, sweepVars, error>>

\* The runner passes when nothing failed and /dev/shm is as it was.
Recount ==
  /\ pc = "recount"
  /\ \/ Judge(shm = before) /\ UNCHANGED <<shm, halted>>
     \/ LosesEntry /\ pc' = "gone" /\ UNCHANGED verdict
  /\ UNCHANGED <<sweepFrame, listed, error>>

Sweep == Survey \/ List \/ Unlink \/ SweepEnds \/ Recount

Close == \/ Request \/ Ask
         \/ Reap("reapGame", "game", "reapX")
         \/ Reap("reapX", "xvfb", IF driver = "gate" THEN "list" ELSE "survey")
         \/ Sweep

-----------------------------------------------------------------------------
(* The surroundings.                                                       *)

\* Mutant: the handler stays as it is (before r502).
AfterTermArmed == "raise"

\* The handler ignores every later SIGTERM before it raises.
AfterTerm == "ignore"

\* KeyboardInterrupt: inside the try block it leads to close(); raised inside
\* close(), or after it, it leaves main().
SigTerm ==
  /\ terms < MaxTerms /\ terms' = terms + 1
  /\ pc \notin Over \union {"inventory"}
  /\ struck' = IF terms = 0 THEN pc ELSE struck
  /\ IF handler = "ignore"
     THEN UNCHANGED <<handler, pc, error>>
     ELSE /\ handler' = AfterTerm
          /\ IF pc \in Trying
             THEN pc' = "ask" /\ error' = "interrupted"
             ELSE pc' = "gone" /\ UNCHANGED error
  /\ UNCHANGED <<frame, stage, step, goal, procVars, logVars, textVars,
                 sweepVars, before, late, verdict>>

outside == <<frame, pc, stage, step, goal, held, termVars, textVars, before,
             listed, halted, error, verdict>>

GameWrites ==
  /\ Live("game") /\ Len(log) < MaxTexts
  /\ \E l \in Texts : log' = Append(log, l)
  /\ UNCHANGED <<outside, proc, flushed, shm, late>>

LogFlushes ==
  /\ Live("game") /\ flushed < Len(log)
  /\ flushed' = Len(log)
  /\ UNCHANGED <<outside, proc, log, shm, late>>

GameMaps ==
  /\ Live("game")
  /\ \E s \in OwnSegs : s \notin shm /\ shm' = shm \union {s}
  /\ UNCHANGED <<outside, proc, logVars, late>>

\* Nobody looks at the status of the X server.
ProcessExits ==
  /\ \E p \in Procs, how \in {"clean", "ended"} :
       /\ Live(p) /\ (p = "xvfb" => how = "ended")
       /\ Ends(p, how, how = "clean")
  /\ pc \notin Over
  /\ UNCHANGED <<outside, late>>

\* Another run of the same user comes or goes.
OtherRun ==
  /\ pc \notin Over
  /\ \E s \in OtherSegs : shm' = IF s \in shm THEN shm \ {s} ELSE shm \union {s}
  /\ UNCHANGED <<outside, proc, logVars, late>>

TimeRunsOut ==
  /\ ~late /\ pc \notin Over /\ late' = TRUE
  /\ UNCHANGED <<outside, proc, logVars, shm>>

-----------------------------------------------------------------------------
Driver == Inventory \/ Start \/ Walk \/ Close
Surroundings == SigTerm \/ GameWrites \/ LogFlushes \/ GameMaps \/ ProcessExits
                  \/ OtherRun \/ TimeRunsOut
Next == Driver \/ Surroundings

\* The driver is one thread whose every call returns; each round of a wait or
\* of a present step compares the clock, which goes on, with its limit.
Spec == Init /\ [][Next]_vars /\ WF_vars(Driver)

-----------------------------------------------------------------------------
\* Whatever ends the run, the X server and the game do not outlive it: the
\* promise made for a SIGTERM in ac6-oracle-run.py:730-749, however many more
\* of them follow, but for a first one that lands while a child is being
\* created or while close() runs (see CloseIsWhole).  None of the game's
\* rexglue memory stays in /dev/shm, unless the sweep is interrupted or a
\* segment of another run makes it or an inventory fail; and never after a
\* run that passes.
Reaped ==
  /\ pc \in Over /\ struck \notin Spawning \union Closing =>
       /\ \A p \in Procs : ~Live(p)
       /\ struck \notin Sweeping =>
             shm \intersect OwnSegs = {} \/ halted \intersect OtherSegs # {}
  /\ verdict = "pass" => shm \intersect OwnSegs = {}

\* Waits match a text each, in the order of the log, and never one that the
\* file already held when the last sync-log ran; a run that passes has a
\* match of its own for every wait (wait_log and the sync-log step of execute).
MatchesAreFresh ==
  /\ \A i \in 1 .. Len(milestones) :
       /\ milestones[i].at > milestones[i].synced.file
       /\ log[milestones[i].at] = milestones[i].text
  /\ \A i \in 1 .. Len(milestones) - 1 : milestones[i].at < milestones[i + 1].at
  /\ verdict = "pass" =>
       Len(milestones) = Quantify(1 .. Len(Route), LAMBDA i : Route[i].op = "wait")

\* Every run comes to an end: the route is bounded by the duration, and the
\* closing by the escalation to SIGKILL.
RunEnds == <>(pc \in Over)

-----------------------------------------------------------------------------
(* What the documentation says and the code does not do.                   *)

\* "explicitly discard that history so the following wait can only match a
\* guest event emitted after the edge" (ac6-oracle-run.py:599-602): what was
\* emitted before it and is still in the game's buffer reaches the file later.
SyncIsABoundary ==
  \A i \in 1 .. Len(milestones) : milestones[i].at > milestones[i].synced.log

\* What the comment at ac6-oracle-run.py:731-739 says: a SIGTERM finds the
\* cleanup, and no child outlives the driver.  A first SIGTERM inside close(),
\* or between a fork and its assignment, leaves one running.
CloseIsWhole == pc \in Over => \A p \in Procs : ~Live(p)
=============================================================================
