----------------------------- MODULE VisionEngine -----------------------------
(***************************************************************************)
(* The vision policy engine (tools/ac6_vision_control.py, serve): for each *)
(* observation one action, an archive of cells with the best known path to *)
(* each, and from time to time a restore of a cell's checkpoint.           *)
(*                                                                         *)
(* On the other side of the pipes a bridge applies the actions to a guest  *)
(* that is deterministic and has more states than an observation shows:    *)
(* many of them are one cell.  The bridge reports what it did, truthfully; *)
(* it may lose an action or repeat an observation, and restore another     *)
(* checkpoint.  It shortens an action only when the picture has changed.   *)
(* A checkpoint is known by the state it holds.                            *)
(* The engine may end at any moment, and the next run starts from the      *)
(* archive it last wrote.  Scores are left out: which option is best, and  *)
(* which cell is least explored, is a choice.                              *)
(***************************************************************************)
EXTENDS Integers, Sequences

CONSTANTS
    GuestStates, Boot,  \* the guest's, and the one where a run starts
    Cells, View,        \* what an observation shows, and of each state
    NoCheckpoint,       \* stands for checkpoint: null
    Options,            \* the names of default_options()
    Hold,               \* hold_frames of each option
    Allowed,            \* Policy.candidates() of each cell
    Outcome,            \* the guest: [state, frames] of each state and option
    Neutral,            \* "neutral_1"
    MaxDecisions, MaxFrames, Interval,  \* the budgets and restore_interval
    Faults,             \* what the bridge may do wrong
    MaxRuns             \* bounds the runs that share the archive

ASSUME OptionsAssumption ==
    /\ Neutral \in Options /\ Hold[Neutral] = 1
    /\ \A o \in Options : Hold[o] \in Nat \ {0}
    /\ \A c \in Cells : Allowed[c] \subseteq Options /\ Allowed[c] # {}
ASSUME GuestAssumption ==
    /\ Boot \in GuestStates /\ NoCheckpoint \notin GuestStates
    /\ \A s \in GuestStates : View[s] \in Cells
    /\ \A s \in GuestStates, o \in Options :
          LET next == Outcome[s][o]
          IN  /\ next.state \in GuestStates
              /\ next.frames \in 1..Hold[o]
              /\ next.frames # Hold[o] => View[next.state] # View[s]
ASSUME BudgetsAssumption ==
    /\ MaxDecisions \in Nat \ {0} /\ MaxFrames \in Nat \ {0}
    /\ Interval \in 0..MaxDecisions
    /\ Faults \subseteq {"repeat", "wrong"}

VARIABLES
    engine,     \* the fields of Engine, and where serve() is
    archive,    \* Archive.cells
    disk,       \* the archive file
    wire,       \* the line in one of the two pipes
    guest,      \* the state it is in, frames run, what was last applied
    runs        \* the runs so far

vars == <<engine, archive, disk, wire, guest, runs>>

-----------------------------------------------------------------------------
Unseen == [seen |-> FALSE, path |-> <<>>, astray |-> FALSE,
           checkpoint |-> NoCheckpoint, outcomes |-> [o \in Options |-> {}]]

NoReceipt == [id |-> -1, frames |-> -1, checkpoint |-> NoCheckpoint]
NoAction == [id |-> -1, op |-> "none", cell |-> View[Boot], what |-> Neutral]
Action(op, cell, what) ==
    [id |-> engine.decisions, op |-> op, cell |-> cell, what |-> what]

\* An observation of state s, which the bridge may have kept a checkpoint of.
Observation(s, checkpoint, receipt) ==
    [cell |-> View[s], checkpoint |-> checkpoint, receipt |-> receipt]

Checkpoints(s) == {s, NoCheckpoint}

\* astray (history): the path goes on from a restore of a checkpoint that it
\* does not lead to.
Started == [at |-> "reading", path |-> <<>>, astray |-> FALSE, pending |-> NoAction,
            decisions |-> 0, frames |-> 0]

\* Mutant: the identifier of the receipt is not compared.
ReceiptAcceptedUnnamed(receipt) ==
    LET p == engine.pending
    IN  CASE p.op = "none" -> TRUE
          [] p.op = "restore" -> receipt.frames = 0 /\ receipt.checkpoint = p.what
          [] OTHER -> receipt.frames \in 1..Hold[p.what]

\* validate_receipt(): stop_on_visual_change is set for every hold of more
\* than one frame, so that a short advance within it is always accepted.
ReceiptAccepted(receipt) ==
    LET p == engine.pending
    IN  \/ p.op = "none"
        \/ /\ receipt.id = p.id
           /\ IF p.op = "restore"
              THEN receipt.frames = 0 /\ receipt.checkpoint = p.what
              ELSE receipt.frames \in 1..Hold[p.what]

\* Archive.observe(): the first checkpoint stays, a shorter path replaces the
\* best one; an empty best path counts as none.
Observed(a, o) ==
    LET known == a[o.cell]
        better == ~known.seen \/ known.path = <<>>
                              \/ Len(engine.path) < Len(known.path)
    IN  [a EXCEPT ![o.cell].seen = TRUE,
                  ![o.cell].path = IF better THEN engine.path ELSE @,
                  ![o.cell].astray = IF better THEN engine.astray ELSE @,
                  ![o.cell].checkpoint = IF @ = NoCheckpoint THEN o.checkpoint ELSE @]

\* Archive.update() with what the pending input has led to.
Credited(a, o) ==
    LET p == engine.pending
    IN  IF p.op # "input" THEN a
        ELSE [a EXCEPT ![p.cell].outcomes[p.what] = @ \cup {o.cell}]

Learned(o) == Credited(Observed(archive, o), o)

\* The cells restore_action() chooses from, when it is time to.
Restorable(o) ==
    IF Interval = 0 \/ engine.decisions = 0 \/ engine.decisions % Interval # 0
    THEN {}
    ELSE {c \in Cells \ {o.cell} : Learned(o)[c].checkpoint # NoCheckpoint}

\* The state a path ends in when it is replayed from the boot.
Walk(path) ==
    LET at[i \in 0..Len(path)] ==
            IF i = 0 THEN Boot ELSE Outcome[at[i - 1]][path[i]].state
    IN  at[Len(path)]

\* Mutant: the path goes on from where the restore was asked for.
RestoringOnPath(o, c) ==
    [engine EXCEPT !.at = "saving",
                   !.pending = Action("restore", o.cell, Learned(o)[c].checkpoint),
                   !.decisions = @ + 1]

Restoring(o, c) ==
    LET known == Learned(o)[c]
    IN  [engine EXCEPT !.at = "saving",
                       !.pending = Action("restore", o.cell, known.checkpoint),
                       !.path = known.path,
                       !.astray = Walk(known.path) # known.checkpoint,
                       !.decisions = @ + 1]

\* Mutant: the option is taken although it exceeds the budget.
AffordableAlways(option) == option

\* The budget guard of step().
Affordable(option) ==
    IF engine.frames + Hold[option] > MaxFrames THEN Neutral ELSE option

Playing(o, option) ==
    [engine EXCEPT !.at = "saving", !.pending = Action("input", o.cell, option),
                   !.path = Append(@, option), !.decisions = @ + 1,
                   !.frames = @ + Hold[option]]

-----------------------------------------------------------------------------
Init ==
    /\ engine = Started
    /\ archive = [c \in Cells |-> Unseen]
    /\ disk = archive
    /\ guest = [state |-> Boot, frames |-> 0, last |-> NoReceipt]
    /\ \E kept \in Checkpoints(Boot) : wire = Observation(Boot, kept, NoReceipt)
    /\ runs = 1

Reads == engine.at = "reading" /\ "receipt" \in DOMAIN wire

InBudget == engine.decisions < MaxDecisions /\ engine.frames < MaxFrames

\* step() raises, and serve() ends with it.
Refuses ==
    /\ Reads /\ ~(InBudget /\ ReceiptAccepted(wire.receipt))
    /\ engine' = [engine EXCEPT !.at = "ended"]
    /\ UNCHANGED <<archive, disk, wire, guest, runs>>

\* step(): the observation is learned, then an action goes out.
Decides ==
    /\ Reads /\ InBudget /\ ReceiptAccepted(wire.receipt)
    /\ archive' = Learned(wire)
    /\ IF Restorable(wire) # {}
       THEN \E c \in Restorable(wire) : engine' = Restoring(wire, c)
       ELSE \E o \in Allowed[wire.cell] : engine' = Playing(wire, Affordable(o))
    /\ wire' = engine'.pending
    /\ UNCHANGED <<disk, guest, runs>>

\* atomic_write() of the archive; a terminal observation ends the run.
Saves ==
    /\ engine.at = "saving"
    /\ disk' = archive
    /\ \E at \in {"reading", "ended"} : engine' = [engine EXCEPT !.at = at]
    /\ UNCHANGED <<archive, wire, guest, runs>>

\* The input ends, or the process is killed.
Dies ==
    /\ engine.at # "ended"
    /\ engine' = [engine EXCEPT !.at = "ended"]
    /\ UNCHANGED <<archive, disk, wire, guest, runs>>

\* serve() again: the archive is loaded, and the bridge boots the guest.
Restarts ==
    /\ engine.at = "ended" /\ runs < MaxRuns
    /\ runs' = runs + 1
    /\ engine' = Started
    /\ archive' = disk
    /\ guest' = [state |-> Boot, frames |-> 0, last |-> NoReceipt]
    /\ \E kept \in Checkpoints(Boot) : wire' = Observation(Boot, kept, NoReceipt)
    /\ UNCHANGED disk

-----------------------------------------------------------------------------
(* The bridge.                                                             *)

Asked == "op" \in DOMAIN wire

\* The guest is in state s now, frames later, and the bridge says so.
Shows(s, frames, checkpoint) ==
    LET receipt == [id |-> wire.id, frames |-> frames, checkpoint |-> checkpoint]
    IN  /\ guest' = [state |-> s, frames |-> guest.frames + frames, last |-> receipt]
        /\ \E kept \in Checkpoints(s) : wire' = Observation(s, kept, receipt)
        /\ UNCHANGED <<engine, archive, disk, runs>>

Applies ==
    /\ Asked
    /\ IF wire.op = "restore" THEN Shows(wire.what, 0, wire.what)
       ELSE LET next == Outcome[guest.state][wire.what]
            IN  Shows(next.state, next.frames, NoCheckpoint)

\* The action is lost, and the last observation comes again.
Repeats ==
    /\ Asked /\ "repeat" \in Faults
    /\ wire' = Observation(guest.state, NoCheckpoint, guest.last)
    /\ UNCHANGED <<engine, archive, disk, guest, runs>>

RestoresWrong ==
    /\ Asked /\ "wrong" \in Faults /\ wire.op = "restore"
    /\ \E s \in GuestStates \ {wire.what} : Shows(s, 0, s)

Next ==
    \/ Refuses \/ Decides \/ Saves \/ Dies \/ Restarts
    \/ Applies \/ Repeats \/ RestoresWrong

Spec == Init /\ [][Next]_vars

-----------------------------------------------------------------------------
(* Properties.                                                             *)

\* The best path of each cell, in memory and in the file, leads from the boot
\* to a state that shows that cell, whatever restores, lost actions and ends
\* of the process lie between; but for a path that goes on from the restore of
\* a checkpoint which the best path of its cell does not lead to, as the two
\* may be of different visits (Archive.observe, restore_action).
PathsLead ==
    \A c \in Cells, a \in {archive, disk} :
       a[c].seen => View[Walk(a[c].path)] = c \/ a[c].astray

\* What the guest may show after option o in a state that shows c.
Results(c, o) ==
    {View[Outcome[s][o].state] : s \in {x \in GuestStates : View[x] = c}}

\* An option is credited with what it does in its cell and nothing else: no
\* outcome of another action, a restore or a repeated observation gets into
\* the statistics the policy is made of (validate_receipt, step).
CreditIsDue ==
    \A c \in Cells, o \in Options, a \in {archive, disk} :
       a[c].outcomes[o] \subseteq Results(c, o)

\* The guest never runs longer than max_guest_frames, and not at all for a
\* decision past max_decisions.
WithinBudget == guest.frames <= MaxFrames /\ engine.decisions <= MaxDecisions

-----------------------------------------------------------------------------
(* What the archive's field promises and the code does not do.             *)

\* best_path (ac6_vision_control.py:425) reaches its cell.  Archive.observe()
\* keeps the first checkpoint of a cell and the shortest path to it, which may
\* lead to another state with the same picture; restore_action() then goes on
\* from the one with the other.
EveryPathLeads ==
    \A c \in Cells : archive[c].seen => View[Walk(archive[c].path)] = c
=============================================================================
