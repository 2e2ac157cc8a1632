# A TLA+ model of the native Ace Combat 6 runtime and its tools

This directory holds TLA+ modules for the parts of the repository that are
programs with a state of their own:

- the native product in `src/reconstruction/ace-combat-6` (C++, *the product*
  below; paths without a prefix are relative to that directory), with its
  content cache;
- the guest kernel on which the recompiled title runs
  (`src/recompilation/ace-combat-6-retail`);
- the agent server and controller in `src/tools/emu_agent`;
- the drivers that run a game against a route: `src/tools/ac6-oracle-run.py`,
  the release gate, and the policy engine `src/tools/ac6_vision_control.py`.

The modules are checked with TLC on small instances. The safety properties of
all eleven specifications, and two refinements, are also proved with TLAPS for
every value of the constants (section 4).

1. [The system](#1-the-system)
2. [Modules and how they correspond to the code](#2-modules-and-how-they-correspond-to-the-code)
3. [Runs: what is checked, within which bounds](#3-runs)
4. [Proofs](#4-proofs)
5. [Where documentation and code part](#5-where-documentation-and-code-part)
6. [What is not modelled](#6-what-is-not-modelled)
7. [Plan](#7-plan)

To run a check: `tlc -config MCRetailSession.cfg MCRetailSession.tla`; to check
a proof: `tlapm CampaignProofs.tla`, and the other `*Proofs` modules likewise.

## 1. The system

### 1.1 Inventory

The repository also contains evidence about the original game (analysis,
reports, research, manifests) and one-shot tools that read inputs and write a
report. What keeps a state and has a protocol is:

| component | state it keeps | operations | sources |
|---|---|---|---|
| campaign progression | per mission: state, objective mask, loadout; save slots | `set_loadout`, `enter_briefing`, `begin`, `complete_objective`, `complete`, `fail`, `snapshot`, `restore`; `save`, `load`, `write_file`, `read_file` | `campaign_progression.cpp` |
| frontend | screen, selected mission, debrief; settings | `dispatch` of Advance, Pause, Resume, Abort, Error, Recover, `select_mission`, `set_loadout`, `enter_debrief`, `return_to_campaign` | `frontend_runtime.cpp` |
| mission execution | HSM state, objectives, published events, checkpoint; owns the services below | `launch`, `dispatch`, objective and radio calls, `lock_target`, `fire_weapon`, `tick`, `save_checkpoint`, `restore_checkpoint` | `product_runtime.cpp` |
| services | combat world, unit registry, waves, AI rules, sequence, radio | a tick each, `spawn_due`, `dispatch_due` | `combat_scenario_frontend.cpp`, `product_runtime.cpp` |
| mission script | cursor (sub-mission, step, current, ended) | `start`, `advance`, `select`, `restore_cursor` | `retail_mission_script.cpp` |
| sequencer | selected sub-mission, counter table | `select`, `apply` (flag orders), `evaluate`, `restore` | `retail_mission_state.cpp` |
| retail session | all of the above for one mission, launch checkpoint, previous buttons | `open*`, `tick`, `advance_script`, `apply_flag_order`, `restart`, `save_checkpoint`, `restore_save` | `retail_session.cpp` |
| session save | slots, `AC6SESS` file | `save`, `load`, `write_file`, `read_file` | `session_save.cpp` |
| play command | none beyond the session | resume a save, loop, save at exit | `retail_commands.cpp` |
| content cache | media, blobs, manifests, indices and three pointers on disk | import, open | `retail_content.cpp`, `retail_media.cpp`, `retail_resource_graph.cpp` |
| guest kernel | events, mutants, critical sections, spin locks, the DPC level, the registry of guest threads, the stop flag | wait, set, pulse, clear, close, signal and wait, lock, raise, create, resume, terminate, return; shutdown | `materialize_native_import_stubs.py` (it writes the C++), `native_guest_threads.{h,cpp}`, `native_runtime.cpp` |
| agent server | v2 sessions: actions, observations, receipts, transport; tombstones | `emu_open_session`, `emu_observe`, `emu_step`, `emu_run_until`, `emu_replay`, `emu_close` | `mcp_server/server.py`, `demo_recomp/transport.py`, `ac6-demo-native/src/ipc.cpp` |
| agent controller | policy state, sequence, identity of the last observation | `step`, `run` | `controller/ac6_fsm.py` |
| oracle runner, gate | X server and game processes, log positions, pending text, `/dev/shm` inventory | start, route steps, `close`, sweep, verdict; SIGTERM | `ac6-oracle-run.py`, `tools/run_gate.py` |
| vision engine | archive of cells, path, pending action, budgets | `step`, `restore_action`, `validate_receipt`, `serve` | `ac6_vision_control.py` |
| the rest | flight model, rendering, parsers, input mapping, exploration engine, replay files | | see section 6 |

### 1.2 How the components interact

**The product** runs on one thread: a caller's loop calls `tick()` once per frame,
and calls go down the table above, never up. What makes it hard is not threads but
*the same fact kept in several places* and moved by calls that may be refused
half-way:

- whether a mission is won or lost is known to the HSM, to the objectives, to
  the campaign, to the frontend's debrief and, in a session, to the script;
- `MissionExecution::dispatch`, `complete_objective` and `fail_objective` change
  the mission and then the campaign; combat (`evaluate_combat`) changes the
  mission only;
- `tick()` is a chain of steps (held event, combat, flight, radio, waves, AI,
  sequence, registry, judgement, failure, success) and any refused step ends it;
- a checkpoint rewinds the mission, the script and the sequencer, but not the
  campaign and not the frontend;
- `select_mission()` works on every screen, also while another mission loads or
  flies;
- the sequence retries a refused event on each later tick;
- a script step may be a condition on counters that flag orders change between
  two frames;
- a save is read by another process, which re-derives what the file leaves out.

**The content cache** is shared by processes: an import publishes file after file
by rename and replaces pointers between them; it may be killed or fail after any
of them, beside other imports, beside a store that is being opened, and a power
failure undoes or tears what was not synced.

**The agent server** answers one call at a time and owns one child process and
one socket per session. A call that talks to a child may find that it exited,
refuses, or answers too late; open, step and replay undo different things then.
The controller is a client of the server: it sends a frame for each observation
and has to let go of the controls however it stops.

**The drivers** (runner and gate) start two processes, follow a log that reaches
the file with a delay, and must reap processes and shared memory however they are
interrupted, also when the interruption is interrupted. The vision engine talks to
a bridge over two pipes and keeps an archive that outlives it.

**The guest kernel** is the one place with threads: guest threads share objects
under one mutex each, notifications come after the mutex is released, and the
shutdown sets a flag, takes the registry and joins.

### 1.3 What makes each component correct

- *campaign*: missions unlock exactly when their prerequisites are won; there is
  always something to play; nothing but a restore loses progress; every save can
  be restored and gives back the same campaign.
- *frontend*: the result of a flight can be recorded, whatever the screens do
  meanwhile, unless the flight was rewound after the campaign had closed it; a
  debrief tells what the campaign recorded; a mission becomes Active out of its own
  briefing, in the hangar, only.
- *execution*: a mission is complete only if the campaign recorded the win; a
  campaign bit is earned once, by an objective; events go out in order; failure
  comes before success; nothing moves while paused.
- *script*: it ends, and only past its last sub-mission; conditions are never
  left half followed; each position survives a save.
- *session*: script, sequencer, objectives, campaign and pause screen agree after
  any order of frames, restarts, saves and resumed saves; the end of the script
  decides whether the mission completes.
- *content cache*: what `current` names is whole at every moment; an import repairs
  whatever is left by earlier ones; a store that is open stays readable.
- *guest kernel*: no wake-up is lost; the DPC level never stays with a thread that
  was terminated; the shutdown ends unless a thread it joins can never go on.
- *agent server*: no child without an owner; what is recorded is what was stepped;
  a session, its log and its receipts behave as a ledger; every call ends.
- *agent controller*: no control is left pressed; success is never claimed for a
  frame that nobody acknowledged.
- *runner and gate*: nothing outlives the run; a wait is not answered by what the
  file held before a sync-log; every run ends.
- *vision engine*: a stored path leads to its cell, as far as restores start from a
  path that leads to the checkpoint; an option is credited with its
  own outcomes only; the budget of guest frames holds.

The hazards, each at its line of the code and with the properties that would
notice it going wrong, are listed in `PROJECT.json`.

## 2. Modules and how they correspond to the code

The methods of each class of the product are operators in a module without
variables (`*Ops`): a guard `CanX(s)`, which is the code's conditions and early
returns, and the state `X`-ed(s) that the method leaves. A module with variables
then lets a caller apply them. So the frontend, the execution and the session use
*the same* campaign operators, as the classes share one `CampaignProgression`
object. The other programs are one module each.

```
CampaignOps ──┬── CampaignProgression ······ CampaignProofs
              ├── FrontendOps ── FrontendCampaign ······ FrontendProofs
              └── ExecutionOps ── MissionExecution ·····┐
ScriptOps ──── MissionScript ···························┼ ProductProofs
FrontendOps + ExecutionOps + ScriptOps ── RetailSession ┘

ContentCache ······ CacheProofs
SessionLedger <── refined by ── AgentSessions ······ SessionsProofs
AgentController, VisionEngine ······ AgentProofs
GuestKernel ······ KernelProofs
OracleRun ······ OracleProofs
```

A dotted line leads to the module that holds the theorems and their proofs.
`ProductProofs` and `AgentProofs` extend several specifications at once, each with
variables of its own, and for that some of them name theirs `ExecutionSpec`,
`ScriptSpec` and `ControllerSpec`.

A call the code refuses without changing anything is not a step. A call that is
refused *after* it changed something is a step (`fail_objective`, a tick that
ends early).

**`CampaignOps`, `CampaignProgression`.** `status` is `entries_[m].status`, the
table `finalize()` accepted is constant: finite, prerequisites known and
acyclic, 1 to 32 objectives. `objective_mask` is the set of its bits. `Won`
contains the trailing `refresh_unlocks()`, `Restored` the re-derivation of
Locked and Available. `slots` is `CampaignSaveStore::slots_`.

**`FrontendOps`, `FrontendCampaign`.** `frontend` is the controller's screen,
selection and debrief; `status` the bound campaign; `flight` the caller's
`MissionExecution`, reduced to mission and outcome: it earns objectives and ends,
and the campaign hears of the end or, for an objective lost in combat, does not.
`checkpoint` is the flight as the caller saved it; `RestoreCheckpoint` is
`MissionExecution::restore_checkpoint` (in a session: Back), which the campaign and
the screens do not hear of, so that a flight may be in progress again in a mission
that is won or lost.
`SetLoadout` is the hangar; `Advance` asks the campaign where the code does.

**`ExecutionOps`, `MissionExecution`.** One record `x` holds what
`MissionExecution` and the services it owns keep. `Ticked(x)` is the set of
states that `tick_impl()` may leave, in the order of the code: `CombatTicks`,
`Flown`, `RadioTicks`, then in `Directed` waves, AI, sequence, and in `Settled`
registry, judgement, failure, success. `DispatchDue` is a recursive
function over the sequence: `Offered` is one turn of the loop, which stops at the
first refusal. Positions, health, cooldown and range are
abstracted: whether a shot is fired, hits and kills is a choice, so the model
has every outcome the numbers could give and some they could not.
`CheckpointOf` keeps the fields the code keeps (a `Checkpoint`); `Reloaded` leaves
the campaign.

**`ScriptOps`, `MissionScript`.** The cursor is that of `MissionScriptRunner`;
`Driven` is `drive_frame()` followed by `resolve_tag7_conditions()`, whose loop is
a recursive function with `Followed` as one turn and `kMaxHops` as the constant
`MaxHops`. Counters are the sequencer's; flag orders
change them between two frames in any order.

**`RetailSession`.** One mission played by controller. `Frames(s, pressed)` is
`RetailSession::tick` with these buttons newly pressed: Back restarts and
returns; otherwise Start, Target, Fire, the script when the fixed tick drives
it, the execution's tick, and the debrief. `SaveAtExit` and `Resume` are the end
of one `play` command and the beginning of the next; `Resume` starts from a
freshly opened session and applies the save, so everything that is not in the
file is what `Opened` gives. There are five ways to open a session: from a
payload (`Payload`, no campaign, and `Diagnostic`, whose fixed tick also drives
the script), from the campaign part of the content cache (`Store`), and from all
of it, with frontend (`Product`, and `FreeFlight` for `play --free-flight`). A free
flight may drop a frame after the buttons were acted on (`FrameRefused`), writes
saves, and refuses to resume one (`SaveRestorable`). The objective of a sub-mission
that a condition jumps over stays Pending, as in `track_objective`.

**`ContentCache`.** A file is a name and whether its bytes are there: names are
digests, so two imports that write one name write the same bytes. `Plan(t)` is
the order in which `RetailContentImporter::run` publishes the media, their
manifest and pointer, the blobs, the graph and its pointer, the index and
`current`; `Skipped` is which of them are left when already there (a blob is
hashed again, a manifest is not). `disk` is what processes see, `kept` what may be
found after a power failure: renaming makes a name visible, syncing the file
(`WrittenSynced`) keeps its bytes, syncing the directory (`NameSynced`) keeps the
name. Each name is lost independently of the others, and a directory that was
synced is taken to keep its own entry in its parent. `OpenSteps` are the checks of
`RetailContentStore::open`, one step each, while imports go on.

**`SessionLedger`, `AgentSessions`.** `SessionLedger` is the promise to a client:
sessions with a log that grows, receipts that are copies of the log, a replay that
appears with the log of one receipt at once or not at all. `AgentSessions` is the
server: the table, the child and the socket of each session, and the call being
served, cut where the other process may act (`Asks`, `ChildServes`,
`ChildAnswers`, `Answered`) or fail (`FindsExit`, `Fails`). A replay is visible in
the server's table while it is built; the refinement mapping hides it (`Visible`)
until its last action is recorded, as the single thread of the server does from
its clients. `Vanish` is the end of the server process, which takes its memory and
its ends of the sockets; children see the end of the stream later. Payload,
digests, observations' contents and the limits on text are left out.

**`AgentController`.** `fsm` is the fields of `AC6AgentFSM`, `sent` the frames
given to `emu_step` with the answers. An observation is what `_observe` can tell
apart: malformed or whose, how new, its terminal domain, its milestones, the
domains that are missing, locked or not; all of them are possible at every step.
Axes and buttons are abstracted to an active or a neutral frame.

**`GuestKernel`.** A step is what happens under one mutex, or without one.
`WaitEvent` checks and sleeps in one step, since the condition variable is waited on
under the mutex; `Notify` is a step of its own after it. `notify_one` wakes any
one sleeper. Semaphores and timers are auto-reset events in this code, and their
releases gather `pending_releases` (`credits`). `todo` is the second half of
`NtSignalAndWaitForSingleObjectEx` and of `NtPulseEvent`. The stop flag is read
where the code reads it: in waits, in contended sections, and in whatever other
import calls the check (`Terminates` with the flag set). A spin lock is a plain
`std::mutex`: a thread blocks in it without a look at the flag, and no unwinding gives
it back. A thread ends in two ways: `Unwinds` is the catch of
`GuestThreadTerminated`, which gives the DPC level back, and `Returns` is the entry
function coming back, which does not. `Unparks` throws outside the try block, as the
entry does.

**`OracleRun`.** Both drivers share the class, so they share the module: `driver`
chooses `main()` of the runner or of the gate. A step is what lies between two
places at which a signal may be delivered with a different effect: a fork and the
assignment that follows it are two. `log`, `flushed`, `read` and `from` are what the
game wrote, what the file holds, what `new_log_text()` has returned and what
`pending_log_text` no longer holds; `synced`, `struck` and `halted` are history. A
text is what a wait's predicate looks for: a line may hold several of them, and a wait
takes the pending text up to the end of its match, so the rest of the line may answer
the next wait. The sweep is `cleanup_owned_shm` segment by segment between the two
inventories of the runner: an inventory fails when another run removes a segment
while its size is asked for (`LosesEntry`), and the sweep at the first segment that is
gone or belongs to another user (which user a foreign segment has is left open); the
runner notes the failure, in the gate it leaves the `finally` clause (`SweepFails`).
The log and the console file are one; only `rexglue_memory_*` segments are modelled:
`xenia_*` segments are counted and never unlinked. SIGKILL is taken to end a process. A recorded
movie is a flag, since it changes `close()`; the gate's strict replay of inputs is
left out.

**`VisionEngine`.** `engine` is the fields of `Engine` and where `serve()` is,
`archive` the cells in memory, `disk` the file `atomic_write` replaces. The guest on
the other side of the pipes is deterministic (`Outcome`) in states of its own, of
which an observation shows the cell only (`View`): two states that look the same
are one cell, as in the code, and may react differently. The bridge reports
truthfully, and may lose an action, repeat an observation or restore another
checkpoint; each observation may carry a checkpoint of the state it shows, and a
checkpoint is named by that state. `Observed` keeps the first checkpoint of a
cell and the shortest path to it, which may be of different states; `astray`
(history) marks paths that go on from the restore of such a pair. Scores are left
out: which allowed option is best, and which
cell with a checkpoint is least explored, is a choice. The engine is killed or ends
at any moment, and the next run starts from the file.

`PROJECT.json` ("map") gives for each definition the lines it stands for.
Definitions preceded by a comment that begins with *Mutant* are deliberate bugs:
no action uses them. Each takes the place of a definition of the same shape once,
to see that the properties notice it; several are bugs that the repository's
history records as fixed (r282, r285, r421, r502).

## 3. Runs

All bounds are constants of the configuration named `MC<module>.cfg`
(`MCKernelEvents.cfg` and `MCKernelShutdown.cfg` for the two of `GuestKernel`).

| run | states | instance | what it shows |
|---|---|---|---|
| `campaign` | 1,885 | 3 missions, 1 → 2, {1, 2} → 3; mission 2 has 2 objectives; 2 loadouts, 1 slot | unlocks on merit, `NeverStuck`, `SavesAreRestorable`, `SaveRestoreIdentity`, progress lost by restore only |
| `frontend` | 17,152 | 3 missions, two open from the start, a checkpoint of the flight | the flight's result can be recorded unless it was rewound in a closed mission (`FlightIsRecordable`); screens and debriefs are true (`ScreensAgree`); no way round briefing and hangar (`ActiveOnlyByRoute`) |
| `execution` | 1,844,640 | a player and a wave, an AI rule, two sequence events, deadline at tick 3, 1 or 2 steps a tick, with and without campaign, a checkpoint taken at tick 1 and restored | `CompleteIsRecorded`, `BitsAreEarned`, `EventsInOrder`, `FailureFirst`, `PausedIsFrozen` |
| `script` | 240 | 4 sub-missions, forward conditions, one onto another, two on counter 0 | `RestsOnPlainStep`, `CursorSurvivesSave`, `ScriptRunsOut` (liveness) |
| `session` | 104,934 | one mission of 3 sub-missions, a condition that jumps over the second, all five ways to open, 2 units, ticks up to 1 | `SavesAreResumable`, `InStep`, `ScriptEndEndsMission`, `BackRestarts` |
| `cache` | 939,433 | 2 targets that share a payload, 2 imports, 1 power failure, a store being opened | `PublishedIsComplete`, `ReimportRepairs`, `OpenedStaysWhole` |
| `kernel_events` | 1,655,417 | 3 guest threads, 1 event, 2 permits | `NoLostWakeup` |
| `kernel_shutdown` | 445,733 | 2 guest threads, a mutant, a section, a spin lock, the DPC level, recursion to depth 2 | `DpcIsNotOrphaned`, `ShutdownEnds` (liveness) |
| `agent` | 608,332 | 3 identifiers, 2 sessions at once, 3 actions, logs of 2, 2 receipts, 1 tombstone | `NoOrphan`, `ExecutedIsRecorded`, `KeepsLedger` (refinement), `CallsEnd` (liveness) |
| `controller` | 2,542 | 2 sessions, 2 frames in each state, 9 frames in all | `Released`, `SuccessIsAcknowledged` |
| `oracle` | 2,070,092 | both drivers; a route of 2 waits around a sync-log, a sleep, a PRESENT count and a capture; 3 log texts, 2 SIGTERMs, 1 own and 1 foreign segment | `Reaped`, `MatchesAreFresh`, `RunEnds` (liveness) |
| `vision` | 467,188 | 2 runs over one archive, 4 guest states behind 3 cells, 3 options, 5 decisions, 6 frames, a restore every second decision, lost actions and wrong restores | `PathsLead`, `CreditIsDue`, `WithinBudget` |

Each module with variables has a type invariant; where a run would list it beside
a property that needs it anyway, it is a conjunct of that property (`ScreensAgree`,
`CompleteIsRecorded`, `RestsOnPlainStep`, `InStep`, `Released`,
`DpcIsNotOrphaned`).

Deadlock is checked but in the runs of programs that end: a server that has
stopped, a controller that is terminal, a shut down runtime, a run that is over,
an engine whose runs are used up (`agent`, `controller`, `kernel_events`,
`kernel_shutdown`, `oracle`, `vision`). That they end where they should is a
liveness property there, or the property says what holds at the end.

### 3.1 Bounds, and why they are enough

- *Missions.* Three, with a chain and a join, are the smallest table in which a
  win opens one mission and not another, and a restore takes an unlock back.
  The theorems are about every table besides.
- *Ticks.* The counter saturates at `MaxTick`, after the last event, wave and
  deadline; ticks go on beyond it with the counter at its bound, which adds no due
  event.
- *Units.* A player and one that arrives are what lock, fire, waves and objectives
  tell apart; a second enemy adds a choice of the nearest.
- *Objectives.* One worked by hand or the sequence and one settled by combat:
  the two ways in which an objective ends.
- *Restores.* One checkpoint, restored once, against every state that may lie
  between; a second restore meets the campaign the first one met. In the `frontend`
  run the checkpoint is taken and restored any number of times.
- *Counters and hops.* `MaxCounter` is beyond every threshold; `MaxHops` is
  larger than the number of steps, so forward jumps never reach it. A condition
  that jumps to itself reaches it, as it reaches 4096 in the code; the cursor
  then rests on a condition, and no modelled script does that.
- *Strides.* `tick()` makes as many fixed steps as time has passed; one and two
  are enough to step over a tick at which something is due.
- *Imports and targets.* A file has a state per name, so what two imports can do
  to one name they do with one medium and one payload per target; the shared
  payload is the name both write. One power failure is followed by an import that
  meets what is left; another failure meets no new kind of file.
- *Sessions and actions.* Two sessions and a third identifier give a replay beside
  its source, at the limit of the table, and an identifier after its session was
  closed. Logs of two have a first, a last and a refused action; the three actions
  contain one that is refused by its tick after one that is accepted.
- *Controller.* Two frames in each state are one to stay and one to run out;
  nine frames are the shortest way to success and use the last slot.
- *Threads.* Two waiters and a signaller, and two permits, are what it takes to
  lose a wake-up between two sets; two threads and one of each lock give every
  order of holding and ending. Of recursion, depth 2 is the first at which giving
  back once is not enough.
- *Route and log.* Two waits for one text around a sync-log are the case in which
  an old line could answer; three log texts are one before, one after and the
  PRESENT. One foreign segment can come, go, and be the one a sweep fails at.
  Two SIGTERMs are one and one during its cleanup; a third meets a
  handler that ignores it as the second does.
- *Guest of the engine.* Two states behind one picture that react differently to one
  option are what it takes for the path of a cell to miss its checkpoint; the other
  two states are ways into and out of them.
- *Engine.* Five decisions hold two restores, and a budget of six frames can be
  exceeded by a hold of two. The second run starts from an archive with paths and
  checkpoints of the first; a third would start from an archive of the same kind.

### 3.2 Fairness

Only liveness uses it.

- `MissionScript`: weak fairness of `Drive`: the headless loop, the probes and the
  fixed tick of a diagnostic session call `advance_script()` until it ends. No flag
  order is fair.
- `AgentSessions`: weak fairness of the server's own next step in a call. While a
  call waits, that step is the answer or the end of the wait, because the
  transport has a deadline (30 seconds, `transport.py`). The child is not fair: it
  may never serve, answer or exit. Of a child it is assumed that it notices the
  end of its socket (`ChildSeesEnd`): its loop does nothing but read frames.
- `GuestKernel`: a thread inside a kernel call goes on (`KernelContinues`), and once
  the stop flag is set each guest thread that keeps making calls meets one that
  looks at the flag (strong fairness of `stop /\ Terminates(t)`: it is enabled
  between calls only). `native_guest_threads.h:8-10` relies on the same. Nobody is
  assumed to set an event, release a lock of any kind, lower the IRQL or resume a
  thread.
- `OracleRun`: weak fairness of the driver: one thread whose every call returns
  in loops that compare the clock with a limit. Most subprocess calls have a timeout;
  the `xdotool` calls (`ac6-oracle-run.py:463-495`, `672-679`) have none, and that they
  return is assumed. Processes, log and signals are not fair.

### 3.3 Properties worth a word

`CompleteIsRecorded` and `BitsAreEarned` together say that no order of objective
calls, combat, events and checkpoints makes mission and campaign disagree about a
win: a replayed checkpoint neither wins again nor is won behind the campaign's
back. `EventsInOrder` is about retries: an event that is refused holds back all
later ones, on this tick and the next. `SaveRestoreIdentity` says that the states
a snapshot omits are exactly the ones `restore()` derives. `SavesAreResumable` is
the same of the whole session: script position, sequencer, world and campaign are
accepted together by the next process, if it opens the same content without free
flight (`restore_save` refuses in a free flight, also what a free flight saved).
`FlightIsRecordable` says of a flight in progress that its win or loss will be taken
by the campaign; the exception it names is real, a flight that Back has rewound after
the campaign closed its mission. `ActiveOnlyByRoute` asks for the mission's own
briefing, so that a reselected mission is not begun on the briefing of another.
`ScriptEndEndsMission` is what the end of the script decides: without it no mission is
complete; after it the next frame ends the mission, unless it is paused, refused or
closed already, if each sub-mission was visited; and if one was jumped over, the
mission does not complete (section 5). It and `BackRestarts` are stated over all
frames that may follow a state, as invariants.

`ReimportRepairs` is about what `Skipped` takes on trust: a manifest that exists is
not read again, so it must never be torn; blobs and media may be, and are hashed.
It is restricted to imports that had the cache for themselves, since two targets in
one cache move each other's media and graph pointers (section 5).

`ExecutedIsRecorded` compares the inputs the child has stepped with the log of the
server, but for the one action in flight; it is what makes a receipt worth
replaying. `KeepsLedger` is the whole server as a refinement: every step of it,
failures included, is a step of the ledger or changes nothing a client can see.

`NoLostWakeup` says that when a thread sleeps on an object that could be claimed,
some thread is woken for it or about to notify. `DpcIsNotOrphaned` is about
terminated threads, wherever they are; a thread whose entry function returns keeps the
level (`materialize_native_import_stubs.py:1309`, `ac6recomp_main.cpp:175`), since the
release is in the catch only. `ShutdownEnds` excepts the threads that can never go
on: those in a wait without a bound, since the flag is set without a notification,
and those in a plain lock for a spin lock or the DPC level that is held by another of
them or by a thread that has ended (`Stuck`). It says something of all the rest:
sections and mutants left behind by threads that ended, contended sections, waits with
a bound, and the order of the unwinding.

`Reaped` is stated for every SIGTERM after the first, and for a first one outside
of the closing itself. Of the shared memory it says that the sweep leaves none of the
run's own, unless it is interrupted or a segment of *another* run makes it or an
inventory fail: then the segments behind that one stay, in the code as in the model. A
run that passes has left none. `MatchesAreFresh` is about lines that sit in the
game's buffer while a sync-log runs, and about lines with more than one text: what
the file already held is never matched, in spite of the text that was read earlier
and is still pending, and no text answers two waits. That a match was *written* after
the sync-log, which the code's comment says, does not hold (`SyncIsABoundary`, section
5).

`PathsLead` needs that a restore takes the path of its target as it is *after* the
observation was learned, that a run starts with an empty path at the boot, and that
an archive written by a killed run is as good as any. Its exception is the one way in
which a path goes wrong: the archive pairs the first checkpoint of a cell with a later,
shorter path (`ac6_vision_control.py:447-450`), the two may be of different guest states,
and a restore (629) goes on from the one with the other. `astray` records exactly
that, at the restore: it compares the state that the target's path leads to with the
one its checkpoint holds. `CreditIsDue` needs the
identifier of the receipt: without it a repeated observation credits the wrong
option.

## 4. Proofs

Each theorem is of the form `Spec => []P` (or `Spec => P` for an action property
and for the refinement), for every value of the constants that the named
assumptions admit; those about scripts have the hypotheses that 4.1 lists.

| module | theorem | property |
|---|---|---|
| `CampaignProofs` | `TypeCorrect`, `MeritTheorem`, `NeverStuckTheorem`, `SavesAreRestorableTheorem`, `SaveRestoreTheorem`, `ProgressTheorem` | `TypeOK`, `UnlockedOnMerit`, `NeverStuck`, `SavesAreRestorable`, `SaveRestoreIdentity`, `ProgressOnlyLostByRestore` |
| `FrontendProofs` | `FlightIsRecordableTheorem`, `ScreensAgreeTheorem`, `RouteTheorem` | `FlightIsRecordable`, `ScreensAgree`, `ActiveOnlyByRoute` |
| | `CampaignTheorem`, `PlayableTheorem` | `Campaign!Spec`; `Campaign!UnlockedOnMerit`, `Campaign!NeverStuck` |
| `CacheProofs` | `PublishedTheorem`, `RepairTheorem`, `OpenedTheorem` | `PublishedIsComplete`, `ReimportRepairs`, `OpenedStaysWhole` |
| `SessionsProofs` | `TypeTheorem`, `NoOrphanTheorem`, `ExecutedTheorem`, `LedgerTheorem` | `TypeOK`, `NoOrphan`, `ExecutedIsRecorded`, `KeepsLedger` |
| `AgentProofs` | `ReleasedTheorem`, `SuccessTheorem` | `Released`, `SuccessIsAcknowledged` |
| | `PathsLeadTheorem`, `CreditIsDueTheorem`, `WithinBudgetTheorem` | `PathsLead`, `CreditIsDue`, `WithinBudget` |
| `KernelProofs` | `WakeupTheorem`, `DpcTheorem` | `NoLostWakeup`, `DpcIsNotOrphaned` |
| `OracleProofs` | `ReapedTheorem`, `MatchesAreFreshTheorem` | `Reaped`, `MatchesAreFresh` |
| `ProductProofs`: mission | `CompleteTheorem`, `EventsTheorem`, `BitsTheorem`, `FailureTheorem`, `PausedTheorem` | `CompleteIsRecorded`, `EventsInOrder`, `BitsAreEarned`, `FailureFirst`, `PausedIsFrozen` |
| script | `CursorTheorem`, `RestsTheorem` | `CursorSurvivesSave`, `RestsOnPlainStep` |
| session | `SavesTheorem`, `BackTheorem`, `InStepTheorem`, `EndTheorem` | `SavesAreResumable`, `BackRestarts`, `InStep`, `ScriptEndEndsMission` |

Every specification has a theorem of invariance (`Invariance`, or
`ControllerInvariance`, `ExecutionInvariance`, `ScriptInvariance`,
`SessionInvariance` and `OrderInvariance`) from which the others follow. None of
the properties is inductive alone. Each
inductive invariant was first checked with TLC on the instance of the run of
section 3, or on a smaller one.

### 4.1 Assumptions

They are named in the modules that declare the constants, and TLC evaluates them in
every run.

- *Campaign, frontend.* What `finalize()` and `add()` refuse: missions are finite and
  at least one, prerequisites are missions and acyclic (every non-empty set of
  missions has one without a prerequisite in it), `objective_count` is 1 to 32; and
  the default loadout is not valid.
- *Cache.* Media and payloads of a target are finite sequences; "no target" is none.
- *Sessions.* The limits are positive numbers, as the server's literals are, and
  sequences and ticks of actions are natural numbers, which `validate_action` sees to.
- *Controller.* Budgets and delays are numbers, and an attack burst has at least one
  frame before it is released.
- *Kernel.* Handles, mutants and "none" are different names; there are finitely many
  guest threads, since wake-ups are counted.
- *Oracle.* The route has a length; a segment is the run's own or another's.
- *Engine.* `Neutral` is an option held for one frame; a hold is at least one
  frame; the guest is deterministic in its own states, of which there may be any number
  behind a cell, and runs between one frame and the whole hold, less only if the cell
  changed (`stop_on_visual_change`).

- *Mission.* The sequence is a finite one, kept sorted by tick by
  `add()`, of the four types of events; a wave brings a unit of its own; numbers are numbers.
- *Script.* What the parser sees to: a step of tag 7 names a counter, one of three
  comparisons and a sub-mission that exists.
- *Session.* One mission with one manual objective per sub-mission, as
  `open_parsed()` builds them, no sequence, waves, rules or deadline, and some valid
  loadout.

All of them are names that differ, or values that the code tests before it starts.

Nothing in the code keeps a script from jumping backwards or from a count byte
that is not the length of its table, so what the script theorems need of it is not
assumed: each theorem has it as a hypothesis of its own, and the modules
`MCMissionScript` and `MCRetailSession` assert that the scripts of the runs have it.

| hypothesis | it says | needed by | without it |
|---|---|---|---|
| `WellFormed` | each count byte is the length of the table, and not zero | all of script and session | the cursor leaves a table too early or runs past it, and a position in between is refused by `restore_cursor()` |
| `ConditionsJumpForward`, `FewConditions` | a condition on a counter leads to a later sub-mission; they are no more than `MaxHops` | `RestsTheorem` | a condition that leads to itself is followed until the bound is reached |
| `StartsPlain(0)` | the first step of the script is not a condition | the session's invariant, `SavesTheorem`, `BackTheorem` | the launch checkpoint names two sub-missions, and Back is refused (section 5) |
| `ConditionsJumpForward`, `AllStartPlain` | a condition on a counter leads to a later sub-mission, over others or not; no sub-mission begins with a condition | `OrderInvariance`, `InStepTheorem`, `EndTheorem` | a jump back finds its objective done and does not begin it again; a condition that begins a sub-mission may leave it in the frame that arrives there, with its objective never begun |

### 4.2 The invariants and the arguments

**Campaign.** That a restored table is unlocked on merit depends on what was saved,
and that a save can be restored depends on the table when it was saved. `IInv` is
about both: `Good(status)` (the table is well formed, a won mission has its full
mask, an active one a valid loadout, one that is Locked or Available an empty mask:
`Consistent`; what is unlocked was earned: `Merit`; what was earned is unlocked:
`NoUnlockMissed`), and every slot is empty or `GoodSave`: it records the four
recorded states only, and with every recorded mission the prerequisites as won.
There is one lemma for each kind of change (`RefreshIsGood`, `LocalChangeIsGood`,
`WonIsGood`, `SnapshotIsGood`, `RestoredIsGood`), cited by the step of each action.
`NeverStuckTheorem` picks, by acyclicity, a mission not won whose prerequisites all
are; `SaveRestoreTheorem` compares the restored table with the saved one mission by
mission and needs `Merit` for those that are Locked or Available.

**Frontend.** All rests on the lemma `StatusMoves`: in one step the state of each
mission stays, or moves one place along the campaign's route; it becomes Active only
out of its briefing, in the hangar with that mission selected, and leaves Active only
with the end of the flight of that mission. So no screen and no `select_mission()` can
take Active from the mission in flight, and a result on the debrief stays recorded.
`IInv` adds that debrief and flight name missions, and that the checkpoint is of a
mission that was begun (`CheckpointIsBegun`), so that a flight rewound to it is of one
that is Active, won or lost (`FlightIsBegun`). `CampaignTheorem` is a refinement: the
campaign under the frontend, without a save slot, is one of `CampaignProgression`;
`Advance` is its `EnterBriefing`, its `Begin` or nothing, the flight's steps are
`CompleteObjective`, `Complete` and `Fail`. The theorems of `CampaignProofs` then
hold of it too (`PlayableTheorem`), which is how this module cites them.

**Cache.** `Done(r)` is the files of an import's plan before its place.
`Undisturbed`: without a power failure they are published and stay so, no file is
torn, and pointers name targets that someone imports; hence what `current` names is
whole. `Solitary`: after any number of failures an import beside which nothing
ran knows the *value* of each of its files, because each was compared with its name,
or is never torn (`FilesTyped`: media alone may be), or was written by itself.
`Checked` says the same of the store that is being opened, step by step. `PlanFiles`
and `PlanFacts` say what a plan contains and in which order, by lemmas about
concatenation and without induction.

**Sessions.** `Owned`: a transport is open exactly for an active session or for the
session the call is about to insert. `Placed`: what a call has checked so far still
holds (the table has room, the session is not poisoned, and of a replay, some receipt
of another session is what it has recorded followed by what it has to do).
`Asked`: an action on the wire was accepted. `Stepped`: a child has stepped what is
recorded, and the action in flight if it has served it. Actions that end a call
establish `Rest` and `RestIsEnough` turns it into `IInv`. `LedgerTheorem` is the
refinement: `Init` maps to `Init`, and under `IInv` every step maps to the ledger's
step of the same name or to a stutter: a call that begins, asks, is served or fails
leaves the client's view (`UnseenIsStutter`, `SameIsStutter`), a recorded action is
`Append1` or `Receipt`, the last action of a replay is `Replay`, for which `Placed`
gives the receipt. The end of the server is the ledger's too. The theorem is about
the ledger's safety, which is all that its specification states.

**Controller.** A running controller keeps `sequence < MaxSteps`: one slot for the
frame that lets go. Once a frame was sent it has the identity and the tick that the
last frame needs (`Identified`), and every frame so far was acknowledged. Each way to
stop then sends a neutral frame or had sent nothing.

**Kernel.** `EventServed`: while anybody sleeps on an auto-reset object, its
credits are at most the number of threads that are woken for it or about to notify
(`Helpers`); this counts, since two sets in a row with one notification are the way
to lose one. A manual-reset event and a mutant are notified to all (`ToAll`), so
one notifier is enough (`MutantServed`). `EventMoves` gives, for a step in
which one thread moves, when the count is kept, and every action but `Notify` and
`CloseHandle` is an instance of it; `Notify` turns a notifier into one or into all
woken. `DpcHeld` needs that each way to unwind gives the level back first. Spin locks
move one thread and no object that is waited on (`SpinLocksAreGood`).

**Oracle.** `Custody`: outside of the unsafe places a live process is one that
`held` names, or that the very next step binds; after its reaping step it is not
live; while the sweep runs, own segments in `/dev/shm` are listed, and what is listed
and gone is another run's; after it no own segment is left, or another's halted it.
`Passing`: what was struck or failed is noted in `error`, so a pass had a whole sweep.
`Reading`: each match lies in text that was taken off the pending text, beyond the
match before it and beyond what the file held at the last sync-log. `Counted`: there
are as many matches as waits among the steps that are done, so a pass has matched
all.

**Engine.** `InFlight` follows an action through the pipes: what is on the wire is
the pending action, not yet applied, or an observation; a receipt is named after its
decision, so that no older one is taken for the pending one; and when an observation's
receipt is accepted the guest is where the pending action leads, and where the engine's
path leads as well, unless it is astray (`OnPath`). `Truthful` says of archive and file
what `CreditIsDue` and `PathsLead` say. That walking an extended path is one more step
of the guest (`WalkFacts`) needs that `Walk` is what its recursion says. A path is
*traced* by a witness, the states on the way, which an appended option extends by
one (`EveryPathIsTraced`), and walking it gives the last of them
(`WalkFollowsTrace`): two inductions on the length of the path. They are done by a
least counterexample (`SetInduction`), with a set in place of a predicate.

**Mission.** The operations of `ExecutionOps` are shared by three specifications, so
the lemmas are about them and not about steps. `Consistent` is what every operation
finds and leaves: units in the world or the registry are of the launch or of a wave
that has come, a mission that is Complete and has a campaign is won there
(`WinRecorded`), and the published events are a prefix of the sequence. `Keeps` and
`Passes` say what an operation may do to the rest: a bit of the campaign is new only
if its objective became Complete in the same operation, and the scenario moves to an
end or not at all. A tick is a chain of ten operations, and both relations are
transitive (`KeepsOn`, `PassesOn`). The loop over the sequence is the one induction:
`OfferedIsGood` says that one turn keeps `OfferedTo` (what is due and before this
event is published unless the loop has stopped), and `DispatchDueIsGood` carries it
to the end of the sequence; a property of the numbers up to a bound is a set of
numbers (`NumbersByInduction`), in place of a predicate. `ExecutionInv` adds
`CheckpointIsPast`: the checkpoint's clock is behind the mission's own and its win,
if it has one, is recorded; that is what lets a restored mission be `Consistent`
against a campaign that was not restored.

**Script.** `AtRest` is the cursor between two frames: on a step, or ended past the
last sub-mission and nowhere else. `ResolvedIsIn` is an induction on the turns of
`resolve_tag7_conditions()` for any set of cursors that a hop does not leave; with
`OnScript` as the set it gives `ScriptInv`. That the loop has finished when it stops
is a counting argument: the conditions that lie ahead of the cursor (`Ahead`) are
finitely many (`ConditionsAreFinite`) and lose one at each hop (`AheadShrinks`), there
are at most `MaxHops` of them, so after as many
turns none is left to rest on (`ResolvedIsPlain`).

**Session.** `Flying` is `Consistent` with a campaign that is under way, won or lost,
and that knows of every objective the mission counts as done (`Covered`); it is kept
by a tick (`FliesOn`), by leaving a sub-mission (`CompletedFlies`), by arriving on
one (`TrackedFlies`) and by a checkpoint of another moment, if the campaign has not
forgotten what was done then (`RestoredFlies`). `Sound` adds a script at rest, a
sequencer on the same sub-mission and a pause screen that is up over a paused mission
only. `SessionInv` says so of the session *and* of the session that wrote the save:
Back and Resume replace the state by one composed of two others, a
launch or a save and what the campaign has become, and are sound because both parts
were. `OrderInv` has besides that the objectives stand where the script does
(`InOrder`), as long as the campaign has not closed the mission: after that a
completion is refused and Back rewinds the objectives against a campaign that does
not let them count again. `EndTheorem` follows: past the last sub-mission every
objective is done or was jumped over. If none was, the campaign's mask is full and the
next tick in play wins (`FliesToTheEnd`), unless the failure check comes first; if
one was, it is Pending in every frame after and `Complete` is refused.

### 4.3 What stays with TLC

- *Liveness* (`ScriptRunsOut`, `CallsEnd`, `ShutdownEnds`, `RunEnds`): it rests on
  fairness, hence on ENABLED, which the prover does not treat.
- *The hypotheses of 4.1 on real scripts*: they are facts about data that this
  project does not read.
- *The counterexamples of section 5*: the definitions are false, which TLC shows.

## 5. Where documentation and code part

While the modules were written these sentences of the repository turned out not to
hold of the code. Each is stated as a definition at the end of its module, with the
sentence quoted. To see the behaviour that refutes it, make the definition the only
property of the configuration named and run TLC.

| definition | configuration | the sentence | what the code does |
|---|---|---|---|
| `MissionScreenIsActive` | `MCFrontendCampaign` | `README.md:478-480`: the frontend enforces "`Active` state before entering Mission" | `select_mission()` works in Loading too, and the step from Loading to Mission asks nothing: the screen is entered for a mission never begun (the launch is refused afterwards) |
| `AutoClose` | `MCMissionExecution` | `README.md:433-435`: the mission closes automatically when every required objective is complete | combat completes a `DestroyUnit` objective without its campaign bit, so `Complete` is refused for good |
| `FailurePropagated` | `MCMissionExecution` | `README.md:353-356`: objective failure is propagated to the campaign | after a win and a restored checkpoint a failed objective aborts the mission, and the campaign refuses the loss; also, with a `ProtectUnit` row in `MCRows`, an objective that fails in combat aborts the mission and leaves it Active in the campaign |
| `AbortsOnPlayerDestruction` | `MCMissionExecution` | `README.md:465-466`: aborts automatically on player destruction | a tick returns at a refused event, wave or AI rule before it looks at the player, on every tick while the refusal lasts |
| `StartToggles` | `MCRetailSession` | `include/ac6/retail_session.h:149-150`: Start toggles between Gameplay and Paused | a save made while paused is resumed under a frontend on the mission screen; Start then wants `Resume`, which the frontend refuses there |
| `ScriptEndSuffices` | `MCRetailSession` | `include/ac6/retail_mission_script.h:17-18`: the mission ends "when - and only when - the script runs out" | a sub-mission that a condition jumped over keeps its objective Pending (`retail_session.cpp:582-587`), and `Complete` asks for every objective: the script ends and the mission goes on |
| `CurrentIsDurable` | `MCContentCache` | `README.md:39-40`: `current` is replaced only after every blob and the index were written and synced | `copy_media()` does not sync, and a blob found in place is not synced again |
| `FailureKeepsGeneration` | `MCContentCache` | `README.md:28-30`: a decode error fails before a new generation is published | the media and graph pointers are replaced before the decoding ends: a failed import of another target leaves a cache whose `current` no longer opens |
| `RejectionIsQuiet` | `MCAgentController` | `ac6_fsm.py:148-149`: on malformed input, retain the last validated session and tick and attempt its neutral release | before any observation was validated the tick is -1, which `validate_action()` rejects with an exception |
| `ServerSurvivesOpen` | `MCAgentSessions` | `reports/cycle-1759-ac6-demo-recomp-ipc.md:22`: a missing binary or backend at boot is `initial_unavailable` | `Popen` raises `OSError`, which is not caught: the server ends |
| `WorkersJoined` | `MCKernelEvents` | `native_runtime.h:38`: joins every worker before the runtime tears down | the host thread runs before it is registered, so a shutdown between the two does not join it |
| `ShutdownJoins` | `MCKernelShutdown` | `materialize_native_import_stubs.py:718`: the shutdown wakes every parked waiter | it does not notify; a thread in an endless wait keeps the join waiting |
| `NoAbort` | `MCKernelEvents` | `materialize_native_import_stubs.py:813-814`: parked threads end through their entry lambda's catch | `park_until_resumed()` is called at line 1307, before the `try` at 1308: the exception leaves the thread function and ends the process |
| `SyncIsABoundary` | `MCOracleRun` | `ac6-oracle-run.py:599-602`: after sync-log the following wait "can only match a guest event emitted after the edge" | sync-log discards what the file holds; what the game wrote before it and still buffers reaches the file later, and the wait matches it |
| `EveryPathLeads` | `MCVisionEngine` | `ac6_vision_control.py:425`: `best_path` of a cell is a path to it, from which `restore_action` continues | the first checkpoint of a cell stays (447-448) while a shorter path to another state with the same picture replaces the best one (449-450): after a restore (629) the engine's path does not lead where the guest is |
| `CloseIsWhole` | `MCOracleRun` | `ac6-oracle-run.py:731-746`: a SIGTERM finds the cleanup, and no child outlives the driver | a first SIGTERM inside `close()`, or between a fork and its assignment, leaves a child running |

Others, without a definition:

- the registry is not synchronised with combat on a tick that a director ends
  (`product_runtime.cpp:644-661`; `README.md:474-476`): same cause as
  `AbortsOnPlayerDestruction`;
- a checkpoint of play restored after the campaign has failed the mission can
  never end (`product_runtime.cpp:463`): both `Complete` and `Abort` are refused;
- in a session, a condition on the entry step that holds leaves the launch
  checkpoint with two different sub-missions, and Back is refused
  (`retail_session.cpp:378-380`, `680`); no known mission begins so;
- `play --free-flight --save X` writes a save that `play --free-flight --resume X`
  refuses (`retail_commands.cpp:803-810`, `retail_session.cpp:700`);
- a guest thread whose entry function returns at a raised IRQL keeps the DPC level
  for ever, which the release of r422 is to prevent: it is in the catch only
  (`materialize_native_import_stubs.py:1309-1319`, `ac6recomp_main.cpp:174-190`);
- a thread that is terminated keeps its spin locks, and a thread that waits for one
  is not reached by the stop flag, so that the join waits for it;
- the sweep of `/dev/shm` stops at the first segment that another run has removed
  meanwhile, and leaves the run's own behind it (`ac6-oracle-run.py:274-279`); the
  first and last inventories of the runner (859, 864) are outside of its `try`;
- Back after the mission was completed replays it against a campaign that has
  closed it (`retail_session.cpp:443`);
- `docs/ac6-vision-control-pipeline.md` says that the engine refuses an action that
  was shortened without a visual change; it cannot, since every action that can be
  shortened has `stop_on_visual_change` and the receipt does not say what was seen
  (`ac6_vision_control.py:597`).

## 6. What is not modelled

- *Numbers*: positions, health, damage, weapon range and cooldown, flight
  integration, the wall clock inside a tick. They appear as choices or not at
  all. Counters of the script are bounded, so overflow at 32 bits is not seen.
- *Parsers* of manifests, payloads, containers, protocol envelopes: what they
  accept appears as assumptions on the constants (`ScriptAssumption`,
  `PrerequisitesAssumption`, `ActionsAssumption`) or as good or bad. The count byte
  of a sub-mission, which no parser compares with the number of steps, is a field
  of its own; modelled scripts have the two equal, and the theorems say so (`WellFormed`).
- *Save files*: a save is read as it was written; the temporary file, the rename and
  what a crash leaves are planned, with the file model of `ContentCache`.
- *Frontend settings* and the legacy flight save: configuration without
  interaction with the campaign.
- *auto_advance* of the script runner, which no caller turns on, and its time
  stamps.
- *Guest kernel*: dispatcher objects in guest memory (their flags are read and
  reset outside of a mutex), among them those of threads, the re-arming of timers,
  files, memory, and the imports without state. A spin lock released by another
  thread than its owner is not modelled: that is undefined for a `std::mutex`. One
  taken twice by a thread blocks it, as the code's comment says (171-173).
- *Agent server*: the v1 diagnostic tools, which keep a store of results only; the
  limits on texts and the 32-bit tick of an answer.
- *Drivers*: images, metrics and reports; the gate's strict replay of inputs;
  regular expressions that match the empty text or across lines; processes other than
  the leaders of the two groups, since `terminate_owned` waits for the leader only
  (`ac6-oracle-run.py:284-287`) and what is left in its group is not seen by it; the
  other run as a driver of its own: `OtherRun` only creates and removes segments,
  which is enough to make an inventory or the sweep fail, and this run's sweep may
  take its segments (the code says nothing about two runs of one user).
- *Vision engine*: the prompt compiler, the classifier of pictures, scores, the
  trace chain and the export of a replay movie.
- *Rendering, audio, input devices, replay digests, guest state machine, demo host,
  analysis tools*: no protocol that the properties above see, or one-shot programs
  that read inputs and write a report.

## 7. Plan

1. **Core** (done): campaign, frontend, execution, script, session; the proof of
   the campaign.
2. **Around it** (done): `ContentCache`, `AgentSessions` with its ledger,
   `AgentController`, `GuestKernel`, `OracleRun`, `VisionEngine`.
3. **Proofs** (done): the safety properties of all runs, and the refinements of
   the campaign by the frontend and of the ledger by the server.
4. **`SaveFile`**: `CampaignSaveStore::write_file`, `SessionSaveStore::write_file`
   and `SaveStore::write_file` share one protocol: temporary sibling, write, test
   the stream, close, rename, remove on error; an atomic file as the abstract
   specification.
5. **Refinement of the core**: a step of `MissionExecution` or `RetailSession` is a
   sequence of operations of `CampaignProgression` (`status <- x.campaign`); it may be
   several, since a tick can earn the last objective and the win.
6. **Exploration engine** (`emu_agent/exploration/engine.py`): a search with
   checkpoints and budgets over the sessions of `AgentSessions`.
7. **Replay** (`retail_session_replay.cpp`): a checkpoint inside a recording, and
   a replay that resumes at it.
