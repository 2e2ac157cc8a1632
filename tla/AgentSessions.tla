---------------------------- MODULE AgentSessions ----------------------------
(***************************************************************************)
(* The v2 sessions of the agent server (mcp_server/server.py) with the     *)
(* process and socket each of them owns (backends/demo_recomp/transport.py *)
(* and, on the other side, ac6-demo-native/src/ipc.cpp).                   *)
(*                                                                         *)
(* The server answers one call at a time.  A call that talks to a child    *)
(* sends a request and waits: the child may answer, refuse, exit, or be    *)
(* too late, at any moment.  A call refused before it changes anything is  *)
(* not a step.                                                             *)
(***************************************************************************)
EXTENDS Integers, FiniteSets, Sequences, SequencesExt

CONSTANTS
    Ids,                \* what uuid4 gives out as session identifiers
    Actions,            \* validated actions: records of sequence, tick, xinput
    MaxSessions,        \* V2_MAX_SESSIONS
    MaxActions,         \* V2_MAX_ACTIONS
    MaxObservations,    \* V2_MAX_OBSERVATIONS
    MaxTombstones,      \* V2_MAX_TOMBSTONES
    MaxRun,             \* bounds the actions of one run_until
    MaxReceipts,        \* bounds the receipts of one session
    NoId

ASSUME NoIdAssumption == NoId \notin Ids
ASSUME LimitsAssumption ==
    /\ {MaxSessions, MaxActions, MaxObservations, MaxTombstones} \subseteq Nat \ {0}
    /\ {MaxRun, MaxReceipts} \subseteq Nat
ASSUME ActionsAssumption ==
    \A a \in Actions : a.sequence \in Nat /\ a.tick \in Nat

VARIABLES
    server,         \* "serving", "ended" (EOF or killed) or "crashed"
    issued,         \* the identifiers that sessions have had
    table,          \* the keys of _v2_sessions
    backend,        \* session["backend_state"]
    actions,        \* session["actions"]
    observed,       \* len(session["observations"])
    receipts,       \* session["receipt_snapshots"]: the actions of each
    tombstones,     \* _v2_tombstones: identifier and actions of the receipt
    transport,      \* the open DemoRecompTransport: "none" or "open"
    child,          \* its process: "none", "running" or "exited", not reaped
    executed,       \* the inputs the child has stepped
    wire,           \* the socket of the call: what is on it
    call            \* the call being served

sessions == <<issued, table, backend, actions, observed, receipts, tombstones>>
processes == <<transport, child, executed>>
vars == <<server, sessions, processes, wire, call>>

-----------------------------------------------------------------------------
(* The call being served.  todo holds the actions still to step.           *)

NoCall == [op |-> "none", target |-> NoId, todo |-> <<>>]
Call(op, s, todo) == [op |-> op, target |-> s, todo |-> todo]
Ops == {"open", "observe", "step", "run", "replay"}

Serving == server = "serving"
Idle == Serving /\ call = NoCall
InCall == Serving /\ call # NoCall

\* The session a call is building is in the table when start was answered.
Starting == call.target \notin table

\* "transport" in session: only an active session has one.
Connected(s) == s \in table /\ backend[s] = "active"

LastTick(s) == IF actions[s] = <<>> THEN -1 ELSE Last(actions[s]).tick

\* The checks of emu_step before it asks the transport.
Accepts(s, a) ==
    /\ a.sequence = Len(actions[s])
    /\ a.tick >= LastTick(s)
    /\ Len(actions[s]) < MaxActions
    /\ observed[s] < MaxObservations

-----------------------------------------------------------------------------
Init ==
    /\ server = "serving"
    /\ issued = {}
    /\ table = {}
    /\ backend = [s \in Ids |-> "none"]
    /\ actions = [s \in Ids |-> <<>>]
    /\ observed = [s \in Ids |-> 0]
    /\ receipts = [s \in Ids |-> <<>>]
    /\ tombstones = <<>>
    /\ transport = [s \in Ids |-> "none"]
    /\ child = [s \in Ids |-> "none"]
    /\ executed = [s \in Ids |-> <<>>]
    /\ wire = "quiet"
    /\ call = NoCall

\* A new entry of _v2_sessions and the receipts it starts with.
Insert(s, state, given) ==
    /\ table' = table \cup {s}
    /\ backend' = [backend EXCEPT ![s] = state]
    /\ receipts' = [receipts EXCEPT ![s] = given]
    /\ UNCHANGED <<actions, observed, tombstones>>

\* The entry is popped, and what it held is gone.
Pop(s) ==
    /\ table' = table \ {s}
    /\ backend' = [backend EXCEPT ![s] = "none"]
    /\ actions' = [actions EXCEPT ![s] = <<>>]
    /\ observed' = [observed EXCEPT ![s] = 0]
    /\ receipts' = [receipts EXCEPT ![s] = <<>>]

\* transport.open(): a socket pair, and a process that has one end of it.
Spawn(s) ==
    /\ transport' = [transport EXCEPT ![s] = "open"]
    /\ child' = [child EXCEPT ![s] = "running"]
    /\ executed' = [executed EXCEPT ![s] = <<>>]
    /\ UNCHANGED wire

\* transport.close(): the socket is shut and the process waited for.
CloseTransport(s) ==
    /\ transport' = [transport EXCEPT ![s] = "none"]
    /\ child' = [child EXCEPT ![s] = "none"]
    /\ executed' = [executed EXCEPT ![s] = <<>>]
    /\ wire' = "quiet"

\* The server's process is gone with its memory; the system shuts its ends
\* of the sockets, and the children are still there.
Vanish ==
    /\ table' = {}
    /\ backend' = [s \in Ids |-> "none"]
    /\ actions' = [s \in Ids |-> <<>>]
    /\ observed' = [s \in Ids |-> 0]
    /\ receipts' = [s \in Ids |-> <<>>]
    /\ tombstones' = <<>>
    /\ transport' = [s \in Ids |-> "none"]
    /\ wire' = "quiet"
    /\ call' = NoCall
    /\ UNCHANGED <<issued, child, executed>>

-----------------------------------------------------------------------------
(* Calls from the client.                                                  *)

\* Mutant: the limit is compared with <=.
MayCreateOneMore(s) == Idle /\ s \notin issued /\ Cardinality(table) <= MaxSessions

MayCreate(s) == Idle /\ s \notin issued /\ Cardinality(table) < MaxSessions

\* emu_open_session without a binary.
OpenUnavailable(s) ==
    /\ MayCreate(s)
    /\ Insert(s, "initial_unavailable", <<<<>>>>)
    /\ issued' = issued \cup {s}
    /\ UNCHANGED <<server, processes, wire, call>>

OpenSpawns(s) ==
    /\ MayCreate(s)
    /\ Spawn(s)
    /\ call' = Call("open", s, <<>>)
    /\ UNCHANGED <<server, sessions>>

\* Popen raises OSError, which neither emu_open_session nor handle_request
\* catches: serve_stdio ends with the exception.
OpenCannotSpawn(s) ==
    /\ MayCreate(s)
    /\ server' = "crashed"
    /\ Vanish

Usable(s) == s \in table /\ backend[s] # "transport_failed"

Observe(s) ==
    /\ Idle /\ Usable(s)
    /\ observed[s] < MaxObservations
    /\ IF Connected(s)
       THEN /\ call' = Call("observe", s, <<>>)
            /\ UNCHANGED observed
       ELSE /\ observed' = [observed EXCEPT ![s] = @ + 1]
            /\ UNCHANGED call
    /\ UNCHANGED <<server, issued, table, backend, actions, receipts,
                   tombstones, processes, wire>>

Step(s, a) ==
    /\ Idle /\ Usable(s) /\ Accepts(s, a)
    /\ call' = Call("step", s, <<a>>)
    /\ UNCHANGED <<server, sessions, processes, wire>>

\* emu_run_until with actions[:max_steps]; with none it gives a receipt.
RunUntil(s, todo) ==
    /\ Idle /\ Usable(s)
    /\ Len(receipts[s]) < MaxReceipts
    /\ IF todo = <<>>
       THEN /\ receipts' = [receipts EXCEPT ![s] = Append(@, actions[s])]
            /\ UNCHANGED call
       ELSE /\ Accepts(s, Head(todo))
            /\ call' = Call("run", s, todo)
            /\ UNCHANGED receipts
    /\ UNCHANGED <<server, issued, table, backend, actions, observed,
                   tombstones, processes, wire>>

\* emu_replay of the k-th receipt of s into a new session n.
ReplaySpawns(s, k, n) ==
    /\ MayCreate(n) /\ Connected(s)
    /\ k \in DOMAIN receipts[s]
    /\ Spawn(n)
    /\ call' = Call("replay", n, receipts[s][k])
    /\ UNCHANGED <<server, sessions>>

ReplayUnavailable(s, k, n) ==
    /\ MayCreate(n) /\ s \in table /\ backend[s] = "initial_unavailable"
    /\ k \in DOMAIN receipts[s]
    /\ IF receipts[s][k] = <<>>
       THEN /\ Insert(n, "initial_unavailable", <<<<>>>>)
            /\ issued' = issued \cup {n}
            /\ UNCHANGED call
       ELSE /\ Insert(n, "initial_unavailable", <<>>)
            /\ call' = Call("replay", n, receipts[s][k])
            /\ UNCHANGED issued
    /\ UNCHANGED <<server, processes, wire>>

Close(s) ==
    /\ Idle /\ s \in table
    /\ CloseTransport(s)
    /\ Pop(s)
    /\ tombstones' = LET all == Append(tombstones, [id |-> s, log |-> actions[s]])
                     IN  IF Len(all) > MaxTombstones THEN Tail(all) ELSE all
    /\ UNCHANGED <<server, issued, call>>

-----------------------------------------------------------------------------
(* The rest of a call.                                                     *)

NextAction == Head(call.todo)

\* The transport is asked: start, observe, or the next action.
Asks ==
    /\ InCall /\ wire = "quiet"
    /\ transport[call.target] = "open"
    /\ ~Starting /\ call.todo # <<>> => Accepts(call.target, NextAction)
    /\ child[call.target] = "running"
    /\ wire' = "request"
    /\ UNCHANGED <<server, sessions, processes, call>>

\* emu_step appends; the last action of a run or replay is followed by the
\* receipt, and the last of a replay makes the session known.
Record ==
    LET s == call.target
        log == Append(actions[s], NextAction)
        done == Tail(call.todo) = <<>>
    IN  /\ actions' = [actions EXCEPT ![s] = log]
        /\ observed' = [observed EXCEPT ![s] = @ + 1]
        /\ receipts' = IF done /\ call.op # "step"
                       THEN [receipts EXCEPT ![s] = Append(@, log)]
                       ELSE receipts
        /\ issued' = IF done THEN issued \cup {s} ELSE issued
        /\ call' = IF done THEN NoCall
                   ELSE [call EXCEPT !.todo = Tail(@)]
        /\ UNCHANGED <<table, backend, tombstones>>

\* A session without transport takes the action as it is.
RecordsUnavailable ==
    /\ InCall /\ ~Starting
    /\ ~Connected(call.target)
    /\ call.todo # <<>> /\ Accepts(call.target, NextAction)
    /\ Record
    /\ UNCHANGED <<server, processes, wire>>

Answered ==
    /\ InCall /\ wire = "answer"
    /\ wire' = "quiet"
    /\ \/ /\ Starting
          /\ IF call.todo = <<>>
             THEN /\ Insert(call.target, "active", <<<<>>>>)
                  /\ issued' = issued \cup {call.target}
                  /\ call' = NoCall
             ELSE /\ Insert(call.target, "active", <<>>)
                  /\ UNCHANGED <<issued, call>>
       \/ /\ ~Starting /\ call.op = "observe"
          /\ observed' = [observed EXCEPT ![call.target] = @ + 1]
          /\ call' = NoCall
          /\ UNCHANGED <<issued, table, backend, actions, receipts, tombstones>>
       \/ /\ ~Starting /\ call.op # "observe"
          /\ Record
    /\ UNCHANGED <<server, processes>>

\* Mutant: the roll-back of a replay forgets the transport.
ReleasesButReplay ==
    IF call.op = "replay" THEN wire' = "quiet" /\ UNCHANGED processes
    ELSE CloseTransport(call.target)

Releases == CloseTransport(call.target)

OpensUnavailable ==
    /\ Insert(call.target, "initial_unavailable", <<<<>>>>)
    /\ issued' = issued \cup {call.target}

Poisons ==
    /\ backend' = [backend EXCEPT ![call.target] = "transport_failed"]
    /\ UNCHANGED <<issued, table, actions, observed, receipts, tombstones>>

\* Mutant: a replay that fails is poisoned like any other session.
SettlesPoisoned ==
    IF call.op = "open" THEN OpensUnavailable ELSE Poisons

\* What becomes of the session when the transport raises: open keeps it as
\* unavailable, a replay leaves nothing, any other call poisons.
Settles ==
    \/ call.op = "open" /\ OpensUnavailable
    \/ call.op = "replay" /\ Pop(call.target) /\ UNCHANGED <<issued, tombstones>>
    \/ call.op \in {"observe", "step", "run"} /\ Poisons

GivesUp == Releases /\ Settles /\ call' = NoCall /\ UNCHANGED server

\* The process was found to have exited before the request was sent.
FindsExit ==
    /\ InCall /\ wire = "quiet"
    /\ transport[call.target] = "open" /\ child[call.target] = "exited"
    /\ GivesUp

\* Mutant: a step without an answer in time leaves the session connected.
FailsQuietly ==
    /\ InCall /\ wire # "quiet"
    /\ IF call.op = "step"
       THEN /\ wire' = "quiet" /\ call' = NoCall
            /\ UNCHANGED <<server, sessions, processes>>
       ELSE GivesUp

\* Mutant: the socket has no deadline.
FailsAtExit ==
    /\ InCall /\ wire # "quiet" /\ child[call.target] = "exited"
    /\ GivesUp

\* No answer in time, a refusal, a bad frame, or the end of the stream.
Fails ==
    /\ InCall /\ wire # "quiet"
    /\ GivesUp

\* An action that emu_step refuses ends the call; what was recorded stays,
\* except in a replay.
RefusesRest ==
    /\ InCall /\ wire = "quiet" /\ ~Starting
    /\ call.todo # <<>> /\ ~Accepts(call.target, NextAction)
    /\ call' = NoCall
    /\ IF call.op = "replay"
       THEN /\ CloseTransport(call.target)
            /\ Pop(call.target)
            /\ UNCHANGED <<issued, tombstones>>
       ELSE UNCHANGED <<sessions, processes, wire>>
    /\ UNCHANGED server

-----------------------------------------------------------------------------
(* The other processes.                                                    *)

\* The child has carried out the request and has not answered yet.
ChildServes ==
    /\ wire = "request" /\ child[call.target] = "running"
    /\ wire' = "served"
    /\ executed' = IF Starting \/ call.todo = <<>> THEN executed
                   ELSE [executed EXCEPT ![call.target] =
                            Append(@, NextAction.xinput)]
    /\ UNCHANGED <<server, sessions, transport, child, call>>

ChildAnswers ==
    /\ wire = "served" /\ child[call.target] = "running"
    /\ wire' = "answer"
    /\ UNCHANGED <<server, sessions, processes, call>>

ChildExits(s) ==
    /\ Serving /\ child[s] = "running"
    /\ child' = [child EXCEPT ![s] = "exited"]
    /\ UNCHANGED <<server, sessions, transport, executed, wire, call>>

\* read_frame() sees the end of the stream when the server is gone.
ChildSeesEnd(s) ==
    /\ ~Serving /\ child[s] = "running"
    /\ child' = [child EXCEPT ![s] = "exited"]
    /\ UNCHANGED <<server, sessions, transport, executed, wire, call>>

\* EOF on standard input, or a signal.
ServerEnds ==
    /\ Serving
    /\ server' = "ended"
    /\ Vanish

ClientCalls ==
    \E s \in Ids :
       \/ OpenUnavailable(s) \/ OpenSpawns(s) \/ OpenCannotSpawn(s)
       \/ Observe(s) \/ Close(s)
       \/ \E a \in Actions : Step(s, a)
       \/ \E todo \in BoundedSeq(Actions, MaxRun) : RunUntil(s, todo)
       \/ \E k \in 1..MaxReceipts, n \in Ids :
             ReplaySpawns(s, k, n) \/ ReplayUnavailable(s, k, n)

ServerContinues ==
    Asks \/ RecordsUnavailable \/ Answered \/ FindsExit \/ Fails \/ RefusesRest

Next ==
    \/ ClientCalls \/ ServerContinues \/ ServerEnds
    \/ ChildServes \/ ChildAnswers
    \/ \E s \in Ids : ChildExits(s) \/ ChildSeesEnd(s)

\* A call waits no longer than its deadline; a child reads its socket.
Fairness ==
    /\ WF_vars(ServerContinues)
    /\ \A s \in Ids : WF_vars(ChildSeesEnd(s))

Spec == Init /\ [][Next]_vars /\ Fairness

-----------------------------------------------------------------------------
(* Properties.                                                             *)

Logs == BoundedSeq(Actions, MaxActions)

\* Every variable is in the range the code gives it, and the limits hold.
TypeOK ==
    /\ server \in {"serving", "ended", "crashed"}
    /\ issued \subseteq Ids /\ table \subseteq Ids
    /\ Cardinality(table) <= MaxSessions
    /\ backend \in [Ids -> {"none", "initial_unavailable", "active",
                            "transport_failed"}]
    /\ \A s \in Ids : actions[s] \in Logs
    /\ observed \in [Ids -> 0..MaxObservations]
    /\ \A s \in Ids : \A k \in DOMAIN receipts[s] : receipts[s][k] \in Logs
    /\ Len(tombstones) <= MaxTombstones
    /\ transport \in [Ids -> {"none", "open"}]
    /\ child \in [Ids -> {"none", "running", "exited"}]
    /\ wire \in {"quiet", "request", "served", "answer"}
    /\ call.op \in Ops \cup {"none"} /\ call.target \in Ids \cup {NoId}

\* While the server serves, every process it has started and not reaped
\* belongs to a session a client can close, or to the call being served:
\* no failure between spawn and insertion, poisoning or roll-back leaks one.
NoOrphan ==
    Serving =>
       \A s \in Ids :
          transport[s] = "open" \/ child[s] = "running" =>
             Connected(s) \/ s = call.target

\* What an active session has recorded is exactly what its process has
\* stepped, but for the action in flight: nothing is stepped twice, lost
\* or reordered, also when answers are late and processes die.
ExecutedIsRecorded ==
    \A s \in Ids : Connected(s) =>
       LET inputs == [i \in DOMAIN actions[s] |-> actions[s][i].xinput]
       IN  \/ executed[s] = inputs
           \/ /\ s = call.target /\ call.todo # <<>> /\ wire \in {"served", "answer"}
              /\ executed[s] = Append(inputs, NextAction.xinput)

\* The sessions are those of the ledger: a replay under way is not seen.
Visible == IF call.op = "replay" THEN table \ {call.target} ELSE table

Ledger == INSTANCE SessionLedger WITH
    visible <- Visible,
    used <- issued,
    log <- [s \in Ids |-> IF s \in Visible THEN actions[s] ELSE <<>>],
    receipts <- [s \in Ids |-> IF s \in Visible THEN ToSet(receipts[s]) ELSE {}],
    poisoned <- {s \in Visible : backend[s] = "transport_failed"}

\* The server implements the ledger.
KeepsLedger == Ledger!Spec

\* Every call is answered, whatever the child does.
CallsEnd == (call # NoCall) ~> (call = NoCall)

-----------------------------------------------------------------------------
(* What the documentation says and the code does not do.                   *)

\* "initial_unavailable covers the absence of the binary or of the backend at
\* boot" (reports/cycle-1759-ac6-demo-recomp-ipc.md:22): no open ends the
\* server.
ServerSurvivesOpen == server # "crashed"
=============================================================================
