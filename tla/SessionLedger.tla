---------------------------- MODULE SessionLedger ----------------------------
(***************************************************************************)
(* What the agent server promises its client about sessions: each has a   *)
(* log of actions that only grows, receipts that are copies of the log at  *)
(* some moment, and a replay is a new session that appears at once with    *)
(* the log of one receipt, or not at all.                                  *)
(***************************************************************************)
EXTENDS Sequences

CONSTANTS
    Ids,        \* session identifiers
    Actions     \* controller actions

VARIABLES
    visible,    \* the sessions a client can name
    used,       \* the sessions there ever were
    log,        \* the actions of each session
    receipts,   \* the logs each session has given a receipt for
    poisoned    \* sessions whose process has failed

vars == <<visible, used, log, receipts, poisoned>>

Init ==
    /\ visible = {}
    /\ used = {}
    /\ log = [s \in Ids |-> <<>>]
    /\ receipts = [s \in Ids |-> {}]
    /\ poisoned = {}

\* A session appears once, with a receipt for what it starts with.
Appear(s, l) ==
    /\ s \notin used
    /\ visible' = visible \cup {s}
    /\ used' = used \cup {s}
    /\ log' = [log EXCEPT ![s] = l]
    /\ receipts' = [receipts EXCEPT ![s] = {l}]
    /\ UNCHANGED poisoned

Open(s) == Appear(s, <<>>)

Replay(of, s) ==
    /\ of \in visible \ poisoned
    /\ \E l \in receipts[of] : Appear(s, l)

Append1(s, a) ==
    /\ s \in visible \ poisoned
    /\ log' = [log EXCEPT ![s] = Append(@, a)]
    /\ UNCHANGED <<visible, used, receipts, poisoned>>

\* The last action of a run and its receipt are one step.
Receipt(s) ==
    /\ s \in visible \ poisoned
    /\ \E l \in {log[s]} \cup {Append(log[s], a) : a \in Actions} :
          /\ log' = [log EXCEPT ![s] = l]
          /\ receipts' = [receipts EXCEPT ![s] = @ \cup {l}]
    /\ UNCHANGED <<visible, used, poisoned>>

Poison(s) ==
    /\ s \in visible
    /\ poisoned' = poisoned \cup {s}
    /\ UNCHANGED <<visible, used, log, receipts>>

Close(s) ==
    /\ s \in visible
    /\ visible' = visible \ {s}
    /\ log' = [log EXCEPT ![s] = <<>>]
    /\ receipts' = [receipts EXCEPT ![s] = {}]
    /\ poisoned' = poisoned \ {s}
    /\ UNCHANGED used

\* The server keeps its sessions in memory only.
End ==
    /\ visible' = {}
    /\ log' = [s \in Ids |-> <<>>]
    /\ receipts' = [s \in Ids |-> {}]
    /\ poisoned' = {}
    /\ UNCHANGED used

Next ==
    \/ End
    \/ \E s \in Ids :
          \/ Open(s) \/ Receipt(s) \/ Poison(s) \/ Close(s)
          \/ \E of \in Ids : Replay(of, s)
          \/ \E a \in Actions : Append1(s, a)

Spec == Init /\ [][Next]_vars
=============================================================================
