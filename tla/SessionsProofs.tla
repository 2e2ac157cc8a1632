---------------------------- MODULE SessionsProofs ----------------------------
(***************************************************************************)
(* The properties of AgentSessions, proved for every set of identifiers    *)
(* and of actions and for all limits, and the step-by-step proof that the  *)
(* server implements SessionLedger.                                        *)
(*                                                                         *)
(* The inductive invariant says at every moment of a call whose transport  *)
(* is open and why, what the process of a session has stepped, which       *)
(* checks the request on the wire has passed, and, of a replay, which      *)
(* receipt its remaining actions complete.                                 *)
(***************************************************************************)
EXTENDS AgentSessions, FiniteSetTheorems, SequenceTheorems, TLAPS

Entry == [id : Ids, log : Seq(Actions)]

Backends == {"none", "initial_unavailable", "active", "transport_failed"}

Typed ==
    /\ server \in {"serving", "ended", "crashed"}
    /\ issued \subseteq Ids /\ table \subseteq Ids /\ IsFiniteSet(table)
    /\ Cardinality(table) <= MaxSessions
    /\ backend \in [Ids -> Backends]
    /\ actions \in [Ids -> Seq(Actions)]
    /\ \A s \in Ids : Len(actions[s]) <= MaxActions
    /\ observed \in [Ids -> 0..MaxObservations]
    /\ receipts \in [Ids -> Seq(Seq(Actions))]
    /\ \A s \in Ids : \A k \in DOMAIN receipts[s] : Len(receipts[s][k]) <= MaxActions
    /\ tombstones \in Seq(Entry) /\ Len(tombstones) <= MaxTombstones
    /\ transport \in [Ids -> {"none", "open"}]
    /\ child \in [Ids -> {"none", "running", "exited"}]
    /\ executed = [s \in Ids |-> executed[s]]
    /\ wire \in {"quiet", "request", "served", "answer"}
    /\ call \in [op : Ops \cup {"none"}, target : Ids \cup {NoId}, todo : Seq(Actions)]

\* A session that is not in the table has left nothing behind.
Blank ==
    /\ \A s \in Ids \ table : /\ backend[s] = "none" /\ actions[s] = <<>>
                              /\ observed[s] = 0 /\ receipts[s] = <<>>
    /\ \A s \in table : backend[s] # "none"
    /\ Visible \subseteq issued

\* An open transport is that of an active session, or of the call that is
\* about to insert its session.
Owned ==
    /\ \A s \in Ids :
          transport[s] = "open" <=> Connected(s) \/ (s = call.target /\ s \notin table)
    /\ Serving => \A s \in Ids : child[s] = "none" <=> transport[s] = "none"
    /\ ~Serving => call = NoCall

\* A replay has a source, a receipt of which it is completing.
Completes(r) ==
    \E s \in table \ {r.target} :
       /\ backend[s] # "transport_failed"
       /\ \E k \in DOMAIN receipts[s] : receipts[s][k] = actions[r.target] \o r.todo

\* What a call has established, by operation.
Placed ==
    /\ call # NoCall => call.op \in Ops /\ call.target \in Ids
    /\ call.op \in {"open", "replay"} =>
          /\ call.target \notin issued
          /\ call.target \notin table => Cardinality(table) < MaxSessions
    /\ call.op = "open" => call.target \notin table /\ call.todo = <<>>
    /\ call.op \in {"observe", "step", "run"} =>
          call.target \in table /\ backend[call.target] # "transport_failed"
    /\ call.op \in {"step", "run"} => call.todo # <<>>
    /\ call.op = "observe" =>
          /\ call.todo = <<>> /\ Connected(call.target)
          /\ observed[call.target] < MaxObservations
    /\ call.op = "replay" =>
          /\ Completes(call)
          /\ call.target \in table =>
                /\ call.todo # <<>> /\ receipts[call.target] = <<>>
                /\ backend[call.target] # "transport_failed"

\* A request is on the wire of an open transport, and its action was accepted.
Asked ==
    wire # "quiet" =>
       /\ call # NoCall /\ transport[call.target] = "open"
       /\ ~Starting /\ call.todo # <<>> => Accepts(call.target, NextAction)

Inputs(l) == [i \in DOMAIN l |-> l[i].xinput]

InFlight(s) ==
    s = call.target /\ s \in table /\ call.todo # <<>> /\ wire \in {"served", "answer"}

\* What a process has stepped is what is recorded, and the action in flight.
Stepped ==
    \A s \in Ids : transport[s] = "open" =>
       executed[s] = IF InFlight(s) THEN Append(Inputs(actions[s]), NextAction.xinput)
                     ELSE Inputs(actions[s])

\* The inductive invariant.
IInv == Typed /\ Blank /\ Owned /\ Placed /\ Asked /\ Stepped

-----------------------------------------------------------------------------
(* Logs and what is still to step.                                         *)

\* Recording one more action.
LEMMA LogFacts ==
    ASSUME NEW l \in Seq(Actions), NEW a \in Actions
    PROVE  /\ Append(l, a) \in Seq(Actions) /\ Append(l, a) # <<>>
           /\ Len(Append(l, a)) = Len(l) + 1
           /\ Inputs(Append(l, a)) = Append(Inputs(l), a.xinput)
<1>1. /\ Append(l, a) \in Seq(Actions) /\ Len(Append(l, a)) = Len(l) + 1
      /\ Append(l, a) # <<>> /\ Len(l) \in Nat
      /\ \A i \in 1..Len(l) : Append(l, a)[i] = l[i]
      /\ Append(l, a)[Len(l) + 1] = a
  BY AppendProperties, LenProperties
<1>2. PICK X : X = {l[i].xinput : i \in 1..Len(l)} \cup {a.xinput}
  OBVIOUS
<1>3. PICK m : m = Inputs(l)
  OBVIOUS
<1>4. PICK n : n = Inputs(Append(l, a))
  OBVIOUS
<1>5. m \in Seq(X) /\ Len(m) = Len(l) /\ \A i \in 1..Len(l) : m[i] = l[i].xinput
  <2>1. DOMAIN l = 1..Len(l)
    BY LenProperties
  <2>2. m = [i \in 1..Len(l) |-> l[i].xinput]
    BY <1>3, <2>1 DEF Inputs
  <2> QED BY <1>1, <1>2, <2>2
<1>6. n \in Seq(X) /\ Len(n) = Len(l) + 1
      /\ \A i \in 1..(Len(l) + 1) : n[i] = Append(l, a)[i].xinput
  <2>1. DOMAIN Append(l, a) = 1..(Len(l) + 1)
    BY <1>1, LenProperties
  <2>2. n = [i \in 1..(Len(l) + 1) |-> Append(l, a)[i].xinput]
    BY <1>4, <2>1 DEF Inputs
  <2>3. \A i \in 1..(Len(l) + 1) : Append(l, a)[i].xinput \in X
    <3> SUFFICES ASSUME NEW i \in 1..(Len(l) + 1) PROVE Append(l, a)[i].xinput \in X
      OBVIOUS
    <3>1. CASE i = Len(l) + 1
      BY <1>1, <1>2, <3>1
    <3>2. CASE i \in 1..Len(l)
      BY <1>1, <1>2, <3>2
    <3> QED BY <1>1, <3>1, <3>2
  <2> QED BY <1>1, <2>2, <2>3
<1>7. a.xinput \in X
  BY <1>2
<1>8. Append(m, a.xinput) \in Seq(X) /\ Len(Append(m, a.xinput)) = Len(l) + 1
      /\ \A i \in 1..Len(l) : Append(m, a.xinput)[i] = m[i]
      /\ Append(m, a.xinput)[Len(l) + 1] = a.xinput
  BY <1>5, <1>7, AppendProperties
<1>9. \A i \in 1..(Len(l) + 1) : n[i] = Append(m, a.xinput)[i]
  <2> SUFFICES ASSUME NEW i \in 1..(Len(l) + 1) PROVE n[i] = Append(m, a.xinput)[i]
    OBVIOUS
  <2>1. CASE i = Len(l) + 1
    <3>1. n[Len(l) + 1] = Append(l, a)[Len(l) + 1].xinput
      BY <1>1, <1>6
    <3>2. Append(l, a)[Len(l) + 1].xinput = a.xinput
      BY <1>1
    <3> QED BY <1>1, <1>8, <2>1, <3>1, <3>2
  <2>2. CASE i \in 1..Len(l)
    BY <1>1, <1>5, <1>6, <1>8, <2>2
  <2>3. Len(l) \in Nat
    BY LenProperties
  <2>4. i = Len(l) + 1 \/ i \in 1..Len(l)
    BY <2>3
  <2> QED BY <2>1, <2>2, <2>4
<1>10. n = Append(m, a.xinput)
  BY <1>6, <1>8, <1>9, SeqEqual
<1> QED BY <1>1, <1>3, <1>4, <1>10

\* Taking the next action of a call from the front of what is to do.
LEMMA TodoFacts ==
    ASSUME NEW q \in Seq(Actions), q # <<>>
    PROVE  /\ Head(q) \in Actions /\ Tail(q) \in Seq(Actions)
           /\ \A l \in Seq(Actions) : Append(l, Head(q)) \o Tail(q) = l \o q
<1>1. Head(q) \in Actions /\ Tail(q) \in Seq(Actions) /\ Len(Tail(q)) = Len(q) - 1
      /\ \A i \in 1..Len(Tail(q)) : Tail(q)[i] = q[i + 1]
  BY HeadTailProperties
<1>2. Len(q) \in Nat /\ Len(q) # 0 /\ Head(q) = q[1]
  BY EmptySeq, LenProperties
<1> SUFFICES ASSUME NEW l \in Seq(Actions)
             PROVE  Append(l, Head(q)) \o Tail(q) = l \o q
  BY <1>1
<1>3. PICK m : m = Append(l, Head(q))
  OBVIOUS
<1>4. m \in Seq(Actions) /\ Len(m) = Len(l) + 1 /\ m[Len(l) + 1] = q[1]
      /\ Len(l) \in Nat /\ \A i \in 1..Len(l) : m[i] = l[i]
  BY <1>1, <1>2, <1>3, AppendProperties, LenProperties
<1>5. PICK t : t = Tail(q)
  OBVIOUS
<1>6. t \in Seq(Actions) /\ Len(t) = Len(q) - 1 /\ \A i \in 1..Len(t) : t[i] = q[i + 1]
  BY <1>1, <1>5
<1>7. /\ m \o t \in Seq(Actions) /\ Len(m \o t) = Len(l) + Len(q)
      /\ \A i \in 1..(Len(l) + Len(q)) :
            (m \o t)[i] = IF i <= Len(l) + 1 THEN m[i] ELSE t[i - (Len(l) + 1)]
  <2>1. Len(m) = Len(l) + 1 /\ Len(m) + Len(t) = Len(l) + Len(q)
    BY <1>2, <1>4, <1>6
  <2>2. /\ m \o t \in Seq(Actions) /\ Len(m \o t) = Len(m) + Len(t)
        /\ \A i \in 1..(Len(m) + Len(t)) :
              (m \o t)[i] = IF i <= Len(m) THEN m[i] ELSE t[i - Len(m)]
    BY <1>4, <1>6, ConcatProperties
  <2> QED BY <2>1, <2>2
<1>8. /\ l \o q \in Seq(Actions) /\ Len(l \o q) = Len(l) + Len(q)
      /\ \A i \in 1..(Len(l) + Len(q)) :
            (l \o q)[i] = IF i <= Len(l) THEN l[i] ELSE q[i - Len(l)]
  BY ConcatProperties
<1>9. \A i \in 1..(Len(l) + Len(q)) : (m \o t)[i] = (l \o q)[i]
  <2> SUFFICES ASSUME NEW i \in 1..(Len(l) + Len(q)) PROVE (m \o t)[i] = (l \o q)[i]
    OBVIOUS
  <2>1. CASE i <= Len(l)
    <3>1. i \in 1..Len(l)
      BY <2>1, <1>2, <1>4
    <3> QED BY <1>4, <1>7, <1>8, <2>1, <3>1
  <2>2. CASE i = Len(l) + 1
    <3>1. i - Len(l) = 1 /\ ~(i <= Len(l)) /\ i <= Len(l) + 1
      BY <1>4, <2>2
    <3>2. (m \o t)[i] = m[i] /\ m[i] = q[1]
      BY <1>4, <1>7, <2>2, <3>1
    <3>3. (l \o q)[i] = q[i - Len(l)]
      BY <1>8, <3>1
    <3> QED BY <1>4, <2>2, <3>1, <3>2, <3>3
  <2>3. CASE i > Len(l) + 1
    <3>1. /\ i - (Len(l) + 1) \in 1..Len(t) /\ (i - (Len(l) + 1)) + 1 = i - Len(l)
          /\ ~(i <= Len(l)) /\ ~(i <= Len(l) + 1)
      BY <1>2, <1>4, <1>6, <2>3
    <3>2. t[i - (Len(l) + 1)] = q[i - Len(l)]
      BY <1>6, <3>1
    <3> QED BY <1>7, <1>8, <3>1, <3>2
  <2>4. Len(l) \in Nat /\ Len(q) \in Nat
    BY LenProperties
  <2>5. i <= Len(l) \/ i = Len(l) + 1 \/ i > Len(l) + 1
    BY <2>4
  <2> QED BY <2>1, <2>2, <2>3, <2>5
<1>10. m \o t = l \o q
  BY <1>7, <1>8, <1>9, SeqEqual
<1> QED BY <1>3, <1>5, <1>10

\* The bounded sequences of the model are sequences.
LEMMA BoundedFacts ==
    ASSUME NEW S, NEW n \in Nat
    PROVE  /\ \A q \in BoundedSeq(S, n) : q \in Seq(S)
           /\ \A q \in Seq(S) : Len(q) <= n => q \in BoundedSeq(S, n)
<1>1. \A q \in BoundedSeq(S, n) : q \in Seq(S)
  <2> SUFFICES ASSUME NEW q \in BoundedSeq(S, n) PROVE q \in Seq(S)
    OBVIOUS
  <2>1. PICK m \in 0..n : q \in [1..m -> S]
    BY DEF BoundedSeq, SeqOf
  <2> QED BY <2>1
<1>2. \A q \in Seq(S) : Len(q) <= n => q \in BoundedSeq(S, n)
  <2> SUFFICES ASSUME NEW q \in Seq(S), Len(q) <= n PROVE q \in BoundedSeq(S, n)
    OBVIOUS
  <2>1. Len(q) \in 0..n /\ q \in [1..Len(q) -> S]
    BY LenProperties
  <2> QED BY <2>1 DEF BoundedSeq, SeqOf
<1> QED BY <1>1, <1>2

\* A session that has recorded nothing has stepped nothing.
LEMMA NothingStepped == Inputs(<<>>) = <<>>
<1>1. DOMAIN <<>> = {}
  OBVIOUS
<1>2. Inputs(<<>>) = [i \in {} |-> <<>>[i].xinput]
  BY <1>1 DEF Inputs
<1>3. [i \in {} |-> <<>>[i].xinput] = <<>>
  OBVIOUS
<1> QED BY <1>2, <1>3

-----------------------------------------------------------------------------
(* Steps that begin and end outside a call.                                *)

\* The limits are numbers.
LEMMA LimitFacts ==
    /\ MaxSessions \in Nat /\ MaxSessions >= 1 /\ MaxActions \in Nat /\ MaxActions >= 1
    /\ MaxObservations \in Nat /\ MaxObservations >= 1
    /\ MaxTombstones \in Nat /\ MaxTombstones >= 1
    /\ MaxRun \in Nat /\ MaxReceipts \in Nat
BY LimitsAssumption

\* Nobody is being served.
LEMMA NoCallFacts ==
    /\ NoCall.op = "none" /\ NoCall.target = NoId /\ NoCall.todo = <<>>
    /\ NoCall \in [op : Ops \cup {"none"}, target : Ids \cup {NoId}, todo : Seq(Actions)]
    /\ call = NoCall => Visible = table
BY DEF NoCall, Visible

\* Inserting a session that is not in the table.
LEMMA InsertFacts ==
    ASSUME IInv, NEW s \in Ids, s \notin table, Cardinality(table) < MaxSessions,
           NEW state \in {"active", "initial_unavailable"},
           NEW given \in {<<>>, <<<<>>>>},
           Insert(s, state, given)
    PROVE  /\ table' \subseteq Ids /\ IsFiniteSet(table') /\ Cardinality(table') <= MaxSessions
           /\ backend' \in [Ids -> Backends] /\ backend'[s] = state
           /\ \A u \in Ids \ {s} : backend'[u] = backend[u] /\ receipts'[u] = receipts[u]
           /\ receipts' \in [Ids -> Seq(Seq(Actions))] /\ receipts'[s] = given
           /\ \A u \in Ids : \A k \in DOMAIN receipts'[u] : Len(receipts'[u][k]) <= MaxActions
           /\ UNCHANGED <<actions, observed, tombstones>>
<1>1. /\ table' = table \cup {s} /\ backend' = [backend EXCEPT ![s] = state]
      /\ receipts' = [receipts EXCEPT ![s] = given]
      /\ UNCHANGED <<actions, observed, tombstones>>
  BY DEF Insert
<1>2. /\ table \subseteq Ids /\ IsFiniteSet(table) /\ backend \in [Ids -> Backends]
      /\ receipts \in [Ids -> Seq(Seq(Actions))]
      /\ \A u \in Ids : \A k \in DOMAIN receipts[u] : Len(receipts[u][k]) <= MaxActions
  BY DEF IInv, Typed
<1>3. IsFiniteSet(table') /\ Cardinality(table') = Cardinality(table) + 1
  BY <1>1, <1>2, FS_AddElement
<1>4. Cardinality(table) \in Nat
  BY <1>2, FS_CardinalityType
<1>5. /\ given \in Seq(Seq(Actions))
      /\ \A k \in DOMAIN given : Len(given[k]) <= MaxActions
  <2>1. CASE given = <<>>
    BY <2>1
  <2>2. CASE given = <<<<>>>>
    <3>1. Len(<<>>) = 0 /\ <<>> \in Seq(Actions)
      OBVIOUS
    <3>2. DOMAIN given = {1} /\ given[1] = <<>>
      BY <2>2
    <3> QED BY <2>2, <3>1, <3>2, LimitFacts
  <2> QED BY <2>1, <2>2
<1>6. /\ receipts' \in [Ids -> Seq(Seq(Actions))] /\ receipts'[s] = given
      /\ \A u \in Ids \ {s} : receipts'[u] = receipts[u]
  BY <1>1, <1>2, <1>5
<1>7. \A u \in Ids : \A k \in DOMAIN receipts'[u] : Len(receipts'[u][k]) <= MaxActions
  BY <1>2, <1>5, <1>6
<1>8. state \in Backends
  BY DEF Backends
<1>9. /\ backend' \in [Ids -> Backends] /\ backend'[s] = state
      /\ \A u \in Ids \ {s} : backend'[u] = backend[u]
  BY <1>1, <1>2, <1>8
<1> QED BY <1>1, <1>2, <1>3, <1>4, <1>6, <1>7, <1>9, LimitFacts

\* Popping a session.
LEMMA PopFacts ==
    ASSUME IInv, NEW s \in Ids, Pop(s)
    PROVE  /\ table' \subseteq Ids /\ IsFiniteSet(table') /\ Cardinality(table') <= MaxSessions
           /\ backend' \in [Ids -> Backends] /\ backend'[s] = "none"
           /\ actions' \in [Ids -> Seq(Actions)] /\ actions'[s] = <<>>
           /\ \A u \in Ids : Len(actions'[u]) <= MaxActions
           /\ observed' \in [Ids -> 0..MaxObservations] /\ observed'[s] = 0
           /\ receipts' \in [Ids -> Seq(Seq(Actions))] /\ receipts'[s] = <<>>
           /\ \A u \in Ids : \A k \in DOMAIN receipts'[u] : Len(receipts'[u][k]) <= MaxActions
           /\ \A u \in Ids \ {s} : /\ backend'[u] = backend[u] /\ actions'[u] = actions[u]
                                   /\ observed'[u] = observed[u]
                                   /\ receipts'[u] = receipts[u]
<1>1. /\ table' = table \ {s} /\ backend' = [backend EXCEPT ![s] = "none"]
      /\ actions' = [actions EXCEPT ![s] = <<>>] /\ observed' = [observed EXCEPT ![s] = 0]
      /\ receipts' = [receipts EXCEPT ![s] = <<>>]
  BY DEF Pop
<1>2. /\ table \subseteq Ids /\ IsFiniteSet(table) /\ Cardinality(table) <= MaxSessions
      /\ backend \in [Ids -> Backends] /\ actions \in [Ids -> Seq(Actions)]
      /\ \A u \in Ids : Len(actions[u]) <= MaxActions
      /\ observed \in [Ids -> 0..MaxObservations]
      /\ receipts \in [Ids -> Seq(Seq(Actions))]
      /\ \A u \in Ids : \A k \in DOMAIN receipts[u] : Len(receipts[u][k]) <= MaxActions
  BY DEF IInv, Typed
<1>3. IsFiniteSet(table') /\ Cardinality(table') <= Cardinality(table)
  <2>1. table' \in SUBSET table
    BY <1>1
  <2> QED BY <1>2, <2>1, FS_Subset
<1>4. Cardinality(table) \in Nat /\ Cardinality(table') \in Nat
  BY <1>2, <1>3, FS_CardinalityType
<1>5. /\ backend' \in [Ids -> Backends] /\ backend'[s] = "none"
      /\ \A u \in Ids \ {s} : backend'[u] = backend[u]
  BY <1>1, <1>2 DEF Backends
<1>6. /\ actions' \in [Ids -> Seq(Actions)] /\ actions'[s] = <<>>
      /\ \A u \in Ids \ {s} : actions'[u] = actions[u]
  BY <1>1, <1>2
<1>7. Len(<<>>) = 0
  OBVIOUS
<1>8. \A u \in Ids : Len(actions'[u]) <= MaxActions
  <2> SUFFICES ASSUME NEW u \in Ids PROVE Len(actions'[u]) <= MaxActions
    OBVIOUS
  <2>1. CASE u = s
    BY <1>6, <1>7, <2>1, LimitFacts
  <2>2. CASE u # s
    BY <1>2, <1>6, <2>2
  <2> QED BY <2>1, <2>2
<1>9. /\ observed' \in [Ids -> 0..MaxObservations] /\ observed'[s] = 0
      /\ \A u \in Ids \ {s} : observed'[u] = observed[u]
  BY <1>1, <1>2, LimitFacts
<1>10. /\ receipts' \in [Ids -> Seq(Seq(Actions))] /\ receipts'[s] = <<>>
       /\ \A u \in Ids \ {s} : receipts'[u] = receipts[u]
  BY <1>1, <1>2
<1>11. \A u \in Ids : \A k \in DOMAIN receipts'[u] : Len(receipts'[u][k]) <= MaxActions
  <2> SUFFICES ASSUME NEW u \in Ids, NEW k \in DOMAIN receipts'[u]
               PROVE  Len(receipts'[u][k]) <= MaxActions
    OBVIOUS
  <2>1. u # s
    BY <1>10
  <2> QED BY <1>2, <1>10, <2>1
<1> QED BY <1>1, <1>2, <1>3, <1>4, <1>5, <1>6, <1>8, <1>9, <1>10, <1>11, LimitFacts

\* The server starts with nothing.
LEMMA InitIsGood == Init => IInv
<1> SUFFICES ASSUME Init PROVE IInv
  OBVIOUS
<1>1. IsFiniteSet({}) /\ Cardinality({}) = 0 /\ Len(<<>>) = 0
  BY FS_EmptySet
<1>2. Typed
  BY <1>1, LimitFacts, NoCallFacts DEF Init, Typed, Backends
<1>3. Blank
  BY NoCallFacts DEF Init, Blank
<1>4. Owned
  BY NoIdAssumption, NoCallFacts DEF Init, Owned, Connected
<1>5. Placed /\ Asked
  BY NoCallFacts DEF Init, Placed, Asked
<1>6. Stepped
  BY DEF Init, Stepped
<1> QED BY <1>2, <1>3, <1>4, <1>5, <1>6 DEF IInv

\* The server goes, and its memory with it.
LEMMA VanishIsGood ==
    ASSUME IInv, Vanish, server' \in {"ended", "crashed"}
    PROVE  IInv'
<1>1. IsFiniteSet({}) /\ Cardinality({}) = 0 /\ Len(<<>>) = 0
  BY FS_EmptySet
<1>2. Typed'
  BY <1>1, LimitFacts, NoCallFacts DEF IInv, Vanish, Typed, Backends
<1>3. Blank'
  BY NoCallFacts DEF Vanish, Blank, Visible
<1>4. Owned'
  BY NoIdAssumption, NoCallFacts DEF Vanish, Owned, Connected, Serving
<1>5. Placed' /\ Asked'
  BY NoCallFacts DEF Vanish, Placed, Asked
<1>6. Stepped'
  BY DEF Vanish, Stepped
<1> QED BY <1>2, <1>3, <1>4, <1>5, <1>6 DEF IInv

\* Nobody is being served, and every process is that of an active session.
Rest ==
    /\ call = NoCall /\ wire = "quiet" /\ table \subseteq issued
    /\ \A s \in Ids : transport[s] = "open" <=> Connected(s)
    /\ Serving => \A s \in Ids : child[s] = "none" <=> transport[s] = "none"
    /\ \A s \in Ids : Connected(s) => executed[s] = Inputs(actions[s])

\* Between calls the invariant says that, and the session facts.
LEMMA RestIsGood == Rest => Owned /\ Placed /\ Asked /\ Stepped /\ Visible \subseteq issued
<1> SUFFICES ASSUME Rest PROVE Owned /\ Placed /\ Asked /\ Stepped /\ Visible \subseteq issued
  OBVIOUS
<1>1. call.op = "none" /\ call.target = NoId /\ call.todo = <<>> /\ Visible = table
  BY NoCallFacts DEF Rest
<1>2. Owned
  BY <1>1, NoIdAssumption DEF Rest, Owned
<1>3. Placed /\ Asked
  BY <1>1 DEF Rest, Placed, Asked
<1>4. Stepped
  BY <1>1 DEF Rest, Stepped, InFlight
<1> QED BY <1>1, <1>2, <1>3, <1>4 DEF Rest

\* Between calls every session is at rest, and an unused identifier is free.
LEMMA GoodIsRest ==
    ASSUME IInv, call = NoCall
    PROVE  /\ Rest
           /\ \A s \in Ids \ issued :
                 s \notin table /\ transport[s] = "none" /\ backend[s] = "none"
<1>1. call.op = "none" /\ call.target = NoId /\ call.todo = <<>> /\ Visible = table
  BY NoCallFacts
<1>2. wire = "quiet"
  BY DEF IInv, Asked
<1>3. \A s \in Ids : transport[s] = "open" <=> Connected(s)
  BY <1>1, NoIdAssumption DEF IInv, Owned
<1>4. \A s \in Ids : Connected(s) => executed[s] = Inputs(actions[s])
  BY <1>1, <1>2, <1>3 DEF IInv, Stepped, InFlight
<1>5. table \subseteq issued
  BY <1>1 DEF IInv, Blank
<1>6. transport \in [Ids -> {"none", "open"}]
  BY DEF IInv, Typed
<1>7. \A s \in Ids \ issued : s \notin table /\ backend[s] = "none"
  BY <1>5 DEF IInv, Blank
<1>8. \A s \in Ids \ issued : transport[s] = "none"
  BY <1>3, <1>6, <1>7 DEF Connected
<1> QED BY <1>2, <1>3, <1>4, <1>5, <1>7, <1>8 DEF Rest, IInv, Owned

\* What the invariant says of a state with nobody being served.
LEMMA RestIsEnough ==
    ASSUME Typed', Rest',
           (\A s \in Ids \ table : /\ backend[s] = "none" /\ actions[s] = <<>>
                                   /\ observed[s] = 0 /\ receipts[s] = <<>>)',
           (\A s \in table : backend[s] # "none")'
    PROVE  IInv'
<1>1. (Rest => Owned /\ Placed /\ Asked /\ Stepped /\ Visible \subseteq issued)'
  BY RestIsGood, PTL
<1> QED BY <1>1 DEF IInv, Blank

\* Opening a session without a process keeps IInv.
LEMMA OpenUnavailableIsGood ==
    ASSUME IInv, NEW s \in Ids, OpenUnavailable(s)
    PROVE  IInv'
<1>1. /\ call = NoCall /\ s \notin issued /\ Cardinality(table) < MaxSessions
      /\ Insert(s, "initial_unavailable", <<<<>>>>) /\ issued' = issued \cup {s}
      /\ UNCHANGED <<server, processes, wire, call>>
  BY DEF OpenUnavailable, MayCreate, Idle
<1>2. Rest /\ s \notin table /\ transport[s] = "none"
  BY <1>1, GoodIsRest
<1>3. PICK given : given = <<<<>>>>
  OBVIOUS
<1>4. /\ table' \subseteq Ids /\ IsFiniteSet(table') /\ Cardinality(table') <= MaxSessions
      /\ backend' \in [Ids -> Backends] /\ backend'[s] = "initial_unavailable"
      /\ \A u \in Ids \ {s} : backend'[u] = backend[u] /\ receipts'[u] = receipts[u]
      /\ receipts' \in [Ids -> Seq(Seq(Actions))] /\ receipts'[s] = given
      /\ \A u \in Ids : \A k \in DOMAIN receipts'[u] : Len(receipts'[u][k]) <= MaxActions
      /\ UNCHANGED <<actions, observed, tombstones>>
  BY <1>1, <1>2, <1>3, InsertFacts
<1>5. table' = table \cup {s}
  BY <1>1 DEF Insert
<1>6. Typed'
  BY <1>1, <1>4 DEF IInv, Typed, processes
<1>7. \A u \in Ids : Connected(u)' <=> Connected(u)
  BY <1>2, <1>4, <1>5 DEF Connected
<1>8. Rest'
  BY <1>1, <1>2, <1>4, <1>5, <1>7 DEF Rest, Serving, processes
<1>9. /\ \A u \in Ids \ table' : /\ backend'[u] = "none" /\ actions'[u] = <<>>
                                 /\ observed'[u] = 0 /\ receipts'[u] = <<>>
      /\ \A u \in table' : backend'[u] # "none"
  BY <1>4, <1>5 DEF IInv, Blank, Typed
<1> QED BY <1>6, <1>8, <1>9, RestIsEnough

\* Closing a session keeps IInv.
LEMMA CloseIsGood ==
    ASSUME IInv, NEW s \in Ids, Close(s)
    PROVE  IInv'
<1>1. PICK all : all = Append(tombstones, [id |-> s, log |-> actions[s]])
  OBVIOUS
<1>2. /\ call = NoCall /\ s \in table /\ CloseTransport(s) /\ Pop(s)
      /\ tombstones' = IF Len(all) > MaxTombstones THEN Tail(all) ELSE all
      /\ UNCHANGED <<server, issued, call>>
  BY <1>1 DEF Close, Idle
<1>3. Rest /\ Typed
  BY <1>2, GoodIsRest DEF IInv
<1>4. /\ table' \subseteq Ids /\ IsFiniteSet(table') /\ Cardinality(table') <= MaxSessions
      /\ backend' \in [Ids -> Backends] /\ backend'[s] = "none"
      /\ actions' \in [Ids -> Seq(Actions)] /\ actions'[s] = <<>>
      /\ \A u \in Ids : Len(actions'[u]) <= MaxActions
      /\ observed' \in [Ids -> 0..MaxObservations] /\ observed'[s] = 0
      /\ receipts' \in [Ids -> Seq(Seq(Actions))] /\ receipts'[s] = <<>>
      /\ \A u \in Ids : \A k \in DOMAIN receipts'[u] : Len(receipts'[u][k]) <= MaxActions
      /\ \A u \in Ids \ {s} : /\ backend'[u] = backend[u] /\ actions'[u] = actions[u]
                              /\ observed'[u] = observed[u]
                              /\ receipts'[u] = receipts[u]
  BY <1>2, PopFacts
<1>5. table' = table \ {s}
  BY <1>2 DEF Pop
<1>6. /\ transport' = [transport EXCEPT ![s] = "none"] /\ child' = [child EXCEPT ![s] = "none"]
      /\ executed' = [executed EXCEPT ![s] = <<>>] /\ wire' = "quiet"
  BY <1>2 DEF CloseTransport
<1>7. /\ transport' \in [Ids -> {"none", "open"}] /\ transport'[s] = "none"
      /\ child' \in [Ids -> {"none", "running", "exited"}] /\ child'[s] = "none"
      /\ executed' = [u \in Ids |-> executed'[u]]
      /\ \A u \in Ids \ {s} : /\ transport'[u] = transport[u] /\ child'[u] = child[u]
                              /\ executed'[u] = executed[u]
  BY <1>3, <1>6 DEF Typed
<1>8. tombstones' \in Seq(Entry) /\ Len(tombstones') <= MaxTombstones
  <2>1. PICK e \in Entry : all = Append(tombstones, e)
    BY <1>1, <1>3 DEF Typed, Entry
  <2>2. all \in Seq(Entry) /\ Len(all) = Len(tombstones) + 1 /\ all # <<>>
    <3>1. tombstones \in Seq(Entry)
      BY <1>3 DEF Typed
    <3> QED BY <2>1, <3>1, AppendProperties
  <2>3. Tail(all) \in Seq(Entry) /\ Len(Tail(all)) = Len(all) - 1
    BY <2>2, HeadTailProperties
  <2>4. Len(tombstones) \in Nat /\ Len(tombstones) <= MaxTombstones
    BY <1>3, LenProperties DEF Typed
  <2> QED BY <1>2, <2>2, <2>3, <2>4, LimitFacts
<1>9. Typed'
  BY <1>2, <1>3, <1>4, <1>7, <1>8, <1>6 DEF Typed
<1>10. ~Connected(s)' /\ \A u \in Ids \ {s} : Connected(u)' <=> Connected(u)
  BY <1>4, <1>5 DEF Connected
<1>11. Rest'
  <2>1. call' = NoCall /\ wire' = "quiet" /\ table' \subseteq issued'
    BY <1>2, <1>3, <1>5, <1>6 DEF Rest
  <2>2. \A u \in Ids : transport'[u] = "open" <=> Connected(u)'
    BY <1>3, <1>7, <1>10 DEF Rest
  <2>3. Serving' => \A u \in Ids : child'[u] = "none" <=> transport'[u] = "none"
    BY <1>2, <1>3, <1>7 DEF Rest, Serving
  <2>4. ASSUME NEW u \in Ids, Connected(u)' PROVE executed'[u] = Inputs(actions'[u])
    BY <1>3, <1>4, <1>7, <1>10, <2>4 DEF Rest
  <2> QED BY <2>1, <2>2, <2>3, <2>4 DEF Rest
<1>12. /\ \A u \in Ids \ table' : /\ backend'[u] = "none" /\ actions'[u] = <<>>
                                  /\ observed'[u] = 0 /\ receipts'[u] = <<>>
       /\ \A u \in table' : backend'[u] # "none"
  BY <1>3, <1>4, <1>5 DEF IInv, Blank, Typed
<1> QED BY <1>9, <1>11, <1>12, RestIsEnough

\* A call on a session of the table begins.
LEMMA BeginsIsGood ==
    ASSUME IInv, call = NoCall, Serving, NEW s \in table, backend[s] # "transport_failed",
           UNCHANGED <<server, sessions, processes, wire>>,
           call' \in [op : {"observe", "step", "run"}, target : {s}, todo : Seq(Actions)],
           call'.op # "observe" => call'.todo # <<>>,
           call'.op = "observe" => /\ call'.todo = <<>> /\ Connected(s)
                                   /\ observed[s] < MaxObservations
    PROVE  IInv'
<1>1. Rest /\ Typed /\ s \in Ids
  BY GoodIsRest DEF IInv, Typed
<1>2. /\ UNCHANGED <<server, issued, table, backend, actions, observed, receipts, tombstones>>
      /\ UNCHANGED <<transport, child, executed, wire>>
  BY DEF sessions, processes
<1>3. call'.op \in {"observe", "step", "run"} /\ call'.target = s
  OBVIOUS
<1>4. Typed'
  <2>1. call' \in [op : Ops \cup {"none"}, target : Ids \cup {NoId}, todo : Seq(Actions)]
    BY <1>1 DEF Ops
  <2> QED BY <1>1, <1>2, <2>1 DEF Typed
<1>5. Visible' = table
  BY <1>2, <1>3 DEF Visible
<1>6. Blank'
  BY <1>1, <1>2, <1>5 DEF IInv, Blank, Rest
<1>7. \A u \in Ids : Connected(u)' <=> Connected(u)
  BY <1>2 DEF Connected
<1>8. Owned'
  BY <1>1, <1>2, <1>3, <1>7 DEF Owned, Rest, Serving
<1>9. Placed'
  BY <1>1, <1>2, <1>3, <1>7 DEF Placed, Ops
<1>10. Asked' /\ Stepped'
  BY <1>1, <1>2, <1>7 DEF Asked, Stepped, Rest, InFlight
<1> QED BY <1>4, <1>6, <1>8, <1>9, <1>10 DEF IInv

\* What a spawn does.
LEMMA SpawnFacts ==
    ASSUME IInv, NEW s \in Ids, Spawn(s)
    PROVE  /\ transport' \in [Ids -> {"none", "open"}] /\ transport'[s] = "open"
           /\ child' \in [Ids -> {"none", "running", "exited"}] /\ child'[s] = "running"
           /\ executed' = [u \in Ids |-> executed'[u]] /\ executed'[s] = <<>>
           /\ \A u \in Ids \ {s} : /\ transport'[u] = transport[u] /\ child'[u] = child[u]
                                   /\ executed'[u] = executed[u]
           /\ wire' = wire
BY DEF Spawn, IInv, Typed

\* A process is started for a session that is not in the table yet.
LEMMA SpawnIsGood ==
    ASSUME IInv, NEW s \in Ids, MayCreate(s), Spawn(s), UNCHANGED <<server, sessions>>,
           call' \in [op : {"open", "replay"}, target : {s}, todo : Seq(Actions)],
           call'.op = "open" => call'.todo = <<>>,
           call'.op = "replay" =>
              \E u \in table : /\ backend[u] # "transport_failed"
                               /\ \E k \in DOMAIN receipts[u] : receipts[u][k] = call'.todo
    PROVE  IInv'
<1>1. call = NoCall /\ Serving /\ s \notin issued /\ Cardinality(table) < MaxSessions
  BY DEF MayCreate, Idle
<1>2. Rest /\ Typed /\ s \notin table /\ actions[s] = <<>>
  BY <1>1, GoodIsRest DEF IInv, Blank
<1>3. UNCHANGED <<server, issued, table, backend, actions, observed, receipts, tombstones>>
  BY DEF sessions
<1>4. call'.op \in {"open", "replay"} /\ call'.target = s /\ call'.todo \in Seq(Actions)
  OBVIOUS
<1>5. Typed'
  <2>1. call' \in [op : Ops \cup {"none"}, target : Ids \cup {NoId}, todo : Seq(Actions)]
    BY DEF Ops
  <2> QED BY <1>2, <1>3, <2>1, SpawnFacts DEF Typed
<1>6. Visible' = table
  BY <1>2, <1>3, <1>4 DEF Visible
<1>7. Blank'
  BY <1>2, <1>3, <1>6 DEF IInv, Blank, Rest
<1>8. \A u \in Ids : Connected(u)' <=> Connected(u)
  BY <1>3 DEF Connected
<1>9. Owned'
  <2>1. ASSUME NEW u \in Ids
        PROVE  /\ (transport'[u] = "open") <=> (Connected(u)' \/ (u = s /\ u \notin table))
               /\ (child'[u] = "none") <=> (transport'[u] = "none")
    <3>1. CASE u = s
      BY <1>2, <3>1, SpawnFacts
    <3>2. CASE u # s
      BY <1>1, <1>2, <1>8, <3>2, SpawnFacts DEF Rest
    <3> QED BY <3>1, <3>2
  <2> QED BY <1>1, <1>3, <1>4, <2>1 DEF Owned, Serving
<1>10. Placed'
  <2>1. ASSUME call'.op = "replay" PROVE Completes(call)'
    <3>1. PICK u \in table : /\ backend[u] # "transport_failed"
                             /\ \E k \in DOMAIN receipts[u] : receipts[u][k] = call'.todo
      BY <2>1
    <3>2. actions'[s] \o call'.todo = call'.todo
      BY <1>2, <1>3, <1>4, ConcatEmptySeq
    <3>3. u # s
      BY <1>2
    <3> QED BY <1>3, <1>4, <3>1, <3>2, <3>3 DEF Completes
  <2> QED BY <1>1, <1>2, <1>3, <1>4, <2>1 DEF Placed, Ops
<1>11. Asked'
  BY <1>2, SpawnFacts DEF Rest, Asked
<1>12. Stepped'
  <2>1. ASSUME NEW u \in Ids, transport'[u] = "open" PROVE executed'[u] = Inputs(actions'[u])
    <3>1. CASE u = s
      BY <1>2, <1>3, <3>1, SpawnFacts, NothingStepped
    <3>2. CASE u # s
      BY <1>2, <1>3, <2>1, <3>2, SpawnFacts DEF Rest
    <3> QED BY <3>1, <3>2
  <2>2. ~InFlight(s)' /\ \A u \in Ids : ~InFlight(u)'
    BY <1>2, SpawnFacts DEF InFlight, Rest
  <2> QED BY <2>1, <2>2 DEF Stepped
<1> QED BY <1>5, <1>7, <1>9, <1>10, <1>11, <1>12 DEF IInv

\* Starting the process of a session to open keeps IInv.
LEMMA OpenSpawnsIsGood ==
    ASSUME IInv, NEW s \in Ids, OpenSpawns(s)
    PROVE  IInv'
<1>1. /\ MayCreate(s) /\ Spawn(s) /\ UNCHANGED <<server, sessions>>
      /\ call' = [op |-> "open", target |-> s, todo |-> <<>>]
  BY DEF OpenSpawns, Call
<1> QED BY <1>1, SpawnIsGood

\* Starting the process of a replay keeps IInv.
LEMMA ReplaySpawnsIsGood ==
    ASSUME IInv, NEW s \in Ids, NEW k, NEW n \in Ids, ReplaySpawns(s, k, n)
    PROVE  IInv'
<1>1. /\ MayCreate(n) /\ Spawn(n) /\ UNCHANGED <<server, sessions>>
      /\ call' = [op |-> "replay", target |-> n, todo |-> receipts[s][k]]
      /\ s \in table /\ backend[s] = "active" /\ k \in DOMAIN receipts[s]
  BY DEF ReplaySpawns, Call, Connected
<1>2. receipts[s][k] \in Seq(Actions)
  <2>1. receipts[s] \in Seq(Seq(Actions))
    BY DEF IInv, Typed
  <2> QED BY <1>1, <2>1
<1> QED BY <1>1, <1>2, SpawnIsGood

\* The start of a step keeps IInv.
LEMMA StepIsGood ==
    ASSUME IInv, NEW s \in Ids, NEW a \in Actions, Step(s, a)
    PROVE  IInv'
<1>1. /\ call = NoCall /\ Serving /\ s \in table /\ backend[s] # "transport_failed"
      /\ call' = [op |-> "step", target |-> s, todo |-> <<a>>]
      /\ UNCHANGED <<server, sessions, processes, wire>>
  BY DEF Step, Idle, Usable, Call
<1>2. <<a>> \in Seq(Actions) /\ <<a>> # <<>>
  OBVIOUS
<1> QED BY <1>1, <1>2, BeginsIsGood

\* One more observation or receipt, between calls.
LEMMA CountsIsGood ==
    ASSUME IInv, call = NoCall, Serving, NEW s \in table,
           \/ /\ observed[s] < MaxObservations
              /\ observed' = [observed EXCEPT ![s] = @ + 1] /\ UNCHANGED receipts
           \/ /\ receipts' = [receipts EXCEPT ![s] = Append(@, actions[s])]
              /\ UNCHANGED observed,
           UNCHANGED <<server, issued, table, backend, actions, tombstones>>,
           UNCHANGED <<processes, wire, call>>
    PROVE  IInv'
<1>1. Rest /\ Typed /\ s \in Ids
  BY GoodIsRest DEF IInv, Typed
<1>2. UNCHANGED <<transport, child, executed>>
  BY DEF processes
<1>3. /\ observed' \in [Ids -> 0..MaxObservations]
      /\ \A u \in Ids \ {s} : observed'[u] = observed[u] /\ receipts'[u] = receipts[u]
  <2>1. observed \in [Ids -> 0..MaxObservations] /\ receipts = [u \in Ids |-> receipts[u]]
    BY <1>1 DEF Typed
  <2>2. CASE /\ observed[s] < MaxObservations
             /\ observed' = [observed EXCEPT ![s] = @ + 1] /\ UNCHANGED receipts
    <3>1. observed[s] \in Nat /\ observed[s] + 1 \in 0..MaxObservations
      BY <1>1, <2>1, <2>2, LimitFacts
    <3> QED BY <2>1, <2>2, <3>1
  <2>3. CASE /\ receipts' = [receipts EXCEPT ![s] = Append(@, actions[s])]
             /\ UNCHANGED observed
    BY <2>1, <2>3
  <2> QED BY <2>2, <2>3
<1>4. /\ receipts' \in [Ids -> Seq(Seq(Actions))]
      /\ \A u \in Ids : \A k \in DOMAIN receipts'[u] : Len(receipts'[u][k]) <= MaxActions
  <2>1. CASE receipts' = receipts
    BY <1>1, <2>1 DEF Typed
  <2>2. CASE receipts' = [receipts EXCEPT ![s] = Append(@, actions[s])]
    <3>1. receipts[s] \in Seq(Seq(Actions)) /\ actions[s] \in Seq(Actions)
      BY <1>1 DEF Typed
    <3>2. PICK m : m = Append(receipts[s], actions[s])
      OBVIOUS
    <3>3. /\ m \in Seq(Seq(Actions)) /\ Len(m) = Len(receipts[s]) + 1
          /\ \A i \in 1..Len(receipts[s]) : m[i] = receipts[s][i]
          /\ m[Len(receipts[s]) + 1] = actions[s] /\ Len(receipts[s]) \in Nat
          /\ DOMAIN m = 1..(Len(receipts[s]) + 1) /\ DOMAIN receipts[s] = 1..Len(receipts[s])
      BY <3>1, <3>2, AppendProperties, LenProperties
    <3>4. ASSUME NEW k \in DOMAIN m PROVE Len(m[k]) <= MaxActions
      <4>1. CASE k = Len(receipts[s]) + 1
        BY <1>1, <3>3, <4>1 DEF Typed
      <4>2. CASE k \in DOMAIN receipts[s]
        BY <1>1, <3>3, <4>2 DEF Typed
      <4> QED BY <3>3, <4>1, <4>2
    <3>5. /\ receipts' \in [Ids -> Seq(Seq(Actions))] /\ receipts'[s] = m
          /\ \A u \in Ids \ {s} : receipts'[u] = receipts[u]
      BY <1>1, <2>2, <3>2, <3>3 DEF Typed
    <3> QED BY <1>1, <3>4, <3>5 DEF Typed
  <2> QED BY <2>1, <2>2
<1>5. Typed'
  BY <1>1, <1>2, <1>3, <1>4 DEF Typed
<1>6. Rest'
  BY <1>1, <1>2 DEF Rest, Connected, Serving
<1>7. /\ \A u \in Ids \ table' : /\ backend'[u] = "none" /\ actions'[u] = <<>>
                                 /\ observed'[u] = 0 /\ receipts'[u] = <<>>
      /\ \A u \in table' : backend'[u] # "none"
  BY <1>3 DEF IInv, Blank
<1> QED BY <1>5, <1>6, <1>7, RestIsEnough

\* An observation, or the start of one, keeps IInv.
LEMMA ObserveIsGood ==
    ASSUME IInv, NEW s \in Ids, Observe(s)
    PROVE  IInv'
<1>1. /\ call = NoCall /\ Serving /\ s \in table /\ backend[s] # "transport_failed"
      /\ observed[s] < MaxObservations
      /\ UNCHANGED <<server, issued, table, backend, actions, receipts,
                     tombstones, processes, wire>>
  BY DEF Observe, Idle, Usable
<1>2. CASE Connected(s)
  <2>1. call' = [op |-> "observe", target |-> s, todo |-> <<>>] /\ UNCHANGED observed
    BY <1>2 DEF Observe, Call
  <2>2. UNCHANGED <<server, sessions, processes, wire>>
    BY <1>1, <2>1 DEF sessions
  <2> QED BY <1>1, <1>2, <2>1, <2>2, BeginsIsGood
<1>3. CASE ~Connected(s)
  <2>1. observed' = [observed EXCEPT ![s] = @ + 1] /\ UNCHANGED call
    BY <1>3 DEF Observe
  <2> QED BY <1>1, <2>1, CountsIsGood
<1> QED BY <1>2, <1>3

\* A run of no actions, or the start of another, keeps IInv.
LEMMA RunUntilIsGood ==
    ASSUME IInv, NEW s \in Ids, NEW todo \in Seq(Actions), RunUntil(s, todo)
    PROVE  IInv'
<1>1. /\ call = NoCall /\ Serving /\ s \in table /\ backend[s] # "transport_failed"
      /\ UNCHANGED <<server, issued, table, backend, actions, observed,
                     tombstones, processes, wire>>
  BY DEF RunUntil, Idle, Usable
<1>2. CASE todo = <<>>
  <2>1. receipts' = [receipts EXCEPT ![s] = Append(@, actions[s])] /\ UNCHANGED call
    BY <1>2 DEF RunUntil
  <2> QED BY <1>1, <2>1, CountsIsGood
<1>3. CASE todo # <<>>
  <2>1. call' = [op |-> "run", target |-> s, todo |-> todo] /\ UNCHANGED receipts
    BY <1>3 DEF RunUntil, Call
  <2>2. UNCHANGED <<server, sessions, processes, wire>>
    BY <1>1, <2>1 DEF sessions
  <2> QED BY <1>1, <1>3, <2>1, <2>2, BeginsIsGood
<1> QED BY <1>2, <1>3

\* A replay into a session without a process keeps IInv.
LEMMA ReplayUnavailableIsGood ==
    ASSUME IInv, NEW s \in Ids, NEW k, NEW n \in Ids, ReplayUnavailable(s, k, n)
    PROVE  IInv'
<1>1. /\ call = NoCall /\ Serving /\ n \notin issued /\ Cardinality(table) < MaxSessions
      /\ s \in table /\ backend[s] = "initial_unavailable" /\ k \in DOMAIN receipts[s]
      /\ UNCHANGED <<server, processes, wire>>
  BY DEF ReplayUnavailable, MayCreate, Idle
<1>2. Rest /\ Typed /\ n \notin table /\ transport[n] = "none" /\ actions[n] = <<>>
  BY <1>1, GoodIsRest DEF IInv, Blank
<1>3. CASE receipts[s][k] = <<>>
  <2>1. Insert(n, "initial_unavailable", <<<<>>>>) /\ issued' = issued \cup {n}
        /\ UNCHANGED call
    BY <1>3 DEF ReplayUnavailable
  <2>2. OpenUnavailable(n)
    BY <1>1, <2>1 DEF OpenUnavailable, MayCreate, Idle
  <2> QED BY <2>2, OpenUnavailableIsGood
<1>4. CASE receipts[s][k] # <<>>
  <2>1. PICK q : q = receipts[s][k]
    OBVIOUS
  <2>2. q \in Seq(Actions) /\ q # <<>>
    <3>1. receipts[s] \in Seq(Seq(Actions))
      BY <1>1, <1>2 DEF Typed
    <3> QED BY <1>1, <1>4, <2>1, <3>1
  <2>3. /\ Insert(n, "initial_unavailable", <<>>) /\ UNCHANGED issued
        /\ call' = [op |-> "replay", target |-> n, todo |-> q]
    BY <1>4, <2>1 DEF ReplayUnavailable, Call
  <2>4. /\ table' \subseteq Ids /\ IsFiniteSet(table') /\ Cardinality(table') <= MaxSessions
        /\ backend' \in [Ids -> Backends] /\ backend'[n] = "initial_unavailable"
        /\ \A u \in Ids \ {n} : backend'[u] = backend[u] /\ receipts'[u] = receipts[u]
        /\ receipts' \in [Ids -> Seq(Seq(Actions))] /\ receipts'[n] = <<>>
        /\ \A u \in Ids : \A j \in DOMAIN receipts'[u] : Len(receipts'[u][j]) <= MaxActions
        /\ UNCHANGED <<actions, observed, tombstones>>
    BY <1>1, <1>2, <2>3, InsertFacts
  <2>5. table' = table \cup {n} /\ UNCHANGED <<transport, child, executed>>
    BY <1>1, <2>3 DEF Insert, processes
  <2>6. call'.op = "replay" /\ call'.target = n /\ call'.todo = q
    BY <2>3
  <2>7. Typed'
    <3>1. call' \in [op : Ops \cup {"none"}, target : Ids \cup {NoId}, todo : Seq(Actions)]
      BY <2>2, <2>3 DEF Ops
    <3> QED BY <1>1, <1>2, <2>3, <2>4, <2>5, <3>1 DEF Typed
  <2>8. Visible' = table
    BY <1>2, <2>5, <2>6 DEF Visible
  <2>9. Blank'
    BY <1>2, <2>3, <2>4, <2>5, <2>8 DEF IInv, Typed, Blank, Rest
  <2>10. \A u \in Ids : Connected(u)' <=> Connected(u)
    BY <1>2, <2>4, <2>5 DEF Connected
  <2>11. Owned'
    BY <1>1, <1>2, <2>5, <2>6, <2>10 DEF Owned, Rest, Serving
  <2>12. Placed'
    <3>1. Completes(call)'
      <4>1. actions'[n] \o q = q
        BY <1>2, <2>2, <2>4, ConcatEmptySeq
      <4>2. s \in table' \ {n} /\ s \in Ids \ {n}
        BY <1>1, <1>2, <2>5 DEF Typed
      <4>3. backend'[s] = "initial_unavailable" /\ receipts'[s] = receipts[s]
        BY <1>1, <2>4, <4>2
      <4> QED BY <1>1, <2>1, <2>6, <4>1, <4>2, <4>3 DEF Completes
    <3> QED BY <1>1, <2>2, <2>3, <2>4, <2>5, <2>6, <3>1 DEF Placed, Ops
  <2>13. Asked' /\ Stepped'
    BY <1>1, <1>2, <2>4, <2>5, <2>10 DEF Asked, Stepped, Rest, InFlight
  <2> QED BY <2>7, <2>9, <2>11, <2>12, <2>13 DEF IInv
<1> QED BY <1>3, <1>4

-----------------------------------------------------------------------------
(* Steps of a call, and of the process it talks to.                        *)

\* What holds while a call is served.
LEMMA CallFacts ==
    ASSUME IInv, call # NoCall
    PROVE  /\ Serving /\ call.op \in Ops /\ call.target \in Ids /\ call.todo \in Seq(Actions)
           /\ call.target \notin table => call.op \in {"open", "replay"}
           /\ call.target \notin table => transport[call.target] = "open"
           /\ call.op \in {"open", "observe"} => call.todo = <<>>
           /\ call.op = "open" => call.target \notin table
           /\ table \subseteq issued \cup {call.target}
           /\ \A s \in Ids \ {call.target} : transport[s] = "open" <=> Connected(s)
<1>1. Typed /\ Blank /\ Owned /\ Placed
  BY DEF IInv
<1>2. Serving /\ call.op \in Ops /\ call.target \in Ids /\ call.todo \in Seq(Actions)
  BY <1>1 DEF Typed, Owned, Placed
<1>3. call.target \notin table => call.op \in {"open", "replay"}
  BY <1>1, <1>2 DEF Placed, Ops
<1>4. /\ call.op \in {"open", "observe"} => call.todo = <<>>
      /\ call.op = "open" => call.target \notin table
  BY <1>1 DEF Placed
<1>5. table \subseteq issued \cup {call.target}
  BY <1>1 DEF Blank, Visible
<1>6. /\ call.target \notin table => transport[call.target] = "open"
      /\ \A s \in Ids \ {call.target} : transport[s] = "open" <=> Connected(s)
  BY <1>1, <1>2 DEF Owned
<1> QED BY <1>2, <1>3, <1>4, <1>5, <1>6

\* What closing a transport does.
LEMMA CloseTransportFacts ==
    ASSUME IInv, NEW s \in Ids, CloseTransport(s)
    PROVE  /\ transport' \in [Ids -> {"none", "open"}] /\ transport'[s] = "none"
           /\ child' \in [Ids -> {"none", "running", "exited"}] /\ child'[s] = "none"
           /\ executed' = [u \in Ids |-> executed'[u]]
           /\ \A u \in Ids \ {s} : /\ transport'[u] = transport[u] /\ child'[u] = child[u]
                                   /\ executed'[u] = executed[u]
           /\ wire' = "quiet"
BY DEF CloseTransport, IInv, Typed

\* The call ends, its transport is closed, and its session is not active:
\* the others are as they were.
LEMMA ClosedIsRest ==
    ASSUME IInv, call # NoCall, NEW s, s = call.target, CloseTransport(s), call' = NoCall,
           UNCHANGED server, table' \subseteq issued', ~Connected(s)',
           \A u \in Ids \ {s} : /\ u \in table' <=> u \in table
                                /\ backend'[u] = backend[u]
                                /\ actions'[u] = actions[u]
    PROVE  Rest'
<1>1. s = call.target
  OBVIOUS
<1>2. s \in Ids /\ Serving /\ \A u \in Ids \ {s} : transport[u] = "open" <=> Connected(u)
  BY <1>1, CallFacts
<1>3. /\ transport'[s] = "none" /\ child'[s] = "none" /\ wire' = "quiet"
      /\ \A u \in Ids \ {s} : /\ transport'[u] = transport[u] /\ child'[u] = child[u]
                              /\ executed'[u] = executed[u]
  BY <1>1, <1>2, CloseTransportFacts
<1>4. \A u \in Ids \ {s} : Connected(u)' <=> Connected(u)
  BY <1>1 DEF Connected
<1>5. \A u \in Ids : transport'[u] = "open" <=> Connected(u)'
  BY <1>1, <1>2, <1>3, <1>4
<1>6. \A u \in Ids : child'[u] = "none" <=> transport'[u] = "none"
  BY <1>2, <1>3 DEF IInv, Owned
<1>7. ASSUME NEW u \in Ids, Connected(u)' PROVE executed'[u] = Inputs(actions'[u])
  <2>1. u # s /\ Connected(u)
    BY <1>1, <1>4, <1>7
  <2>2. executed[u] = Inputs(actions[u])
    BY <1>1, <1>2, <2>1 DEF IInv, Stepped, InFlight
  <2> QED BY <1>1, <1>3, <2>1, <2>2
<1> QED BY <1>3, <1>5, <1>6, <1>7 DEF Rest

\* A replay is rolled back.
LEMMA RollBackIsGood ==
    ASSUME IInv, call # NoCall, CloseTransport(call.target), Pop(call.target),
           call' = NoCall, UNCHANGED <<server, issued, tombstones>>
    PROVE  IInv'
<1>1. PICK s : s = call.target
  OBVIOUS
<1>2. s \in Ids /\ table \subseteq issued \cup {s}
  BY <1>1, CallFacts
<1>3. /\ table' \subseteq Ids /\ IsFiniteSet(table') /\ Cardinality(table') <= MaxSessions
      /\ backend' \in [Ids -> Backends] /\ backend'[s] = "none"
      /\ actions' \in [Ids -> Seq(Actions)] /\ actions'[s] = <<>>
      /\ \A u \in Ids : Len(actions'[u]) <= MaxActions
      /\ observed' \in [Ids -> 0..MaxObservations] /\ observed'[s] = 0
      /\ receipts' \in [Ids -> Seq(Seq(Actions))] /\ receipts'[s] = <<>>
      /\ \A u \in Ids : \A k \in DOMAIN receipts'[u] : Len(receipts'[u][k]) <= MaxActions
      /\ \A u \in Ids \ {s} : /\ backend'[u] = backend[u] /\ actions'[u] = actions[u]
                              /\ observed'[u] = observed[u]
                              /\ receipts'[u] = receipts[u]
  BY <1>1, <1>2, PopFacts
<1>4. table' = table \ {s}
  BY <1>1 DEF Pop
<1>5. Typed'
  BY <1>1, <1>2, <1>3, CloseTransportFacts, NoCallFacts DEF IInv, Typed
<1>6. Rest'
  BY <1>1, <1>2, <1>3, <1>4, ClosedIsRest DEF Connected
<1>7. /\ \A u \in Ids \ table' : /\ backend'[u] = "none" /\ actions'[u] = <<>>
                                 /\ observed'[u] = 0 /\ receipts'[u] = <<>>
      /\ \A u \in table' : backend'[u] # "none"
  BY <1>2, <1>3, <1>4 DEF IInv, Typed, Blank
<1> QED BY <1>5, <1>6, <1>7, RestIsEnough

\* The end of a call whose transport raised keeps IInv.
LEMMA GivesUpIsGood ==
    ASSUME IInv, call # NoCall, GivesUp
    PROVE  IInv'
<1>1. PICK s : s = call.target
  OBVIOUS
<1>2. /\ CloseTransport(s) /\ call' = NoCall /\ UNCHANGED server /\ Settles
  BY <1>1 DEF GivesUp, Releases
<1>3. s \in Ids /\ call.op \in Ops /\ table \subseteq issued \cup {s} /\ Typed
  BY <1>1, CallFacts DEF IInv
<1>4. CASE call.op = "open"
  <2>1. /\ Insert(s, "initial_unavailable", <<<<>>>>) /\ issued' = issued \cup {s}
        /\ s \notin table /\ Cardinality(table) < MaxSessions
    BY <1>1, <1>2, <1>4 DEF Settles, OpensUnavailable, IInv, Placed
  <2>2. PICK given : given = <<<<>>>>
    OBVIOUS
  <2>3. /\ table' \subseteq Ids /\ IsFiniteSet(table') /\ Cardinality(table') <= MaxSessions
        /\ backend' \in [Ids -> Backends] /\ backend'[s] = "initial_unavailable"
        /\ \A u \in Ids \ {s} : backend'[u] = backend[u] /\ receipts'[u] = receipts[u]
        /\ receipts' \in [Ids -> Seq(Seq(Actions))] /\ receipts'[s] = given
        /\ \A u \in Ids : \A k \in DOMAIN receipts'[u] : Len(receipts'[u][k]) <= MaxActions
        /\ UNCHANGED <<actions, observed, tombstones>>
    BY <1>3, <2>1, <2>2, InsertFacts
  <2>4. table' = table \cup {s}
    BY <2>1 DEF Insert
  <2>5. Typed'
    BY <1>2, <1>3, <2>1, <2>3, CloseTransportFacts, NoCallFacts DEF Typed
  <2>6. Rest'
    BY <1>1, <1>2, <1>3, <2>1, <2>3, <2>4, ClosedIsRest DEF Connected
  <2>7. /\ \A u \in Ids \ table' : /\ backend'[u] = "none" /\ actions'[u] = <<>>
                                   /\ observed'[u] = 0 /\ receipts'[u] = <<>>
        /\ \A u \in table' : backend'[u] # "none"
    BY <1>3, <2>3, <2>4 DEF IInv, Typed, Blank
  <2> QED BY <2>5, <2>6, <2>7, RestIsEnough
<1>5. CASE call.op = "replay"
  BY <1>1, <1>2, <1>5, RollBackIsGood DEF Settles
<1>6. CASE call.op \in {"observe", "step", "run"}
  <2>1. /\ backend' = [backend EXCEPT ![s] = "transport_failed"] /\ s \in table
        /\ UNCHANGED <<issued, table, actions, observed, receipts, tombstones>>
    BY <1>1, <1>2, <1>6 DEF Settles, Poisons, IInv, Placed
  <2>2. /\ backend' \in [Ids -> Backends] /\ backend'[s] = "transport_failed"
        /\ \A u \in Ids \ {s} : backend'[u] = backend[u]
    BY <1>3, <2>1 DEF Typed, Backends
  <2>3. Typed'
    BY <1>2, <1>3, <2>1, <2>2, CloseTransportFacts, NoCallFacts DEF Typed
  <2>4. table' \subseteq issued'
    <3>1. Visible = table
      BY <1>6 DEF Visible
    <3> QED BY <2>1, <3>1 DEF IInv, Blank
  <2>5. Rest'
    BY <1>1, <1>2, <2>1, <2>2, <2>4, ClosedIsRest DEF Connected
  <2>6. /\ \A u \in Ids \ table' : /\ backend'[u] = "none" /\ actions'[u] = <<>>
                                   /\ observed'[u] = 0 /\ receipts'[u] = <<>>
        /\ \A u \in table' : backend'[u] # "none"
    BY <1>3, <2>1, <2>2 DEF IInv, Typed, Blank
  <2> QED BY <2>3, <2>5, <2>6, RestIsEnough
<1> QED BY <1>3, <1>4, <1>5, <1>6 DEF Ops

\* The end of a call at an action that is refused keeps IInv.
LEMMA RefusesRestIsGood ==
    ASSUME IInv, RefusesRest
    PROVE  IInv'
<1>1. PICK s : s = call.target
  OBVIOUS
<1>2. /\ call # NoCall /\ wire = "quiet" /\ s \in table /\ call.todo # <<>>
      /\ call' = NoCall /\ UNCHANGED server
  BY <1>1 DEF RefusesRest, InCall, Starting
<1>3. CASE call.op = "replay"
  <2>1. CloseTransport(s) /\ Pop(s) /\ UNCHANGED <<issued, tombstones>>
    BY <1>1, <1>3 DEF RefusesRest
  <2> QED BY <1>1, <1>2, <2>1, RollBackIsGood
<1>4. CASE call.op # "replay"
  <2>1. UNCHANGED <<sessions, processes, wire>>
    BY <1>4 DEF RefusesRest
  <2>2. /\ UNCHANGED <<issued, table, backend, actions, observed, receipts, tombstones>>
        /\ UNCHANGED <<transport, child, executed, wire>>
    BY <2>1 DEF sessions, processes
  <2>3. Typed /\ Blank /\ Owned /\ Stepped /\ Serving
    BY <1>2, CallFacts DEF IInv
  <2>4. Typed'
    BY <1>2, <2>2, <2>3, NoCallFacts DEF Typed
  <2>5. \A u \in Ids : (Connected(u)' <=> Connected(u)) /\ (transport[u] = "open" <=> Connected(u))
    BY <1>1, <1>2, <2>2, <2>3 DEF Connected, Owned
  <2>6. table' \subseteq issued'
    BY <1>4, <2>2, <2>3 DEF Blank, Visible
  <2>7. Rest'
    BY <1>2, <2>2, <2>3, <2>5, <2>6 DEF Rest, Owned, Stepped, InFlight
  <2> QED BY <2>2, <2>3, <2>4, <2>7, RestIsEnough DEF Blank
<1> QED BY <1>3, <1>4

\* Only the wire, a process or what it has stepped changes.
LEMMA WireIsGood ==
    ASSUME IInv, call # NoCall, UNCHANGED <<server, sessions, transport, child, call>>,
           wire' \in {"request", "served", "answer"},
           transport[call.target] = "open",
           ~Starting /\ call.todo # <<>> => Accepts(call.target, NextAction),
           executed' = [s \in Ids |-> executed'[s]],
           \A s \in Ids : transport[s] = "open" =>
              executed'[s] =
                 IF s = call.target /\ s \in table /\ call.todo # <<>>
                    /\ wire' \in {"served", "answer"}
                 THEN Append(Inputs(actions[s]), NextAction.xinput) ELSE Inputs(actions[s])
    PROVE  IInv'
<1>1. UNCHANGED <<issued, table, backend, actions, observed, receipts, tombstones>>
  BY DEF sessions
<1>2. Typed'
  BY <1>1 DEF IInv, Typed
<1>3. Blank' /\ Owned' /\ Placed'
  BY <1>1 DEF IInv, Blank, Visible, Owned, Connected, Serving, Placed, Completes
<1>4. Asked'
  BY <1>1 DEF Asked, Starting, NextAction, Accepts, LastTick
<1>5. Stepped'
  BY <1>1 DEF Stepped, InFlight, NextAction
<1> QED BY <1>2, <1>3, <1>4, <1>5 DEF IInv

\* Sending a request keeps IInv.
LEMMA AsksIsGood ==
    ASSUME IInv, Asks
    PROVE  IInv'
<1>1. /\ call # NoCall /\ wire = "quiet" /\ transport[call.target] = "open"
      /\ ~Starting /\ call.todo # <<>> => Accepts(call.target, NextAction)
      /\ wire' = "request" /\ UNCHANGED <<server, sessions, transport, child, executed, call>>
  BY DEF Asks, InCall, processes
<1>2. executed' = [s \in Ids |-> executed'[s]]
  BY <1>1 DEF IInv, Typed
<1>3. \A s \in Ids : transport[s] = "open" => executed'[s] = Inputs(actions[s])
  BY <1>1 DEF IInv, Stepped, InFlight
<1> QED BY <1>1, <1>2, <1>3, WireIsGood

\* The process that carries out a request keeps IInv.
LEMMA ChildServesIsGood ==
    ASSUME IInv, ChildServes
    PROVE  IInv'
<1>1. /\ wire = "request" /\ wire' = "served"
      /\ UNCHANGED <<server, sessions, transport, child, call>>
      /\ executed' = IF Starting \/ call.todo = <<>> THEN executed
                     ELSE [executed EXCEPT ![call.target] = Append(@, NextAction.xinput)]
  BY DEF ChildServes
<1>2. /\ call # NoCall /\ transport[call.target] = "open"
      /\ ~Starting /\ call.todo # <<>> => Accepts(call.target, NextAction)
  BY <1>1 DEF IInv, Asked
<1>3. call.target \in Ids /\ executed = [s \in Ids |-> executed[s]]
  BY <1>2, CallFacts DEF IInv, Typed
<1>4. \A s \in Ids : transport[s] = "open" => executed[s] = Inputs(actions[s])
  BY <1>1 DEF IInv, Stepped, InFlight
<1>5. executed' = [s \in Ids |-> executed'[s]]
  <2>1. CASE Starting \/ call.todo = <<>>
    BY <1>1, <1>3, <2>1
  <2>2. CASE ~(Starting \/ call.todo = <<>>)
    BY <1>1, <1>3, <2>2
  <2> QED BY <2>1, <2>2
<1>6. ASSUME NEW s \in Ids, transport[s] = "open"
      PROVE  executed'[s] = IF s = call.target /\ s \in table /\ call.todo # <<>>
                               /\ wire' \in {"served", "answer"}
                            THEN Append(Inputs(actions[s]), NextAction.xinput)
                            ELSE Inputs(actions[s])
  <2>1. CASE Starting \/ call.todo = <<>>
    BY <1>1, <1>4, <1>6, <2>1 DEF Starting
  <2>2. CASE ~(Starting \/ call.todo = <<>>)
    <3>1. executed' = [executed EXCEPT ![call.target] = Append(@, NextAction.xinput)]
      BY <1>1, <2>2
    <3>2. CASE s = call.target
      <4>1. executed'[s] = Append(executed[s], NextAction.xinput)
        BY <1>3, <3>1, <3>2
      <4> QED BY <1>1, <1>4, <1>6, <2>2, <3>2, <4>1 DEF Starting
    <3>3. CASE s # call.target
      <4>1. executed'[s] = executed[s]
        BY <1>3, <3>1, <3>3
      <4> QED BY <1>4, <1>6, <3>3, <4>1
    <3> QED BY <3>2, <3>3
  <2> QED BY <2>1, <2>2
<1> QED BY <1>1, <1>2, <1>5, <1>6, WireIsGood

\* The process that answers keeps IInv.
LEMMA ChildAnswersIsGood ==
    ASSUME IInv, ChildAnswers
    PROVE  IInv'
<1>1. /\ wire = "served" /\ wire' = "answer"
      /\ UNCHANGED <<server, sessions, transport, child, executed, call>>
  BY DEF ChildAnswers, processes
<1>2. /\ call # NoCall /\ transport[call.target] = "open"
      /\ ~Starting /\ call.todo # <<>> => Accepts(call.target, NextAction)
  BY <1>1 DEF IInv, Asked
<1>3. executed' = [s \in Ids |-> executed'[s]]
  BY <1>1 DEF IInv, Typed
<1>4. \A s \in Ids : transport[s] = "open" =>
         executed'[s] = IF s = call.target /\ s \in table /\ call.todo # <<>>
                           /\ wire' \in {"served", "answer"}
                        THEN Append(Inputs(actions[s]), NextAction.xinput)
                        ELSE Inputs(actions[s])
  BY <1>1 DEF IInv, Stepped, InFlight
<1> QED BY <1>1, <1>2, <1>3, <1>4, WireIsGood

\* A process exits.
LEMMA ExitIsGood ==
    ASSUME IInv, NEW s \in Ids, child[s] = "running", child' = [child EXCEPT ![s] = "exited"],
           UNCHANGED <<server, sessions, transport, executed, wire, call>>
    PROVE  IInv'
<1>1. UNCHANGED <<issued, table, backend, actions, observed, receipts, tombstones>>
  BY DEF sessions
<1>2. /\ child' \in [Ids -> {"none", "running", "exited"}]
      /\ \A u \in Ids : child'[u] = "none" <=> child[u] = "none"
  BY DEF IInv, Typed
<1>3. Typed'
  BY <1>1, <1>2 DEF IInv, Typed
<1>4. Blank' /\ Placed'
  BY <1>1 DEF IInv, Blank, Visible, Connected, Placed, Completes
<1>5. Owned'
  BY <1>1, <1>2 DEF IInv, Owned, Connected, Serving
<1>6. Asked' /\ Stepped'
  BY <1>1 DEF IInv, Asked, Starting, NextAction, Accepts, LastTick, Stepped, InFlight
<1> QED BY <1>3, <1>4, <1>5, <1>6 DEF IInv

\* Recording the next action: what changes.
LEMMA RecordFacts ==
    ASSUME IInv, NEW s \in table, s = call.target, call # NoCall, call.todo # <<>>,
           Accepts(s, NextAction), Record
    PROVE  /\ actions' \in [Ids -> Seq(Actions)]
           /\ actions'[s] = Append(actions[s], NextAction)
           /\ \A u \in Ids : Len(actions'[u]) <= MaxActions
           /\ observed' \in [Ids -> 0..MaxObservations]
           /\ receipts' \in [Ids -> Seq(Seq(Actions))]
           /\ \A u \in Ids : \A k \in DOMAIN receipts'[u] : Len(receipts'[u][k]) <= MaxActions
           /\ \A u \in Ids \ {s} : /\ actions'[u] = actions[u] /\ observed'[u] = observed[u]
                                   /\ receipts'[u] = receipts[u]
<1>1. /\ s \in Ids /\ call.todo \in Seq(Actions) /\ actions \in [Ids -> Seq(Actions)]
      /\ \A u \in Ids : Len(actions[u]) <= MaxActions
      /\ observed \in [Ids -> 0..MaxObservations]
      /\ receipts \in [Ids -> Seq(Seq(Actions))]
      /\ \A u \in Ids : \A k \in DOMAIN receipts[u] : Len(receipts[u][k]) <= MaxActions
  BY CallFacts DEF IInv, Typed
<1>2. NextAction \in Actions
  BY <1>1, TodoFacts DEF NextAction
<1>3. PICK log : log = Append(actions[s], NextAction)
  OBVIOUS
<1>4. /\ actions' = [actions EXCEPT ![s] = log]
      /\ observed' = [observed EXCEPT ![s] = @ + 1]
      /\ \/ receipts' = receipts
         \/ receipts' = [receipts EXCEPT ![s] = Append(@, log)]
  BY <1>3 DEF Record
<1>5. log \in Seq(Actions) /\ Len(log) <= MaxActions
  <2>1. log \in Seq(Actions) /\ Len(log) = Len(actions[s]) + 1
    BY <1>1, <1>2, <1>3, LogFacts
  <2>2. Len(actions[s]) < MaxActions /\ Len(actions[s]) \in Nat
    BY <1>1, LenProperties DEF Accepts
  <2> QED BY <2>1, <2>2, LimitFacts
<1>6. /\ actions' \in [Ids -> Seq(Actions)] /\ actions'[s] = log
      /\ \A u \in Ids \ {s} : actions'[u] = actions[u]
  BY <1>1, <1>4, <1>5
<1>7. \A u \in Ids : Len(actions'[u]) <= MaxActions
  BY <1>1, <1>5, <1>6
<1>8. /\ observed' \in [Ids -> 0..MaxObservations]
      /\ \A u \in Ids \ {s} : observed'[u] = observed[u]
  <2>1. observed[s] \in Nat /\ observed[s] + 1 \in 0..MaxObservations
    BY <1>1, LimitFacts DEF Accepts
  <2> QED BY <1>1, <1>4, <2>1
<1>9. /\ receipts' \in [Ids -> Seq(Seq(Actions))]
      /\ \A u \in Ids : \A k \in DOMAIN receipts'[u] : Len(receipts'[u][k]) <= MaxActions
      /\ \A u \in Ids \ {s} : receipts'[u] = receipts[u]
  <2>1. CASE receipts' = receipts
    BY <1>1, <2>1
  <2>2. CASE receipts' = [receipts EXCEPT ![s] = Append(@, log)]
    <3>1. PICK m : m = Append(receipts[s], log)
      OBVIOUS
    <3>2. /\ m \in Seq(Seq(Actions))
          /\ \A i \in 1..Len(receipts[s]) : m[i] = receipts[s][i]
          /\ m[Len(receipts[s]) + 1] = log /\ Len(receipts[s]) \in Nat
          /\ DOMAIN m = 1..(Len(receipts[s]) + 1) /\ DOMAIN receipts[s] = 1..Len(receipts[s])
      BY <1>1, <1>5, <3>1, AppendProperties, LenProperties
    <3>3. ASSUME NEW k \in DOMAIN m PROVE Len(m[k]) <= MaxActions
      <4>1. CASE k = Len(receipts[s]) + 1
        BY <1>5, <3>2, <4>1
      <4>2. CASE k \in DOMAIN receipts[s]
        BY <1>1, <3>2, <4>2
      <4> QED BY <3>2, <4>1, <4>2
    <3>4. /\ receipts' \in [Ids -> Seq(Seq(Actions))] /\ receipts'[s] = m
          /\ \A u \in Ids \ {s} : receipts'[u] = receipts[u]
      BY <1>1, <2>2, <3>1, <3>2
    <3> QED BY <1>1, <3>3, <3>4
  <2> QED BY <1>4, <2>1, <2>2
<1> QED BY <1>3, <1>6, <1>7, <1>8, <1>9

\* Recording an action, with the receipt at the end of a call, keeps IInv.
LEMMA RecordIsGood ==
    ASSUME IInv, NEW s \in table, s = call.target, call # NoCall, call.todo # <<>>,
           Accepts(s, NextAction), Record, wire' = "quiet",
           transport[s] = "open" => wire = "answer",
           UNCHANGED <<server, processes>>
    PROVE  IInv'
<1>1. /\ s \in Ids /\ call.todo \in Seq(Actions) /\ Typed /\ Blank /\ Owned /\ Placed /\ Serving
      /\ table \subseteq issued \cup {s}
  BY CallFacts DEF IInv
<1>2. NextAction \in Actions /\ Tail(call.todo) \in Seq(Actions)
      /\ Append(actions[s], NextAction) \o Tail(call.todo) = actions[s] \o call.todo
  <2>1. actions[s] \in Seq(Actions)
    BY <1>1 DEF Typed
  <2> QED BY <1>1, <2>1, TodoFacts DEF NextAction
<1>3. /\ UNCHANGED <<table, backend, tombstones, transport, child, executed>>
      /\ Tail(call.todo) = <<>> => call' = NoCall /\ issued' = issued \cup {s}
      /\ Tail(call.todo) # <<>> => /\ call' = [call EXCEPT !.todo = Tail(@)]
                                   /\ issued' = issued /\ receipts' = receipts
  <2>1. UNCHANGED <<table, backend, tombstones>>
    BY DEF Record
  <2>2. CASE Tail(call.todo) = <<>>
    BY <2>1, <2>2 DEF Record, processes
  <2>3. CASE Tail(call.todo) # <<>>
    BY <2>1, <2>3 DEF Record, processes
  <2> QED BY <2>2, <2>3
<1>4. /\ call' = NoCall
         \/ call' \in [op : Ops \cup {"none"}, target : Ids \cup {NoId}, todo : Seq(Actions)]
      /\ Tail(call.todo) # <<>> => /\ call'.op = call.op /\ call'.target = s
                                   /\ call'.todo = Tail(call.todo)
  BY <1>1, <1>2, <1>3 DEF Typed
<1>5. Typed'
  <2>1. issued' \subseteq Ids
    BY <1>1, <1>3 DEF Typed
  <2>2. call' \in [op : Ops \cup {"none"}, target : Ids \cup {NoId}, todo : Seq(Actions)]
    BY <1>4, NoCallFacts
  <2> QED BY <1>1, <1>3, <2>1, <2>2, RecordFacts DEF Typed
<1>6. \A u \in Ids \ {s} : /\ actions'[u] = actions[u] /\ observed'[u] = observed[u]
                           /\ receipts'[u] = receipts[u]
  BY RecordFacts
<1>7. \A u \in Ids : (Connected(u)' <=> Connected(u)) /\ (transport[u] = "open" <=> Connected(u))
  BY <1>1, <1>3 DEF Connected, Owned
<1>8. ASSUME NEW u \in Ids, transport[u] = "open" PROVE executed'[u] = Inputs(actions'[u])
  <2>1. CASE u = s
    <3>1. InFlight(s) /\ executed[s] = Append(Inputs(actions[s]), NextAction.xinput)
      BY <1>1, <1>8, <2>1 DEF IInv, Stepped, InFlight
    <3>2. Inputs(actions'[s]) = Append(Inputs(actions[s]), NextAction.xinput)
      <4>1. actions[s] \in Seq(Actions) /\ actions'[s] = Append(actions[s], NextAction)
        BY <1>1, RecordFacts DEF Typed
      <4> QED BY <1>2, <4>1, LogFacts
    <3> QED BY <1>3, <2>1, <3>1, <3>2
  <2>2. CASE u # s
    <3>1. executed[u] = Inputs(actions[u])
      BY <1>8, <2>2 DEF IInv, Stepped, InFlight
    <3> QED BY <1>3, <1>6, <2>2, <3>1
  <2> QED BY <2>1, <2>2
<1>9. /\ \A u \in Ids \ table' : /\ backend'[u] = "none" /\ actions'[u] = <<>>
                                 /\ observed'[u] = 0 /\ receipts'[u] = <<>>
      /\ \A u \in table' : backend'[u] # "none"
  BY <1>1, <1>3, <1>6 DEF Blank
<1>10. CASE Tail(call.todo) = <<>>
  <2>1. call' = NoCall /\ wire' = "quiet" /\ table' \subseteq issued'
    BY <1>1, <1>3, <1>10
  <2>2. Serving' => \A u \in Ids : child'[u] = "none" <=> transport'[u] = "none"
    BY <1>1, <1>3 DEF Owned
  <2>3. Rest'
    BY <1>3, <1>7, <1>8, <2>1, <2>2 DEF Rest
  <2> QED BY <1>5, <1>9, <2>3, RestIsEnough
<1>11. CASE Tail(call.todo) # <<>>
  <2>1. /\ call'.op = call.op /\ call'.target = s /\ call'.todo = Tail(call.todo)
        /\ issued' = issued /\ receipts' = receipts
    BY <1>3, <1>4, <1>11
  <2>2. call.op \in {"step", "run", "replay"}
    BY CallFacts DEF Ops
  <2>3. Blank'
    BY <1>1, <1>3, <1>9, <2>1 DEF Blank, Visible
  <2>4. Owned'
    <3>1. call' # NoCall
      BY <1>11, <2>1, NoCallFacts
    <3> QED BY <1>1, <1>3, <1>7, <2>1, <3>1 DEF Owned, Serving
  <2>5. Placed'
    <3>1. ASSUME call.op = "replay" PROVE Completes(call)'
      <4>1. PICK u \in table \ {s} :
               /\ backend[u] # "transport_failed"
               /\ \E k \in DOMAIN receipts[u] : receipts[u][k] = actions[s] \o call.todo
        BY <1>1, <3>1 DEF Placed, Completes
      <4>2. actions'[s] \o call'.todo = actions[s] \o call.todo
        BY <1>2, <2>1, RecordFacts
      <4> QED BY <1>3, <2>1, <4>1, <4>2 DEF Completes
    <3> QED BY <1>1, <1>3, <1>11, <2>1, <2>2, <3>1 DEF Placed, Ops
  <2>6. Asked' /\ Stepped'
    BY <1>3, <1>8 DEF Asked, Stepped, InFlight
  <2> QED BY <1>5, <2>3, <2>4, <2>5, <2>6 DEF IInv
<1> QED BY <1>10, <1>11

\* Recording an action of a session without a process keeps IInv.
LEMMA RecordsUnavailableIsGood ==
    ASSUME IInv, RecordsUnavailable
    PROVE  IInv'
<1>1. PICK s : s = call.target
  OBVIOUS
<1>2. /\ call # NoCall /\ s \in table /\ ~Connected(s) /\ call.todo # <<>>
      /\ Accepts(s, NextAction) /\ Record /\ UNCHANGED <<server, processes, wire>>
  BY <1>1 DEF RecordsUnavailable, InCall, Starting
<1>3. transport[s] # "open"
  BY <1>1, <1>2, CallFacts DEF IInv, Owned
<1>4. wire' = "quiet"
  BY <1>1, <1>2, <1>3 DEF IInv, Asked
<1> QED BY <1>1, <1>2, <1>3, <1>4, RecordIsGood

\* The answer to start: the session is inserted.
LEMMA StartedIsGood ==
    ASSUME IInv, Answered, Starting, call # NoCall
    PROVE  IInv'
<1>1. PICK s : s = call.target
  OBVIOUS
<1>2. /\ s \in Ids /\ s \notin table /\ wire = "answer" /\ wire' = "quiet" /\ Serving
      /\ call.op \in {"open", "replay"} /\ call.todo \in Seq(Actions)
      /\ UNCHANGED <<server, transport, child, executed>>
      /\ table \subseteq issued \cup {s} /\ s \notin issued
  BY <1>1, CallFacts DEF Answered, Starting, processes, IInv, Placed
<1>3. Cardinality(table) < MaxSessions /\ Typed /\ Owned /\ Blank /\ Placed
  BY <1>1, <1>2 DEF IInv, Placed
<1>4. PICK given \in {<<>>, <<<<>>>>} :
         /\ Insert(s, "active", given)
         /\ call.todo = <<>> => issued' = issued \cup {s} /\ call' = NoCall
         /\ call.todo # <<>> => UNCHANGED <<issued, call>> /\ given = <<>>
  BY <1>1 DEF Answered
<1>5. /\ table' \subseteq Ids /\ IsFiniteSet(table') /\ Cardinality(table') <= MaxSessions
      /\ backend' \in [Ids -> Backends] /\ backend'[s] = "active"
      /\ \A u \in Ids \ {s} : backend'[u] = backend[u] /\ receipts'[u] = receipts[u]
      /\ receipts' \in [Ids -> Seq(Seq(Actions))] /\ receipts'[s] = given
      /\ \A u \in Ids : \A k \in DOMAIN receipts'[u] : Len(receipts'[u][k]) <= MaxActions
      /\ UNCHANGED <<actions, observed, tombstones>>
  BY <1>2, <1>3, <1>4, InsertFacts
<1>6. table' = table \cup {s}
  BY <1>4 DEF Insert
<1>7. Typed'
  BY <1>2, <1>3, <1>4, <1>5, NoCallFacts DEF Typed
<1>8. \A u \in Ids : /\ transport[u] = "open" <=> Connected(u)'
                     /\ child[u] = "none" <=> transport[u] = "none"
  <2>1. transport[s] = "open" /\ Connected(s)'
    BY <1>1, <1>2, <1>5, <1>6, CallFacts DEF Connected
  <2>2. ASSUME NEW u \in Ids, u # s
        PROVE  (transport[u] = "open" <=> Connected(u)) /\ (Connected(u)' <=> Connected(u))
    BY <1>1, <1>5, <1>6, <2>2, CallFacts DEF Connected
  <2> QED BY <1>2, <1>3, <2>1, <2>2 DEF Owned
<1>9. \A u \in Ids : transport[u] = "open" => executed'[u] = Inputs(actions'[u])
  BY <1>1, <1>2, <1>5 DEF IInv, Stepped, InFlight
<1>10. /\ \A u \in Ids \ table' : /\ backend'[u] = "none" /\ actions'[u] = <<>>
                                  /\ observed'[u] = 0 /\ receipts'[u] = <<>>
       /\ \A u \in table' : backend'[u] # "none"
  BY <1>3, <1>5, <1>6 DEF Typed, Blank
<1>11. CASE call.todo = <<>>
  <2>1. call' = NoCall /\ table' \subseteq issued'
    BY <1>2, <1>4, <1>6, <1>11
  <2>2. Rest'
    BY <1>2, <1>8, <1>9, <2>1 DEF Rest
  <2> QED BY <1>7, <1>10, <2>2, RestIsEnough
<1>12. CASE call.todo # <<>>
  <2>1. UNCHANGED <<issued, call>> /\ given = <<>> /\ call.op = "replay"
    BY <1>2, <1>4, <1>12, CallFacts
  <2>2. Blank'
    BY <1>1, <1>3, <1>6, <1>10, <2>1 DEF Blank, Visible
  <2>3. Owned'
    BY <1>1, <1>2, <1>6, <1>8, <2>1 DEF Owned, Serving
  <2>4. Placed'
    <3>1. Completes(call)'
      <4>1. PICK u \in table \ {s} :
               /\ backend[u] # "transport_failed"
               /\ \E k \in DOMAIN receipts[u] : receipts[u][k] = actions[s] \o call.todo
        BY <1>1, <1>3, <2>1 DEF Placed, Completes
      <4>2. u \in table' \ {s} /\ u \in Ids \ {s}
        BY <1>3, <1>6 DEF Typed
      <4>3. backend'[u] = backend[u] /\ receipts'[u] = receipts[u]
        BY <1>5, <4>2
      <4>4. call'.target = s /\ actions'[s] \o call'.todo = actions[s] \o call.todo
        BY <1>1, <1>5, <2>1
      <4> QED BY <4>1, <4>2, <4>3, <4>4 DEF Completes
    <3> QED BY <1>1, <1>2, <1>3, <1>5, <1>6, <1>12, <2>1, <3>1 DEF Placed
  <2>5. Asked' /\ Stepped'
    BY <1>2, <1>9, <2>1 DEF Asked, Stepped, InFlight
  <2> QED BY <1>7, <2>2, <2>3, <2>4, <2>5 DEF IInv
<1> QED BY <1>11, <1>12

\* Taking an answer off the wire keeps IInv.
LEMMA AnsweredIsGood ==
    ASSUME IInv, Answered
    PROVE  IInv'
<1>1. PICK s : s = call.target
  OBVIOUS
<1>2. call # NoCall /\ wire = "answer" /\ wire' = "quiet" /\ UNCHANGED <<server, processes>>
  BY DEF Answered, InCall
<1>3. s \in Ids /\ Serving /\ call.todo \in Seq(Actions) /\ call.op \in Ops /\ Typed
  BY <1>1, <1>2, CallFacts DEF IInv
<1>4. CASE Starting
  BY <1>2, <1>4, StartedIsGood
<1>5. CASE ~Starting /\ call.op = "observe"
  <2>1. /\ observed' = [observed EXCEPT ![s] = @ + 1] /\ call' = NoCall
        /\ UNCHANGED <<issued, table, backend, actions, receipts, tombstones>>
        /\ UNCHANGED <<transport, child, executed>>
    BY <1>1, <1>2, <1>5 DEF Answered, processes
  <2>2. call.todo = <<>> /\ observed[s] < MaxObservations /\ s \in table /\ Connected(s)
    BY <1>1, <1>5 DEF IInv, Placed, Starting
  <2>3. /\ observed' \in [Ids -> 0..MaxObservations]
        /\ \A u \in Ids \ {s} : observed'[u] = observed[u]
    <3>1. observed[s] \in Nat /\ observed[s] + 1 \in 0..MaxObservations
      BY <1>3, <2>2, LimitFacts DEF Typed
    <3> QED BY <1>3, <2>1, <3>1 DEF Typed
  <2>4. Typed'
    BY <1>2, <1>3, <2>1, <2>3, NoCallFacts DEF Typed
  <2>5. table' \subseteq issued'
    BY <1>5, <2>1 DEF IInv, Blank, Visible
  <2>6. \A u \in Ids : /\ transport'[u] = "open" <=> Connected(u)'
                       /\ child'[u] = "none" <=> transport'[u] = "none"
                       /\ transport[u] = "open" => executed[u] = Inputs(actions[u])
    BY <1>1, <1>3, <2>1, <2>2 DEF IInv, Owned, Connected, Stepped, InFlight
  <2>7. Rest'
    BY <1>2, <2>1, <2>5, <2>6 DEF Rest
  <2>8. /\ \A u \in Ids \ table' : /\ backend'[u] = "none" /\ actions'[u] = <<>>
                                   /\ observed'[u] = 0 /\ receipts'[u] = <<>>
        /\ \A u \in table' : backend'[u] # "none"
    BY <2>1, <2>2, <2>3 DEF IInv, Blank
  <2> QED BY <2>4, <2>7, <2>8, RestIsEnough
<1>6. CASE ~Starting /\ call.op # "observe"
  <2>1. Record /\ s \in table
    BY <1>1, <1>6 DEF Answered, Starting
  <2>2. call.op \in {"step", "run", "replay"}
    BY <1>2, <1>6, CallFacts DEF Ops, Starting
  <2>3. call.todo # <<>>
    BY <1>1, <2>1, <2>2 DEF IInv, Placed
  <2>4. Accepts(s, NextAction)
    BY <1>1, <1>2, <1>6, <2>3 DEF IInv, Asked
  <2> QED BY <1>1, <1>2, <2>1, <2>3, <2>4, RecordIsGood
<1> QED BY <1>4, <1>5, <1>6

-----------------------------------------------------------------------------
(* The invariant of the server, and what follows from it.                  *)

\* Every step keeps IInv.
LEMMA StepIsInv ==
    ASSUME IInv, [Next]_vars
    PROVE  IInv'
<1>1. CASE UNCHANGED vars
  <2>1. /\ UNCHANGED <<server, issued, table, backend, actions, observed, receipts, tombstones>>
        /\ UNCHANGED <<transport, child, executed, wire, call>>
    BY <1>1 DEF vars, sessions, processes
  <2>2. Typed'
    BY <2>1 DEF IInv, Typed
  <2>3. Blank' /\ Placed'
    BY <2>1 DEF IInv, Blank, Visible, Connected, Placed, Completes
  <2>4. Owned'
    BY <2>1 DEF IInv, Owned, Connected, Serving
  <2>5. Asked' /\ Stepped'
    BY <2>1 DEF IInv, Asked, Starting, NextAction, Accepts, LastTick, Stepped, InFlight
  <2> QED BY <2>2, <2>3, <2>4, <2>5 DEF IInv
<1>2. ASSUME NEW s \in Ids, OpenUnavailable(s) PROVE IInv'
  BY <1>2, OpenUnavailableIsGood
<1>3. ASSUME NEW s \in Ids, OpenSpawns(s) PROVE IInv'
  BY <1>3, OpenSpawnsIsGood
<1>4. ASSUME NEW s \in Ids, OpenCannotSpawn(s) PROVE IInv'
  BY <1>4, VanishIsGood DEF OpenCannotSpawn
<1>5. ASSUME NEW s \in Ids, Observe(s) PROVE IInv'
  BY <1>5, ObserveIsGood
<1>6. ASSUME NEW s \in Ids, Close(s) PROVE IInv'
  BY <1>6, CloseIsGood
<1>7. ASSUME NEW s \in Ids, NEW a \in Actions, Step(s, a) PROVE IInv'
  BY <1>7, StepIsGood
<1>8. ASSUME NEW s \in Ids, NEW todo \in BoundedSeq(Actions, MaxRun), RunUntil(s, todo)
      PROVE  IInv'
  <2>1. todo \in Seq(Actions)
    BY LimitFacts, BoundedFacts
  <2> QED BY <1>8, <2>1, RunUntilIsGood
<1>9. ASSUME NEW s \in Ids, NEW k \in 1..MaxReceipts, NEW n \in Ids,
             ReplaySpawns(s, k, n) \/ ReplayUnavailable(s, k, n)
      PROVE  IInv'
  BY <1>9, ReplaySpawnsIsGood, ReplayUnavailableIsGood
<1>10. CASE ClientCalls
  BY <1>2, <1>3, <1>4, <1>5, <1>6, <1>7, <1>8, <1>9, <1>10 DEF ClientCalls
<1>11. CASE ServerContinues
  <2>1. CASE Asks
    BY <2>1, AsksIsGood
  <2>2. CASE RecordsUnavailable
    BY <2>2, RecordsUnavailableIsGood
  <2>3. CASE Answered
    BY <2>3, AnsweredIsGood
  <2>4. CASE FindsExit \/ Fails
    BY <2>4, GivesUpIsGood DEF FindsExit, Fails, InCall
  <2>5. CASE RefusesRest
    BY <2>5, RefusesRestIsGood
  <2> QED BY <1>11, <2>1, <2>2, <2>3, <2>4, <2>5 DEF ServerContinues
<1>12. CASE ServerEnds
  BY <1>12, VanishIsGood DEF ServerEnds
<1>13. CASE ChildServes
  BY <1>13, ChildServesIsGood
<1>14. CASE ChildAnswers
  BY <1>14, ChildAnswersIsGood
<1>15. ASSUME NEW s \in Ids, ChildExits(s) \/ ChildSeesEnd(s) PROVE IInv'
  BY <1>15, ExitIsGood DEF ChildExits, ChildSeesEnd
<1> QED BY <1>1, <1>10, <1>11, <1>12, <1>13, <1>14, <1>15 DEF Next

\* IInv holds in every reachable state.
THEOREM Invariance == Spec => []IInv
<1>1. Init => IInv
  BY InitIsGood
<1>2. IInv /\ [Next]_vars => IInv'
  BY StepIsInv
<1> QED BY <1>1, <1>2, PTL DEF Spec

\* TypeOK: every variable stays in its range and the limits of the server
\* hold: sessions, actions, observations and tombstones.
THEOREM TypeTheorem == Spec => []TypeOK
<1>1. IInv => TypeOK
  <2> SUFFICES ASSUME IInv PROVE TypeOK
    OBVIOUS
  <2>1. Typed
    BY DEF IInv
  <2>2. \A s \in Ids : actions[s] \in Logs
    BY <2>1, LimitFacts, BoundedFacts DEF Typed, Logs
  <2>3. ASSUME NEW s \in Ids, NEW k \in DOMAIN receipts[s] PROVE receipts[s][k] \in Logs
    <3>1. receipts[s] \in Seq(Seq(Actions)) /\ Len(receipts[s][k]) <= MaxActions
      BY <2>1 DEF Typed
    <3>2. receipts[s][k] \in Seq(Actions)
      BY <3>1
    <3> QED BY <3>1, <3>2, LimitFacts, BoundedFacts DEF Logs
  <2> QED BY <2>1, <2>2, <2>3 DEF Typed, TypeOK, Backends
<1> QED BY <1>1, Invariance, PTL

\* NoOrphan: a process that is not reaped is that of a session a client can
\* close, or of the call being served.
THEOREM NoOrphanTheorem == Spec => []NoOrphan
<1>1. IInv => NoOrphan
  <2> SUFFICES ASSUME IInv, Serving, NEW s \in Ids,
                      transport[s] = "open" \/ child[s] = "running"
               PROVE  Connected(s) \/ s = call.target
    BY DEF NoOrphan
  <2>1. transport[s] = "open"
    BY DEF IInv, Typed, Owned
  <2> QED BY <2>1 DEF IInv, Owned
<1> QED BY <1>1, Invariance, PTL

\* ExecutedIsRecorded: an active session has recorded what its process has
\* stepped, but for the action in flight.
THEOREM ExecutedTheorem == Spec => []ExecutedIsRecorded
<1>1. IInv => ExecutedIsRecorded
  <2> SUFFICES ASSUME IInv, NEW s \in Ids, Connected(s)
               PROVE  \/ executed[s] = Inputs(actions[s])
                      \/ /\ s = call.target /\ call.todo # <<>>
                         /\ wire \in {"served", "answer"}
                         /\ executed[s] = Append(Inputs(actions[s]), NextAction.xinput)
    BY DEF ExecutedIsRecorded, Inputs
  <2> QED BY DEF IInv, Owned, Stepped, InFlight
<1> QED BY <1>1, Invariance, PTL

-----------------------------------------------------------------------------
(* The server implements SessionLedger, step by step.                      *)

\* What a client sees of the logs, the receipts and the poisoned sessions.
LogBar == [s \in Ids |-> IF s \in Visible THEN actions[s] ELSE <<>>]

ReceiptsBar == [s \in Ids |-> IF s \in Visible THEN ToSet(receipts[s]) ELSE {}]

PoisonedBar == {s \in Visible : backend[s] = "transport_failed"}

\* The receipts a client has been given, after one more and at the start.
LEMMA ReceiptFacts ==
    ASSUME NEW r \in Seq(Seq(Actions)), NEW l \in Seq(Actions)
    PROVE  ToSet(<<>>) = {} /\ ToSet(<<l>>) = {l} /\ ToSet(Append(r, l)) = ToSet(r) \cup {l}
<1>1. ToSet(<<>>) = {} /\ ToSet(<<l>>) = {l}
  BY DEF ToSet
<1>2. PICK m : m = Append(r, l)
  OBVIOUS
<1>3. /\ DOMAIN m = 1..(Len(r) + 1) /\ DOMAIN r = 1..Len(r) /\ Len(r) \in Nat
      /\ \A i \in 1..Len(r) : m[i] = r[i]
      /\ m[Len(r) + 1] = l
  BY <1>2, AppendProperties, LenProperties
<1>4. ASSUME NEW x PROVE x \in ToSet(m) <=> x \in ToSet(r) \cup {l}
  <2>1. ASSUME x \in ToSet(m) PROVE x \in ToSet(r) \cup {l}
    <3>1. PICK i \in DOMAIN m : x = m[i]
      BY <2>1 DEF ToSet
    <3>2. i = Len(r) + 1 \/ i \in DOMAIN r
      BY <1>3, <3>1
    <3> QED BY <1>3, <3>1, <3>2 DEF ToSet
  <2>2. ASSUME x \in ToSet(r) PROVE x \in ToSet(m)
    <3>1. PICK i \in DOMAIN r : x = r[i]
      BY <2>2 DEF ToSet
    <3>2. i \in DOMAIN m /\ m[i] = x
      BY <1>3, <3>1
    <3> QED BY <3>2 DEF ToSet
  <2>3. l \in ToSet(m)
    <3>1. Len(r) + 1 \in DOMAIN m
      BY <1>3
    <3> QED BY <1>3, <3>1 DEF ToSet
  <2> QED BY <2>1, <2>2, <2>3
<1> QED BY <1>1, <1>2, <1>4

\* A step that leaves all sessions but one as they are for the client.
LEMMA BarFacts ==
    ASSUME NEW s \in Ids, table \subseteq Ids, table' \subseteq Ids,
           \A u \in Ids \ {s} : /\ u \in Visible' <=> u \in Visible
                                /\ actions'[u] = actions[u] /\ receipts'[u] = receipts[u]
                                /\ backend'[u] = backend[u]
    PROVE  /\ s \in Visible' =>
                 /\ Visible' = Visible \cup {s}
                 /\ LogBar' = [LogBar EXCEPT ![s] = actions'[s]]
                 /\ ReceiptsBar' = [ReceiptsBar EXCEPT ![s] = ToSet(receipts'[s])]
           /\ s \notin Visible' =>
                 /\ Visible' = Visible \ {s}
                 /\ LogBar' = [LogBar EXCEPT ![s] = <<>>]
                 /\ ReceiptsBar' = [ReceiptsBar EXCEPT ![s] = {}]
           /\ PoisonedBar' = IF s \in Visible' /\ backend'[s] = "transport_failed"
                             THEN PoisonedBar \cup {s} ELSE PoisonedBar \ {s}
<1>1. Visible \subseteq Ids /\ Visible' \subseteq Ids
  BY DEF Visible
<1>2. s \in Visible' => Visible' = Visible \cup {s}
  BY <1>1
<1>3. s \notin Visible' => Visible' = Visible \ {s}
  BY <1>1
<1>4. \A u \in Ids \ {s} : LogBar'[u] = LogBar[u] /\ ReceiptsBar'[u] = ReceiptsBar[u]
  BY DEF LogBar, ReceiptsBar
<1>5. /\ LogBar'[s] = IF s \in Visible' THEN actions'[s] ELSE <<>>
      /\ ReceiptsBar'[s] = IF s \in Visible' THEN ToSet(receipts'[s]) ELSE {}
  BY DEF LogBar, ReceiptsBar
<1>6. /\ LogBar = [u \in Ids |-> LogBar[u]] /\ LogBar' = [u \in Ids |-> LogBar'[u]]
      /\ ReceiptsBar = [u \in Ids |-> ReceiptsBar[u]]
      /\ ReceiptsBar' = [u \in Ids |-> ReceiptsBar'[u]]
  BY DEF LogBar, ReceiptsBar
<1>7. PICK L, R : L = LogBar' /\ R = ReceiptsBar'
  OBVIOUS
<1>8. /\ L = [LogBar EXCEPT ![s] = L[s]] /\ R = [ReceiptsBar EXCEPT ![s] = R[s]]
  BY <1>4, <1>6, <1>7
<1>9. PoisonedBar' = IF s \in Visible' /\ backend'[s] = "transport_failed"
                     THEN PoisonedBar \cup {s} ELSE PoisonedBar \ {s}
  BY <1>1 DEF PoisonedBar
<1> QED BY <1>2, <1>3, <1>5, <1>7, <1>8, <1>9

\* A step that a client sees nothing of.
LEMMA UnseenIsStutter ==
    ASSUME Visible' = Visible, issued' = issued, Visible \subseteq Ids,
           \A u \in Visible : /\ actions'[u] = actions[u] /\ receipts'[u] = receipts[u]
                              /\ backend'[u] = backend[u]
    PROVE  UNCHANGED Ledger!vars
<1>1. LogBar' = LogBar
  BY DEF LogBar
<1>2. ReceiptsBar' = ReceiptsBar
  BY DEF ReceiptsBar
<1>3. PoisonedBar' = PoisonedBar
  BY DEF PoisonedBar
<1> QED BY <1>1, <1>2, <1>3 DEF Ledger!vars, LogBar, ReceiptsBar, PoisonedBar

\* The actions of the ledger, in the terms of the server.
LEMMA LedgerFacts ==
    ASSUME NEW s \in Ids
    PROVE  /\ \A l : /\ s \notin issued /\ Visible' = Visible \cup {s}
                     /\ issued' = issued \cup {s}
                     /\ LogBar' = [LogBar EXCEPT ![s] = l]
                     /\ ReceiptsBar' = [ReceiptsBar EXCEPT ![s] = {l}]
                     /\ PoisonedBar' = PoisonedBar
                     => Ledger!Appear(s, l)
           /\ /\ s \in Visible /\ PoisonedBar' = PoisonedBar \cup {s}
              /\ Visible' = Visible /\ issued' = issued
              /\ LogBar' = LogBar /\ ReceiptsBar' = ReceiptsBar
              => Ledger!Poison(s)
           /\ /\ s \in Visible /\ Visible' = Visible \ {s} /\ issued' = issued
              /\ LogBar' = [LogBar EXCEPT ![s] = <<>>]
              /\ ReceiptsBar' = [ReceiptsBar EXCEPT ![s] = {}]
              /\ PoisonedBar' = PoisonedBar \ {s}
              => Ledger!Close(s)
           /\ \A a : /\ s \in Visible \ PoisonedBar
                     /\ LogBar' = [LogBar EXCEPT ![s] = Append(LogBar[s], a)]
                     /\ Visible' = Visible /\ issued' = issued
                     /\ ReceiptsBar' = ReceiptsBar /\ PoisonedBar' = PoisonedBar
                     => Ledger!Append1(s, a)
           /\ \A l \in {LogBar[s]} \cup {Append(LogBar[s], a) : a \in Actions} :
                     /\ s \in Visible \ PoisonedBar
                     /\ LogBar' = [LogBar EXCEPT ![s] = l]
                     /\ ReceiptsBar' = [ReceiptsBar EXCEPT ![s] = ReceiptsBar[s] \cup {l}]
                     /\ Visible' = Visible /\ issued' = issued
                     /\ PoisonedBar' = PoisonedBar
                     => Ledger!Receipt(s)
<1>1. ASSUME NEW l, s \notin issued, Visible' = Visible \cup {s}, issued' = issued \cup {s},
             LogBar' = [LogBar EXCEPT ![s] = l], ReceiptsBar' = [ReceiptsBar EXCEPT ![s] = {l}],
             PoisonedBar' = PoisonedBar
      PROVE  Ledger!Appear(s, l)
  BY <1>1 DEF Ledger!Appear, LogBar, ReceiptsBar, PoisonedBar
<1>2. ASSUME s \in Visible, PoisonedBar' = PoisonedBar \cup {s}, Visible' = Visible,
             issued' = issued, LogBar' = LogBar, ReceiptsBar' = ReceiptsBar
      PROVE  Ledger!Poison(s)
  BY <1>2 DEF Ledger!Poison, LogBar, ReceiptsBar, PoisonedBar
<1>3. ASSUME s \in Visible, Visible' = Visible \ {s}, issued' = issued,
             LogBar' = [LogBar EXCEPT ![s] = <<>>], ReceiptsBar' = [ReceiptsBar EXCEPT ![s] = {}],
             PoisonedBar' = PoisonedBar \ {s}
      PROVE  Ledger!Close(s)
  BY <1>3 DEF Ledger!Close, LogBar, ReceiptsBar, PoisonedBar
<1>4. ASSUME NEW a, s \in Visible \ PoisonedBar,
             LogBar' = [LogBar EXCEPT ![s] = Append(LogBar[s], a)], Visible' = Visible,
             issued' = issued, ReceiptsBar' = ReceiptsBar, PoisonedBar' = PoisonedBar
      PROVE  Ledger!Append1(s, a)
  BY <1>4 DEF Ledger!Append1, LogBar, ReceiptsBar, PoisonedBar
<1>5. ASSUME NEW l \in {LogBar[s]} \cup {Append(LogBar[s], a) : a \in Actions},
             s \in Visible \ PoisonedBar, LogBar' = [LogBar EXCEPT ![s] = l],
             ReceiptsBar' = [ReceiptsBar EXCEPT ![s] = ReceiptsBar[s] \cup {l}],
             Visible' = Visible, issued' = issued, PoisonedBar' = PoisonedBar
      PROVE  Ledger!Receipt(s)
  BY <1>5 DEF Ledger!Receipt, LogBar, ReceiptsBar, PoisonedBar
<1> QED BY <1>1, <1>2, <1>3, <1>4, <1>5

\* A session appears with a log it has a receipt for.
LEMMA AppearsInLedger ==
    ASSUME NEW s \in Ids, NEW l, s \notin issued, s \notin Visible,
           table \subseteq Ids, table' \subseteq Ids,
           issued' = issued \cup {s}, s \in Visible', backend'[s] # "transport_failed",
           actions'[s] = l, ToSet(receipts'[s]) = {l},
           \A u \in Ids \ {s} : /\ u \in Visible' <=> u \in Visible
                                /\ actions'[u] = actions[u] /\ receipts'[u] = receipts[u]
                                /\ backend'[u] = backend[u]
    PROVE  Ledger!Appear(s, l)
<1>1. /\ Visible' = Visible \cup {s} /\ LogBar' = [LogBar EXCEPT ![s] = l]
      /\ ReceiptsBar' = [ReceiptsBar EXCEPT ![s] = {l}]
      /\ PoisonedBar' = PoisonedBar \ {s}
  BY BarFacts
<1>2. PoisonedBar \ {s} = PoisonedBar
  BY DEF PoisonedBar
<1> QED BY <1>1, <1>2, LedgerFacts

\* An empty session appears.
LEMMA OpensInLedger ==
    ASSUME IInv, NEW s \in Ids, s \notin issued, s \notin table,
           NEW state \in {"active", "initial_unavailable"}, Insert(s, state, <<<<>>>>),
           issued' = issued \cup {s}, Visible' = table', Visible = table
    PROVE  Ledger!Next
<1>1. Typed /\ table' = table \cup {s} /\ UNCHANGED actions /\ actions[s] = <<>>
  BY DEF Insert, IInv, Blank
<1>2. /\ backend' = [backend EXCEPT ![s] = state]
      /\ receipts' = [receipts EXCEPT ![s] = <<<<>>>>]
  BY DEF Insert
<1>3. /\ backend'[s] = state /\ receipts'[s] = <<<<>>>>
      /\ \A u \in Ids \ {s} : backend'[u] = backend[u] /\ receipts'[u] = receipts[u]
  BY <1>1, <1>2 DEF Typed
<1>4. ToSet(receipts'[s]) = {<<>>}
  <2>1. <<>> \in Seq(Actions) /\ <<>> \in Seq(Seq(Actions))
    OBVIOUS
  <2> QED BY <1>3, <2>1, ReceiptFacts
<1>5. Ledger!Appear(s, <<>>)
  BY <1>1, <1>3, <1>4, AppearsInLedger DEF Typed
<1> QED BY <1>5 DEF Ledger!Next, Ledger!Open

\* The server ends.
LEMMA VanishInLedger ==
    ASSUME Vanish
    PROVE  Ledger!Next
<1>1. Visible' = {} /\ issued' = issued
  BY NoCallFacts DEF Vanish, Visible
<1>2. LogBar' = [s \in Ids |-> <<>>] /\ ReceiptsBar' = [s \in Ids |-> {}] /\ PoisonedBar' = {}
  BY <1>1 DEF LogBar, ReceiptsBar, PoisonedBar
<1>3. Ledger!End
  BY <1>1, <1>2 DEF Ledger!End, LogBar, ReceiptsBar, PoisonedBar
<1> QED BY <1>3 DEF Ledger!Next

\* A call begins, or ends, that leaves the sessions as they are.
LEMMA SameSessions ==
    ASSUME IInv, UNCHANGED <<issued, table, backend, actions, receipts>>,
           call'.op = "replay" => call'.target \notin table,
           call.op = "replay" => (call'.op = "replay" /\ call'.target = call.target)
    PROVE  UNCHANGED Ledger!vars
<1>1. Visible' = Visible
  <2>1. CASE call.op = "replay"
    BY <2>1 DEF Visible
  <2>2. CASE call.op # "replay"
    BY <2>2 DEF Visible
  <2> QED BY <2>1, <2>2
<1>2. Visible \subseteq Ids
  BY DEF Visible, IInv, Typed
<1> QED BY <1>1, <1>2, UnseenIsStutter

\* The calls of a client are steps of the ledger, or unseen.
LEMMA ClientCallsInLedger ==
    ASSUME IInv, ClientCalls
    PROVE  Ledger!Next \/ UNCHANGED Ledger!vars
<1>1. ASSUME NEW s \in Ids, OpenUnavailable(s) PROVE Ledger!Next
  <2>1. /\ call = NoCall /\ s \notin issued /\ issued' = issued \cup {s} /\ call' = call
        /\ Insert(s, "initial_unavailable", <<<<>>>>)
    BY <1>1 DEF OpenUnavailable, MayCreate, Idle
  <2>2. s \notin table /\ Visible = table
    BY <2>1, GoodIsRest, NoCallFacts
  <2>3. Visible' = table'
    BY <2>1, NoCallFacts DEF Visible
  <2> QED BY <2>1, <2>2, <2>3, OpensInLedger
<1>2. ASSUME NEW s \in Ids, OpenSpawns(s) PROVE UNCHANGED Ledger!vars
  <2>1. call = NoCall /\ call'.op = "open" /\ UNCHANGED sessions
    BY <1>2 DEF OpenSpawns, MayCreate, Idle, Call
  <2> QED BY <2>1, NoCallFacts, SameSessions DEF sessions
<1>3. ASSUME NEW s \in Ids, OpenCannotSpawn(s) PROVE Ledger!Next
  BY <1>3, VanishInLedger DEF OpenCannotSpawn
<1>4. ASSUME NEW s \in Ids, Observe(s) PROVE UNCHANGED Ledger!vars
  <2>1. /\ call = NoCall /\ call'.op # "replay"
        /\ UNCHANGED <<issued, table, backend, actions, receipts>>
    BY <1>4, NoCallFacts DEF Observe, Idle, Call
  <2> QED BY <2>1, NoCallFacts, SameSessions
<1>5. ASSUME NEW s \in Ids, NEW a \in Actions, Step(s, a) PROVE UNCHANGED Ledger!vars
  <2>1. call = NoCall /\ call'.op = "step" /\ UNCHANGED sessions
    BY <1>5 DEF Step, Idle, Call
  <2> QED BY <2>1, NoCallFacts, SameSessions DEF sessions
<1>6. ASSUME NEW s \in Ids, NEW todo, RunUntil(s, todo)
      PROVE  Ledger!Next \/ UNCHANGED Ledger!vars
  <2>1. /\ call = NoCall /\ s \in table /\ backend[s] # "transport_failed"
        /\ UNCHANGED <<issued, table, backend, actions>>
    BY <1>6 DEF RunUntil, Idle, Usable
  <2>2. CASE todo = <<>>
    <3>1. receipts' = [receipts EXCEPT ![s] = Append(@, actions[s])] /\ call' = call
      BY <1>6, <2>2 DEF RunUntil
    <3>2. Visible = table /\ Visible' = table
      BY <2>1, <3>1, NoCallFacts DEF Visible
    <3>3. /\ receipts \in [Ids -> Seq(Seq(Actions))] /\ actions \in [Ids -> Seq(Actions)]
          /\ table \subseteq Ids
      BY DEF IInv, Typed
    <3>4. /\ ToSet(receipts'[s]) = ToSet(receipts[s]) \cup {actions[s]}
          /\ \A u \in Ids \ {s} : receipts'[u] = receipts[u]
      <4>1. /\ receipts'[s] = Append(receipts[s], actions[s])
            /\ \A u \in Ids \ {s} : receipts'[u] = receipts[u]
        BY <3>1, <3>3
      <4>2. receipts[s] \in Seq(Seq(Actions)) /\ actions[s] \in Seq(Actions)
        BY <3>3
      <4> QED BY <4>1, <4>2, ReceiptFacts
    <3>5. /\ LogBar' = [LogBar EXCEPT ![s] = actions[s]] /\ Visible' = Visible
          /\ ReceiptsBar' = [ReceiptsBar EXCEPT ![s] = ToSet(receipts'[s])]
          /\ PoisonedBar' = PoisonedBar \ {s}
      BY <2>1, <3>2, <3>3, <3>4, BarFacts
    <3>6. /\ LogBar[s] = actions[s] /\ ReceiptsBar[s] = ToSet(receipts[s])
          /\ s \in Visible \ PoisonedBar /\ PoisonedBar \ {s} = PoisonedBar
      BY <2>1, <3>2, <3>3 DEF LogBar, ReceiptsBar, PoisonedBar
    <3>7. Ledger!Receipt(s)
      BY <2>1, <3>3, <3>4, <3>5, <3>6, LedgerFacts
    <3> QED BY <2>1, <3>3, <3>7 DEF Ledger!Next
  <2>3. CASE todo # <<>>
    <3>1. call'.op = "run" /\ UNCHANGED receipts
      BY <1>6, <2>3 DEF RunUntil, Call
    <3> QED BY <2>1, <3>1, NoCallFacts, SameSessions
  <2> QED BY <2>2, <2>3
<1>7. ASSUME NEW s \in Ids, NEW k, NEW n \in Ids, ReplaySpawns(s, k, n)
      PROVE  UNCHANGED Ledger!vars
  <2>1. /\ call = NoCall /\ call'.op = "replay" /\ call'.target = n /\ n \notin issued
        /\ UNCHANGED sessions
    BY <1>7 DEF ReplaySpawns, MayCreate, Idle, Call
  <2>2. n \notin table
    BY <2>1, GoodIsRest
  <2> QED BY <2>1, <2>2, NoCallFacts, SameSessions DEF sessions
<1>8. ASSUME NEW s \in Ids, NEW k, NEW n \in Ids, ReplayUnavailable(s, k, n)
      PROVE  Ledger!Next \/ UNCHANGED Ledger!vars
  <2>1. call = NoCall /\ n \notin issued
    BY <1>8 DEF ReplayUnavailable, MayCreate, Idle
  <2>2. n \notin table /\ Visible = table /\ Typed
    BY <2>1, GoodIsRest, NoCallFacts DEF IInv
  <2>3. CASE receipts[s][k] = <<>>
    <3>1. /\ Insert(n, "initial_unavailable", <<<<>>>>) /\ issued' = issued \cup {n}
          /\ call' = call
      BY <1>8, <2>3 DEF ReplayUnavailable
    <3>2. Visible' = table'
      BY <2>1, <3>1, NoCallFacts DEF Visible
    <3> QED BY <2>1, <2>2, <3>1, <3>2, OpensInLedger
  <2>4. CASE receipts[s][k] # <<>>
    <3>1. /\ Insert(n, "initial_unavailable", <<>>) /\ issued' = issued
          /\ call'.op = "replay" /\ call'.target = n
      BY <1>8, <2>4 DEF ReplayUnavailable, Call
    <3>2. Visible' = Visible
      BY <2>2, <3>1 DEF Insert, Visible
    <3>3. \A u \in Visible : /\ actions'[u] = actions[u] /\ receipts'[u] = receipts[u]
                             /\ backend'[u] = backend[u]
      BY <2>2, <3>1 DEF Insert, Typed
    <3> QED BY <2>2, <3>1, <3>2, <3>3, UnseenIsStutter DEF Typed
  <2> QED BY <2>3, <2>4
<1>9. ASSUME NEW s \in Ids, Close(s) PROVE Ledger!Next
  <2>1. call = NoCall /\ call' = call /\ s \in table /\ Pop(s) /\ issued' = issued
    BY <1>9 DEF Close, Idle
  <2>2. Visible = table /\ Visible' = table \ {s} /\ table' = table \ {s}
        /\ table \subseteq Ids /\ table' \subseteq Ids
    BY <2>1, NoCallFacts DEF Visible, Pop, IInv, Typed
  <2>3. /\ LogBar' = [LogBar EXCEPT ![s] = <<>>]
        /\ ReceiptsBar' = [ReceiptsBar EXCEPT ![s] = {}]
        /\ PoisonedBar' = PoisonedBar \ {s}
    BY <2>1, <2>2, PopFacts, BarFacts
  <2>4. Ledger!Close(s)
    BY <2>1, <2>2, <2>3, LedgerFacts
  <2> QED BY <2>4 DEF Ledger!Next
<1> QED BY <1>1, <1>2, <1>3, <1>4, <1>5, <1>6, <1>7, <1>8, <1>9 DEF ClientCalls

\* The end of a call whose transport raised.
LEMMA GivesUpInLedger ==
    ASSUME IInv, call # NoCall, GivesUp
    PROVE  Ledger!Next \/ UNCHANGED Ledger!vars
<1>1. PICK s : s = call.target
  OBVIOUS
<1>2. s \in Ids /\ call.op \in Ops /\ Typed
  BY <1>1, CallFacts DEF IInv
<1>3. Settles /\ Visible' = table'
  BY NoCallFacts DEF GivesUp, Visible
<1>4. CASE call.op = "open"
  <2>1. Insert(s, "initial_unavailable", <<<<>>>>) /\ issued' = issued \cup {s}
    BY <1>1, <1>3, <1>4 DEF Settles, OpensUnavailable
  <2>2. s \notin table /\ s \notin issued /\ Visible = table
    BY <1>1, <1>4 DEF IInv, Placed, Visible
  <2> QED BY <1>2, <1>3, <2>1, <2>2, OpensInLedger
<1>5. CASE call.op = "replay"
  <2>1. Pop(s) /\ issued' = issued
    BY <1>1, <1>3, <1>5 DEF Settles
  <2>2. Visible' = Visible
    BY <1>1, <1>3, <1>5, <2>1 DEF Pop, Visible
  <2>3. \A u \in Visible : /\ actions'[u] = actions[u] /\ receipts'[u] = receipts[u]
                           /\ backend'[u] = backend[u]
    BY <1>1, <1>2, <1>5, <2>1, PopFacts DEF Visible, Typed
  <2> QED BY <1>2, <2>1, <2>2, <2>3, UnseenIsStutter DEF Visible, Typed
<1>6. CASE call.op \in {"observe", "step", "run"}
  <2>1. /\ backend' = [backend EXCEPT ![s] = "transport_failed"] /\ s \in table
        /\ UNCHANGED <<issued, table, actions, observed, receipts, tombstones>>
    BY <1>1, <1>3, <1>6 DEF Settles, Poisons, IInv, Placed
  <2>2. Visible = table /\ Visible' = Visible
    BY <1>3, <1>6, <2>1 DEF Visible
  <2>3. LogBar' = LogBar /\ ReceiptsBar' = ReceiptsBar
    BY <2>1, <2>2 DEF LogBar, ReceiptsBar
  <2>4. PoisonedBar' = PoisonedBar \cup {s}
    BY <1>2, <2>1, <2>2 DEF PoisonedBar, Typed
  <2>5. Ledger!Poison(s)
    BY <1>2, <2>1, <2>2, <2>3, <2>4, LedgerFacts
  <2> QED BY <1>2, <2>5 DEF Ledger!Next
<1> QED BY <1>2, <1>4, <1>5, <1>6 DEF Ops

\* An action is recorded: the client sees it, or the replay it belongs to
\* appears, or a replay is under way.
LEMMA RecordInLedger ==
    ASSUME IInv, NEW s \in table, s = call.target, call # NoCall, call.todo # <<>>,
           call.op \in {"step", "run", "replay"}, Accepts(s, NextAction), Record
    PROVE  Ledger!Next \/ UNCHANGED Ledger!vars
<1>1. /\ s \in Ids /\ call.todo \in Seq(Actions) /\ Typed /\ table \subseteq Ids
      /\ table \subseteq issued \cup {s}
  BY CallFacts DEF IInv, Typed
<1>2. PICK log : log = Append(actions[s], NextAction)
  OBVIOUS
<1>3. /\ actions[s] \in Seq(Actions) /\ receipts[s] \in Seq(Seq(Actions))
      /\ NextAction \in Actions /\ Tail(call.todo) \in Seq(Actions)
      /\ log \o Tail(call.todo) = actions[s] \o call.todo
  <2>1. actions[s] \in Seq(Actions) /\ receipts[s] \in Seq(Seq(Actions))
    BY <1>1 DEF Typed
  <2> QED BY <1>1, <1>2, <2>1, TodoFacts DEF NextAction
<1>4. log \in Seq(Actions) /\ log \o <<>> = log
  BY <1>2, <1>3, LogFacts, ConcatEmptySeq
<1>5. /\ actions'[s] = log /\ UNCHANGED <<table, backend>>
      /\ \A u \in Ids \ {s} : actions'[u] = actions[u] /\ receipts'[u] = receipts[u]
  BY <1>2, RecordFacts DEF Record
<1>6. PICK a \in Actions : log = Append(actions[s], a)
  BY <1>2, <1>3
<1>7. CASE Tail(call.todo) # <<>>
  <2>1. /\ call' = [call EXCEPT !.todo = Tail(@)] /\ issued' = issued /\ receipts' = receipts
    BY <1>7 DEF Record
  <2>2. call'.op = call.op /\ call'.target = s
    BY <1>1, <2>1 DEF Typed
  <2>3. Visible' = Visible
    BY <1>5, <2>2 DEF Visible
  <2>4. CASE call.op = "replay"
    <3>1. s \notin Visible /\ Visible \subseteq Ids
      BY <1>1, <2>4 DEF Visible
    <3> QED BY <1>5, <2>1, <2>3, <3>1, UnseenIsStutter
  <2>5. CASE call.op # "replay"
    <3>1. s \in Visible /\ backend[s] # "transport_failed"
      BY <2>5 DEF Visible, IInv, Placed
    <3>2. /\ LogBar' = [LogBar EXCEPT ![s] = log]
          /\ ReceiptsBar' = [ReceiptsBar EXCEPT ![s] = ToSet(receipts[s])]
          /\ PoisonedBar' = PoisonedBar \ {s}
      BY <1>1, <1>5, <2>1, <2>3, <3>1, BarFacts
    <3>3. LogBar[s] = actions[s] /\ s \in Visible \ PoisonedBar /\ PoisonedBar' = PoisonedBar
      BY <1>1, <3>1, <3>2 DEF LogBar, PoisonedBar
    <3>4. ReceiptsBar' = ReceiptsBar
      BY <2>1, <2>3 DEF ReceiptsBar
    <3>5. Ledger!Append1(s, a)
      BY <1>1, <1>6, <2>1, <2>3, <3>2, <3>3, <3>4, LedgerFacts
    <3> QED BY <1>1, <3>5 DEF Ledger!Next
  <2> QED BY <2>4, <2>5
<1>8. CASE Tail(call.todo) = <<>>
  <2>1. /\ call' = NoCall /\ issued' = issued \cup {s}
        /\ receipts' = IF call.op # "step" THEN [receipts EXCEPT ![s] = Append(@, log)]
                       ELSE receipts
    BY <1>2, <1>8 DEF Record
  <2>2. Visible' = table
    BY <1>5, <2>1, NoCallFacts DEF Visible
  <2>3. call.op # "step" => ToSet(receipts'[s]) = ToSet(receipts[s]) \cup {log}
    <3>1. call.op # "step" => receipts'[s] = Append(receipts[s], log)
      BY <1>1, <2>1 DEF Typed
    <3> QED BY <1>3, <1>4, <3>1, ReceiptFacts
  <2>4. CASE call.op = "replay"
    <3>1. Visible = table \ {s} /\ s \notin Visible
      BY <2>4 DEF Visible
    <3>2. s \notin issued /\ Completes(call) /\ receipts[s] = <<>>
          /\ backend[s] # "transport_failed"
      BY <2>4 DEF IInv, Placed
    <3>3. ToSet(receipts'[s]) = {log}
      BY <1>3, <1>4, <2>3, <2>4, <3>2, ReceiptFacts
    <3>4. Ledger!Appear(s, log)
      BY <1>1, <1>5, <2>1, <2>2, <3>1, <3>2, <3>3, AppearsInLedger
    <3>5. PICK u \in table \ {s} :
             /\ backend[u] # "transport_failed"
             /\ \E k \in DOMAIN receipts[u] : receipts[u][k] = actions[s] \o call.todo
      BY <3>2 DEF Completes
    <3>6. PICK k \in DOMAIN receipts[u] : receipts[u][k] = log
      BY <1>3, <1>4, <1>8, <3>5
    <3>7. u \in Ids /\ u \in Visible \ PoisonedBar /\ log \in ReceiptsBar[u]
      BY <1>1, <3>1, <3>5, <3>6 DEF PoisonedBar, ReceiptsBar, ToSet
    <3>8. Ledger!Replay(u, s)
      BY <3>4, <3>7 DEF Ledger!Replay, PoisonedBar, ReceiptsBar
    <3> QED BY <1>1, <3>7, <3>8 DEF Ledger!Next
  <2>5. CASE call.op # "replay"
    <3>1. s \in Visible /\ backend[s] # "transport_failed" /\ Visible = table
      BY <2>5 DEF Visible, IInv, Placed
    <3>2. issued' = issued
      BY <2>1, <3>1 DEF IInv, Blank
    <3>3. /\ LogBar' = [LogBar EXCEPT ![s] = log] /\ Visible' = Visible
          /\ ReceiptsBar' = [ReceiptsBar EXCEPT ![s] = ToSet(receipts'[s])]
          /\ PoisonedBar' = PoisonedBar \ {s}
      BY <1>1, <1>5, <2>2, <3>1, BarFacts
    <3>4. /\ LogBar[s] = actions[s] /\ ReceiptsBar[s] = ToSet(receipts[s])
          /\ s \in Visible \ PoisonedBar /\ PoisonedBar' = PoisonedBar
      BY <1>1, <3>1, <3>3 DEF LogBar, ReceiptsBar, PoisonedBar
    <3>5. CASE call.op = "step"
      <4>1. ReceiptsBar' = ReceiptsBar
        BY <2>1, <3>3, <3>5 DEF ReceiptsBar
      <4>2. Ledger!Append1(s, a)
        BY <1>1, <1>6, <3>2, <3>3, <3>4, <4>1, LedgerFacts
      <4> QED BY <1>1, <4>2 DEF Ledger!Next
    <3>6. CASE call.op # "step"
      <4>1. log \in {Append(LogBar[s], b) : b \in Actions}
        BY <1>2, <1>3, <3>4
      <4>2. ReceiptsBar' = [ReceiptsBar EXCEPT ![s] = ReceiptsBar[s] \cup {log}]
        BY <2>3, <3>3, <3>4, <3>6
      <4>3. Ledger!Receipt(s)
        BY <1>1, <3>2, <3>3, <3>4, <4>1, <4>2, LedgerFacts
      <4> QED BY <1>1, <4>3 DEF Ledger!Next
    <3> QED BY <3>5, <3>6
  <2> QED BY <2>4, <2>5
<1> QED BY <1>7, <1>8

\* An answer is a step of the ledger, or unseen.
LEMMA AnsweredInLedger ==
    ASSUME IInv, Answered
    PROVE  Ledger!Next \/ UNCHANGED Ledger!vars
<1>1. PICK s : s = call.target
  OBVIOUS
<1>2. call # NoCall /\ s \in Ids /\ Typed /\ call.op \in Ops /\ wire = "answer"
  BY <1>1, CallFacts DEF Answered, InCall, IInv
<1>3. CASE Starting
  <2>1. s \notin table /\ s \notin issued /\ Visible = table
    BY <1>1, <1>2, <1>3, CallFacts DEF Starting, IInv, Placed, Visible
  <2>2. CASE call.todo = <<>>
    <3>1. /\ Insert(s, "active", <<<<>>>>) /\ issued' = issued \cup {s}
          /\ call' = NoCall
      BY <1>1, <1>3, <2>2 DEF Answered
    <3>2. Visible' = table'
      BY <3>1, NoCallFacts DEF Visible
    <3> QED BY <1>2, <2>1, <3>1, <3>2, OpensInLedger
  <2>3. CASE call.todo # <<>>
    <3>1. Insert(s, "active", <<>>) /\ issued' = issued /\ call' = call
      BY <1>1, <1>3, <2>3 DEF Answered
    <3>2. call.op = "replay"
      BY <1>1, <1>2, <2>1, <2>3, CallFacts
    <3>3. Visible' = Visible
      BY <1>1, <2>1, <3>1, <3>2 DEF Insert, Visible
    <3>4. \A u \in Visible : /\ actions'[u] = actions[u] /\ receipts'[u] = receipts[u]
                             /\ backend'[u] = backend[u]
      BY <1>2, <2>1, <3>1 DEF Insert, Typed
    <3> QED BY <1>2, <2>1, <3>1, <3>3, <3>4, UnseenIsStutter DEF Typed
  <2> QED BY <2>2, <2>3
<1>4. CASE ~Starting /\ call.op = "observe"
  <2>1. call' = NoCall /\ UNCHANGED <<issued, table, backend, actions, receipts>>
    BY <1>4 DEF Answered
  <2> QED BY <1>4, <2>1, NoCallFacts, SameSessions
<1>5. CASE ~Starting /\ call.op # "observe"
  <2>1. Record /\ s \in table
    BY <1>1, <1>5 DEF Answered, Starting
  <2>2. call.op \in {"step", "run", "replay"}
    BY <1>2, <1>5, CallFacts DEF Ops, Starting
  <2>3. call.todo # <<>>
    BY <1>1, <2>1, <2>2 DEF IInv, Placed
  <2>4. Accepts(s, NextAction)
    BY <1>1, <1>2, <1>5, <2>3 DEF IInv, Asked
  <2> QED BY <1>1, <1>2, <2>1, <2>2, <2>3, <2>4, RecordInLedger
<1> QED BY <1>3, <1>4, <1>5

\* Nothing the client sees changes when the call and the sessions do not.
LEMMA SameIsStutter ==
    ASSUME IInv, UNCHANGED <<sessions, call>>
    PROVE  UNCHANGED Ledger!vars
<1>1. UNCHANGED <<issued, table, backend, actions, receipts, call>>
  BY DEF sessions
<1>2. Visible' = Visible /\ Visible \subseteq Ids
  BY <1>1 DEF Visible, IInv, Typed
<1> QED BY <1>1, <1>2, UnseenIsStutter

\* Every step of a call is a step of the ledger, or unseen.
LEMMA ServerContinuesInLedger ==
    ASSUME IInv, ServerContinues
    PROVE  Ledger!Next \/ UNCHANGED Ledger!vars
<1>1. CASE Asks
  BY <1>1, SameIsStutter DEF Asks
<1>2. CASE RecordsUnavailable
  <2>1. PICK s : s = call.target
    OBVIOUS
  <2>2. /\ call # NoCall /\ s \in table /\ call.todo # <<>> /\ Accepts(s, NextAction) /\ Record
    BY <1>2, <2>1 DEF RecordsUnavailable, InCall, Starting
  <2>3. call.op \in {"step", "run", "replay"}
    BY <2>1, <2>2, CallFacts DEF Ops
  <2> QED BY <2>1, <2>2, <2>3, RecordInLedger
<1>3. CASE Answered
  BY <1>3, AnsweredInLedger
<1>4. CASE FindsExit \/ Fails
  BY <1>4, GivesUpInLedger DEF FindsExit, Fails, InCall
<1>5. CASE RefusesRest
  <2>1. PICK s : s = call.target
    OBVIOUS
  <2>2. call # NoCall /\ s \in Ids /\ call' = NoCall /\ Typed
    BY <1>5, <2>1, CallFacts DEF RefusesRest, InCall, IInv
  <2>3. CASE call.op = "replay"
    <3>1. Pop(s) /\ issued' = issued
      BY <1>5, <2>1, <2>3 DEF RefusesRest
    <3>2. Visible = table \ {s} /\ Visible' = Visible
      BY <2>1, <2>2, <2>3, <3>1, NoCallFacts DEF Pop, Visible
    <3>3. \A u \in Visible : /\ actions'[u] = actions[u] /\ receipts'[u] = receipts[u]
                             /\ backend'[u] = backend[u]
      BY <2>2, <3>1, <3>2, PopFacts DEF Typed
    <3> QED BY <2>2, <3>1, <3>2, <3>3, UnseenIsStutter DEF Typed
  <2>4. CASE call.op # "replay"
    <3>1. UNCHANGED sessions
      BY <1>5, <2>4 DEF RefusesRest
    <3> QED BY <2>2, <2>4, <3>1, NoCallFacts, SameSessions DEF sessions
  <2> QED BY <2>3, <2>4
<1> QED BY <1>1, <1>2, <1>3, <1>4, <1>5 DEF ServerContinues

\* Every step of the server is a step of the ledger, or the client sees
\* nothing of it.
LEMMA StepInLedger ==
    ASSUME IInv, [Next]_vars
    PROVE  [Ledger!Next]_(Ledger!vars)
<1>1. CASE UNCHANGED vars
  BY <1>1, SameIsStutter DEF vars
<1>2. CASE ClientCalls
  BY <1>2, ClientCallsInLedger
<1>3. CASE ServerContinues
  BY <1>3, ServerContinuesInLedger
<1>4. CASE ServerEnds
  BY <1>4, VanishInLedger DEF ServerEnds
<1>5. CASE ChildServes \/ ChildAnswers \/ \E s \in Ids : ChildExits(s) \/ ChildSeesEnd(s)
  BY <1>5, SameIsStutter DEF ChildServes, ChildAnswers, ChildExits, ChildSeesEnd
<1> QED BY <1>1, <1>2, <1>3, <1>4, <1>5 DEF Next

\* KeepsLedger: the server implements SessionLedger.  What a client sees is a
\* log that only grows, receipts that are copies of it, and replays that
\* appear whole with the log of a receipt of another session, or not at all.
THEOREM LedgerTheorem == Spec => KeepsLedger
<1>1. Init => Ledger!Init
  <2> SUFFICES ASSUME Init PROVE Ledger!Init
    OBVIOUS
  <2>1. Visible = {} /\ issued = {}
    BY NoCallFacts DEF Init
  <2> QED BY <2>1 DEF Ledger!Init
<1>2. IInv /\ [Next]_vars => [Ledger!Next]_(Ledger!vars)
  BY StepInLedger
<1> QED BY <1>1, <1>2, Invariance, PTL DEF Spec, KeepsLedger, Ledger!Spec
=============================================================================
