----------------------------- MODULE KernelProofs -----------------------------
(***************************************************************************)
(* The invariants of GuestKernel, proved for any number of guest threads,  *)
(* events, mutants, sections, spin locks and credits.                      *)
(*                                                                         *)
(* No wake-up is lost, because each credit of an auto-reset event has its  *)
(* own thread, woken or about to notify, as long as anybody sleeps on the  *)
(* event: the inductive invariant counts both.  A manual-reset event and a *)
(* mutant are notified to all, so one thread about to notify is enough.    *)
(***************************************************************************)
EXTENDS GuestKernel, FiniteSetTheorems, TLAPS

Objects == Events \cup Mutants

Todos ==
    {<<>>} \cup {<<"clear", h>> : h \in Events}
           \cup {<<"wait", k, forever>> : k \in Objects, forever \in BOOLEAN}

Where == [at : Places,
          on : Handles \cup Mutants \cup Sections \cup SpinLocks \cup {NoHandle},
          all : BOOLEAN, forever : BOOLEAN, todo : Todos]

Event == [known : BOOLEAN, manual : BOOLEAN, signaled : BOOLEAN, credits : 0..MaxCredits]

Sound(e) ==
    /\ e.credits > 0 => e.signaled /\ ~e.manual
    /\ e.signaled => e.known
Held(lock) == lock \in Locks /\ (lock.owner = NoThread <=> lock.depth = 0)

ObjectsTyped ==
    /\ event \in [Handles -> Event] /\ \A h \in Handles : Sound(event[h])
    /\ open \subseteq Handles \cup Mutants
    /\ mutant \in [Mutants -> Locks] /\ \A m \in Mutants : Held(mutant[m])
    /\ section \in [Sections -> Locks] /\ \A s \in Sections : Held(section[s])
    /\ spin \in [SpinLocks -> Threads \cup {NoThread}]
    /\ Held(dpc)

ProcessTyped ==
    /\ registered \subseteq Workers
    /\ main \in [at : {"running", "stopping", "joining", "stopped", "aborted"},
                 joins : SUBSET Workers]
    /\ stop \in BOOLEAN /\ (stop <=> main.at # "running")

\* What a thread is there for: it sleeps on an event or on a mutant, and a
\* mutant it names is there.
Placed(w) ==
    /\ w.at \in {"asleep", "woken"} => w.on \in Objects
    /\ w.at = "retrying" => w.on \in Mutants
    /\ w.at = "polling" => w.on \in Sections
    /\ w.at = "spinning" => w.on \in SpinLocks
    /\ w.at = "registering" => w.on \in Workers
    /\ w.at = "notifying" => w.on \in Handles \cup Mutants \cup {NoHandle}
    /\ w.at \in {"asleep", "woken", "retrying", "notifying"} /\ w.on \in Mutants =>
          w.on \in open
    /\ Len(w.todo) = 3 /\ w.todo[2] \in Mutants => w.todo[2] \in open

Typed ==
    /\ thread \in [Threads -> Where] /\ \A t \in Threads : Placed(thread[t])
    /\ ObjectsTyped /\ ProcessTyped

Notifiers(k) == {u \in Threads : thread[u].at = "notifying" /\ thread[u].on = k}
Helpers(k) ==
    {u \in Threads : thread[u].at \in {"woken", "notifying"} /\ thread[u].on = k}

\* Where everybody waits for the same thing, everybody is notified.
ToAll ==
    \A u \in Threads : thread[u].at = "notifying" =>
       /\ thread[u].on \in Mutants => thread[u].all
       /\ thread[u].on \in Events /\ event[thread[u].on].manual => thread[u].all

MutantServed(m) ==
    mutant[m].owner = NoThread /\ Sleepers(m) # {} => Notifiers(m) # {}

EventServed(h) ==
    Sleepers(h) # {} =>
       /\ event[h].manual /\ event[h].signaled => Notifiers(h) # {}
       /\ ~event[h].manual => event[h].credits <= Cardinality(Helpers(h))

DpcHeld == dpc.owner # NoThread => thread[dpc.owner].at # "ended"

IInv ==
    /\ Typed /\ ToAll /\ DpcHeld
    /\ \A m \in Mutants : MutantServed(m)
    /\ \A h \in Events : EventServed(h)

-----------------------------------------------------------------------------
(* Places, locks and events.                                               *)

\* A thread at a place, with nothing left to do of a call.
LEMMA AtFacts ==
    ASSUME NEW place \in Places,
           NEW on \in Handles \cup Mutants \cup Sections \cup SpinLocks \cup {NoHandle}
    PROVE  /\ At(place, on) \in Where
           /\ At(place, on).at = place /\ At(place, on).on = on
           /\ At(place, on).todo = <<>> /\ Len(At(place, on).todo) = 0
<1>1. Len(<<>>) = 0
  OBVIOUS
<1> QED BY <1>1 DEF At, Where, Todos

\* A thread that runs, and one that has ended.
LEMMA RunFacts ==
    /\ Run \in Where /\ Run.at = "running" /\ Run.todo = <<>> /\ Len(Run.todo) = 0
    /\ Ended \in Where /\ Ended.at = "ended" /\ Ended.todo = <<>> /\ Len(Ended.todo) = 0
    /\ Returned \in Where /\ Returned.at = "returned" /\ Len(Returned.todo) = 0
<1>1. "running" \in Places /\ "ended" \in Places /\ "returned" \in Places
  BY DEF Places
<1> QED BY <1>1, AtFacts DEF Run, Ended, Returned

\* A thread that runs with the rest of a call to do.
LEMMA RunningFacts ==
    ASSUME NEW todo \in Todos
    PROVE  LET w == [Run EXCEPT !.todo = todo]
           IN  w \in Where /\ w.at = "running" /\ w.todo = todo
<1>1. Run \in Where /\ Run.at = "running"
  BY RunFacts
<1> QED BY <1>1 DEF Where

\* A thread asleep on an object.
LEMMA SleepingFacts ==
    ASSUME NEW k \in Objects, NEW forever \in BOOLEAN
    PROVE  LET w == Sleeping(k, forever)
           IN  w \in Where /\ w.at = "asleep" /\ w.on = k /\ Len(w.todo) = 0
<1>1. "asleep" \in Places /\ k \in Handles \cup Mutants \cup Sections \cup {NoHandle}
  BY DEF Places, Objects, Handles
<1> DEFINE a == At("asleep", k)
<1>2. a \in Where /\ a.at = "asleep" /\ a.on = k /\ Len(a.todo) = 0
  BY <1>1, AtFacts
<1> HIDE DEF a
<1>3. Sleeping(k, forever) = [a EXCEPT !.forever = forever]
  BY DEF Sleeping, a
<1> QED BY <1>2, <1>3 DEF Where

\* A thread that has signaled and not notified yet.
LEMMA NotifyingFacts ==
    ASSUME NEW k \in Handles \cup Mutants, NEW all \in BOOLEAN, NEW todo \in Todos
    PROVE  LET w == Notifying(k, all, todo)
           IN  /\ w \in Where /\ w.at = "notifying" /\ w.on = k /\ w.all = all
               /\ w.todo = todo
<1>1. "notifying" \in Places
  BY DEF Places
<1> DEFINE a == At("notifying", k)
<1>2. a \in Where /\ a.at = "notifying" /\ a.on = k
  BY <1>1, AtFacts
<1> HIDE DEF a
<1>3. Notifying(k, all, todo) = [a EXCEPT !.all = all, !.todo = todo]
  BY DEF Notifying, a
<1> QED BY <1>2, <1>3 DEF Where

\* What is left to do is a wait or the second half of a pulse.
LEMMA TodoFacts ==
    ASSUME NEW todo \in Todos
    PROVE  /\ Len(todo) = 2 => todo[2] \in Events
           /\ Len(todo) = 3 => todo[2] \in Objects /\ todo[3] \in BOOLEAN
<1>1. Len(<<>>) = 0
  OBVIOUS
<1>2. ASSUME NEW h PROVE Len(<<"clear", h>>) = 2 /\ <<"clear", h>>[2] = h
  OBVIOUS
<1>3. ASSUME NEW k, NEW f
      PROVE Len(<<"wait", k, f>>) = 3 /\ <<"wait", k, f>>[2] = k /\ <<"wait", k, f>>[3] = f
  OBVIOUS
<1>4. CASE todo = <<>>
  BY <1>1, <1>4
<1>5. ASSUME NEW h \in Events, todo = <<"clear", h>>
      PROVE  Len(todo) = 2 /\ todo[2] \in Events
  BY <1>2, <1>5
<1>6. ASSUME NEW k \in Objects, NEW f \in BOOLEAN, todo = <<"wait", k, f>>
      PROVE  Len(todo) = 3 /\ todo[2] \in Objects /\ todo[3] \in BOOLEAN
  BY <1>3, <1>6
<1>7. \/ todo = <<>> \/ \E h \in Events : todo = <<"clear", h>>
      \/ \E k \in Objects, f \in BOOLEAN : todo = <<"wait", k, f>>
  BY DEF Todos
<1> QED BY <1>4, <1>5, <1>6, <1>7

\* A lock is taken and dropped by one thread, level by level.
LEMMA LockFacts ==
    ASSUME NEW lock, Held(lock), NEW t \in Threads
    PROVE  /\ Held(Free) /\ Free.owner = NoThread
           /\ Takeable(lock, t) => Held(Taken(lock, t)) /\ Taken(lock, t).owner = t
           /\ lock.owner = t =>
                 Held(Dropped(lock)) /\ Dropped(lock).owner \in {NoThread, t}
<1>1. NoThread # t /\ MaxDepth \in Nat
  BY NamesAssumption, BoundsAssumption
<1>2. Held(Free) /\ Free.owner = NoThread
  BY <1>1 DEF Held, Free, Locks
<1>3. lock.depth \in 0..MaxDepth /\ lock \in Locks
  BY DEF Held, Locks
<1>4. ASSUME Takeable(lock, t) PROVE Held(Taken(lock, t)) /\ Taken(lock, t).owner = t
  <2>1. lock.depth + 1 \in 0..MaxDepth /\ lock.depth + 1 # 0
    BY <1>1, <1>3, <1>4 DEF Takeable
  <2>2. Taken(lock, t) = [owner |-> t, depth |-> lock.depth + 1]
    BY DEF Taken
  <2> QED BY <1>1, <2>1, <2>2 DEF Held, Locks
<1>5. ASSUME lock.owner = t PROVE Held(Dropped(lock)) /\ Dropped(lock).owner \in {NoThread, t}
  <2>1. CASE lock.depth = 1
    BY <1>2, <2>1 DEF Dropped
  <2>2. CASE lock.depth # 1
    <3>1. lock.depth # 0
      BY <1>1, <1>5 DEF Held
    <3>2. PICK d \in 0..MaxDepth : d = lock.depth - 1 /\ d # 0
      BY <1>1, <1>3, <2>2, <3>1
    <3>3. Dropped(lock) = [lock EXCEPT !.depth = d]
      BY <2>2, <3>2 DEF Dropped
    <3> QED BY <1>1, <1>3, <1>5, <3>2, <3>3 DEF Held, Locks
  <2> QED BY <2>1, <2>2
<1> QED BY <1>2, <1>4, <1>5

\* Signals, clears and claims keep an event in its type.
LEMMA EventFacts ==
    ASSUME NEW e \in Event, Sound(e)
    PROVE  /\ Unknown \in Event /\ Sound(Unknown) /\ ~Unknown.manual /\ Unknown.credits = 0
           /\ e.credits < MaxCredits =>
                 /\ Signaled(e) \in Event /\ Sound(Signaled(e))
                 /\ Signaled(e).manual = e.manual
                 /\ Signaled(e).credits <= e.credits + 1
           /\ Cleared(e) \in Event /\ Sound(Cleared(e)) /\ Cleared(e).manual = e.manual
           /\ ~Cleared(e).signaled /\ Cleared(e).credits = 0
           /\ Claimable(e) =>
                 /\ Claimed(e) \in Event /\ Sound(Claimed(e))
                 /\ Claimed(e).manual = e.manual
                 /\ e.manual => Claimed(e).signaled = e.signaled
                 /\ ~e.manual => Claimed(e).credits = e.credits - 1
<1>1. MaxCredits \in Nat /\ e.credits \in 0..MaxCredits
  BY BoundsAssumption DEF Event
<1>2. 0 \in 0..MaxCredits
  BY <1>1
<1>3. Unknown \in Event /\ Sound(Unknown) /\ ~Unknown.manual /\ Unknown.credits = 0
  BY <1>2 DEF Unknown, Event, Sound
<1>4. ASSUME e.credits < MaxCredits
      PROVE  /\ Signaled(e) \in Event /\ Sound(Signaled(e))
             /\ Signaled(e).manual = e.manual
             /\ Signaled(e).credits <= e.credits + 1
  <2>1. PICK c \in 0..MaxCredits : /\ c = IF e.manual THEN e.credits ELSE e.credits + 1
                                   /\ c <= e.credits + 1
    BY <1>1, <1>4
  <2>2. Signaled(e) = [e EXCEPT !.known = TRUE, !.signaled = TRUE, !.credits = c]
    BY <2>1 DEF Signaled, Event
  <2>3. /\ Signaled(e) \in Event /\ Signaled(e).manual = e.manual
        /\ Signaled(e).signaled = TRUE /\ Signaled(e).credits = c
        /\ Signaled(e).known = TRUE
    BY <2>2 DEF Event
  <2>4. Sound(Signaled(e))
    BY <2>1, <2>3 DEF Sound
  <2> QED BY <2>1, <2>3, <2>4
<1>5. /\ Cleared(e) \in Event /\ Cleared(e).manual = e.manual
      /\ Cleared(e).signaled = FALSE /\ Cleared(e).credits = 0
  BY <1>2 DEF Cleared, Event
<1>6. Sound(Cleared(e))
  BY <1>5 DEF Sound
<1>7. ASSUME Claimable(e)
      PROVE  /\ Claimed(e) \in Event /\ Sound(Claimed(e))
             /\ Claimed(e).manual = e.manual
             /\ e.manual => Claimed(e).signaled = e.signaled
             /\ ~e.manual => Claimed(e).credits = e.credits - 1
  <2>1. CASE e.manual
    BY <2>1 DEF Claimed
  <2>2. CASE ~e.manual
    <3>1. e.credits > 0
      BY <1>7, <2>2 DEF Claimable
    <3>2. PICK c \in 0..MaxCredits : c = e.credits - 1
      BY <1>1, <3>1
    <3>3. CASE e.credits > 1
      <4>1. Claimed(e) = [e EXCEPT !.credits = c, !.signaled = TRUE]
        BY <2>2, <3>2, <3>3 DEF Claimed, Event
      <4>2. Claimed(e) \in Event /\ Claimed(e).manual = e.manual
            /\ Claimed(e).credits = c /\ Claimed(e).signaled = TRUE
            /\ Claimed(e).known = e.known
        BY <4>1 DEF Event
      <4>3. e.known
        BY <3>1 DEF Sound
      <4>4. Sound(Claimed(e))
        BY <2>2, <4>2, <4>3 DEF Sound
      <4> QED BY <2>2, <3>2, <4>2, <4>4
    <3>4. CASE ~(e.credits > 1)
      <4>0. c = 0
        BY <1>1, <3>1, <3>2, <3>4
      <4>1. Claimed(e) = [e EXCEPT !.credits = c, !.signaled = FALSE]
        <5>1. Claimed(e) = [e EXCEPT !.credits = @ - 1, !.signaled = e.credits > 1]
          BY <2>2 DEF Claimed
        <5>2. (e.credits > 1) = FALSE
          BY <3>4
        <5> QED BY <3>2, <5>1, <5>2 DEF Event
      <4>2. Claimed(e) \in Event /\ Claimed(e).manual = e.manual /\ Claimed(e).credits = c
            /\ Claimed(e).signaled = FALSE
        BY <4>1 DEF Event
      <4> QED BY <2>2, <3>2, <4>0, <4>2 DEF Sound
    <3> QED BY <3>3, <3>4
  <2> QED BY <2>1, <2>2
<1> QED BY <1>3, <1>4, <1>5, <1>6, <1>7

-----------------------------------------------------------------------------
(* The steps of one thread.                                                *)

\* The threads that may still serve an object are finitely many.
LEMMA HelpersAreFinite ==
    ASSUME NEW k
    PROVE  /\ IsFiniteSet(Helpers(k)) /\ Cardinality(Helpers(k)) \in Nat
           /\ \A B \in SUBSET Threads : IsFiniteSet(B) /\ Cardinality(B) \in Nat
<1>1. IsFiniteSet(Threads)
  BY NamesAssumption, FS_AddElement DEF Threads
<1>2. \A B \in SUBSET Threads : IsFiniteSet(B) /\ Cardinality(B) \in Nat
  BY <1>1, FS_Subset, FS_CardinalityType
<1> QED BY <1>2 DEF Helpers

\* What a thread that goes to w means for an event: it is claimed or left
\* alone by a thread that does not answer for it, or nothing is left to be
\* claimed, or it is signalled with a notification to come, or it is claimed
\* by a thread that was woken, or it is new.
EventMove(t, w, h) ==
    LET sleeps == w.at = "asleep" /\ w.on = h
    IN  /\ event'[h].manual => event[h].manual \/ \A u \in Threads : thread[u].on # h
        /\ \/ /\ event'[h] = event[h] \/ (Claimable(event[h]) /\ event'[h] = Claimed(event[h]))
              /\ t \notin Helpers(h) /\ ~sleeps
           \/ /\ event'[h].manual => ~event'[h].signaled
              /\ ~event'[h].manual => event'[h].credits = 0
           \/ /\ event'[h].credits <= event[h].credits + 1
              /\ event'[h].manual = event[h].manual
              /\ thread[t].at = "running" /\ w.at = "notifying" /\ w.on = h
           \/ /\ Claimable(event[h]) /\ event'[h] = Claimed(event[h])
              /\ thread[t].at = "woken" /\ thread[t].on = h /\ ~sleeps
           \/ (\A u \in Threads : thread[u].on # h) /\ ~sleeps

\* The move of one thread that EventMove allows keeps an event served.
LEMMA EventMoves ==
    ASSUME IInv, NEW t \in Threads, NEW w \in Where,
           thread' = [thread EXCEPT ![t] = w], thread[t].at # "notifying",
           NEW h \in Events, EventMove(t, w, h), ObjectsTyped'
    PROVE  EventServed(h)'
<1>1. /\ thread'[t] = w /\ \A u \in Threads : u # t => thread'[u] = thread[u]
      /\ thread \in [Threads -> Where]
  BY DEF IInv, Typed
<1>2. /\ event[h] \in Event /\ Sound(event[h]) /\ event'[h] \in Event
      /\ event[h].credits \in Nat /\ event'[h].credits \in Nat
      /\ event[h].manual \in BOOLEAN /\ event'[h].manual \in BOOLEAN
  BY BoundsAssumption DEF IInv, Typed, ObjectsTyped, Handles, Event
<1>3. /\ Notifiers(h) \subseteq Notifiers(h)'
      /\ Helpers(h)' \in SUBSET Threads /\ Helpers(h) \ {t} \subseteq Helpers(h)'
      /\ ~(w.at = "asleep" /\ w.on = h) => Sleepers(h)' \subseteq Sleepers(h)
      /\ w.at = "notifying" /\ w.on = h => t \in Notifiers(h)' /\ t \in Helpers(h)'
  BY <1>1 DEF Notifiers, Helpers, Sleepers
<1>4. EventServed(h)
  BY DEF IInv
<1> DEFINE A == Helpers(h)
           B == Helpers(h)'
<1>5. /\ IsFiniteSet(A) /\ IsFiniteSet(B) /\ Cardinality(A) \in Nat /\ Cardinality(B) \in Nat
      /\ \A C : IsFiniteSet(A \ C) /\ Cardinality(A \ C) \in Nat
  <2>1. A \in SUBSET Threads
    BY DEF Helpers
  <2> QED BY <1>3, <2>1, HelpersAreFinite
<1>6. A \subseteq B => Cardinality(A) <= Cardinality(B)
  BY <1>5, FS_Subset
<1>7. Cardinality(A \ {t}) = IF t \in A THEN Cardinality(A) - 1 ELSE Cardinality(A)
  BY <1>5, FS_RemoveElement
<1>8. Cardinality(A \ {t}) <= Cardinality(B)
  BY <1>3, <1>5, FS_Subset
<1>9. t \in B /\ t \notin A => Cardinality(A) + 1 <= Cardinality(B)
  <2> SUFFICES ASSUME t \in B, t \notin A PROVE Cardinality(A) + 1 <= Cardinality(B)
    OBVIOUS
  <2>1. A \cup {t} \subseteq B
    BY <1>3
  <2>2. Cardinality(A \cup {t}) = Cardinality(A) + 1
    BY <1>5, FS_AddElement
  <2> QED BY <1>5, <2>1, <2>2, FS_Subset
<1> HIDE DEF A, B
<1>10. EventServed(h)' <=>
         (Sleepers(h)' # {} =>
            /\ event'[h].manual /\ event'[h].signaled => Notifiers(h)' # {}
            /\ ~event'[h].manual => event'[h].credits <= Cardinality(B))
  BY DEF EventServed, B
<1>11. /\ Sleepers(h) # {} /\ event[h].manual /\ event[h].signaled => Notifiers(h) # {}
       /\ Sleepers(h) # {} /\ ~event[h].manual => event[h].credits <= Cardinality(A)
  BY <1>4 DEF EventServed, A
<1>12. Claimable(event[h]) =>
         /\ Claimed(event[h]).manual = event[h].manual
         /\ event[h].manual => Claimed(event[h]).signaled = event[h].signaled
         /\ ~event[h].manual => Claimed(event[h]).credits = event[h].credits - 1
  BY <1>2, EventFacts
<1>13. CASE /\ event'[h] = event[h] \/ (Claimable(event[h]) /\ event'[h] = Claimed(event[h]))
            /\ t \notin Helpers(h) /\ ~(w.at = "asleep" /\ w.on = h)
  <2>1. /\ event'[h].manual = event[h].manual
        /\ event[h].manual => event'[h].signaled = event[h].signaled
        /\ ~event[h].manual => event'[h].credits <= event[h].credits
    BY <1>2, <1>12, <1>13
  <2>2. Sleepers(h)' # {} => Sleepers(h) # {}
    BY <1>3, <1>13
  <2>3. Cardinality(A) <= Cardinality(B)
    BY <1>7, <1>8, <1>13 DEF A
  <2> QED BY <1>2, <1>3, <1>5, <1>10, <1>11, <2>1, <2>2, <2>3
<1>14. CASE /\ event'[h].manual => ~event'[h].signaled
            /\ ~event'[h].manual => event'[h].credits = 0
  BY <1>5, <1>10, <1>14
<1>15. CASE /\ event'[h].credits <= event[h].credits + 1
            /\ event'[h].manual = event[h].manual
            /\ thread[t].at = "running" /\ w.at = "notifying" /\ w.on = h
  <2>1. t \in B /\ t \notin A /\ Notifiers(h)' # {}
    BY <1>3, <1>15 DEF A, B, Helpers
  <2>2. Sleepers(h)' # {} => Sleepers(h) # {}
    BY <1>3, <1>15
  <2> QED BY <1>2, <1>5, <1>9, <1>10, <1>11, <1>15, <2>1, <2>2
<1>16. CASE /\ Claimable(event[h]) /\ event'[h] = Claimed(event[h])
            /\ thread[t].at = "woken" /\ thread[t].on = h
            /\ ~(w.at = "asleep" /\ w.on = h)
  <2>1. t \in A
    BY <1>16 DEF A, Helpers
  <2>2. Cardinality(A) - 1 <= Cardinality(B)
    BY <1>7, <1>8, <2>1
  <2>3. Sleepers(h)' # {} => Sleepers(h) # {}
    BY <1>3, <1>16
  <2> QED BY <1>2, <1>3, <1>5, <1>10, <1>11, <1>12, <1>16, <2>2, <2>3
<1>17. CASE (\A u \in Threads : thread[u].on # h) /\ ~(w.at = "asleep" /\ w.on = h)
  <2>1. Sleepers(h)' = {}
    BY <1>3, <1>17 DEF Sleepers
  <2> QED BY <1>10, <2>1
<1> QED BY <1>13, <1>14, <1>15, <1>16, <1>17 DEF EventMove

\* One thread goes to w, with the objects it changes.
LEMMA MoveIsGood ==
    ASSUME IInv, NEW t \in Threads, NEW w \in Where,
           thread' = [thread EXCEPT ![t] = w], thread[t].at # "notifying",
           ObjectsTyped', ProcessTyped', Placed(w)', open \subseteq open' \cup Handles,
           w.at = "notifying" =>
              /\ w.on \in Mutants => w.all
              /\ w.on \in Events /\ event'[w.on].manual => w.all,
           dpc'.owner \in {NoThread, dpc.owner, t}, w.at = "ended" => dpc'.owner # t,
           \A m \in Mutants : mutant'[m].owner = NoThread =>
              \/ mutant[m].owner = NoThread \/ m \notin open
              \/ w.at = "notifying" /\ w.on = m,
           w.at = "asleep" /\ w.on \in Mutants => mutant'[w.on].owner # NoThread,
           \A h \in Events : EventMove(t, w, h)
    PROVE  IInv'
<1>1. /\ thread'[t] = w /\ \A u \in Threads : u # t => thread'[u] = thread[u]
      /\ thread \in [Threads -> Where] /\ thread' \in [Threads -> Where]
  BY DEF IInv, Typed
<1>2. Typed'
  <2>1. \A m \in Mutants : m \notin Handles
    BY NamesAssumption
  <2>2. ASSUME NEW u \in Threads, u # t PROVE Placed(thread[u])'
    <3>1. Placed(thread[u]) /\ thread'[u] = thread[u]
      BY <1>1, <2>2 DEF IInv, Typed
    <3> QED BY <2>1, <3>1 DEF Placed
  <2> QED BY <1>1, <2>2 DEF Typed
<1>3. ToAll'
  <2> SUFFICES ASSUME NEW u \in Threads, thread'[u].at = "notifying"
               PROVE  /\ thread'[u].on \in Mutants => thread'[u].all
                      /\ thread'[u].on \in Events /\ event'[thread'[u].on].manual
                            => thread'[u].all
    BY DEF ToAll
  <2>1. CASE u = t
    BY <1>1, <2>1
  <2>2. CASE u # t
    BY <1>1, <2>2 DEF IInv, ToAll, EventMove
  <2> QED BY <2>1, <2>2
<1>4. DpcHeld'
  <2> SUFFICES ASSUME dpc'.owner # NoThread PROVE thread'[dpc'.owner].at # "ended"
    BY DEF DpcHeld
  <2>1. dpc'.owner \in Threads
    BY DEF ObjectsTyped, Held, Locks
  <2> QED BY <1>1, <2>1 DEF IInv, DpcHeld
<1>5. ASSUME NEW m \in Mutants PROVE MutantServed(m)'
  <2> SUFFICES ASSUME mutant'[m].owner = NoThread, Sleepers(m)' # {}
               PROVE  Notifiers(m)' # {}
    BY DEF MutantServed
  <2>1. Notifiers(m) \subseteq Notifiers(m)' /\ Sleepers(m)' \subseteq Sleepers(m)
    BY <1>1 DEF Notifiers, Sleepers
  <2>2. CASE mutant[m].owner = NoThread
    BY <2>1, <2>2 DEF IInv, MutantServed
  <2>3. CASE m \notin open
    <3>1. \A u \in Threads : ~(thread[u].at = "asleep" /\ thread[u].on = m)
      BY <2>3 DEF IInv, Typed, Placed
    <3> QED BY <2>1, <3>1 DEF Sleepers
  <2>4. CASE w.at = "notifying" /\ w.on = m
    BY <1>1, <2>4 DEF Notifiers
  <2> QED BY <2>2, <2>3, <2>4
<1>6. ASSUME NEW h \in Events PROVE EventServed(h)'
  BY EventMoves
<1> QED BY <1>2, <1>3, <1>4, <1>5, <1>6 DEF IInv

\* A thread that neither helps nor sleeps on an event may move freely.
LEMMA Untouched ==
    ASSUME NEW t \in Threads, NEW w, NEW h \in Events, event'[h] = event[h],
           t \notin Helpers(h), ~(w.at = "asleep" /\ w.on = h)
    PROVE  EventMove(t, w, h)
<1>1. event'[h] = event[h] /\ event'[h].manual = event[h].manual
  OBVIOUS
<1>2. t \notin Helpers(h) /\ ~(w.at = "asleep" /\ w.on = h)
  OBVIOUS
<1> QED BY ONLY <1>1, <1>2 DEF EventMove

\* An event nobody changes.
LEMMA QuietEvents ==
    ASSUME NEW t \in Threads, NEW w, event' = event,
           thread[t].at \in {"woken", "notifying"} => thread[t].on \notin Events,
           w.at = "asleep" => w.on \notin Events
    PROVE  \A h \in Events : EventMove(t, w, h)
<1> TAKE h \in Events
<1>1. event'[h] = event[h]
  OBVIOUS
<1>2. t \notin Helpers(h) /\ ~(w.at = "asleep" /\ w.on = h)
  BY DEF Helpers
<1> QED BY <1>1, <1>2, Untouched

\* Only places and locks change.
LEMMA LockMove ==
    ASSUME IInv, NEW t \in Threads, NEW w \in Where,
           thread' = [thread EXCEPT ![t] = w], thread[t].at # "notifying",
           thread[t].at = "woken" => thread[t].on \notin Events,
           UNCHANGED <<event, open, process>>,
           mutant' \in [Mutants -> Locks], section' \in [Sections -> Locks],
           \A m \in Mutants : Held(mutant'[m]), \A s \in Sections : Held(section'[s]),
           spin' \in [SpinLocks -> Threads \cup {NoThread}],
           Held(dpc'), Placed(w), w.at # "notifying", w.at = "asleep" => w.on \notin Events,
           dpc'.owner \in {NoThread, dpc.owner, t}, w.at = "ended" => dpc'.owner # t,
           \A m \in Mutants : mutant'[m].owner = NoThread => mutant[m].owner = NoThread,
           w.at = "asleep" /\ w.on \in Mutants => mutant'[w.on].owner # NoThread
    PROVE  IInv'
<1>1. ObjectsTyped' /\ ProcessTyped'
  BY DEF IInv, Typed, ObjectsTyped, ProcessTyped, process, Held
<1>2. Placed(w)' /\ open \subseteq open' \cup Handles
  BY DEF Placed
<1>3. \A h \in Events : EventMove(t, w, h)
  BY QuietEvents
<1> QED BY <1>1, <1>2, <1>3, MoveIsGood

\* A thread that ends gives the DPC level back.
LEMMA UnwindMove ==
    ASSUME IInv, NEW t \in Threads, Unwinds(t), thread[t].at # "notifying",
           thread[t].at = "woken" => thread[t].on \notin Events,
           UNCHANGED <<event, open, mutant, section, spin, process>>
    PROVE  IInv'
<1>1. Ended \in Where /\ Ended.at = "ended" /\ Ended.todo = <<>> /\ Len(Ended.todo) = 0
  BY RunFacts
<1>2. thread' = [thread EXCEPT ![t] = Ended]
      /\ dpc' = IF dpc.owner = t THEN Free ELSE dpc
  BY DEF Unwinds, Goes, Free
<1>3. Placed(Ended)
  BY <1>1 DEF Placed
<1>4. ObjectsTyped /\ Held(dpc) /\ Held(Free) /\ Free.owner = NoThread /\ NoThread # t
  BY LockFacts, NamesAssumption DEF IInv, Typed, ObjectsTyped
<1>5. Held(dpc') /\ dpc'.owner \in {NoThread, dpc.owner, t} /\ dpc'.owner # t
  BY <1>2, <1>4
<1> QED BY <1>1, <1>2, <1>3, <1>4, <1>5, LockMove DEF ObjectsTyped

\* A thread goes on in guest code, or to a place where it holds nothing.
LEMMA QuietMove ==
    ASSUME IInv, NEW t \in Threads, NEW w \in Where, Goes(t, w),
           thread[t].at # "notifying",
           thread[t].at = "woken" => thread[t].on \notin Events,
           Placed(w), w.at \notin {"notifying", "ended"},
           w.at = "asleep" => w.on \in Mutants /\ mutant[w.on].owner # NoThread,
           UNCHANGED <<objects, process>>
    PROVE  IInv'
<1>1. ObjectsTyped
  BY DEF IInv, Typed
<1>2. thread' = [thread EXCEPT ![t] = w] /\ UNCHANGED <<event, open, mutant, section, spin, dpc>>
  BY DEF Goes, objects
<1>3. w.at = "asleep" => w.on \notin Events
  BY NamesAssumption DEF Handles
<1> QED BY <1>1, <1>2, <1>3, LockMove DEF ObjectsTyped

\* What the invariant says of a thread that makes a call.
LEMMA CallFacts ==
    ASSUME NEW t \in Threads, Calls(t)
    PROVE  thread[t].at = "running" /\ thread[t] = Run /\ thread[t] \in Where
BY RunFacts DEF Calls

\* A running thread is placed.
LEMMA PlacedRun == Placed(Run) /\ Placed(Run)'
BY RunFacts DEF Placed

-----------------------------------------------------------------------------
(* Events.                                                                 *)

\* Creating an event keeps IInv.
LEMMA CreateEventIsGood ==
    ASSUME IInv, NEW t \in Threads, NEW h \in Events,
           NEW manual \in BOOLEAN, NEW signaled \in BOOLEAN,
           CreateEvent(t, h, manual, signaled)
    PROVE  IInv'
<1>1. /\ Calls(t) /\ Fresh(h) /\ open' = open \cup {h}
      /\ event' = [event EXCEPT ![h] = NewEvent(manual, signaled)]
      /\ UNCHANGED <<thread, mutant, section, spin, dpc, process>>
  BY DEF CreateEvent
<1>2. thread[t].at = "running" /\ thread[t] = Run /\ Run \in Where /\ Run.at = "running"
  BY <1>1, CallFacts, RunFacts
<1>3. thread' = [thread EXCEPT ![t] = Run] /\ ObjectsTyped /\ ProcessTyped'
  BY <1>1, <1>2 DEF IInv, Typed, ProcessTyped, process
<1>4. NewEvent(manual, signaled) \in Event /\ Sound(NewEvent(manual, signaled))
  BY BoundsAssumption DEF NewEvent, Event, Sound
<1>5. event' \in [Handles -> Event] /\ \A k \in Handles : Sound(event'[k])
  BY <1>1, <1>3, <1>4 DEF ObjectsTyped
<1>6. ObjectsTyped'
  BY <1>1, <1>3, <1>5 DEF ObjectsTyped, Held, Handles
<1>7. \A k \in Events : EventMove(t, Run, k)
  <2> TAKE k \in Events
  <2>1. CASE k = h
    <3>1. \A u \in Threads : thread[u].on # k
      BY <1>1, <2>1 DEF Fresh
    <3>2. ~(Run.at = "asleep" /\ Run.on = k)
      BY <1>2
    <3> QED BY <3>1, <3>2 DEF EventMove
  <2>2. CASE k # h
    <3>1. event'[k] = event[k]
      BY <1>1, <1>3, <2>2 DEF ObjectsTyped, Handles
    <3>2. t \notin Helpers(k) /\ ~(Run.at = "asleep" /\ Run.on = k)
      BY <1>2 DEF Helpers
    <3> QED BY <3>1, <3>2, Untouched
  <2> QED BY <2>1, <2>2
<1> QED BY <1>1, <1>2, <1>3, <1>6, <1>7, PlacedRun, MoveIsGood

\* Setting an event, before its notification, keeps IInv.
LEMMA SignalIsGood ==
    ASSUME IInv, NEW t \in Threads, NEW h \in Handles, NEW todo \in Todos,
           Len(todo) = 3 /\ todo[2] \in Mutants => todo[2] \in open,
           Signal(t, h, todo)
    PROVE  IInv'
<1>0. PICK w : w = Notifying(h, event[h].manual, todo)
  OBVIOUS
<1>1. /\ Calls(t) /\ h \in open /\ event[h].credits < MaxCredits
      /\ event' = [event EXCEPT ![h] = Signaled(@)]
      /\ thread' = [thread EXCEPT ![t] = w]
      /\ UNCHANGED <<open, mutant, section, spin, dpc, process>>
  BY <1>0 DEF Signal, Goes
<1>2. /\ ObjectsTyped /\ ProcessTyped' /\ thread[t].at = "running"
      /\ event[h] \in Event /\ Sound(event[h]) /\ event[h].manual \in BOOLEAN
  BY <1>1, CallFacts DEF IInv, Typed, ObjectsTyped, ProcessTyped, process, Event
<1>3. /\ w \in Where /\ w.at = "notifying" /\ w.on = h /\ w.all = event[h].manual
      /\ w.todo = todo
  BY <1>0, <1>2, NotifyingFacts
<1>4. /\ Signaled(event[h]) \in Event /\ Sound(Signaled(event[h]))
      /\ Signaled(event[h]).manual = event[h].manual
      /\ Signaled(event[h]).credits <= event[h].credits + 1
  BY <1>1, <1>2, EventFacts
<1>5. /\ event' \in [Handles -> Event] /\ \A k \in Handles : Sound(event'[k])
      /\ event'[h] = Signaled(event[h]) /\ \A k \in Handles : k # h => event'[k] = event[k]
  BY <1>1, <1>2, <1>4 DEF ObjectsTyped
<1>6. ObjectsTyped'
  BY <1>1, <1>2, <1>5 DEF ObjectsTyped, Held
<1>7. h \notin Mutants /\ Placed(w)'
  <2>1. h \notin Mutants
    BY NamesAssumption
  <2>2. Len(w.todo) = 3 /\ w.todo[2] \in Mutants => w.todo[2] \in open'
    BY <1>1, <1>3
  <2> QED BY <1>3, <2>1, <2>2 DEF Placed
<1>8. \A k \in Events : EventMove(t, w, k)
  <2> TAKE k \in Events
  <2>1. CASE k = h
    <3>1. /\ event'[k].credits <= event[k].credits + 1
          /\ event'[k].manual = event[k].manual
      BY <1>4, <1>5, <2>1
    <3>2. thread[t].at = "running" /\ w.at = "notifying" /\ w.on = k
      BY <1>2, <1>3, <2>1
    <3> QED BY <3>1, <3>2 DEF EventMove
  <2>2. CASE k # h
    <3>1. event'[k] = event[k]
      BY <1>5, <2>2 DEF Handles
    <3>2. t \notin Helpers(k) /\ ~(w.at = "asleep" /\ w.on = k)
      BY <1>2, <1>3 DEF Helpers
    <3> QED BY <3>1, <3>2, Untouched
  <2> QED BY <2>1, <2>2
<1>9. w.on \in Events /\ event'[w.on].manual => w.all
  BY <1>3, <1>4, <1>5
<1>10. open \subseteq open' \cup Handles /\ dpc'.owner \in {NoThread, dpc.owner, t}
       /\ \A m \in Mutants : mutant'[m].owner = NoThread => mutant[m].owner = NoThread
  BY <1>1
<1> QED BY <1>1, <1>2, <1>3, <1>6, <1>7, <1>8, <1>9, <1>10, MoveIsGood

\* Clearing an event keeps IInv.
LEMMA ClearIsGood ==
    ASSUME IInv, NEW t \in Threads, NEW h \in Events, thread[t].at = "running", Clear(t, h)
    PROVE  IInv'
<1>0. PICK w : w = Notifying(h, TRUE, <<>>)
  OBVIOUS
<1>1. /\ event' = [event EXCEPT ![h] = Cleared(@)]
      /\ thread' = [thread EXCEPT ![t] = w]
      /\ UNCHANGED <<open, mutant, section, spin, dpc, process>>
  BY <1>0 DEF Clear, Goes
<1>2. ObjectsTyped /\ ProcessTyped' /\ h \in Handles /\ event[h] \in Event /\ Sound(event[h])
  BY <1>1 DEF IInv, Typed, ObjectsTyped, ProcessTyped, process, Handles
<1>3. /\ w \in Where /\ w.at = "notifying" /\ w.on = h /\ w.all = TRUE /\ Len(w.todo) = 0
  <2>1. <<>> \in Todos
    BY DEF Todos
  <2>2. \A all \in BOOLEAN, todo \in Todos :
           LET n == Notifying(h, all, todo)
           IN  /\ n \in Where /\ n.at = "notifying" /\ n.on = h /\ n.all = all
               /\ n.todo = todo
    BY <1>2, NotifyingFacts
  <2>3. /\ w \in Where /\ w.at = "notifying" /\ w.on = h /\ w.all = TRUE /\ w.todo = <<>>
    BY <1>0, <2>1, <2>2
  <2>4. Len(<<>>) = 0
    OBVIOUS
  <2> QED BY <2>3, <2>4
<1>4. /\ Cleared(event[h]) \in Event /\ Sound(Cleared(event[h]))
      /\ Cleared(event[h]).manual = event[h].manual
      /\ ~Cleared(event[h]).signaled /\ Cleared(event[h]).credits = 0
  BY <1>2, EventFacts
<1>5. /\ event' \in [Handles -> Event] /\ \A k \in Handles : Sound(event'[k])
      /\ event'[h] = Cleared(event[h]) /\ \A k \in Handles : k # h => event'[k] = event[k]
  BY <1>1, <1>2, <1>4 DEF ObjectsTyped
<1>6. ObjectsTyped'
  BY <1>1, <1>2, <1>5 DEF ObjectsTyped, Held
<1>7. h \notin Mutants /\ Placed(w)'
  BY <1>2, <1>3, NamesAssumption DEF Placed, Objects
<1>8. \A k \in Events : EventMove(t, w, k)
  <2> TAKE k \in Events
  <2>1. CASE k = h
    <3>1. /\ event'[k].manual = event[k].manual
          /\ ~event'[k].signaled /\ event'[k].credits = 0
      BY <1>4, <1>5, <2>1
    <3> QED BY <3>1 DEF EventMove
  <2>2. CASE k # h
    <3>1. event'[k] = event[k]
      BY <1>5, <2>2 DEF Handles
    <3>2. t \notin Helpers(k) /\ ~(w.at = "asleep" /\ w.on = k)
      BY <1>3 DEF Helpers
    <3> QED BY <3>1, <3>2, Untouched
  <2> QED BY <2>1, <2>2
<1> QED BY <1>1, <1>2, <1>3, <1>6, <1>7, <1>8, MoveIsGood

\* The end of a wait on an event, successful or not, keeps IInv.
LEMMA LeavesWaitIsGood ==
    ASSUME IInv, NEW t \in Threads, NEW h \in Events, thread[t].on = h,
           thread[t].at \in {"asleep", "woken"}, LeavesWait(t, h)
    PROVE  IInv'
<1>1. /\ event' = IF Claimable(event[h]) THEN [event EXCEPT ![h] = Claimed(@)] ELSE event
      /\ IF stop THEN Unwinds(t) ELSE Goes(t, Run) /\ UNCHANGED dpc
      /\ UNCHANGED <<open, mutant, section, spin, process>>
  BY DEF LeavesWait
<1>2. ObjectsTyped /\ ProcessTyped' /\ h \in Handles /\ event[h] \in Event /\ Sound(event[h])
  BY <1>1 DEF IInv, Typed, ObjectsTyped, ProcessTyped, process, Handles
<1>3. /\ event' \in [Handles -> Event] /\ \A k \in Handles : Sound(event'[k])
      /\ \A k \in Handles : k # h => event'[k] = event[k]
      /\ Claimable(event[h]) => event'[h] = Claimed(event[h])
      /\ ~Claimable(event[h]) => event' = event
  <2>1. CASE Claimable(event[h])
    <3>1. Claimed(event[h]) \in Event /\ Sound(Claimed(event[h]))
      BY <1>2, <2>1, EventFacts
    <3> QED BY <1>1, <1>2, <2>1, <3>1 DEF ObjectsTyped
  <2>2. CASE ~Claimable(event[h])
    BY <1>1, <1>2, <2>2 DEF ObjectsTyped
  <2> QED BY <2>1, <2>2
<1>4. PICK w \in {Run, Ended} :
        /\ thread' = [thread EXCEPT ![t] = w]
        /\ Held(dpc') /\ dpc'.owner \in {NoThread, dpc.owner, t}
        /\ w.at = "ended" => dpc'.owner # t
  <2>1. Held(dpc) /\ Held(Free) /\ Free.owner = NoThread /\ NoThread # t
    BY <1>2, LockFacts, NamesAssumption DEF ObjectsTyped
  <2>2. CASE stop
    <3>1. thread' = [thread EXCEPT ![t] = Ended]
          /\ dpc' = IF dpc.owner = t THEN Free ELSE dpc
      BY <1>1, <2>2 DEF Unwinds, Goes, Free
    <3>2. Held(dpc') /\ dpc'.owner \in {NoThread, dpc.owner, t} /\ dpc'.owner # t
      BY <2>1, <3>1
    <3> QED BY <3>1, <3>2
  <2>3. CASE ~stop
    <3>1. thread' = [thread EXCEPT ![t] = Run] /\ dpc' = dpc
      BY <1>1, <2>3 DEF Goes
    <3> QED BY <2>1, <3>1, RunFacts
  <2> QED BY <2>2, <2>3
<1>5. /\ w \in Where /\ w.at \in {"running", "ended"} /\ Len(w.todo) = 0
  BY <1>4, RunFacts
<1>6. Placed(w)'
  BY <1>5 DEF Placed
<1>7. ObjectsTyped'
  BY <1>1, <1>2, <1>3, <1>4 DEF ObjectsTyped, Held
<1>8. \A k \in Events : EventMove(t, w, k)
  <2> TAKE k \in Events
  <2>1. CASE k # h
    <3>1. t \notin Helpers(k) /\ event'[k] = event[k] /\ ~(w.at = "asleep" /\ w.on = k)
      BY <1>3, <1>5, <2>1 DEF Helpers, Handles
    <3> QED BY <3>1, Untouched
  <2>2. CASE k = h /\ thread[t].at = "asleep"
    <3>1. t \notin Helpers(k) /\ ~(w.at = "asleep" /\ w.on = k)
      BY <1>5, <2>2 DEF Helpers
    <3>2. CASE ~Claimable(event[k])
      BY <1>3, <2>2, <3>1, <3>2, Untouched
    <3>3. CASE Claimable(event[k])
      <4>1. event'[k] = Claimed(event[k]) /\ event'[k].manual = event[k].manual
        BY <1>2, <1>3, <2>2, <3>3, EventFacts
      <4> QED BY <3>1, <3>3, <4>1 DEF EventMove
    <3> QED BY <3>2, <3>3
  <2>3. CASE k = h /\ thread[t].at = "woken" /\ Claimable(event[h])
    <3>1. event'[k] = Claimed(event[k]) /\ event'[k].manual = event[k].manual
      BY <1>2, <1>3, <2>3, EventFacts
    <3> QED BY <1>5, <2>3, <3>1 DEF EventMove
  <2>4. CASE k = h /\ ~Claimable(event[h])
    <3>1. /\ event[h].manual => ~event[h].signaled
          /\ ~event[h].manual => event[h].credits = 0
      BY <1>2, <2>4, BoundsAssumption DEF Claimable, Sound, Event
    <3>2. event'[k] = event[k] /\ event'[k].manual = event[k].manual
      BY <1>3, <2>4
    <3> QED BY <2>4, <3>1, <3>2 DEF EventMove
  <2> QED BY <2>1, <2>2, <2>3, <2>4
<1> QED BY <1>1, <1>2, <1>4, <1>5, <1>6, <1>7, <1>8, MoveIsGood

\* The start of a wait on an event keeps IInv.
LEMMA WaitEventIsGood ==
    ASSUME IInv, NEW t \in Threads, NEW h \in Events, NEW forever \in BOOLEAN,
           thread[t].at = "running", WaitEvent(t, h, forever)
    PROVE  IInv'
<1>1. ObjectsTyped /\ h \in Handles /\ event[h] \in Event /\ Sound(event[h])
  BY DEF IInv, Typed, ObjectsTyped, Handles
<1>2. Run \in Where /\ Run.at = "running"
  BY RunFacts
<1>3. UNCHANGED <<open, mutant, section, spin, process>>
  BY DEF WaitEvent
<1>4. CASE stop /\ Unwinds(t) /\ UNCHANGED event
  BY <1>3, <1>4, UnwindMove
<1>5. CASE /\ ~stop /\ Claimable(event[h])
           /\ event' = [event EXCEPT ![h] = Claimed(@)]
           /\ Goes(t, Run) /\ UNCHANGED dpc
  <2>1. Claimed(event[h]) \in Event /\ Sound(Claimed(event[h]))
        /\ Claimed(event[h]).manual = event[h].manual
    BY <1>1, <1>5, EventFacts
  <2>2. /\ event' \in [Handles -> Event] /\ \A k \in Handles : Sound(event'[k])
        /\ event'[h] = Claimed(event[h]) /\ \A k \in Handles : k # h => event'[k] = event[k]
    BY <1>1, <1>5, <2>1 DEF ObjectsTyped
  <2>3. ObjectsTyped' /\ ProcessTyped'
    BY <1>1, <1>3, <1>5, <2>2 DEF ObjectsTyped, Held, IInv, Typed, ProcessTyped, process
  <2>4. \A k \in Events : EventMove(t, Run, k)
    <3> TAKE k \in Events
    <3>1. t \notin Helpers(k) /\ ~(Run.at = "asleep" /\ Run.on = k)
      BY <1>2 DEF Helpers
    <3>2. CASE k # h
      <4>1. event'[k] = event[k]
        BY <2>2, <3>2 DEF Handles
      <4> QED BY <3>1, <4>1, Untouched
    <3>3. CASE k = h
      <4>1. Claimable(event[k]) /\ event'[k] = Claimed(event[k])
            /\ event'[k].manual = event[k].manual
        BY <1>5, <2>1, <2>2, <3>3
      <4> QED BY <3>1, <4>1 DEF EventMove
    <3> QED BY <3>2, <3>3
  <2> QED BY <1>2, <1>3, <1>5, <2>3, <2>4, PlacedRun, MoveIsGood DEF Goes
<1>6. CASE /\ ~stop /\ event[h].known /\ ~Claimable(event[h])
           /\ Goes(t, Sleeping(h, forever)) /\ UNCHANGED <<event, dpc>>
  <2>1. PICK w : w = Sleeping(h, forever)
    OBVIOUS
  <2>2. w \in Where /\ w.at = "asleep" /\ w.on = h /\ Len(w.todo) = 0
    BY <2>1, SleepingFacts DEF Objects
  <2>3. h \notin Mutants
    BY <1>1, NamesAssumption
  <2>4. Placed(w)'
    BY <2>2, <2>3 DEF Placed, Objects
  <2>5. ObjectsTyped' /\ ProcessTyped'
    BY <1>1, <1>3, <1>6 DEF ObjectsTyped, Held, IInv, Typed, ProcessTyped, process
  <2>6. \A k \in Events : EventMove(t, w, k)
    <3> TAKE k \in Events
    <3>1. event'[k] = event[k] /\ event'[k].manual = event[k].manual
      BY <1>6
    <3>2. CASE k # h
      BY <2>2, <3>1, <3>2, Untouched DEF Helpers
    <3>3. CASE k = h
      <4>1. /\ event[k].manual => ~event[k].signaled
            /\ ~event[k].manual => event[k].credits = 0
        BY <1>1, <1>6, <3>3, BoundsAssumption DEF Claimable, Sound, Event
      <4> QED BY <3>1, <4>1 DEF EventMove
    <3> QED BY <3>2, <3>3
  <2> QED BY <1>3, <1>6, <2>1, <2>2, <2>3, <2>4, <2>5, <2>6, MoveIsGood DEF Goes
<1>7. CASE ~stop /\ ~event[h].known /\ Goes(t, Run) /\ UNCHANGED <<event, dpc>>
  BY <1>2, <1>3, <1>7, PlacedRun, QuietMove DEF objects
<1> QED BY <1>4, <1>5, <1>6, <1>7 DEF WaitEvent

\* A thread that wakes on an event keeps IInv.
LEMMA EventWakesIsGood ==
    ASSUME IInv, NEW t \in Threads, EventWakes(t)
    PROVE  IInv'
<1>1. PICK h \in Events : h = thread[t].on
  <2>1. thread[t].at = "woken" /\ thread[t].on \in Handles
    BY DEF EventWakes
  <2>2. thread[t].on \in Objects
    BY <2>1 DEF IInv, Typed, Placed
  <2> QED BY <2>1, <2>2, NamesAssumption DEF Objects
<1>2. thread[t].at = "woken"
  BY DEF EventWakes
<1>3. CASE stop \/ ~event[h].known \/ Claimable(event[h])
  <2>1. LeavesWait(t, h)
    BY <1>1, <1>3 DEF EventWakes
  <2> QED BY <1>1, <1>2, <2>1, LeavesWaitIsGood
<1>4. CASE ~(stop \/ ~event[h].known \/ Claimable(event[h]))
  <2>1. PICK w : w = Sleeping(h, thread[t].forever)
    OBVIOUS
  <2>2. thread[t].forever \in BOOLEAN
    BY DEF IInv, Typed, Where
  <2>3. w \in Where /\ w.at = "asleep" /\ w.on = h /\ Len(w.todo) = 0
    BY <2>1, <2>2, SleepingFacts DEF Objects
  <2>4. /\ thread' = [thread EXCEPT ![t] = w]
        /\ UNCHANGED <<event, open, mutant, section, spin, dpc, process>>
    BY <1>1, <1>4, <2>1 DEF EventWakes, Goes, objects
  <2>5. h \notin Mutants
    BY NamesAssumption DEF Handles
  <2>6. Placed(w)'
    BY <2>3, <2>5 DEF Placed, Objects
  <2>7. ObjectsTyped /\ ObjectsTyped' /\ ProcessTyped'
    BY <2>4 DEF ObjectsTyped, Held, IInv, Typed, ProcessTyped, process
  <2>8. event[h] \in Event /\ Sound(event[h])
    BY <2>7 DEF ObjectsTyped, Handles
  <2>9. \A k \in Events : EventMove(t, w, k)
    <3> TAKE k \in Events
    <3>1. event'[k] = event[k] /\ event'[k].manual = event[k].manual
      BY <2>4
    <3>2. CASE k # h
      BY <1>1, <2>3, <3>1, <3>2, Untouched DEF Helpers
    <3>3. CASE k = h
      <4>1. /\ event[k].manual => ~event[k].signaled
            /\ ~event[k].manual => event[k].credits = 0
        BY <1>4, <2>8, <3>3, BoundsAssumption DEF Claimable, Sound, Event
      <4> QED BY <3>1, <4>1 DEF EventMove
    <3> QED BY <3>2, <3>3
  <2> QED BY <1>2, <2>3, <2>4, <2>5, <2>6, <2>7, <2>9, MoveIsGood
<1> QED BY <1>3, <1>4

\* A wait on an event that times out keeps IInv.
LEMMA EventTimesOutIsGood ==
    ASSUME IInv, NEW t \in Threads, EventTimesOut(t)
    PROVE  IInv'
<1>1. thread[t].at = "asleep" /\ thread[t].on \in Handles /\ LeavesWait(t, thread[t].on)
  BY DEF EventTimesOut
<1>2. thread[t].on \in Objects
  BY <1>1 DEF IInv, Typed, Placed
<1>3. PICK h \in Events : h = thread[t].on
  BY <1>1, <1>2, NamesAssumption DEF Objects
<1> QED BY <1>1, <1>3, LeavesWaitIsGood

-----------------------------------------------------------------------------
(* Mutants.                                                                *)

\* Creating a mutant keeps IInv.
LEMMA CreateMutantIsGood ==
    ASSUME IInv, NEW t \in Threads, NEW m \in Mutants, NEW owned \in BOOLEAN,
           CreateMutant(t, m, owned)
    PROVE  IInv'
<1>1. /\ Calls(t) /\ m \notin open /\ open' = open \cup {m}
      /\ mutant' = [mutant EXCEPT ![m] = IF owned THEN Taken(Free, t) ELSE Free]
      /\ UNCHANGED <<thread, event, section, spin, dpc, process>>
  BY DEF CreateMutant
<1>2. thread[t].at = "running" /\ thread[t] = Run /\ Run \in Where /\ Run.at = "running"
  BY <1>1, CallFacts, RunFacts
<1>3. thread' = [thread EXCEPT ![t] = Run] /\ ObjectsTyped /\ ProcessTyped'
  BY <1>1, <1>2 DEF IInv, Typed, ProcessTyped, process
<1>4. Held(Free) /\ Held(Taken(Free, t))
  <2>1. Held(Free) /\ Takeable(Free, t)
    BY <1>3, LockFacts, BoundsAssumption DEF ObjectsTyped, Takeable, Free
  <2> QED BY <2>1, LockFacts
<1>5. /\ mutant' \in [Mutants -> Locks] /\ \A k \in Mutants : Held(mutant'[k])
      /\ \A k \in Mutants : k # m => mutant'[k] = mutant[k]
  BY <1>1, <1>3, <1>4 DEF ObjectsTyped, Held
<1>6. ObjectsTyped'
  BY <1>1, <1>3, <1>5 DEF ObjectsTyped, Held
<1>7. \A h \in Events : EventMove(t, Run, h)
  BY <1>1, <1>2, QuietEvents
<1> QED BY <1>1, <1>2, <1>3, <1>5, <1>6, <1>7, PlacedRun, MoveIsGood

\* Taking a mutant keeps IInv.
LEMMA AcquireIsGood ==
    ASSUME IInv, NEW t \in Threads, NEW m \in Mutants, Acquire(t, m),
           thread[t].at # "notifying", thread[t].at = "woken" => thread[t].on = m,
           UNCHANGED process
    PROVE  IInv'
<1>1. /\ Takeable(mutant[m], t) /\ mutant' = [mutant EXCEPT ![m] = Taken(@, t)]
      /\ thread' = [thread EXCEPT ![t] = Run] /\ UNCHANGED <<event, open, section, spin, dpc>>
  BY DEF Acquire, Goes
<1>2. ObjectsTyped /\ Held(mutant[m])
  BY DEF IInv, Typed, ObjectsTyped
<1>3. Held(Taken(mutant[m], t)) /\ Taken(mutant[m], t).owner = t /\ t # NoThread
  BY <1>1, <1>2, LockFacts, NamesAssumption
<1>4. /\ mutant' \in [Mutants -> Locks] /\ \A k \in Mutants : Held(mutant'[k])
      /\ \A k \in Mutants : mutant'[k].owner = NoThread => mutant[k].owner = NoThread
  BY <1>1, <1>2, <1>3 DEF ObjectsTyped, Held
<1>5. m \notin Events
  BY NamesAssumption DEF Handles
<1> QED BY <1>1, <1>2, <1>4, <1>5, RunFacts, PlacedRun, LockMove DEF ObjectsTyped

\* The start of a wait on a mutant keeps IInv.
LEMMA WaitMutantIsGood ==
    ASSUME IInv, NEW t \in Threads, NEW m \in Mutants, NEW forever \in BOOLEAN,
           m \in open, thread[t].at = "running", WaitMutant(t, m, forever)
    PROVE  IInv'
<1>1. CASE stop /\ Unwinds(t) /\ UNCHANGED <<event, open, mutant, section, spin, process>>
  BY <1>1, UnwindMove
<1>2. CASE ~stop /\ Acquire(t, m) /\ UNCHANGED process
  BY <1>2, AcquireIsGood
<1>3. CASE /\ ~stop /\ mutant[m].owner \notin {NoThread, t}
           /\ Goes(t, IF forever THEN Sleeping(m, TRUE) ELSE At("retrying", m))
           /\ UNCHANGED <<objects, process>>
  <2>1. PICK w : w = IF forever THEN Sleeping(m, TRUE) ELSE At("retrying", m)
    OBVIOUS
  <2>2. CASE forever
    <3>1. \A f \in BOOLEAN : /\ Sleeping(m, f) \in Where /\ Sleeping(m, f).at = "asleep"
                             /\ Sleeping(m, f).on = m /\ Len(Sleeping(m, f).todo) = 0
      BY SleepingFacts DEF Objects
    <3>2. w \in Where /\ w.at = "asleep" /\ w.on = m /\ Len(w.todo) = 0
      BY <2>1, <2>2, <3>1
    <3>3. Placed(w)
      BY <3>2 DEF Placed, Objects
    <3> QED BY <1>3, <2>1, <3>2, <3>3, QuietMove
  <2>3. CASE ~forever
    <3>1. "retrying" \in Places
      BY DEF Places
    <3>2. w \in Where /\ w.at = "retrying" /\ w.on = m /\ Len(w.todo) = 0
      BY <2>1, <2>3, <3>1, AtFacts
    <3>3. Placed(w)
      BY <3>2 DEF Placed
    <3> QED BY <1>3, <2>1, <3>2, <3>3, QuietMove
  <2> QED BY <2>2, <2>3
<1> QED BY <1>1, <1>2, <1>3 DEF WaitMutant, Acquire

\* A thread that wakes on a mutant keeps IInv.
LEMMA MutantWakesIsGood ==
    ASSUME IInv, NEW t \in Threads, MutantWakes(t)
    PROVE  IInv'
<1>1. PICK m \in Mutants : m = thread[t].on
  BY DEF MutantWakes
<1>2. thread[t].at = "woken" /\ m \notin Events
  BY NamesAssumption DEF MutantWakes, Handles
<1>3. CASE stop
  <2>1. Unwinds(t) /\ UNCHANGED <<event, open, mutant, section, spin, process>>
    BY <1>3 DEF MutantWakes
  <2> QED BY <1>1, <1>2, <2>1, UnwindMove
<1>4. CASE Acquire(t, m) /\ ~stop
  BY <1>1, <1>2, <1>4, AcquireIsGood DEF Acquire
<1>5. CASE /\ mutant[m].owner # NoThread
           /\ Goes(t, Sleeping(m, TRUE)) /\ UNCHANGED <<objects, process>>
  <2>1. PICK w : w = Sleeping(m, TRUE)
    OBVIOUS
  <2>2. \A f \in BOOLEAN : /\ Sleeping(m, f) \in Where /\ Sleeping(m, f).at = "asleep"
                           /\ Sleeping(m, f).on = m /\ Len(Sleeping(m, f).todo) = 0
    BY SleepingFacts DEF Objects
  <2>3. w \in Where /\ w.at = "asleep" /\ w.on = m /\ Len(w.todo) = 0
    BY <2>1, <2>2
  <2>4. m \in open
    BY <1>1, <1>2 DEF IInv, Typed, Placed
  <2>5. Placed(w)
    BY <2>3, <2>4 DEF Placed, Objects
  <2> QED BY <1>1, <1>2, <1>5, <2>1, <2>3, <2>5, QuietMove
<1> QED BY <1>1, <1>3, <1>4, <1>5 DEF MutantWakes

\* A woken thread that looks at its object again keeps IInv.
LEMMA RetriesIsGood ==
    ASSUME IInv, NEW t \in Threads, Retries(t)
    PROVE  IInv'
<1>1. thread[t].at = "retrying"
  BY DEF Retries
<1>2. PICK m \in Mutants : m = thread[t].on
  BY <1>1 DEF IInv, Typed, Placed
<1>3. CASE Acquire(t, m)
  BY <1>1, <1>3, AcquireIsGood DEF Acquire
<1>4. CASE Goes(t, Run) /\ UNCHANGED <<objects, process>>
  BY <1>1, <1>4, RunFacts, PlacedRun, QuietMove
<1> QED BY <1>2, <1>3, <1>4 DEF Retries

\* Releasing a mutant, with what the call does next, keeps IInv.
LEMMA ReleaseThenIsGood ==
    ASSUME IInv, NEW t \in Threads, NEW m \in Mutants, NEW todo \in Todos,
           Len(todo) = 3 /\ todo[2] \in Mutants => todo[2] \in open,
           ReleaseThen(t, m, todo)
    PROVE  IInv'
<1>1. /\ Calls(t) /\ m \in open /\ UNCHANGED <<event, open, section, spin, dpc, process>>
  BY DEF ReleaseThen
<1>2. ObjectsTyped /\ Held(mutant[m]) /\ thread[t].at = "running"
  BY <1>1, CallFacts DEF IInv, Typed, ObjectsTyped
<1>3. CASE mutant[m].owner = t
  <2>1. PICK w : w = Notifying(m, TRUE, todo)
    OBVIOUS
  <2>2. /\ mutant' = [mutant EXCEPT ![m] = Dropped(@)] /\ thread' = [thread EXCEPT ![t] = w]
    BY <1>3, <2>1 DEF ReleaseThen, Goes
  <2>3. \A all \in BOOLEAN :
           LET n == Notifying(m, all, todo)
           IN  /\ n \in Where /\ n.at = "notifying" /\ n.on = m /\ n.all = all
               /\ n.todo = todo
    BY NotifyingFacts
  <2>4. w \in Where /\ w.at = "notifying" /\ w.on = m /\ w.all = TRUE /\ w.todo = todo
    BY <2>1, <2>3
  <2>5. Held(Dropped(mutant[m]))
    BY <1>2, <1>3, LockFacts
  <2>6. /\ mutant' \in [Mutants -> Locks] /\ \A k \in Mutants : Held(mutant'[k])
        /\ \A k \in Mutants : k # m => mutant'[k] = mutant[k]
    BY <1>2, <2>2, <2>5 DEF ObjectsTyped, Held
  <2>7. ObjectsTyped' /\ ProcessTyped'
    BY <1>1, <1>2, <2>6 DEF ObjectsTyped, Held, IInv, Typed, ProcessTyped, process
  <2>8. Placed(w)'
    BY <1>1, <2>4 DEF Placed
  <2>9. m \notin Events
    BY NamesAssumption DEF Handles
  <2>10. \A h \in Events : EventMove(t, w, h)
    BY <1>1, <1>2, <2>4, QuietEvents
  <2> QED BY <1>1, <1>2, <2>2, <2>4, <2>6, <2>7, <2>8, <2>9, <2>10, MoveIsGood
<1>4. CASE mutant[m].owner # t
  <2>1. PICK w : w = [Run EXCEPT !.todo = todo]
    OBVIOUS
  <2>2. Goes(t, w) /\ UNCHANGED <<objects, process>>
    BY <1>1, <1>4, <2>1 DEF ReleaseThen, objects
  <2>3. w \in Where /\ w.at = "running" /\ w.todo = todo
    BY <2>1, RunningFacts
  <2>4. Placed(w)
    BY <2>3 DEF Placed
  <2> QED BY <1>2, <2>2, <2>3, <2>4, QuietMove
<1> QED BY <1>3, <1>4

-----------------------------------------------------------------------------
(* Waits on either kind, and signals followed by one.                      *)

\* The start of a wait on an object of either kind keeps IInv.
LEMMA WaitObjectIsGood ==
    ASSUME IInv, NEW t \in Threads, NEW k \in Objects, NEW forever \in BOOLEAN,
           thread[t].at = "running", k \in Mutants => k \in open,
           WaitObject(t, k, forever)
    PROVE  IInv'
<1>1. CASE k \in Mutants
  BY <1>1, WaitMutantIsGood DEF WaitObject
<1>2. CASE k \notin Mutants
  BY <1>2, WaitEventIsGood DEF WaitObject, Objects
<1> QED BY <1>1, <1>2

\* A wait that a thread calls for keeps IInv.
LEMMA WaitIsGood ==
    ASSUME IInv, NEW t \in Threads, NEW k \in Objects, NEW forever \in BOOLEAN,
           Wait(t, k, forever)
    PROVE  IInv'
<1>1. Calls(t) /\ k \in open /\ WaitObject(t, k, forever)
  BY DEF Wait
<1> QED BY <1>1, CallFacts, WaitObjectIsGood

\* The wait of a signal-and-wait, after its signal, keeps IInv.
LEMMA ThenWaitsIsGood ==
    ASSUME IInv, NEW t \in Threads, ThenWaits(t)
    PROVE  IInv'
<1>1. /\ thread[t].at = "running" /\ Len(thread[t].todo) = 3
      /\ WaitObject(t, thread[t].todo[2], thread[t].todo[3])
  BY DEF ThenWaits
<1>2. thread[t].todo \in Todos /\ Placed(thread[t])
  BY DEF IInv, Typed, Where
<1>3. thread[t].todo[2] \in Objects /\ thread[t].todo[3] \in BOOLEAN
  BY <1>1, <1>2, TodoFacts
<1>4. thread[t].todo[2] \in Mutants => thread[t].todo[2] \in open
  BY <1>1, <1>2 DEF Placed
<1> QED BY <1>1, <1>3, <1>4, WaitObjectIsGood

\* The clearing of a pulsed event, after its signal, keeps IInv.
LEMMA PulsedIsGood ==
    ASSUME IInv, NEW t \in Threads, Pulsed(t)
    PROVE  IInv'
<1>1. /\ thread[t].at = "running" /\ Len(thread[t].todo) = 2
      /\ Clear(t, thread[t].todo[2])
  BY DEF Pulsed
<1>2. thread[t].todo \in Todos
  BY DEF IInv, Typed, Where
<1>3. thread[t].todo[2] \in Events
  BY <1>1, <1>2, TodoFacts
<1> QED BY <1>1, <1>3, ClearIsGood

\* The four ways to signal, and the two to release.
LEMMA SignalsAreGood ==
    ASSUME IInv, NEW t \in Threads, NEW h \in Handles,
           \/ SetEvent(t, h) \/ ClearEvent(t, h) \/ PulseEvent(t, h) \/ ResumeThread(t, h)
    PROVE  IInv'
<1>1. <<>> \in Todos /\ Len(<<>>) = 0
  <2>1. Len(<<>>) = 0
    OBVIOUS
  <2> QED BY <2>1 DEF Todos
<1>2. CASE SetEvent(t, h) \/ ResumeThread(t, h)
  <2>1. Signal(t, h, <<>>)
    BY <1>2 DEF SetEvent, ResumeThread
  <2> QED BY <1>1, <2>1, SignalIsGood
<1>3. CASE ClearEvent(t, h)
  <2>1. Calls(t) /\ h \in Events /\ Clear(t, h)
    BY <1>3 DEF ClearEvent
  <2> QED BY <2>1, CallFacts, ClearIsGood
<1>4. CASE PulseEvent(t, h)
  <2>1. h \in Events /\ Signal(t, h, <<"clear", h>>)
    BY <1>4 DEF PulseEvent
  <2>2. <<"clear", h>> \in Todos
    BY <2>1 DEF Todos
  <2>3. Len(<<"clear", h>>) = 2
    OBVIOUS
  <2> QED BY <2>1, <2>2, <2>3, SignalIsGood
<1> QED BY <1>2, <1>3, <1>4

\* The signal of a signal-and-wait keeps IInv.
LEMMA SignalAndWaitIsGood ==
    ASSUME IInv, NEW t \in Threads, NEW k \in Objects, NEW forever \in BOOLEAN, k \in open,
           \/ \E h \in Events : SignalAndWait(t, h, k, forever)
           \/ \E m \in Mutants : ReleaseAndWait(t, m, k, forever)
    PROVE  IInv'
<1>1. PICK todo : todo = <<"wait", k, forever>>
  OBVIOUS
<1>2. todo \in Todos
  BY <1>1 DEF Todos
<1>3. Len(todo) = 3 /\ todo[2] = k
  BY <1>1
<1>4. ASSUME NEW h \in Events, SignalAndWait(t, h, k, forever) PROVE IInv'
  BY <1>1, <1>2, <1>3, <1>4, SignalIsGood DEF SignalAndWait, Handles
<1>5. ASSUME NEW m \in Mutants, ReleaseAndWait(t, m, k, forever) PROVE IInv'
  BY <1>1, <1>2, <1>3, <1>5, ReleaseThenIsGood DEF ReleaseAndWait
<1> QED BY <1>4, <1>5

-----------------------------------------------------------------------------
(* Sections and the DPC level.                                             *)

\* An attempt to take a critical section keeps IInv.
LEMMA TryLockIsGood ==
    ASSUME IInv, NEW t \in Threads, NEW s \in Sections, TryLock(t, s),
           thread[t].at \in {"running", "polling"},
           UNCHANGED <<event, open, mutant, spin, process>>
    PROVE  IInv'
<1>1. ObjectsTyped /\ Held(section[s])
  BY DEF IInv, Typed, ObjectsTyped
<1>2. CASE /\ Takeable(section[s], t)
           /\ section' = [section EXCEPT ![s] = Taken(@, t)]
           /\ Goes(t, Run) /\ UNCHANGED dpc
  <2>1. Held(Taken(section[s], t))
    BY <1>1, <1>2, LockFacts
  <2>2. section' \in [Sections -> Locks] /\ \A k \in Sections : Held(section'[k])
    BY <1>1, <1>2, <2>1 DEF ObjectsTyped, Held
  <2> QED BY <1>1, <1>2, <2>2, RunFacts, PlacedRun, LockMove DEF ObjectsTyped, Goes
<1>3. CASE UNCHANGED section /\ stop /\ Unwinds(t)
  BY <1>3, UnwindMove
<1>4. CASE UNCHANGED section /\ Goes(t, At("polling", s)) /\ UNCHANGED dpc
  <2>1. PICK w : w = At("polling", s)
    OBVIOUS
  <2>2. "polling" \in Places
    BY DEF Places
  <2>3. w \in Where /\ w.at = "polling" /\ w.on = s /\ Len(w.todo) = 0
    BY <2>1, <2>2, AtFacts
  <2>4. Placed(w)
    BY <2>3 DEF Placed
  <2> QED BY <1>4, <2>1, <2>3, <2>4, QuietMove DEF objects
<1> QED BY <1>2, <1>3, <1>4 DEF TryLock

\* The calls on critical sections keep IInv.
LEMMA SectionsAreGood ==
    ASSUME IInv, NEW t \in Threads,
           \/ \E s \in Sections : EnterSection(t, s) \/ LeaveSection(t, s)
           \/ Polls(t)
    PROVE  IInv'
<1>1. ASSUME NEW s \in Sections, EnterSection(t, s) PROVE IInv'
  <2>1. Calls(t) /\ TryLock(t, s) /\ UNCHANGED <<event, open, mutant, spin, process>>
    BY <1>1 DEF EnterSection
  <2> QED BY <2>1, CallFacts, TryLockIsGood
<1>2. ASSUME Polls(t) PROVE IInv'
  <2>1. /\ thread[t].at = "polling" /\ TryLock(t, thread[t].on)
        /\ UNCHANGED <<event, open, mutant, spin, process>>
    BY <1>2 DEF Polls
  <2>2. thread[t].on \in Sections
    BY <2>1 DEF IInv, Typed, Placed
  <2> QED BY <2>1, <2>2, TryLockIsGood
<1>3. ASSUME NEW s \in Sections, LeaveSection(t, s) PROVE IInv'
  <2>1. /\ Calls(t) /\ section[s].owner = t
        /\ section' = [section EXCEPT ![s] = Dropped(@)]
        /\ UNCHANGED <<thread, event, open, mutant, spin, dpc, process>>
    BY <1>3 DEF LeaveSection
  <2>2. ObjectsTyped /\ Held(section[s])
    BY DEF IInv, Typed, ObjectsTyped
  <2>3. Held(Dropped(section[s]))
    BY <2>1, <2>2, LockFacts
  <2>4. section' \in [Sections -> Locks] /\ \A k \in Sections : Held(section'[k])
    BY <2>1, <2>2, <2>3 DEF ObjectsTyped, Held
  <2>5. thread[t].at = "running" /\ thread[t] = Run /\ Run \in Where /\ Run.at = "running"
    BY <2>1, CallFacts, RunFacts
  <2>6. thread' = [thread EXCEPT ![t] = Run]
    BY <2>1, <2>5 DEF IInv, Typed
  <2> QED BY <2>1, <2>2, <2>4, <2>5, <2>6, PlacedRun, LockMove DEF ObjectsTyped
<1> QED BY <1>1, <1>2, <1>3

\* The DPC level changes hands and t runs on.
LEMMA DpcMove ==
    ASSUME IInv, NEW t \in Threads, thread' = [thread EXCEPT ![t] = Run],
           thread[t].at \in {"running", "raising"},
           Held(dpc'), dpc'.owner \in {NoThread, t},
           UNCHANGED <<event, open, mutant, section, spin, process>>
    PROVE  IInv'
<1>1. ObjectsTyped
  BY DEF IInv, Typed
<1> QED BY <1>1, RunFacts, PlacedRun, LockMove DEF ObjectsTyped

\* Raising and lowering the interrupt level keeps IInv.
LEMMA DpcIsGood ==
    ASSUME IInv, NEW t \in Threads, RaiseIrql(t) \/ LowerIrql(t) \/ GetsDpcLevel(t)
    PROVE  IInv'
<1>1. Held(dpc) /\ Held(Free)
  BY LockFacts DEF IInv, Typed, ObjectsTyped
<1>2. thread[t].at = "running" /\ UNCHANGED thread /\ thread[t] = Run
        => thread' = [thread EXCEPT ![t] = Run]
  BY DEF IInv, Typed
<1>3. CASE RaiseIrql(t)
  <2>1. thread[t].at = "running" /\ thread[t] = Run
    BY <1>3, CallFacts DEF RaiseIrql
  <2>2. CASE Takeable(dpc, t) /\ dpc' = Taken(dpc, t) /\ UNCHANGED thread
    <3>1. Held(dpc') /\ dpc'.owner = t
      BY <1>1, <2>2, LockFacts
    <3> QED BY <1>2, <1>3, <2>1, <2>2, <3>1, DpcMove DEF RaiseIrql
  <2>3. CASE Goes(t, At("raising", NoHandle)) /\ UNCHANGED dpc
    <3>1. PICK w : w = At("raising", NoHandle)
      OBVIOUS
    <3>2. "raising" \in Places
      BY DEF Places
    <3>3. w \in Where /\ w.at = "raising" /\ Len(w.todo) = 0
      BY <3>1, <3>2, AtFacts
    <3>4. Placed(w)
      BY <3>3 DEF Placed
    <3> QED BY <1>3, <2>1, <2>3, <3>1, <3>3, <3>4, QuietMove DEF RaiseIrql, objects
  <2> QED BY <1>3, <2>2, <2>3 DEF RaiseIrql
<1>4. CASE LowerIrql(t)
  <2>1. /\ Calls(t) /\ dpc.owner = t /\ dpc' = Dropped(dpc)
        /\ UNCHANGED <<thread, event, open, mutant, section, spin, process>>
    BY <1>4 DEF LowerIrql
  <2>2. Held(dpc') /\ dpc'.owner \in {NoThread, t}
    BY <1>1, <2>1, LockFacts
  <2> QED BY <1>2, <2>1, <2>2, CallFacts, DpcMove
<1>5. CASE GetsDpcLevel(t)
  <2>1. /\ thread[t].at = "raising" /\ dpc = Free /\ dpc' = Taken(dpc, t)
        /\ thread' = [thread EXCEPT ![t] = Run]
        /\ UNCHANGED <<event, open, mutant, section, spin, process>>
    BY <1>5 DEF GetsDpcLevel, Goes
  <2>2. Takeable(dpc, t)
    BY <2>1, BoundsAssumption DEF Takeable, Free
  <2>3. Held(dpc') /\ dpc'.owner = t
    BY <1>1, <2>1, <2>2, LockFacts
  <2> QED BY <2>1, <2>3, DpcMove
<1> QED BY <1>3, <1>4, <1>5

\* The calls on spin locks keep IInv.
LEMMA SpinLocksAreGood ==
    ASSUME IInv, NEW t \in Threads,
           \/ \E l \in SpinLocks : AcquireSpinLock(t, l) \/ ReleaseSpinLock(t, l)
           \/ GetsSpinLock(t)
    PROVE  IInv'
<1>1. /\ ObjectsTyped /\ thread \in [Threads -> Where]
      /\ spin \in [SpinLocks -> Threads \cup {NoThread}]
  BY DEF IInv, Typed, ObjectsTyped
<1>2. ASSUME thread[t].at \in {"running", "spinning"},
             thread' = [thread EXCEPT ![t] = Run],
             NEW l \in SpinLocks, NEW u \in {NoThread, t},
             spin' = [spin EXCEPT ![l] = u],
             UNCHANGED <<event, open, mutant, section, dpc, process>>
      PROVE  IInv'
  <2>1. spin' \in [SpinLocks -> Threads \cup {NoThread}]
    BY <1>1, <1>2
  <2> QED BY <1>1, <1>2, <2>1, RunFacts, PlacedRun, LockMove DEF ObjectsTyped
<1>3. ASSUME NEW l \in SpinLocks, AcquireSpinLock(t, l) PROVE IInv'
  <2>1. thread[t].at = "running" /\ thread[t] = Run
    BY <1>3, CallFacts DEF AcquireSpinLock
  <2>2. CASE spin' = [spin EXCEPT ![l] = t] /\ UNCHANGED thread
    <3>1. thread' = [thread EXCEPT ![t] = Run]
      BY <1>1, <2>1, <2>2
    <3> QED BY <1>2, <1>3, <2>1, <2>2, <3>1 DEF AcquireSpinLock
  <2>3. CASE Goes(t, At("spinning", l)) /\ UNCHANGED spin
    <3>1. PICK w : w = At("spinning", l)
      OBVIOUS
    <3>2. "spinning" \in Places
      BY DEF Places
    <3>3. w \in Where /\ w.at = "spinning" /\ w.on = l /\ Len(w.todo) = 0
      BY <3>1, <3>2, AtFacts
    <3>4. Placed(w)
      BY <3>3 DEF Placed
    <3> QED BY <1>3, <2>1, <2>3, <3>1, <3>3, <3>4, QuietMove DEF AcquireSpinLock, objects
  <2> QED BY <1>3, <2>2, <2>3 DEF AcquireSpinLock
<1>4. ASSUME NEW l \in SpinLocks, ReleaseSpinLock(t, l) PROVE IInv'
  <2>1. thread[t].at = "running" /\ thread[t] = Run /\ UNCHANGED thread
    BY <1>4, CallFacts DEF ReleaseSpinLock
  <2>2. thread' = [thread EXCEPT ![t] = Run]
    BY <1>1, <2>1
  <2> QED BY <1>2, <1>4, <2>1, <2>2 DEF ReleaseSpinLock
<1>5. ASSUME GetsSpinLock(t) PROVE IInv'
  <2>1. thread[t].at = "spinning" /\ thread[t].on \in SpinLocks
    BY <1>5 DEF GetsSpinLock, IInv, Typed, Placed
  <2> QED BY <1>2, <1>5, <2>1 DEF GetsSpinLock, Goes
<1> QED BY <1>3, <1>4, <1>5

-----------------------------------------------------------------------------
(* Steps that move several threads.                                        *)

\* An event that is left alone stays served if nobody goes to sleep on it
\* and nobody stops answering for it.
LEMMA StillServed ==
    ASSUME IInv, NEW h \in Events, event'[h] = event[h],
           Sleepers(h)' \subseteq Sleepers(h),
           Helpers(h) \subseteq Helpers(h)', Notifiers(h) \subseteq Notifiers(h)'
    PROVE  EventServed(h)'
<1> DEFINE A == Helpers(h)
           B == Helpers(h)'
<1>1. A \in SUBSET Threads /\ B \in SUBSET Threads
  BY DEF Helpers
<1>2. /\ IsFiniteSet(B) /\ Cardinality(A) \in Nat /\ Cardinality(B) \in Nat
      /\ Cardinality(A) <= Cardinality(B)
  BY <1>1, HelpersAreFinite, FS_Subset
<1>3. event[h].credits \in Nat
  BY BoundsAssumption DEF IInv, Typed, ObjectsTyped, Handles, Event
<1>4. EventServed(h) /\ event'[h].manual = event[h].manual
      /\ event'[h].signaled = event[h].signaled /\ event'[h].credits = event[h].credits
  BY DEF IInv
<1> HIDE DEF A, B
<1>5. EventServed(h)' <=>
         (Sleepers(h)' # {} =>
            /\ event'[h].manual /\ event'[h].signaled => Notifiers(h)' # {}
            /\ ~event'[h].manual => event'[h].credits <= Cardinality(B))
  BY DEF EventServed, B
<1>6. Sleepers(h) # {} =>
         /\ event[h].manual /\ event[h].signaled => Notifiers(h) # {}
         /\ ~event[h].manual => event[h].credits <= Cardinality(A)
  BY <1>4 DEF EventServed, A
<1> QED BY <1>2, <1>3, <1>4, <1>5, <1>6

\* The notification that follows a signal keeps IInv.
LEMMA NotifyIsGood ==
    ASSUME IInv, NEW t \in Threads, Notify(t)
    PROVE  IInv'
<1>1. PICK n \in Where : n = thread[t] /\ n.at = "notifying" /\ n.todo \in Todos /\ Placed(n)
  BY DEF IInv, Typed, Notify, Where
<1>2. PICK h : h = n.on
  OBVIOUS
<1>3. PICK after \in Where :
        /\ after = [Run EXCEPT !.todo = n.todo] /\ after.at = "running"
        /\ after.todo = n.todo
  BY <1>1, RunningFacts
<1>4. UNCHANGED <<event, open, mutant, section, spin, dpc, process>>
  BY DEF Notify, objects
<1>5. PICK woken \in SUBSET Sleepers(h) :
        /\ IF n.all THEN woken = Sleepers(h)
           ELSE Cardinality(woken) = IF Sleepers(h) = {} THEN 0 ELSE 1
        /\ thread' = [u \in Threads |-> IF u = t THEN after
                                        ELSE IF u \in woken THEN Wake(u) ELSE thread[u]]
  BY <1>1, <1>2, <1>3 DEF Notify
<1>6. \A u \in Threads : thread[u] \in Where /\ Placed(thread[u])
  BY DEF IInv, Typed
<1>7. \A u \in woken : /\ u \in Threads /\ u # t /\ thread[u].at = "asleep" /\ thread[u].on = h
                       /\ Wake(u) \in Where /\ Wake(u).at = "woken" /\ Wake(u).on = h
                       /\ Wake(u).todo = thread[u].todo
  <2> TAKE u \in woken
  <2>1. u \in Threads /\ u # t /\ thread[u].at = "asleep" /\ thread[u].on = h
    BY <1>1, <1>5 DEF Sleepers
  <2>2. "woken" \in Places
    BY DEF Places
  <2> QED BY <1>6, <2>1, <2>2 DEF Wake, Where
<1>8. /\ thread'[t] = after
      /\ \A u \in woken : thread'[u] = Wake(u)
      /\ \A u \in Threads : u # t /\ u \notin woken => thread'[u] = thread[u]
      /\ thread' \in [Threads -> Where]
  BY <1>3, <1>5, <1>6, <1>7
<1>9. Typed'
  <2>1. Placed(after)'
    BY <1>1, <1>3, <1>4 DEF Placed
  <2>2. ASSUME NEW u \in woken PROVE Placed(thread[u])'
    <3>1. /\ thread'[u].at = "woken" /\ thread'[u].on = thread[u].on
          /\ thread'[u].todo = thread[u].todo /\ thread[u].at = "asleep"
          /\ Placed(thread[u]) /\ open' = open
      BY <1>4, <1>6, <1>7, <1>8
    <3> QED BY <3>1 DEF Placed
  <2>3. \A u \in Threads : Placed(thread[u]) => (u # t /\ u \notin woken => Placed(thread[u])')
    BY <1>4, <1>8 DEF Placed
  <2>4. \A u \in Threads : Placed(thread[u])'
    <3> TAKE u \in Threads
    <3>1. CASE u = t
      BY <1>8, <2>1, <3>1 DEF Placed
    <3>2. CASE u \in woken
      BY <2>2, <3>2
    <3>3. CASE u # t /\ u \notin woken
      BY <1>6, <2>3, <3>3
    <3> QED BY <3>1, <3>2, <3>3
  <2>5. ObjectsTyped' /\ ProcessTyped'
    BY <1>4 DEF IInv, Typed, ObjectsTyped, Held, ProcessTyped, process
  <2> QED BY <1>8, <2>4, <2>5 DEF Typed
<1>10. ToAll'
  <2> SUFFICES ASSUME NEW u \in Threads, thread'[u].at = "notifying"
               PROVE  thread'[u] = thread[u]
    BY <1>4 DEF IInv, ToAll
  <2> QED BY <1>3, <1>7, <1>8
<1>11. DpcHeld'
  <2> SUFFICES ASSUME dpc.owner # NoThread PROVE thread'[dpc.owner].at # "ended"
    BY <1>4 DEF DpcHeld
  <2>1. dpc.owner \in Threads /\ thread[dpc.owner].at # "ended"
    BY DEF IInv, Typed, ObjectsTyped, Held, Locks, DpcHeld
  <2> QED BY <1>3, <1>7, <1>8, <2>1
<1>12. \A k : /\ Sleepers(k)' \subseteq Sleepers(k)
              /\ k # h => Helpers(k) \subseteq Helpers(k)' /\ Notifiers(k) \subseteq Notifiers(k)'
  <2> TAKE k
  <2>1. ASSUME NEW u \in Threads, thread'[u].at = "asleep", thread'[u].on = k
        PROVE  thread'[u] = thread[u]
    BY <1>3, <1>7, <1>8, <2>1
  <2>2. ASSUME k # h, NEW u \in Threads, thread[u].on = k
        PROVE  thread'[u] = thread[u]
    BY <1>1, <1>2, <1>7, <1>8, <2>2
  <2> QED BY <2>1, <2>2 DEF Sleepers, Helpers, Notifiers
<1>13. n.all => Sleepers(h)' = {}
  <2> SUFFICES ASSUME n.all, NEW u \in Threads, thread'[u].at = "asleep", thread'[u].on = h
               PROVE  FALSE
    BY DEF Sleepers
  <2>1. thread'[u] = thread[u] /\ u \notin woken
    BY <1>3, <1>7, <1>8
  <2> QED BY <1>5, <2>1 DEF Sleepers
<1>14. ASSUME NEW m \in Mutants PROVE MutantServed(m)'
  <2>1. CASE m # h
    BY <1>4, <1>12, <2>1 DEF IInv, MutantServed
  <2>2. CASE m = h
    <3>1. n.all
      BY <1>1, <1>2, <2>2 DEF IInv, ToAll
    <3> QED BY <1>13, <2>2, <3>1 DEF MutantServed
  <2> QED BY <2>1, <2>2
<1>15. ASSUME NEW k \in Events PROVE EventServed(k)'
  <2>1. CASE k # h
    BY <1>4, <1>12, <2>1, StillServed
  <2>2. CASE k = h /\ (n.all \/ Sleepers(h) = {})
    <3>1. Sleepers(k)' = {}
      BY <1>12, <1>13, <2>2
    <3> QED BY <3>1 DEF EventServed
  <2>3. CASE k = h /\ ~n.all /\ Sleepers(h) # {}
    <3>1. ~event[k].manual
      BY <1>1, <1>2, <2>3 DEF IInv, ToAll
    <3>2. woken \in SUBSET Threads /\ Cardinality(woken) = 1
      BY <1>5, <2>3 DEF Sleepers
    <3>3. PICK u : woken = {u}
      BY <3>2, HelpersAreFinite, FS_Singleton
    <3>4. u \in Threads /\ u # t /\ u \notin Helpers(k) /\ t \in Helpers(k)
      BY <1>1, <1>2, <1>7, <2>3, <3>3 DEF Helpers
    <3>5. (Helpers(k) \ {t}) \cup {u} \subseteq Helpers(k)'
      <4>1. u \in Helpers(k)'
        BY <1>7, <1>8, <2>3, <3>3, <3>4 DEF Helpers
      <4>2. ASSUME NEW v \in Helpers(k), v # t PROVE v \in Helpers(k)'
        <5>1. v \in Threads /\ v \notin woken
          BY <3>3, <3>4, <4>2 DEF Helpers
        <5> QED BY <1>8, <4>2, <5>1 DEF Helpers
      <4> QED BY <4>1, <4>2
    <3>6. Cardinality((Helpers(k) \ {t}) \cup {u}) = Cardinality(Helpers(k))
      <4>1. IsFiniteSet(Helpers(k)) /\ Cardinality(Helpers(k)) \in Nat
        BY HelpersAreFinite
      <4>2. /\ IsFiniteSet(Helpers(k) \ {t})
            /\ Cardinality(Helpers(k) \ {t}) = Cardinality(Helpers(k)) - 1
        BY <3>4, <4>1, FS_RemoveElement
      <4>3. Cardinality((Helpers(k) \ {t}) \cup {u}) = Cardinality(Helpers(k) \ {t}) + 1
        BY <3>4, <4>2, FS_AddElement
      <4> QED BY <4>1, <4>2, <4>3
    <3>7. /\ Cardinality(Helpers(k)) <= Cardinality(Helpers(k)')
          /\ Cardinality(Helpers(k)) \in Nat /\ Cardinality(Helpers(k)') \in Nat
      <4>1. Helpers(k)' \in SUBSET Threads
        BY DEF Helpers
      <4> QED BY <3>5, <3>6, <4>1, HelpersAreFinite, FS_Subset
    <3>8. event[k].credits <= Cardinality(Helpers(k)) /\ event[k].credits \in Nat
      BY <2>3, <3>1, BoundsAssumption
         DEF IInv, EventServed, Typed, ObjectsTyped, Handles, Event
    <3>9. event[k].credits <= Cardinality(Helpers(k)')
      BY <3>7, <3>8
    <3> QED BY <1>4, <3>1, <3>9 DEF EventServed
  <2> QED BY <2>1, <2>2, <2>3
<1> QED BY <1>9, <1>10, <1>11, <1>14, <1>15 DEF IInv

\* Closing a handle keeps IInv.
LEMMA CloseIsGood ==
    ASSUME IInv, NEW t \in Threads, NEW h \in Handles, Close(t, h)
    PROVE  IInv'
<1>1. /\ Calls(t) /\ h \in open /\ open' = open \ {h}
      /\ event' = [event EXCEPT ![h] = Unknown]
      /\ thread' = [u \in Threads |->
                      IF u \in Sleepers(h) THEN Wake(u)
                      ELSE IF thread[u].at = "notifying" /\ thread[u].on = h
                           THEN [thread[u] EXCEPT !.on = NoHandle]
                      ELSE thread[u]]
      /\ UNCHANGED <<mutant, section, spin, dpc, process>>
  BY DEF Close
<1>2. /\ \A u \in Threads : thread[u] \in Where /\ Placed(thread[u])
      /\ ObjectsTyped /\ ProcessTyped'
  BY <1>1 DEF IInv, Typed, ProcessTyped, process
<1>3. h \notin Mutants /\ NoHandle \notin Events /\ NoHandle \notin Mutants /\ NoHandle # h
      /\ \A k \in Events : k \in Handles /\ k \notin Mutants
  BY NamesAssumption DEF Handles
\* Only the sleepers and the notifiers of h change.
<1>4. ASSUME NEW u \in Threads
      PROVE  \/ thread'[u] = thread[u] /\ ~(thread[u].at \in {"asleep", "notifying"} /\ thread[u].on = h)
             \/ /\ thread[u].at = "asleep" /\ thread[u].on = h
                /\ thread'[u] \in Where /\ thread'[u].at = "woken" /\ thread'[u].on = h
                /\ thread'[u].todo = thread[u].todo
             \/ /\ thread[u].at = "notifying" /\ thread[u].on = h
                /\ thread'[u] \in Where /\ thread'[u].at = "notifying"
                /\ thread'[u].on = NoHandle /\ thread'[u].todo = thread[u].todo
  <2>1. CASE u \in Sleepers(h)
    <3>1. thread'[u] = [thread[u] EXCEPT !.at = "woken"] /\ thread[u] \in Where
          /\ thread[u].at = "asleep" /\ thread[u].on = h
      BY <1>1, <1>2, <2>1 DEF Wake, Sleepers
    <3>2. "woken" \in Places
      BY DEF Places
    <3> QED BY <3>1, <3>2 DEF Where
  <2>2. CASE u \notin Sleepers(h) /\ thread[u].at = "notifying" /\ thread[u].on = h
    <3>1. thread'[u] = [thread[u] EXCEPT !.on = NoHandle] /\ thread[u] \in Where
      BY <1>1, <1>2, <2>2
    <3> QED BY <2>2, <3>1 DEF Where
  <2>3. CASE u \notin Sleepers(h) /\ ~(thread[u].at = "notifying" /\ thread[u].on = h)
    BY <1>1, <2>3 DEF Sleepers
  <2> QED BY <2>1, <2>2, <2>3
<1>5. Typed'
  <2>1. thread' \in [Threads -> Where]
    <3>1. \A u \in Threads : thread'[u] \in Where
      BY <1>2, <1>4
    <3> QED BY <1>1, <3>1
  <2>2. ASSUME NEW u \in Threads PROVE Placed(thread[u])'
    <3>1. Placed(thread[u])
      BY <1>2
    <3>2. \A m \in Mutants : m \in open => m \in open'
      BY <1>1, <1>3
    <3>3. CASE thread'[u] = thread[u]
      BY <3>1, <3>2, <3>3 DEF Placed
    <3>4. CASE /\ thread[u].at = "asleep" /\ thread[u].on = h
               /\ thread'[u].at = "woken" /\ thread'[u].on = h
               /\ thread'[u].todo = thread[u].todo
      BY <1>3, <3>1, <3>2, <3>4 DEF Placed
    <3>5. CASE /\ thread'[u].at = "notifying" /\ thread'[u].on = NoHandle
               /\ thread'[u].todo = thread[u].todo
      BY <1>3, <3>1, <3>2, <3>5 DEF Placed
    <3> QED BY <1>4, <3>3, <3>4, <3>5
  <2>3. ObjectsTyped'
    <3>1. Unknown \in Event /\ Sound(Unknown)
      <4>1. event[h] \in Event /\ Sound(event[h])
        BY <1>2 DEF ObjectsTyped
      <4> QED BY <4>1, EventFacts
    <3> QED BY <1>1, <1>2, <3>1 DEF ObjectsTyped, Held
  <2> QED BY <1>2, <2>1, <2>2, <2>3 DEF Typed
<1>6. /\ event'[h] = Unknown /\ \A k \in Handles : k # h => event'[k] = event[k]
  BY <1>1, <1>2 DEF ObjectsTyped
<1>7. ToAll'
  <2> SUFFICES ASSUME NEW u \in Threads, thread'[u].at = "notifying",
                      thread'[u].on \in Mutants \/ thread'[u].on \in Events
               PROVE  /\ thread'[u].on \in Mutants => thread'[u].all
                      /\ thread'[u].on \in Events /\ event'[thread'[u].on].manual
                            => thread'[u].all
    BY DEF ToAll
  <2>1. thread'[u] = thread[u] /\ thread'[u].on # h
    BY <1>3, <1>4
  <2> QED BY <1>3, <1>6, <2>1 DEF IInv, ToAll
<1>8. DpcHeld'
  <2> SUFFICES ASSUME dpc.owner # NoThread PROVE thread'[dpc.owner].at # "ended"
    BY <1>1 DEF DpcHeld
  <2>1. dpc.owner \in Threads /\ thread[dpc.owner].at # "ended"
    BY <1>2 DEF IInv, ObjectsTyped, Held, Locks, DpcHeld
  <2> QED BY <1>4, <2>1
<1>9. ASSUME NEW k \in Events \cup Mutants, k # h
      PROVE  /\ Sleepers(k)' \subseteq Sleepers(k)
             /\ Helpers(k) \subseteq Helpers(k)' /\ Notifiers(k) \subseteq Notifiers(k)'
  <2>1. ASSUME NEW u \in Threads, thread'[u].at = "asleep", thread'[u].on = k
        PROVE  thread'[u] = thread[u]
    BY <1>4, <2>1
  <2>2. ASSUME NEW u \in Threads, thread[u].on = k
        PROVE  thread'[u] = thread[u]
    BY <1>4, <1>9, <2>2
  <2> QED BY <2>1, <2>2 DEF Sleepers, Helpers, Notifiers
<1>10. ASSUME NEW m \in Mutants PROVE MutantServed(m)'
  BY <1>1, <1>3, <1>9 DEF IInv, MutantServed
<1>11. ASSUME NEW k \in Events PROVE EventServed(k)'
  <2>1. CASE k # h
    BY <1>3, <1>6, <1>9, <2>1, StillServed
  <2>2. CASE k = h
    <3>1. \A u \in Threads : ~(thread'[u].at = "asleep" /\ thread'[u].on = h)
      BY <1>4
    <3> QED BY <2>2, <3>1 DEF EventServed, Sleepers
  <2> QED BY <2>1, <2>2
<1> QED BY <1>5, <1>7, <1>8, <1>10, <1>11 DEF IInv

\* Creating a guest thread, suspended or not, keeps IInv.
LEMMA CreateThreadIsGood ==
    ASSUME IInv, NEW t \in Threads, NEW c \in Workers, NEW suspended \in BOOLEAN,
           CreateThread(t, c, suspended)
    PROVE  IInv'
<1>1. PICK wt : wt = At("registering", c)
  OBVIOUS
<1>2. PICK wc : wc = IF suspended THEN At("parked", c) ELSE Run
  OBVIOUS
<1>3. /\ Calls(t) /\ thread[c].at = "unborn" /\ open' = open \cup {c}
      /\ event' = IF suspended THEN [event EXCEPT ![c] = NewEvent(TRUE, FALSE)] ELSE event
      /\ thread' = [thread EXCEPT ![t] = wt, ![c] = wc]
      /\ UNCHANGED <<mutant, section, spin, dpc, process>>
  BY <1>1, <1>2 DEF CreateThread
<1>4. /\ wt \in Where /\ wt.at = "registering" /\ wt.on = c /\ Len(wt.todo) = 0
      /\ wc \in Where /\ wc.at \in {"parked", "running"} /\ Len(wc.todo) = 0
  <2>1. "registering" \in Places /\ "parked" \in Places /\ c \in Handles /\ c \in Threads
    BY DEF Places, Handles, Threads
  <2> QED BY <1>1, <1>2, <2>1, AtFacts, RunFacts
<1>5. c \in Threads /\ c \in Handles /\ c \notin Events /\ thread[t].at = "running" /\ t # c
  BY <1>3, CallFacts, NamesAssumption DEF Handles, Threads
<1>6. /\ \A u \in Threads : thread[u] \in Where /\ Placed(thread[u])
      /\ thread \in [Threads -> Where] /\ ObjectsTyped /\ ProcessTyped'
  BY <1>3 DEF IInv, Typed, ProcessTyped, process
<1>7. /\ thread'[t] = wt /\ thread'[c] = wc /\ thread' \in [Threads -> Where]
      /\ \A u \in Threads : u \notin {t, c} => thread'[u] = thread[u]
  BY <1>3, <1>4, <1>5, <1>6
<1>8. Typed'
  <2>1. ASSUME NEW u \in Threads PROVE Placed(thread[u])'
    <3>1. CASE u \in {t, c}
      BY <1>4, <1>7, <3>1 DEF Placed
    <3>2. CASE u \notin {t, c}
      <4>1. Placed(thread[u]) /\ thread'[u] = thread[u] /\ open \subseteq open'
        BY <1>3, <1>6, <1>7, <3>2
      <4> QED BY <4>1 DEF Placed
    <3> QED BY <3>1, <3>2
  <2>2. NewEvent(TRUE, FALSE) \in Event /\ Sound(NewEvent(TRUE, FALSE))
    BY BoundsAssumption DEF NewEvent, Event, Sound
  <2>3. event' \in [Handles -> Event] /\ \A k \in Handles : Sound(event'[k])
    BY <1>3, <1>6, <2>2 DEF ObjectsTyped
  <2>4. ObjectsTyped'
    BY <1>3, <1>5, <1>6, <2>3 DEF ObjectsTyped, Held
  <2> QED BY <1>6, <1>7, <2>1, <2>4 DEF Typed
<1>9. \A h \in Events : event'[h] = event[h]
  <2>1. \A h \in Events : h \in Handles /\ h # c
    BY <1>5 DEF Handles
  <2>2. CASE suspended
    <3>1. event' = [event EXCEPT ![c] = NewEvent(TRUE, FALSE)]
      BY <1>3, <2>2
    <3>2. event \in [Handles -> Event]
      BY <1>6 DEF ObjectsTyped
    <3> QED BY <2>1, <3>1, <3>2
  <2>3. CASE ~suspended
    BY <1>3, <2>3
  <2> QED BY <2>2, <2>3
<1>10. ToAll'
  <2> SUFFICES ASSUME NEW u \in Threads, thread'[u].at = "notifying"
               PROVE  thread'[u] = thread[u]
    BY <1>9 DEF IInv, ToAll
  <2> QED BY <1>4, <1>7
<1>11. DpcHeld'
  <2> SUFFICES ASSUME dpc.owner # NoThread PROVE thread'[dpc.owner].at # "ended"
    BY <1>3 DEF DpcHeld
  <2>1. dpc.owner \in Threads /\ thread[dpc.owner].at # "ended"
    BY <1>6 DEF IInv, ObjectsTyped, Held, Locks, DpcHeld
  <2> QED BY <1>4, <1>7, <2>1
<1>12. \A k : /\ Sleepers(k)' \subseteq Sleepers(k)
              /\ Helpers(k) \subseteq Helpers(k)' /\ Notifiers(k) \subseteq Notifiers(k)'
  <2>1. ASSUME NEW u \in Threads, thread'[u].at = "asleep" PROVE thread'[u] = thread[u]
    BY <1>4, <1>7, <2>1
  <2>2. ASSUME NEW u \in Threads, thread[u].at \in {"woken", "notifying"}
        PROVE  thread'[u] = thread[u]
    BY <1>3, <1>5, <1>7, <2>2
  <2> QED BY <2>1, <2>2 DEF Sleepers, Helpers, Notifiers
<1>13. \A m \in Mutants : MutantServed(m)'
  BY <1>3, <1>12 DEF IInv, MutantServed
<1>14. \A h \in Events : EventServed(h)'
  BY <1>9, <1>12, StillServed
<1> QED BY <1>8, <1>10, <1>11, <1>13, <1>14 DEF IInv

-----------------------------------------------------------------------------
(* Threads and the shutdown.                                               *)

\* A thread that terminates itself keeps IInv.
LEMMA TerminatesIsGood ==
    ASSUME IInv, NEW t \in Threads, Terminates(t)
    PROVE  IInv'
<1>1. Calls(t) /\ Unwinds(t) /\ UNCHANGED <<event, open, mutant, section, spin, process>>
  BY DEF Terminates
<1> QED BY <1>1, CallFacts, UnwindMove

\* A thread whose entry function returns keeps IInv.
LEMMA ReturnsIsGood ==
    ASSUME IInv, NEW t \in Threads, Returns(t)
    PROVE  IInv'
<1>1. Calls(t) /\ Goes(t, Returned) /\ UNCHANGED <<objects, process>>
  BY DEF Returns
<1>2. Placed(Returned)
  BY RunFacts DEF Placed
<1> QED BY <1>1, <1>2, RunFacts, CallFacts, QuietMove

\* The threads and their objects are left alone.
LEMMA ProcessStepIsGood ==
    ASSUME IInv, UNCHANGED <<thread, objects>>, ProcessTyped'
    PROVE  IInv'
<1>1. UNCHANGED <<thread, event, open, mutant, section, spin, dpc>>
  BY DEF objects
<1>2. Typed'
  BY <1>1 DEF IInv, Typed, ObjectsTyped, Held, Placed
<1>3. ToAll' /\ DpcHeld'
  BY <1>1 DEF IInv, ToAll, DpcHeld
<1>4. /\ \A k : Sleepers(k)' = Sleepers(k) /\ Helpers(k)' = Helpers(k)
      /\ \A k : Notifiers(k)' = Notifiers(k)
  BY <1>1 DEF Sleepers, Helpers, Notifiers
<1>5. \A m \in Mutants : MutantServed(m)'
  BY <1>1, <1>4 DEF IInv, MutantServed
<1>6. \A h \in Events : EventServed(h)'
  BY <1>1, <1>4, StillServed
<1> QED BY <1>2, <1>3, <1>5, <1>6 DEF IInv

\* Registering a host thread keeps IInv.
LEMMA RegisterIsGood ==
    ASSUME IInv, NEW t \in Threads, Register(t)
    PROVE  IInv'
<1>1. /\ thread[t].at = "registering" /\ registered' = registered \cup {thread[t].on}
      /\ thread' = [thread EXCEPT ![t] = Run]
      /\ UNCHANGED <<event, open, mutant, section, spin, dpc, stop, main>>
  BY DEF Register, Goes, objects
<1>2. thread[t].on \in Workers
  BY <1>1 DEF IInv, Typed, Placed
<1>3. ObjectsTyped' /\ ProcessTyped'
  BY <1>1, <1>2 DEF IInv, Typed, ObjectsTyped, Held, ProcessTyped
<1>4. Run \in Where /\ Run.at = "running"
  BY RunFacts
<1>5. \A h \in Events : EventMove(t, Run, h)
  BY <1>1, <1>4, QuietEvents
<1> QED BY <1>1, <1>3, <1>4, <1>5, PlacedRun, MoveIsGood

\* A parked thread that is let go, or finds the stop, keeps IInv.
LEMMA UnparksIsGood ==
    ASSUME IInv, NEW t \in Threads, Unparks(t)
    PROVE  IInv'
<1>1. thread[t].at = "parked"
  BY DEF Unparks
<1>2. CASE stop
  <2>1. /\ main' = [main EXCEPT !.at = "aborted"]
        /\ UNCHANGED <<thread, objects, registered, stop>>
    BY <1>2 DEF Unparks
  <2>2. ProcessTyped'
    BY <1>2, <2>1 DEF IInv, Typed, ProcessTyped
  <2> QED BY <2>1, <2>2, ProcessStepIsGood
<1>3. CASE ~stop
  <2>1. Goes(t, Run) /\ UNCHANGED <<objects, process>>
    BY <1>3 DEF Unparks
  <2> QED BY <1>1, <2>1, RunFacts, PlacedRun, QuietMove
<1> QED BY <1>2, <1>3

\* The steps of the shutdown keep IInv.
LEMMA ShutdownIsGood ==
    ASSUME IInv, Shutdown
    PROVE  IInv'
<1>1. ProcessTyped
  BY DEF IInv, Typed
<1>2. UNCHANGED <<thread, objects>>
  BY DEF Shutdown, RequestStop, SwapRegistry, Join
<1>3. ProcessTyped'
  <2>1. CASE RequestStop
    BY <1>1, <2>1 DEF RequestStop, ProcessTyped
  <2>2. CASE SwapRegistry
    BY <1>1, <2>2 DEF SwapRegistry, ProcessTyped
  <2>3. CASE Join
    BY <1>1, <2>3 DEF Join, ProcessTyped
  <2> QED BY <2>1, <2>2, <2>3 DEF Shutdown
<1> QED BY <1>2, <1>3, ProcessStepIsGood

-----------------------------------------------------------------------------
\* The kernel at its start satisfies IInv.
LEMMA InitIsGood ==
    ASSUME Init
    PROVE  IInv
<1>1. \A t \in Threads : thread[t] = IF t = Entry THEN Run ELSE At("unborn", NoHandle)
  BY DEF Init
<1>2. PICK unborn : unborn = At("unborn", NoHandle)
  OBVIOUS
<1>3. unborn \in Where /\ unborn.at = "unborn" /\ Len(unborn.todo) = 0
  <2>1. "unborn" \in Places
    BY DEF Places
  <2> QED BY <1>2, <2>1, AtFacts
<1>4. \A t \in Threads : /\ thread[t] \in Where /\ Len(thread[t].todo) = 0
                         /\ thread[t].at \in {"running", "unborn"}
  BY <1>1, <1>2, <1>3, RunFacts
<1>5. thread \in [Threads -> Where] /\ \A t \in Threads : Placed(thread[t])
  BY <1>4 DEF Init, Placed
<1>6. Unknown \in Event /\ Sound(Unknown)
  BY BoundsAssumption DEF Unknown, Event, Sound
<1>7. Held(Free)
  BY BoundsAssumption DEF Held, Free, Locks
<1>8. ObjectsTyped
  BY <1>6, <1>7 DEF Init, ObjectsTyped, Held
<1>9. ProcessTyped
  BY DEF Init, ProcessTyped
<1>10. \A k : Sleepers(k) = {}
  BY <1>4 DEF Sleepers
<1>11. ToAll /\ DpcHeld
  BY <1>4 DEF ToAll, DpcHeld, Init, Free
<1> QED BY <1>5, <1>8, <1>9, <1>10, <1>11
        DEF IInv, Typed, MutantServed, EventServed

\* A step that changes nothing keeps IInv.
LEMMA StutterIsGood ==
    ASSUME IInv, UNCHANGED vars
    PROVE  IInv'
<1>1. UNCHANGED <<thread, objects>> /\ UNCHANGED <<registered, stop, main>>
  BY DEF vars, process
<1>2. ProcessTyped'
  BY <1>1 DEF IInv, Typed, ProcessTyped
<1> QED BY <1>1, <1>2, ProcessStepIsGood

\* The inductive invariant.
THEOREM Invariance == Spec => []IInv
<1>1. Init => IInv
  BY InitIsGood
<1>2. IInv /\ [Next]_vars => IInv'
  <2> SUFFICES ASSUME IInv, [Next]_vars
               PROVE  IInv'
    OBVIOUS
  <2>1. ASSUME NEW t \in Threads, GuestCalls(t) PROVE IInv'
    <3>1. ASSUME NEW h \in Handles,
                 \/ SetEvent(t, h) \/ ClearEvent(t, h) \/ PulseEvent(t, h)
                 \/ ResumeThread(t, h)
          PROVE  IInv'
      BY <3>1, SignalsAreGood
    <3>2. ASSUME NEW h \in Handles, Close(t, h) PROVE IInv'
      BY <3>2, CloseIsGood
    <3>3. ASSUME NEW h \in Events, NEW manual \in BOOLEAN, NEW signaled \in BOOLEAN,
                 CreateEvent(t, h, manual, signaled)
          PROVE  IInv'
      BY <3>3, CreateEventIsGood
    <3>4. ASSUME NEW m \in Mutants, ReleaseMutant(t, m) PROVE IInv'
      <4>1. <<>> \in Todos
        BY DEF Todos
      <4>2. Len(<<>>) = 0
        OBVIOUS
      <4> QED BY <3>4, <4>1, <4>2, ReleaseThenIsGood DEF ReleaseMutant
    <3>5. ASSUME NEW m \in Mutants, NEW owned \in BOOLEAN, CreateMutant(t, m, owned)
          PROVE  IInv'
      BY <3>5, CreateMutantIsGood
    <3>6. ASSUME NEW k \in Objects, NEW forever \in BOOLEAN, Wait(t, k, forever)
          PROVE  IInv'
      BY <3>6, WaitIsGood
    <3>7. ASSUME NEW k \in Objects, NEW forever \in BOOLEAN, k \in open,
                 \/ \E h \in Events : SignalAndWait(t, h, k, forever)
                 \/ \E m \in Mutants : ReleaseAndWait(t, m, k, forever)
          PROVE  IInv'
      BY <3>7, SignalAndWaitIsGood
    <3>8. CASE \E s \in Sections : EnterSection(t, s) \/ LeaveSection(t, s)
      BY <3>8, SectionsAreGood
    <3>9. CASE RaiseIrql(t) \/ LowerIrql(t)
      BY <3>9, DpcIsGood
    <3>10. ASSUME NEW c \in Workers, NEW suspended \in BOOLEAN,
                  CreateThread(t, c, suspended)
           PROVE  IInv'
      BY <3>10, CreateThreadIsGood
    <3>11. CASE Terminates(t) \/ Returns(t)
      BY <3>11, TerminatesIsGood, ReturnsIsGood
    <3>12. CASE \E l \in SpinLocks : AcquireSpinLock(t, l) \/ ReleaseSpinLock(t, l)
      BY <3>12, SpinLocksAreGood
    <3> QED BY <2>1, <3>1, <3>2, <3>3, <3>4, <3>5, <3>6, <3>7, <3>8, <3>9, <3>10, <3>11, <3>12
            DEF GuestCalls, Objects
  <2>2. ASSUME NEW t \in Threads, KernelContinues(t) PROVE IInv'
    BY <2>2, NotifyIsGood, PulsedIsGood, ThenWaitsIsGood, EventWakesIsGood,
       EventTimesOutIsGood, MutantWakesIsGood, RetriesIsGood, SectionsAreGood,
       DpcIsGood, SpinLocksAreGood, RegisterIsGood, UnparksIsGood DEF KernelContinues
  <2>3. CASE Shutdown
    BY <2>3, ShutdownIsGood
  <2>4. CASE UNCHANGED vars
    BY <2>4, StutterIsGood
  <2> QED BY <2>1, <2>2, <2>3, <2>4 DEF Next
<1> QED BY <1>1, <1>2, PTL DEF Spec

-----------------------------------------------------------------------------
(* The properties.                                                         *)

\* No wake-up is lost: whenever a thread sleeps on an event, a semaphore, a
\* timer or a mutant that could be claimed, another has been woken for it or
\* has still to notify.
THEOREM WakeupTheorem == Spec => []NoLostWakeup
<1>1. IInv => NoLostWakeup
  <2> SUFFICES ASSUME IInv PROVE NoLostWakeup
    OBVIOUS
  <2>1. ASSUME NEW h \in Handles, Claimable(event[h]), Sleepers(h) # {}
        PROVE  Helpers(h) # {}
    <3>1. h \in Events
      <4>1. PICK u \in Threads : thread[u].at = "asleep" /\ thread[u].on = h
        BY <2>1 DEF Sleepers
      <4>2. h \in Objects
        BY <4>1 DEF IInv, Typed, Placed
      <4> QED BY <4>2, NamesAssumption DEF Objects
    <3>2. EventServed(h) /\ event[h] \in Event
      BY <3>1 DEF IInv, Typed, ObjectsTyped
    <3>3. CASE event[h].manual
      <4>1. Notifiers(h) # {}
        BY <2>1, <3>2, <3>3 DEF Claimable, EventServed
      <4> QED BY <4>1 DEF Notifiers, Helpers
    <3>4. CASE ~event[h].manual
      <4>1. event[h].credits > 0 /\ event[h].credits <= Cardinality(Helpers(h))
        BY <2>1, <3>2, <3>4 DEF Claimable, EventServed
      <4>2. Cardinality(Helpers(h)) # 0
        <5>1. event[h].credits \in Nat /\ Cardinality(Helpers(h)) \in Nat
          BY <3>2, BoundsAssumption, HelpersAreFinite DEF Event
        <5> QED BY <4>1, <5>1
      <4> QED BY <4>2, FS_EmptySet
    <3> QED BY <3>3, <3>4
  <2>2. ASSUME NEW m \in Mutants, mutant[m].owner = NoThread, Sleepers(m) # {}
        PROVE  Helpers(m) # {}
    <3>1. Notifiers(m) # {}
      BY <2>2 DEF IInv, MutantServed
    <3> QED BY <3>1 DEF Notifiers, Helpers
  <2> QED BY <2>1, <2>2 DEF NoLostWakeup, Helpers
<1> QED BY <1>1, Invariance, PTL

\* Every variable keeps its type, and a thread that is terminated, wherever
\* it is, gives back the DPC level it had raised: only one whose entry
\* function returned may still hold it.
THEOREM DpcTheorem == Spec => []DpcIsNotOrphaned
<1>1. IInv => DpcIsNotOrphaned
  <2> SUFFICES ASSUME IInv PROVE DpcIsNotOrphaned
    OBVIOUS
  <2>1. \A t \in Threads : thread[t].at \in Places
    BY DEF IInv, Typed, Where
  <2>2. \A h \in Handles : /\ event[h].credits \in 0..MaxCredits
                           /\ event[h].credits > 0 => event[h].signaled /\ ~event[h].manual
    BY DEF IInv, Typed, ObjectsTyped, Event, Sound
  <2>3. \A lock \in {mutant[m] : m \in Mutants} \cup {section[s] : s \in Sections}
                    \cup {dpc} : Held(lock)
    BY DEF IInv, Typed, ObjectsTyped
  <2>4. /\ open \subseteq Handles \cup Mutants
        /\ spin \in [SpinLocks -> Threads \cup {NoThread}]
        /\ registered \subseteq Workers /\ main.joins \subseteq Workers
        /\ stop <=> main.at # "running"
    BY DEF IInv, Typed, ObjectsTyped, ProcessTyped
  <2>5. TypeOK
    BY <2>1, <2>2, <2>3, <2>4 DEF TypeOK, Held
  <2>6. dpc.owner # NoThread => thread[dpc.owner] # Ended
    BY RunFacts DEF IInv, DpcHeld
  <2> QED BY <2>5, <2>6 DEF DpcIsNotOrphaned
<1> QED BY <1>1, Invariance, PTL
=============================================================================
