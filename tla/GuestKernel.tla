------------------------------ MODULE GuestKernel ------------------------------
(***************************************************************************)
(* The kernel objects the recompiled title runs on: the C++ that           *)
(* materialize_native_import_stubs.py writes for the wait, signal, lock    *)
(* and thread imports, with the registry of guest threads and the DPC      *)
(* level of native_guest_threads.cpp, up to the end of                     *)
(* NativeRuntime::shutdown().                                              *)
(*                                                                         *)
(* A guest thread may make any call at any time; what it computes between  *)
(* two calls is not modelled.  A condition variable is waited on with the  *)
(* mutex that guards the state, so the check and going to sleep are one    *)
(* step; the notification comes after the mutex is released and is a step  *)
(* of its own.  Every wait looks at the stop flag first: only the shutdown *)
(* writes it, so looking at it when the mutex is held makes no difference. *)
(***************************************************************************)
EXTENDS Integers, FiniteSets, Sequences, SequencesExt

CONSTANTS
    Entry,          \* the detached _xstart thread
    Workers,        \* the threads ExCreateThread makes
    Events,         \* handles of events, semaphores and timers
    Mutants,        \* handles of mutants
    Sections,       \* critical sections, by address
    SpinLocks,      \* guest spin locks, by address
    Raisers,        \* the threads that raise the IRQL
    NoThread, NoHandle,
    MaxCredits,     \* bounds pending_releases
    MaxDepth        \* bounds the recursion of locks

Threads == Workers \cup {Entry}
Handles == Events \cup Workers      \* the keys of g_events: a thread's handle too

ASSUME NamesAssumption ==
    /\ Entry \notin Workers /\ NoThread \notin Threads /\ Raisers \subseteq Threads
    /\ NoHandle \notin Handles \cup Mutants
    /\ Events \cap Workers = {} /\ Handles \cap Mutants = {}
    /\ IsFiniteSet(Workers)
ASSUME BoundsAssumption == MaxCredits \in Nat \ {0} /\ MaxDepth \in Nat \ {0}

VARIABLES
    thread,         \* where each host thread is in its kernel call
    event,          \* g_events
    open,           \* the handles given out and not closed
    mutant,         \* g_mutants
    section,        \* g_critical_sections
    spin,           \* g_spin_locks: who holds each
    dpc,            \* g_dpc_level_mutex, and the depth its owner has counted
    registered,     \* g_threads
    stop,           \* g_stop
    main            \* the thread that shuts down, and the threads it joins

objects == <<event, open, mutant, section, spin, dpc>>
process == <<registered, stop, main>>
vars == <<thread, objects, process>>

-----------------------------------------------------------------------------
(* Threads.  "at" is where the thread is, "on" the object it is there for, *)
(* "all" and "forever" how it notifies or waits, "todo" the second half of *)
(* a call that signals first.                                              *)

At(place, on) ==
    [at |-> place, on |-> on, all |-> FALSE, forever |-> FALSE, todo |-> <<>>]
Run == At("running", NoHandle)
Ended == At("ended", NoHandle)          \* GuestThreadTerminated was caught
Returned == At("returned", NoHandle)    \* the entry function came back

Gone(t) == thread[t] \in {Ended, Returned}
Alive == main.at \notin {"stopped", "aborted"}

\* Thread t runs guest code and makes a call.
Calls(t) == Alive /\ thread[t] = Run

Goes(t, where) == thread' = [thread EXCEPT ![t] = where]

\* Mutant: the level stays with the thread (before r421).
UnwindsKeeping(t) == Goes(t, Ended) /\ UNCHANGED dpc

\* GuestThreadTerminated reaches the catch of the thread's entry: the DPC
\* level is given back, a mutant or a section it owns is not.
Unwinds(t) ==
    /\ Goes(t, Ended)
    /\ dpc' = IF dpc.owner = t THEN [owner |-> NoThread, depth |-> 0] ELSE dpc

Free == [owner |-> NoThread, depth |-> 0]
Takeable(lock, t) == lock.owner \in {NoThread, t} /\ lock.depth < MaxDepth
Taken(lock, t) == [owner |-> t, depth |-> lock.depth + 1]
Dropped(lock) ==
    IF lock.depth = 1 THEN Free ELSE [lock EXCEPT !.depth = @ - 1]

-----------------------------------------------------------------------------
(* Events: semaphores and timers are auto-reset events.                    *)

Unknown == [known |-> FALSE, manual |-> FALSE, signaled |-> FALSE, credits |-> 0]
NewEvent(manual, signaled) ==
    [known |-> TRUE, manual |-> manual, signaled |-> signaled, credits |-> 0]

\* set_event() under the mutex; an unknown key makes an auto-reset event.
Signaled(e) ==
    [e EXCEPT !.known = TRUE, !.signaled = TRUE,
              !.credits = IF e.manual THEN @ ELSE @ + 1]

Cleared(e) == [e EXCEPT !.known = TRUE, !.signaled = FALSE, !.credits = 0]

Claimable(e) ==
    e.known /\ (IF e.manual THEN e.signaled ELSE e.credits > 0)

\* try_claim: the last credit takes the signal with it.
Claimed(e) ==
    IF e.manual THEN e
    ELSE [e EXCEPT !.credits = @ - 1, !.signaled = e.credits > 1]

\* g_next_handle only grows: a handle comes again only when nothing of its
\* first life is left.
Fresh(h) ==
    /\ h \notin open /\ ~event[h].known
    /\ \A u \in Threads : thread[u].on # h /\ h \notin ToSet(thread[u].todo)

Notifying(h, all, todo) ==
    [At("notifying", h) EXCEPT !.all = all, !.todo = todo]

CreateEvent(t, h, manual, signaled) ==
    /\ Calls(t) /\ Fresh(h)
    /\ event' = [event EXCEPT ![h] = NewEvent(manual, signaled)]
    /\ open' = open \cup {h}
    /\ UNCHANGED <<thread, mutant, section, spin, dpc, process>>

\* Mutant: only the edge of the signal is notified (before r285).
SignalOnEdge(t, h, todo) ==
    /\ Calls(t) /\ h \in open
    /\ event[h].credits < MaxCredits
    /\ event' = [event EXCEPT ![h] = Signaled(@)]
    /\ Goes(t, IF event[h].signaled THEN [Run EXCEPT !.todo = todo]
               ELSE Notifying(h, event[h].manual, todo))
    /\ UNCHANGED <<open, mutant, section, spin, dpc, process>>

\* NtSetEvent, KeSetEvent, NtReleaseSemaphore, the signal of
\* NtSignalAndWaitForSingleObjectEx and of NtPulseEvent, and on the handle
\* of a thread NtResumeThread.
Signal(t, h, todo) ==
    /\ Calls(t) /\ h \in open
    /\ event[h].credits < MaxCredits
    /\ event' = [event EXCEPT ![h] = Signaled(@)]
    /\ Goes(t, Notifying(h, event[h].manual, todo))
    /\ UNCHANGED <<open, mutant, section, spin, dpc, process>>

SetEvent(t, h) == h \in Events /\ Signal(t, h, <<>>)
\* A guest resumes what it made suspended.
ResumeThread(t, c) == c \in Workers /\ event[c].known /\ Signal(t, c, <<>>)
SignalAndWait(t, h, k, forever) == Signal(t, h, <<"wait", k, forever>>)
PulseEvent(t, h) == h \in Events /\ Signal(t, h, <<"clear", h>>)

Clear(t, h) ==
    /\ event' = [event EXCEPT ![h] = Cleared(@)]
    /\ Goes(t, Notifying(h, TRUE, <<>>))
    /\ UNCHANGED <<open, mutant, section, spin, dpc, process>>

ClearEvent(t, h) == Calls(t) /\ h \in open \cap Events /\ Clear(t, h)

\* The second half of a pulse.
Pulsed(t) ==
    /\ Alive
    /\ thread[t].at = "running" /\ Len(thread[t].todo) = 2
    /\ Clear(t, thread[t].todo[2])

Sleepers(h) == {u \in Threads : thread[u].at = "asleep" /\ thread[u].on = h}
Wake(u) == [thread[u] EXCEPT !.at = "woken"]

\* notify_all or notify_one, after the mutex is released.
Notify(t) ==
    LET n == thread[t]
        after == [Run EXCEPT !.todo = n.todo]
    IN  /\ Alive /\ n.at = "notifying"
        /\ \E woken \in SUBSET Sleepers(n.on) :
              /\ IF n.all THEN woken = Sleepers(n.on)
                 ELSE Cardinality(woken) = IF Sleepers(n.on) = {} THEN 0 ELSE 1
              /\ thread' = [u \in Threads |->
                              IF u = t THEN after
                              ELSE IF u \in woken THEN Wake(u) ELSE thread[u]]
        /\ UNCHANGED <<objects, process>>

\* NtClose wakes and erases under the mutex.  A thread about to notify the
\* erased event holds it alone.
Close(t, h) ==
    /\ Calls(t) /\ h \in open
    /\ open' = open \ {h}
    /\ event' = [event EXCEPT ![h] = Unknown]
    /\ thread' = [u \in Threads |->
                    IF u \in Sleepers(h) THEN Wake(u)
                    ELSE IF thread[u].at = "notifying" /\ thread[u].on = h
                         THEN [thread[u] EXCEPT !.on = NoHandle]
                    ELSE thread[u]]
    /\ UNCHANGED <<mutant, section, spin, dpc, process>>

Sleeping(h, forever) == [At("asleep", h) EXCEPT !.forever = forever]

WaitEvent(t, h, forever) ==
    /\ \/ stop /\ Unwinds(t) /\ UNCHANGED event
       \/ /\ ~stop /\ Claimable(event[h])
          /\ event' = [event EXCEPT ![h] = Claimed(@)]
          /\ Goes(t, Run) /\ UNCHANGED dpc
       \/ /\ ~stop /\ event[h].known /\ ~Claimable(event[h])
          /\ Goes(t, Sleeping(h, forever))
          /\ UNCHANGED <<event, dpc>>
       \/ /\ ~stop /\ ~event[h].known
          /\ Goes(t, Run) /\ UNCHANGED <<event, dpc>>
    /\ UNCHANGED <<open, mutant, section, spin, process>>

\* The wait is over: the event is claimed if it can be, and the stop flag
\* ends the thread after that.
LeavesWait(t, h) ==
    /\ event' = IF Claimable(event[h]) THEN [event EXCEPT ![h] = Claimed(@)] ELSE event
    /\ IF stop THEN Unwinds(t) ELSE Goes(t, Run) /\ UNCHANGED dpc
    /\ UNCHANGED <<open, mutant, section, spin, process>>

EventWakes(t) ==
    LET h == thread[t].on IN
    /\ Alive /\ thread[t].at = "woken" /\ h \in Handles
    /\ IF stop \/ ~event[h].known \/ Claimable(event[h])
       THEN LeavesWait(t, h)
       ELSE /\ Goes(t, Sleeping(h, thread[t].forever))
            /\ UNCHANGED <<objects, process>>

\* wait_for() returns at its deadline, or before it if the predicate holds.
EventTimesOut(t) ==
    /\ Alive /\ thread[t].at = "asleep" /\ thread[t].on \in Handles
    /\ ~thread[t].forever
    /\ LeavesWait(t, thread[t].on)

-----------------------------------------------------------------------------
(* Mutants.                                                                *)

CreateMutant(t, m, owned) ==
    /\ Calls(t) /\ m \notin open
    /\ open' = open \cup {m}
    /\ mutant' = [mutant EXCEPT ![m] = IF owned THEN Taken(Free, t) ELSE Free]
    /\ UNCHANGED <<thread, event, section, spin, dpc, process>>

Acquire(t, m) ==
    /\ Takeable(mutant[m], t)
    /\ mutant' = [mutant EXCEPT ![m] = Taken(@, t)]
    /\ Goes(t, Run)
    /\ UNCHANGED <<event, open, section, spin, dpc, process>>

WaitMutant(t, m, forever) ==
    \/ stop /\ Unwinds(t) /\ UNCHANGED <<event, open, mutant, section, spin, process>>
    \/ ~stop /\ Acquire(t, m)
    \/ /\ ~stop /\ mutant[m].owner \notin {NoThread, t}
       /\ Goes(t, IF forever THEN Sleeping(m, TRUE) ELSE At("retrying", m))
       /\ UNCHANGED <<objects, process>>

MutantWakes(t) ==
    LET m == thread[t].on IN
    /\ Alive /\ thread[t].at = "woken" /\ m \in Mutants
    /\ IF stop
       THEN Unwinds(t) /\ UNCHANGED <<event, open, mutant, section, spin, process>>
       ELSE \/ Acquire(t, m)
            \/ /\ mutant[m].owner # NoThread
               /\ Goes(t, Sleeping(m, TRUE))
               /\ UNCHANGED <<objects, process>>

\* Two milliseconds of attempts, whatever the wait mode says.
Retries(t) ==
    /\ Alive /\ thread[t].at = "retrying"
    /\ \/ Acquire(t, thread[t].on)
       \/ mutant[thread[t].on].owner # NoThread /\ Goes(t, Run)
                                                /\ UNCHANGED <<objects, process>>

\* Only the owner releases, and every release is notified.
ReleaseThen(t, m, todo) ==
    /\ Calls(t) /\ m \in open \cap Mutants
    /\ IF mutant[m].owner = t
       THEN /\ mutant' = [mutant EXCEPT ![m] = Dropped(@)]
            /\ Goes(t, Notifying(m, TRUE, todo))
       ELSE /\ todo # <<>> /\ UNCHANGED mutant
            /\ Goes(t, [Run EXCEPT !.todo = todo])
    /\ UNCHANGED <<event, open, section, spin, dpc, process>>

ReleaseMutant(t, m) == ReleaseThen(t, m, <<>>)
ReleaseAndWait(t, m, k, forever) == ReleaseThen(t, m, <<"wait", k, forever>>)

-----------------------------------------------------------------------------
(* Waits on either kind.                                                   *)

WaitObject(t, k, forever) ==
    IF k \in Mutants THEN WaitMutant(t, k, forever) ELSE WaitEvent(t, k, forever)

Wait(t, k, forever) == Calls(t) /\ k \in open /\ WaitObject(t, k, forever)

\* The second half of NtSignalAndWaitForSingleObjectEx.
ThenWaits(t) ==
    /\ Alive /\ thread[t].at = "running"
    /\ Len(thread[t].todo) = 3
    /\ WaitObject(t, thread[t].todo[2], thread[t].todo[3])

-----------------------------------------------------------------------------
(* Critical sections and the DPC level.                                    *)

\* Mutant: a contended section is not interrupted by the stop flag (before r282).
TryLockUnaware(t, s) ==
    \/ /\ Takeable(section[s], t)
       /\ section' = [section EXCEPT ![s] = Taken(@, t)]
       /\ Goes(t, Run) /\ UNCHANGED dpc
    \/ /\ section[s].owner \notin {NoThread, t}
       /\ Goes(t, At("polling", s)) /\ UNCHANGED <<section, dpc>>

\* try_lock() first; the stop flag is looked at after each failure.
TryLock(t, s) ==
    \/ /\ Takeable(section[s], t)
       /\ section' = [section EXCEPT ![s] = Taken(@, t)]
       /\ Goes(t, Run) /\ UNCHANGED dpc
    \/ /\ section[s].owner \notin {NoThread, t} /\ UNCHANGED section
       /\ IF stop THEN Unwinds(t)
          ELSE Goes(t, At("polling", s)) /\ UNCHANGED dpc

EnterSection(t, s) ==
    /\ Calls(t) /\ TryLock(t, s)
    /\ UNCHANGED <<event, open, mutant, spin, process>>

Polls(t) ==
    /\ Alive /\ thread[t].at = "polling" /\ TryLock(t, thread[t].on)
    /\ UNCHANGED <<event, open, mutant, spin, process>>

LeaveSection(t, s) ==
    /\ Calls(t) /\ section[s].owner = t
    /\ section' = [section EXCEPT ![s] = Dropped(@)]
    /\ UNCHANGED <<thread, event, open, mutant, spin, dpc, process>>

\* A blocking lock(): no stop flag.
RaiseIrql(t) ==
    /\ Calls(t) /\ t \in Raisers
    /\ \/ Takeable(dpc, t) /\ dpc' = Taken(dpc, t) /\ UNCHANGED thread
       \/ dpc.owner \notin {NoThread, t} /\ Goes(t, At("raising", NoHandle))
                                         /\ UNCHANGED dpc
    /\ UNCHANGED <<event, open, mutant, section, spin, process>>

GetsDpcLevel(t) ==
    /\ Alive /\ thread[t].at = "raising" /\ dpc = Free
    /\ dpc' = Taken(dpc, t) /\ Goes(t, Run)
    /\ UNCHANGED <<event, open, mutant, section, spin, process>>

LowerIrql(t) ==
    /\ Calls(t) /\ dpc.owner = t
    /\ dpc' = Dropped(dpc)
    /\ UNCHANGED <<thread, event, open, mutant, section, spin, process>>

-----------------------------------------------------------------------------
(* Spin locks: a mutex that is not recursive and not interrupted by the    *)
(* stop flag; no unwinding gives it back.                                  *)

\* The attempt of KeTryToAcquireSpinLockAtRaisedIrql takes it or leaves all
\* as it is.
AcquireSpinLock(t, l) ==
    /\ Calls(t)
    /\ \/ spin[l] = NoThread /\ spin' = [spin EXCEPT ![l] = t] /\ UNCHANGED thread
       \/ spin[l] # NoThread /\ Goes(t, At("spinning", l)) /\ UNCHANGED spin
    /\ UNCHANGED <<event, open, mutant, section, dpc, process>>

GetsSpinLock(t) ==
    /\ Alive /\ thread[t].at = "spinning" /\ spin[thread[t].on] = NoThread
    /\ spin' = [spin EXCEPT ![thread[t].on] = t] /\ Goes(t, Run)
    /\ UNCHANGED <<event, open, mutant, section, dpc, process>>

ReleaseSpinLock(t, l) ==
    /\ Calls(t) /\ spin[l] = t
    /\ spin' = [spin EXCEPT ![l] = NoThread]
    /\ UNCHANGED <<thread, event, open, mutant, section, dpc, process>>

-----------------------------------------------------------------------------
(* Threads and the shutdown.                                               *)

\* The handle is out and the host thread runs before it is registered.
CreateThread(t, c, suspended) ==
    /\ Calls(t) /\ thread[c].at = "unborn"
    /\ open' = open \cup {c}
    /\ event' = IF suspended THEN [event EXCEPT ![c] = NewEvent(TRUE, FALSE)] ELSE event
    /\ thread' = [thread EXCEPT
                    ![t] = At("registering", c),
                    ![c] = IF suspended THEN At("parked", c) ELSE Run]
    /\ UNCHANGED <<mutant, section, spin, dpc, process>>

Register(t) ==
    /\ Alive /\ thread[t].at = "registering"
    /\ registered' = registered \cup {thread[t].on}
    /\ Goes(t, Run)
    /\ UNCHANGED <<objects, stop, main>>

\* park_until_resumed() is called outside the try block: what it throws
\* ends the process.
Unparks(c) ==
    /\ Alive /\ thread[c].at = "parked"
    /\ IF stop
       THEN /\ main' = [main EXCEPT !.at = "aborted"]
            /\ UNCHANGED <<thread, objects, registered, stop>>
       ELSE /\ ~event[c].known \/ event[c].signaled
            /\ Goes(c, Run)
            /\ UNCHANGED <<objects, process>>

\* ExTerminateThread; once the flag is set, any wait, delay or contended
\* section.
Terminates(t) ==
    /\ Calls(t) /\ Unwinds(t)
    /\ UNCHANGED <<event, open, mutant, section, spin, process>>

\* The entry function returns: no catch, and the DPC level is not looked at.
Returns(t) == Calls(t) /\ Goes(t, Returned) /\ UNCHANGED <<objects, process>>

RequestStop ==
    /\ main.at = "running"
    /\ stop' = TRUE
    /\ main' = [main EXCEPT !.at = "stopping"]
    /\ UNCHANGED <<thread, objects, registered>>

SwapRegistry ==
    /\ main.at = "stopping"
    /\ main' = [at |-> "joining", joins |-> registered]
    /\ registered' = {}
    /\ UNCHANGED <<thread, objects, stop>>

Join ==
    /\ main.at = "joining"
    /\ \A w \in main.joins : Gone(w)
    /\ main' = [main EXCEPT !.at = "stopped"]
    /\ UNCHANGED <<thread, objects, registered, stop>>

-----------------------------------------------------------------------------
Init ==
    /\ thread = [t \in Threads |-> IF t = Entry THEN Run ELSE At("unborn", NoHandle)]
    /\ event = [h \in Handles |-> Unknown]
    /\ open = {}
    /\ mutant = [m \in Mutants |-> Free]
    /\ section = [s \in Sections |-> Free]
    /\ spin = [l \in SpinLocks |-> NoThread]
    /\ dpc = Free
    /\ registered = {}
    /\ stop = FALSE
    /\ main = [at |-> "running", joins |-> {}]

GuestCalls(t) ==
    \/ \E h \in Handles :
          \/ SetEvent(t, h) \/ ClearEvent(t, h) \/ PulseEvent(t, h)
          \/ ResumeThread(t, h) \/ Close(t, h)
    \/ \E h \in Events, manual, signaled \in BOOLEAN :
          CreateEvent(t, h, manual, signaled)
    \/ \E m \in Mutants : ReleaseMutant(t, m)
    \/ \E m \in Mutants, owned \in BOOLEAN : CreateMutant(t, m, owned)
    \/ \E k \in Events \cup Mutants, forever \in BOOLEAN :
          \/ Wait(t, k, forever)
          \/ /\ k \in open /\ (k \in Mutants => mutant[k].depth < MaxDepth)
             /\ \/ \E h \in Events : SignalAndWait(t, h, k, forever)
                \/ \E m \in Mutants : ReleaseAndWait(t, m, k, forever)
    \/ \E s \in Sections : EnterSection(t, s) \/ LeaveSection(t, s)
    \/ RaiseIrql(t) \/ LowerIrql(t)
    \/ \E l \in SpinLocks : AcquireSpinLock(t, l) \/ ReleaseSpinLock(t, l)
    \/ \E c \in Workers, suspended \in BOOLEAN : CreateThread(t, c, suspended)
    \/ Terminates(t) \/ Returns(t)

KernelContinues(t) ==
    \/ Notify(t) \/ Pulsed(t) \/ ThenWaits(t)
    \/ EventWakes(t) \/ EventTimesOut(t)
    \/ MutantWakes(t) \/ Retries(t)
    \/ Polls(t) \/ GetsDpcLevel(t) \/ GetsSpinLock(t)
    \/ Register(t) \/ Unparks(t)

Shutdown == RequestStop \/ SwapRegistry \/ Join

Next ==
    \/ \E t \in Threads : GuestCalls(t) \/ KernelContinues(t)
    \/ Shutdown

\* A thread in the kernel goes on; a guest loop comes back to a wait or a
\* delay, and that ends it once the flag is set.
Fairness ==
    /\ WF_vars(SwapRegistry) /\ WF_vars(Join)
    /\ \A t \in Threads :
          WF_vars(KernelContinues(t)) /\ SF_vars(stop /\ Terminates(t))

Spec == Init /\ [][Next]_vars /\ Fairness

-----------------------------------------------------------------------------
(* Properties.                                                             *)

Places == {"unborn", "parked", "running", "notifying", "asleep", "woken",
           "retrying", "polling", "raising", "spinning", "registering",
           "ended", "returned"}
Locks == [owner : Threads \cup {NoThread}, depth : 0..MaxDepth]

\* Every variable is in the range the code gives it; a manual-reset event
\* gathers no credit, credit means signaled, and a lock has an owner as long
\* as it has a depth.
TypeOK ==
    /\ \A t \in Threads : thread[t].at \in Places
    /\ \A h \in Handles :
          /\ event[h].credits \in 0..MaxCredits
          /\ event[h].credits > 0 => event[h].signaled /\ ~event[h].manual
    /\ open \subseteq Handles \cup Mutants
    /\ \A lock \in {mutant[m] : m \in Mutants} \cup {section[s] : s \in Sections}
                  \cup {dpc} :
          lock \in Locks /\ (lock.owner = NoThread <=> lock.depth = 0)
    /\ spin \in [SpinLocks -> Threads \cup {NoThread}]
    /\ registered \subseteq Workers /\ main.joins \subseteq Workers
    /\ stop <=> main.at # "running"

\* No wake-up is lost: if a thread sleeps on an object that could be claimed,
\* some thread has been woken for it or is about to notify.
NoLostWakeup ==
    /\ \A h \in Handles :
          Claimable(event[h]) /\ Sleepers(h) # {} =>
             \E u \in Threads : thread[u].at \in {"woken", "notifying"} /\ thread[u].on = h
    /\ \A m \in Mutants :
          mutant[m].owner = NoThread /\ Sleepers(m) # {} =>
             \E u \in Threads : thread[u].at \in {"woken", "notifying"} /\ thread[u].on = m

\* A thread that is terminated, wherever it is, gives back the DPC level it
\* had raised.  One whose entry function returns keeps it.
DpcIsNotOrphaned ==
    TypeOK /\ (dpc.owner # NoThread => thread[dpc.owner] # Ended)

\* The threads of D cannot go on: each is in a wait without a bound, or in a
\* lock() for what another of them holds, or for what was never given back.
Stuck(D) ==
    \A t \in D :
       \/ thread[t].at = "asleep" /\ thread[t].forever
       \/ /\ thread[t].at \in {"spinning", "raising"}
          /\ \E u \in Threads :
                /\ u \in D \/ Gone(u)
                /\ u = IF thread[t].at = "raising" THEN dpc.owner
                       ELSE spin[thread[t].on]

\* The shutdown ends, or a thread it joins is stuck: no critical section
\* left behind, no loop of calls, no wait with a bound and no order of the
\* unwinding keeps it.
ShutdownEnds ==
    <>[](main.at = "joining" =>
            \E D \in SUBSET Threads : Stuck(D) /\ D \cap main.joins # {})

-----------------------------------------------------------------------------
(* What the documentation says and the code does not do.                   *)

\* "native_guest_threads_stop_and_join() calls this to wake every parked
\* waiter" (materialize_native_import_stubs.py:718): it does not, and the
\* join waits for them.
ShutdownJoins == main.at = "joining" ~> main.at # "joining"

\* "shutdown ends parked threads through their entry lambda's
\* GuestThreadTerminated catch" (materialize_native_import_stubs.py:813): the
\* process ends by returning, not by an exception of a thread.
NoAbort == main.at # "aborted"

\* "joins every ExCreateThread worker before the runtime tears down"
\* (native_runtime.h:38).
WorkersJoined ==
    main.at = "stopped" => \A w \in Workers : thread[w].at = "unborn" \/ Gone(w)
=============================================================================
