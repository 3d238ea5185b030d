------------------------------ MODULE Harness ------------------------------
(***************************************************************************)
(* AgentHarness (harness/core.py, harness/_control.py): one agent's Runs,  *)
(* controls and lifecycle on an asyncio event loop.                        *)
(*                                                                         *)
(* A task executes alone from one suspension to the next: running names    *)
(* it, ready is the loop's FIFO of tasks that may go on, and an action     *)
(* guarded by running = t is a stretch of t's code without a suspension.   *)
(* An asyncio.Lock is the FIFO of the tasks that own it (the head) or wait *)
(* for it.  Application code calls the Harness between two such stretches. *)
(* The Kernel, the SessionStore, the resources and the observers are their *)
(* callers' view of them: each answers some time later, in every way its   *)
(* contract allows.                                                        *)
(***************************************************************************)
EXTENDS Integers, FiniteSets, SequencesExt

CONSTANTS
  Callers,          \* tasks that call run() or continue_run()
  Closers,          \* tasks that call shutdown()
  Worker,           \* the task of _run_follow_ups
  FollowUps,        \* the follow-ups an application submits
  Inputs,           \* its steering inputs
  Impatient,        \* the tasks it may cancel while they wait for a lock
  None,             \* no task, no follow-up
  Resources,        \* how many ManagedResources the Harness owns
  SteeringCapacity, \* steering_capacity
  FollowUpCapacity  \* follow_up_capacity

ASSUME HarnessAssumption ==
  /\ Callers \cap Closers = {}
  /\ Worker \notin Callers \cup Closers
  /\ Impatient \subseteq Callers \cup Closers
  /\ None \notin Callers \cup Closers \cup {Worker} \cup FollowUps
  /\ Resources \in Nat \ {0}
  /\ SteeringCapacity \in Nat \ {0} /\ FollowUpCapacity \in Nat \ {0}

Tasks == Callers \cup Closers \cup {Worker}

VARIABLES
  ready, running,   \* the event loop
  pc,               \* per task: where it is
  lifecycle,        \* _lifecycle_lock
  runLock,          \* _run_lock
  status, closing,  \* _status, _closing
  live,             \* resources that are started
  queue,            \* _follow_ups
  outstanding,      \* _outstanding_follow_ups
  serving,          \* the follow-up the worker executes
  handle,           \* per follow-up: what its FollowUpHandle holds
  accepted,         \* history: the accepted follow-ups in order
  token,            \* _active_cancellation: none, active or cancelled
  admitting,        \* whether _active_controls is there and open
  steering,         \* the active Run's queued inputs
  fate,             \* per steering input: what became of it
  base,             \* revision the active Run started from
  snapshot,         \* revision of _snapshot
  stored,           \* revision the SessionStore has recorded
  advances,         \* whether the outcome being committed is COMPLETED
  observing,        \* observer tasks that have not ended
  result            \* per task: how its latest call ended

loop == <<ready, running>>
locks == <<lifecycle, runLock>>
phase == <<status, closing, live>>
followUps == <<queue, outstanding, serving, handle, accepted>>
controls == <<token, admitting, steering, fate>>
session == <<base, snapshot, stored, advances>>
vars == <<ready, running, pc, lifecycle, runLock, status, closing, live, queue,
          outstanding, serving, handle, accepted, token, admitting, steering,
          fate, base, snapshot, stored, advances, observing, result>>

Init ==
  /\ ready = <<>> /\ running = None
  /\ pc = [t \in Tasks |-> "idle"]
  /\ lifecycle = <<>> /\ runLock = <<>>
  /\ status = "new" /\ closing = FALSE /\ live = 0
  /\ queue = <<>> /\ outstanding = 0 /\ serving = None
  /\ handle = [f \in FollowUps |-> "unused"] /\ accepted = <<>>
  /\ token = "none" /\ admitting = FALSE /\ steering = <<>>
  /\ fate = [i \in Inputs |-> "unused"]
  /\ base = 0 /\ snapshot = 0 /\ stored = 0 /\ advances = FALSE
  /\ observing = 0
  /\ result = [t \in Tasks |-> "none"]

Goto(t, from, to) == running = t /\ pc[t] = from /\ pc' = [pc EXCEPT ![t] = to]

(* the running task suspends *)
Suspend == running' = None /\ UNCHANGED ready

(* the shutdown, if any, that awaits something at this place: it holds
   _lifecycle_lock, so there is never a second one *)
Awaiting(place) ==
  IF \E s \in Closers : pc[s] = place
    THEN <<CHOOSE s \in Closers : pc[s] = place>> ELSE <<>>

(* the loop's FIFO r once the next owner of a released lock is woken; one that
   is cancelled is there already *)
Woken(lock, r) ==
  IF Len(lock) = 1 \/ lock[2] \in ToSet(r) THEN r ELSE Append(r, lock[2])

-----------------------------------------------------------------------------
(* The event loop *)
Resume ==
  /\ running = None /\ ready # <<>>
  /\ running' = Head(ready) /\ ready' = Tail(ready)
  /\ UNCHANGED <<pc, locks, phase, followUps, controls, session, observing, result>>

(* a resource, the Kernel or the Store has answered the task awaiting it *)
Answer(t) ==
  /\ running = None /\ t \notin ToSet(ready)
  /\ pc[t] \in {"starting", "loading", "undoing", "kernel", "committing", "releasing"}
  /\ ready' = Append(ready, t)
  /\ UNCHANGED <<running, pc, locks, phase, followUps, controls, session,
                 observing, result>>

(* observe() of one observer task returns or raises (_observer_done); the
   last one ends the gather of _flush_observers *)
ObserverDone ==
  /\ running = None /\ observing > 0
  /\ observing' = observing - 1
  /\ ready' = IF observing = 1 THEN ready \o Awaiting("flushing") ELSE ready
  /\ UNCHANGED <<running, pc, locks, phase, followUps, controls, session, result>>

-----------------------------------------------------------------------------
(* The application *)
CallRun(t) ==
  /\ running = None /\ pc[t] = "idle" /\ t \in Callers
  /\ running' = t
  /\ pc' = [pc EXCEPT ![t] = "entering"]
  /\ UNCHANGED <<ready, locks, phase, followUps, controls, session, observing, result>>

CallShutdown(t) ==
  /\ running = None /\ pc[t] = "idle" /\ t \in Closers
  /\ running' = t
  /\ pc' = [pc EXCEPT ![t] = "entering"]
  /\ UNCHANGED <<ready, locks, phase, followUps, controls, session, observing, result>>

Cancel ==
  /\ running = None /\ token = "active"
  /\ token' = "cancelled"
  /\ UNCHANGED <<loop, pc, locks, phase, followUps, admitting, steering, fate,
                 session, observing, result>>

(* task.cancel() of a call that waits for a lock, or was just woken for it *)
Abandon(t) ==
  /\ running = None /\ pc[t] \in {"gate", "slot"}
  /\ pc' = [pc EXCEPT ![t] = "leaving"]
  /\ ready' = IF t \in ToSet(ready) THEN ready ELSE Append(ready, t)
  /\ UNCHANGED <<running, locks, phase, followUps, controls, session, observing, result>>

Closed == closing \/ status = "closed"

Steer(i) ==
  /\ running = None /\ fate[i] = "unused"
  /\ IF ~Closed /\ status = "running" /\ admitting
          /\ Len(steering) < SteeringCapacity
       THEN /\ steering' = Append(steering, i)
            /\ fate' = [fate EXCEPT ![i] = "queued"]
       ELSE /\ fate' = [fate EXCEPT ![i] = "refused"]
            /\ UNCHANGED steering
  /\ UNCHANGED <<loop, pc, locks, phase, followUps, token, admitting, session,
                 observing, result>>

EnqueuedFirst(f) == <<f>> \o queue  \* mutant: appendleft
Enqueued(f) == Append(queue, f)

(* follow_up() starts the worker when there is none *)
FollowUp(f) ==
  /\ running = None /\ handle[f] = "unused"
  /\ IF ~Closed /\ status = "running" /\ outstanding < FollowUpCapacity
       THEN /\ handle' = [handle EXCEPT ![f] = "pending"]
            /\ accepted' = Append(accepted, f)
            /\ queue' = Enqueued(f)
            /\ outstanding' = outstanding + 1
            /\ IF pc[Worker] = "idle"
                 THEN /\ pc' = [pc EXCEPT ![Worker] = "serving"]
                      /\ ready' = Append(ready, Worker)
                 ELSE UNCHANGED <<pc, ready>>
       ELSE /\ handle' = [handle EXCEPT ![f] = "rejected"]
            /\ UNCHANGED <<accepted, queue, outstanding, pc, ready>>
  /\ UNCHANGED <<running, locks, phase, serving, controls, session, observing, result>>

-----------------------------------------------------------------------------
(* start() of a Run or shutdown() asks for _lifecycle_lock ... *)
Enter(t) ==
  /\ Goto(t, "entering", "gate")
  /\ lifecycle' = Append(lifecycle, t)
  /\ running' = IF lifecycle = <<>> THEN t ELSE None
  /\ UNCHANGED <<ready, runLock, phase, followUps, controls, session, observing, result>>

TakeSlotUnlocked(t) ==  \* mutant: Runs do not wait for each other
  /\ Goto(t, "queueing", "slot")
  /\ runLock' = Append(runLock, t)
  /\ running' = t
  /\ UNCHANGED <<ready, lifecycle, phase, followUps, controls, session, observing, result>>

(* ... and, past it, for _run_lock *)
TakeSlot(t) ==
  /\ Goto(t, "queueing", "slot")
  /\ runLock' = Append(runLock, t)
  /\ running' = IF runLock = <<>> THEN t ELSE None
  /\ UNCHANGED <<ready, lifecycle, phase, followUps, controls, session, observing, result>>

ReleaseLifecycle == lifecycle' = Tail(lifecycle) /\ ready' = Woken(lifecycle, ready)
ReleaseRunLock == runLock' = Tail(runLock) /\ ready' = Woken(runLock, ready)

(* _execute returns or raises: the caller is done, the worker settles its
   handle and goes on with its loop *)
End(t, how) ==
  /\ result' = [result EXCEPT ![t] = how]
  /\ IF t = Worker
       THEN /\ handle' = [handle EXCEPT ![serving] =
                           CASE how = "closed" -> "discarded"
                             [] how = "raised" -> "failed"
                             [] OTHER          -> "resolved"]
            /\ outstanding' = outstanding - 1
            /\ serving' = None
            /\ pc' = [pc EXCEPT ![t] = "serving"]
            /\ running' = t
       ELSE /\ pc' = [pc EXCEPT ![t] = "done"]
            /\ running' = None
            /\ UNCHANGED <<handle, outstanding, serving>>
  /\ UNCHANGED <<queue, accepted>>

Without(lock, t) ==
  IF t \in ToSet(lock) THEN RemoveAt(lock, CHOOSE i \in 1..Len(lock) : lock[i] = t) ELSE lock

(* CancelledError leaves the acquire(); what the task owned, or was woken for,
   goes to the next, the inner lock first *)
LeaveLocks(t) ==
  LET passed(lock, r) == IF lock # <<>> /\ Head(lock) = t THEN Woken(lock, r) ELSE r
  IN /\ running = t /\ pc[t] = "leaving"
     /\ lifecycle' = Without(lifecycle, t) /\ runLock' = Without(runLock, t)
     /\ ready' = passed(lifecycle, passed(runLock, ready))
     /\ End(t, "raised")
     /\ UNCHANGED <<phase, controls, session, observing>>

-----------------------------------------------------------------------------
(* A Run: start() *)
Runners == Callers \cup {Worker}

PassGate(t) ==
  /\ Goto(t, "gate", "queueing") /\ t \in Runners
  /\ status \in {"ready", "running"}
  /\ ReleaseLifecycle
  /\ UNCHANGED <<running, runLock, phase, followUps, controls, session,
                 observing, result>>

RefuseStart(t) ==
  /\ running = t /\ pc[t] = "gate" /\ t \in Runners
  /\ status \notin {"ready", "running"} /\ Closed
  /\ ReleaseLifecycle
  /\ End(t, "closed")
  /\ UNCHANGED <<runLock, phase, controls, session, observing>>

BeginStart(t) ==
  /\ Goto(t, "gate", "starting") /\ t \in Runners
  /\ status \notin {"ready", "running"} /\ ~Closed
  /\ status' = "starting"
  /\ Suspend
  /\ UNCHANGED <<locks, closing, live, followUps, controls, session, observing, result>>

(* resource.start(): the next one, or the rollback *)
StartResource(t) ==
  /\ running = t /\ pc[t] = "starting"
  /\ \/ /\ live' = live + 1
        /\ pc' = [pc EXCEPT ![t] = IF live' = Resources THEN "loading" ELSE "starting"]
        /\ Suspend
     \/ /\ pc' = [pc EXCEPT ![t] = "undoing"]
        /\ UNCHANGED <<loop, live>>
  /\ UNCHANGED <<locks, status, closing, followUps, controls, session, observing, result>>

Load(t) ==
  /\ running = t /\ pc[t] = "loading"
  /\ \/ /\ snapshot' = stored
        /\ status' = "ready"
        /\ pc' = [pc EXCEPT ![t] = "queueing"]
        /\ ReleaseLifecycle
     \/ /\ pc' = [pc EXCEPT ![t] = "undoing"]
        /\ UNCHANGED <<ready, lifecycle, status, snapshot>>
  /\ UNCHANGED <<running, runLock, closing, live, followUps, controls, base, stored,
                 advances, observing, result>>

(* _rollback_start *)
Undo(t) ==
  /\ running = t /\ pc[t] = "undoing"
  /\ UNCHANGED <<runLock, closing, controls, session, observing>>
  /\ IF live > 0
       THEN /\ live' = live - 1
            /\ Suspend
            /\ UNCHANGED <<pc, lifecycle, status, followUps, result>>
       ELSE /\ status' = "new"
            /\ ReleaseLifecycle
            /\ End(t, "raised")
            /\ UNCHANGED live

-----------------------------------------------------------------------------
(* A Run: with _run_lock *)
RefuseRunHolding(t) ==  \* mutant: the error leaves _run_lock taken
  /\ running = t /\ pc[t] = "slot" /\ t \in Runners /\ Closed
  /\ End(t, "closed")
  /\ UNCHANGED <<ready, locks, phase, controls, session, observing>>

RefuseRun(t) ==
  /\ running = t /\ pc[t] = "slot" /\ t \in Runners /\ Closed
  /\ ReleaseRunLock
  /\ End(t, "closed")
  /\ UNCHANGED <<lifecycle, phase, controls, session, observing>>

BeginRun(t) ==
  /\ Goto(t, "slot", "kernel") /\ t \in Runners /\ ~Closed
  /\ status' = "running"
  /\ base' = snapshot
  /\ token' = "active" /\ admitting' = TRUE
  /\ Suspend
  /\ UNCHANGED <<locks, closing, live, followUps, steering, fate, snapshot, stored,
                 advances, observing, result>>

DrainNothing(how) == UNCHANGED <<steering, fate>>  \* mutant: close() only closes

(* drain_steering() and what becomes of the inputs it returns *)
Drain(how) ==
  /\ steering' = <<>>
  /\ fate' = [i \in Inputs |-> IF i \in ToSet(steering) THEN how ELSE fate[i]]

(* the Kernel drains the queue at a safe point of a Run not cancelled *)
DrainSteering(t) ==
  /\ running = t /\ pc[t] = "kernel"
  /\ token = "active" /\ steering # <<>>
  /\ Drain("applied")
  /\ Suspend
  /\ UNCHANGED <<pc, locks, phase, followUps, token, admitting, session,
                 observing, result>>

(* the Kernel, or a planner that refuses or is cancelled, returns an outcome,
   COMPLETED or not: what is still queued is recorded as steering_discarded in
   its audit, and the commit begins *)
Finish(t) ==
  /\ Goto(t, "kernel", "committing")
  /\ advances' \in BOOLEAN
  /\ admitting' = FALSE
  /\ Drain("discarded")
  /\ Suspend
  /\ UNCHANGED <<locks, phase, followUps, token, base, snapshot, stored, observing, result>>

(* the finally of _execute, at the end of every Run; what is queued then is
   drained without a record *)
CloseRun(t, how) ==
  /\ token' = "none" /\ admitting' = FALSE
  /\ Drain("lost")
  /\ status' = IF closing THEN status ELSE "ready"
  /\ ReleaseRunLock
  /\ End(t, how)
  /\ UNCHANGED <<lifecycle, closing, live>>

(* a protocol error, an undeclared error or CancelledError escapes *)
KernelRaises(t) ==
  /\ running = t /\ pc[t] = "kernel"
  /\ CloseRun(t, "raised")
  /\ UNCHANGED <<session, observing>>

Resulting == IF advances THEN base + 1 ELSE base

(* _commit with a Store: it accepts, or fails before or after it recorded
   the Run; observers hear of the outcome either way *)
Commit(t) ==
  /\ running = t /\ pc[t] = "committing"
  /\ observing' = observing + 1
  /\ UNCHANGED <<base, advances>>
  /\ \/ /\ stored = base
        /\ stored' = Resulting /\ snapshot' = Resulting
        /\ CloseRun(t, IF advances THEN "completed" ELSE "other")
     \/ /\ stored' \in (IF stored = base THEN {stored, Resulting} ELSE {stored})
        /\ UNCHANGED snapshot
        /\ CloseRun(t, "unsaved")

(* SessionStoreProtocolError or CancelledError escapes; the Run may be stored *)
CommitRaises(t) ==
  /\ running = t /\ pc[t] = "committing"
  /\ stored' \in (IF stored = base THEN {stored, Resulting} ELSE {stored})
  /\ CloseRun(t, "raised")
  /\ UNCHANGED <<base, snapshot, advances, observing>>

-----------------------------------------------------------------------------
(* _run_follow_ups *)
NextFollowUp ==
  /\ running = Worker /\ pc[Worker] = "serving" /\ queue # <<>>
  /\ queue' = Tail(queue)
  /\ IF closing
       THEN /\ handle' = [handle EXCEPT ![Head(queue)] = "discarded"]
            /\ outstanding' = outstanding - 1
            /\ UNCHANGED <<pc, serving>>
       ELSE /\ serving' = Head(queue)
            /\ pc' = [pc EXCEPT ![Worker] = "entering"]
            /\ UNCHANGED <<handle, outstanding>>
  /\ UNCHANGED <<loop, locks, phase, accepted, controls, session, observing, result>>

WorkerEnds ==
  /\ running = Worker /\ pc[Worker] = "serving" /\ queue = <<>>
  /\ pc' = [pc EXCEPT ![Worker] = "idle"]
  /\ running' = None
  /\ ready' = ready \o Awaiting("joining")
  /\ UNCHANGED <<locks, phase, followUps, controls, session, observing, result>>

-----------------------------------------------------------------------------
(* shutdown() *)
AlreadyClosed(t) ==
  /\ Goto(t, "gate", "done") /\ t \in Closers
  /\ status = "closed"
  /\ ReleaseLifecycle
  /\ running' = None
  /\ UNCHANGED <<runLock, phase, followUps, controls, session, observing, result>>

DiscardedNone == {}                                \* mutant: handles are forgotten
Discarded == ToSet(queue)

UndiscardedForgotten == outstanding  \* mutant: the counter is left alone
Undiscarded == outstanding - Len(queue)

(* shutdown() up to its wait for _run_lock, with _discard_pending_follow_ups *)
BeginClosing(t) ==
  /\ Goto(t, "gate", "queueing") /\ t \in Closers
  /\ status # "closed"
  /\ closing' = TRUE /\ status' = "stopping"
  /\ handle' = [f \in FollowUps |-> IF f \in Discarded THEN "discarded" ELSE handle[f]]
  /\ outstanding' = Undiscarded
  /\ queue' = <<>>
  /\ token' = IF token = "active" THEN "cancelled" ELSE token
  /\ UNCHANGED <<loop, locks, live, serving, accepted, admitting, steering, fate,
                 session, observing, result>>

FlushAtOnce(t) ==  \* mutant: observer tasks are not awaited
  /\ running = t /\ pc[t] \in {"slot", "flushing"} /\ t \in Closers
  /\ pc' = [pc EXCEPT ![t] = "releasing"]
  /\ UNCHANGED <<loop, locks, phase, followUps, controls, session, observing, result>>

(* _flush_observers, then the resources in reverse order *)
Flush(t) ==
  /\ running = t /\ pc[t] \in {"slot", "flushing"} /\ t \in Closers
  /\ IF observing > 0
       THEN pc' = [pc EXCEPT ![t] = "flushing"] /\ Suspend
       ELSE pc' = [pc EXCEPT ![t] = "releasing"] /\ UNCHANGED loop
  /\ UNCHANGED <<locks, phase, followUps, controls, session, observing, result>>

(* resource.shutdown(); its failures are raised in the end *)
ReleaseResource(t) ==
  /\ running = t /\ pc[t] = "releasing" /\ live > 0
  /\ live' = live - 1
  /\ Suspend
  /\ UNCHANGED <<pc, locks, status, closing, followUps, controls, session,
                 observing, result>>

Close(t) ==
  /\ Goto(t, "releasing", "joining") /\ live = 0
  /\ status' = "closed"
  /\ ReleaseRunLock
  /\ running' = IF pc[Worker] = "idle" THEN t ELSE None
  /\ UNCHANGED <<lifecycle, closing, live, followUps, controls, session, observing, result>>

(* the worker has ended, or there was none *)
Leave(t) ==
  /\ Goto(t, "joining", "done")
  /\ ReleaseLifecycle
  /\ running' = None
  /\ UNCHANGED <<runLock, phase, followUps, controls, session, observing, result>>

-----------------------------------------------------------------------------
Application ==
  \/ \E t \in Callers : CallRun(t)
  \/ \E t \in Closers : CallShutdown(t)
  \/ Cancel
  \/ \E t \in Impatient : Abandon(t)
  \/ \E i \in Inputs : Steer(i)
  \/ \E f \in FollowUps : FollowUp(f)

RunStep(t) ==
  \/ PassGate(t) \/ RefuseStart(t) \/ BeginStart(t) \/ StartResource(t)
  \/ Load(t) \/ Undo(t)
  \/ RefuseRun(t) \/ BeginRun(t) \/ DrainSteering(t) \/ Finish(t)
  \/ KernelRaises(t) \/ Commit(t) \/ CommitRaises(t)

CloseStep(t) ==
  \/ AlreadyClosed(t) \/ BeginClosing(t) \/ Flush(t) \/ ReleaseResource(t)
  \/ Close(t) \/ Leave(t)

Step ==
  \/ Resume
  \/ \E t \in Tasks : Enter(t) \/ TakeSlot(t)
  \/ \E t \in Impatient : LeaveLocks(t)
  \/ \E t \in Runners : RunStep(t)
  \/ \E t \in Closers : CloseStep(t)
  \/ NextFollowUp \/ WorkerEnds

Next == Application \/ Step \/ ObserverDone \/ \E t \in Tasks : Answer(t)

Spec == Init /\ [][Next]_vars

(* the loop runs, and what a task awaits ends: Kernel, Store, resource and
   observer calls return *)
Fairness ==
  /\ WF_vars(Step)
  /\ WF_vars(ObserverDone)
  /\ \A t \in Tasks : WF_vars(Answer(t))

FairSpec == Spec /\ Fairness
-----------------------------------------------------------------------------
Revisions == 0..(Cardinality(Callers) + Cardinality(FollowUps))

(* Every variable stays in the range the code gives it. *)
TypeOK ==
  /\ ready \in Seq(Tasks) /\ running \in Tasks \cup {None}
  /\ pc \in [Tasks -> {"idle", "entering", "gate", "starting", "loading", "undoing",
                       "queueing", "slot", "kernel", "committing", "serving",
                       "flushing", "releasing", "joining", "leaving",
                       "done"}]
  /\ lifecycle \in Seq(Tasks) /\ runLock \in Seq(Tasks)
  /\ status \in {"new", "starting", "ready", "running", "stopping", "closed"}
  /\ closing \in BOOLEAN /\ live \in 0..Resources
  /\ queue \in Seq(FollowUps) /\ outstanding \in 0..FollowUpCapacity
  /\ serving \in FollowUps \cup {None}
  /\ handle \in [FollowUps -> {"unused", "rejected", "pending", "resolved",
                               "discarded", "failed"}]
  /\ accepted \in Seq(FollowUps)
  /\ token \in {"none", "active", "cancelled"} /\ admitting \in BOOLEAN
  /\ steering \in Seq(Inputs) /\ Len(steering) <= SteeringCapacity
  /\ fate \in [Inputs -> {"unused", "refused", "queued", "applied", "discarded", "lost"}]
  /\ base \in Revisions /\ snapshot \in Revisions /\ stored \in Revisions
  /\ advances \in BOOLEAN /\ observing \in Nat
  /\ result \in [Tasks -> {"none", "closed", "raised", "completed", "other", "unsaved"}]

Active(t) == pc[t] \in {"kernel", "committing"}

(* A Run executes on started resources only, and shutdown() releases the
   first of them only when no Run is executing and every observer task has
   ended (contracts/lifecycle.py: released after the Harness stops accepting
   Runs). *)
ResourcesOutliveTheirUsers ==
  (observing > 0 \/ \E t \in Tasks : Active(t)) => live = Resources

(* a lock whose owner does nothing but wait for it is about to be taken: it was
   not handed to a task that had given up *)
HandedOn(lock, place) ==
  lock # <<>> /\ pc[Head(lock)] = place => Head(lock) \in {running} \cup ToSet(ready)

(* One Run is active at a time, it commits from the revision the Harness
   showed when it began, the Harness never shows a revision the Store has not
   recorded, and the next in line is let go when a Run ends, or a caller
   whose turn it was is cancelled. *)
RunsAreSerial ==
  /\ HandedOn(lifecycle, "gate") /\ HandedOn(runLock, "slot")
  /\ \A t, u \in Tasks : Active(t) /\ Active(u) => t = u
  /\ (\E t \in Tasks : Active(t)) => base = snapshot
  /\ status \in {"ready", "running"} => snapshot <= stored

(* The capacity counter is exact: whenever no task is executing it counts the
   accepted follow-ups whose handle is still unsettled. *)
OutstandingIsExact ==
  running = None =>
    outstanding = Cardinality({f \in FollowUps : handle[f] = "pending"})

(* Follow-ups are executed in the order they were accepted, whatever Runs,
   failures and shutdowns happen in between. *)
FollowUpsInOrder ==
  \A i, j \in 1..Len(accepted) :
    i < j /\ (handle[accepted[j]] \in {"resolved", "failed"} \/ serving = accepted[j])
      => handle[accepted[i]] # "pending"

(* An input is queued only while a Run that could still take it is active: no
   Run ever starts with the steering of an earlier one. *)
SteeringBelongsToItsRun ==
  \A i \in Inputs : fate[i] = "queued" =>
    /\ i \in ToSet(steering) /\ admitting
    /\ \E t \in Tasks : pc[t] = "kernel"

(* Every call of run() and shutdown() ends. *)
CallsEnd == \A t \in Callers \cup Closers : pc[t] = "entering" ~> pc[t] = "done"

(* Every accepted follow-up is settled: wait() on its handle returns. *)
FollowUpsSettle == \A f \in FollowUps : handle[f] = "pending" ~> handle[f] # "pending"
=============================================================================
