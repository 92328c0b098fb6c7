----------------------------- MODULE Dispatcher -----------------------------
(***************************************************************************)
(* One driver_runtime::Dispatcher (bin/driver_runtime/dispatcher.{h,cc})   *)
(* and the threads that run in it.  Every critical section of              *)
(* callback_lock_ is one action; a method that takes the lock several      *)
(* times is one action per critical section, so that other threads run in  *)
(* between.  Two kinds of actor execute dispatcher code:                   *)
(*   - Threads: the threads of the process-wide async loop, which run the  *)
(*     handlers of the event waiter, the timer, the async waits and the    *)
(*     shutdown event;                                                     *)
(*   - Clients: any other thread that calls the dispatcher.  A Runtime     *)
(*     client runs code of another driver on a runtime-managed thread      *)
(*     (non-empty call stack without our owner, so a direct call into the  *)
(*     driver is possible), the others are unknown to the runtime.         *)
(* An actor inside one of the dispatcher's callbacks may call the API too. *)
(***************************************************************************)
EXTENDS Naturals, Sequences, FiniteSets

CONSTANTS
  Threads,          \* threads of process_shared_dispatcher_
  Clients,          \* other threads that call the dispatcher
  Runtime,          \* the clients inside a callback of another driver
  Tasks,            \* async_task_t objects
  Waits,            \* async_wait_t objects
  Reads,            \* channel read callback requests
  Unsynchronized,   \* unsynchronized_
  AllowSyncCalls,   \* allow_sync_calls_
  BatchSize,        \* kBatchSize
  MaxTime,          \* bound on the monotonic clock
  LateDelayed,      \* may clients post delayed tasks after ShutdownAsync?
  WaitsCanFail,     \* may async_begin_wait on the shared loop fail?
  None              \* no request

Actors == Threads \cup Clients
Requests == Tasks \cup Waits \cup Reads
AsyncOps == Tasks \cup Waits           \* has_async_operation()
Infinite == MaxTime + 1                \* zx::time::infinite()
Times == 0 .. Infinite

ASSUME ActorsAssumption ==
  /\ Threads \cap Clients = {}
  /\ Runtime \subseteq Clients
ASSUME RequestsAssumption ==
  /\ Tasks \cap Waits = {}
  /\ Tasks \cap Reads = {}
  /\ Waits \cap Reads = {}
  /\ None \notin Tasks \cup Waits \cup Reads
ASSUME OptionsAssumption ==
  /\ Unsynchronized \in BOOLEAN
  /\ AllowSyncCalls \in BOOLEAN
  /\ LateDelayed \in BOOLEAN
  /\ WaitsCanFail \in BOOLEAN
ASSUME BoundsAssumption ==
  /\ BatchSize \in Nat \ {0}
  /\ MaxTime \in Nat

VARIABLES
  state,                 \* state_
  registered_callbacks,  \* registered_callbacks_ (order is never observed)
  callback_queue,        \* callback_queue_
  shutdown_queue,        \* shutdown_queue_ (order is never observed)
  waits,                 \* waits_
  delayed_tasks,         \* delayed_tasks_, sorted by deadline
  deadline,              \* DelayedTask::deadline of each task
  current_deadline,      \* Timer::current_deadline_
  timer_posted,          \* Timer::task_ is pending on the shared loop
  dispatching_sync,      \* dispatching_sync_
  active_threads,        \* num_active_threads_, as the set of what it counts
  event_waiter,          \* event_waiter_: "loop", "held" by a thread, "null"
  signaled,              \* EventWaiter::signaled_
  holders,               \* threads whose DispatchCallbacks owns event_waiter
  shutdown_event,        \* CompleteShutdownEventManager and its loop wait
  idle_waiters,          \* actors blocked on idle_event_
  wait_refs,             \* waits whose dispatcher_ref_ is not null
  loop_waits,            \* waits pending on the shared loop
  pending_queue,         \* reads with callback_request_pending_queue_
  to_call,               \* DispatchCallbacks' local batch
  pc,                    \* what each actor is executing
  call,                  \* the API call an actor is inside of, if any
  req,                   \* the request that call or handler is about
  now,                   \* zx::clock::get_monotonic()
  pending,               \* history: accepted, neither run nor cancelled
  panic                  \* the ZX_ASSERT that failed, if any

queues == <<registered_callbacks, callback_queue, shutdown_queue, delayed_tasks, to_call>>
timer == <<deadline, current_deadline, timer_posted>>
waiter == <<event_waiter, signaled, holders>>
loop == <<waits, wait_refs, loop_waits>>
control == <<pc, call, req>>
vars == <<state, queues, timer, waiter, loop, control, dispatching_sync, active_threads,
          shutdown_event, idle_waiters, pending_queue, now, pending, panic>>

-----------------------------------------------------------------------------
States == {"kRunning", "kShuttingDown", "kShutdown", "kDestroyed"}

\* "callback", "direct" and "cancelcb" are the inside of a driver callback.
ThreadPcs == {"idle", "dispatch", "calling", "callback", "dispatch_defer",
              "timer", "timer_check", "signal", "queue_wait", "wait_queued",
              "complete", "drain", "cancelcb", "drained", "observer"}
ClientPcs == {"idle", "direct"}
Calls == {"none", "queue", "queue_defer", "register_shutdown", "remove_wait",
          "cancel_op", "wait_idle"}
Panics == {"none", "not_idle", "waiter_busy", "wrong_list", "wait_dropped"}

Elems(s) == {s[i] : i \in DOMAIN s}

Running == state = "kRunning"
InCallback(a) == pc[a] \in {"callback", "direct", "cancelcb"}
\* driver_context::IsDriverInCallStack(owner_); a cancellation callback of
\* CompleteShutdown runs without PushDriver.
OwnerInStack(a) == pc[a] \in {"callback", "direct"}

InToCall(r) == \E t \in Threads : r \in Elems(to_call[t])
\* CallbackRequest::InContainer()
InContainer(r) ==
  \/ r \in registered_callbacks \cup shutdown_queue
  \/ r \in Elems(callback_queue) \cup Elems(delayed_tasks)
  \/ InToCall(r)

\* Mutant of IsIdleLocked: the count is not looked at.
IsIdleUncounted == callback_queue = <<>> /\ (event_waiter = "null" \/ ~signaled)

IsIdle == active_threads = {} /\ callback_queue = <<>> /\ (event_waiter = "null" \/ ~signaled)
HasFutureOps == waits # {} \/ current_deadline # Infinite

\* Mutant of IdleCheckLocked: the broadcast also waits for future operations.
IdleCheckTooLate ==
  /\ idle_waiters' = IF IsIdle' /\ ~HasFutureOps' THEN {} ELSE idle_waiters
  /\ shutdown_event' = IF IsIdle' /\ ~HasFutureOps' /\ shutdown_event = "valid"
                       THEN "signaled" ELSE shutdown_event

\* IdleCheckLocked, evaluated on the state the action has just produced.
\* CompleteShutdownEventManager::Signal does nothing before GetEvent.
IdleCheck ==
  /\ idle_waiters' = IF IsIdle' THEN {} ELSE idle_waiters
  /\ shutdown_event' = IF IsIdle' /\ ~HasFutureOps' /\ shutdown_event = "valid"
                       THEN "signaled" ELSE shutdown_event
NoIdleCheck == UNCHANGED <<idle_waiters, shutdown_event>>

\* Timer::Cancel succeeds when disarmed, or while the loop still has the task.
TimerCancels == current_deadline = Infinite \/ timer_posted
TimerCancel ==
  /\ current_deadline' = IF TimerCancels THEN Infinite ELSE current_deadline
  /\ timer_posted' = FALSE

\* GetNextTimeoutLocked and ResetTimerLocked, on queues q and ds with deadlines dl.
NextTimeout(q, ds, dl) == IF q = <<>> /\ ds # <<>> THEN dl[Head(ds)] ELSE Infinite
\* Mutant of ResetTimerLocked: an armed timer is never moved forward.
ResetTimerOnce(q, ds, dl) ==
  LET next == NextTimeout(q, ds, dl) IN
  IF next = Infinite THEN TimerCancel
  ELSE IF current_deadline = Infinite
  THEN current_deadline' = next /\ timer_posted' = TRUE
  ELSE UNCHANGED <<current_deadline, timer_posted>>

ResetTimer(q, ds, dl) ==
  LET next == NextTimeout(q, ds, dl) IN
  IF next = Infinite THEN TimerCancel
  ELSE IF current_deadline > next /\ TimerCancels
  THEN current_deadline' = next /\ timer_posted' = TRUE
  ELSE UNCHANGED <<current_deadline, timer_posted>>

\* Mutant: no signal while a thread is dispatching.
SignalUnlessHeld == signaled' = (signaled \/ event_waiter = "loop")

\* event_waiter_ && !signaled() => signal()
Signal == signaled' = (signaled \/ event_waiter # "null")

\* Mutant of the removal from a list: the element stays.
RemoveNothing(s, i) == SubSeq(s, 1, i) \o SubSeq(s, i + 1, Len(s))

RemoveIndex(s, i) == SubSeq(s, 1, i - 1) \o SubSeq(s, i + 1, Len(s))

Goto(a, l) == pc' = [pc EXCEPT ![a] = l]
Enter(a, c, r) == call' = [call EXCEPT ![a] = c] /\ req' = [req EXCEPT ![a] = r]
Return(a) == Enter(a, "none", None)

\* Who may call the API: a client, and whoever is inside a callback; a caller
\* may not use the dispatcher once it is destroyed.
CanCall(a) ==
  /\ call[a] = "none"
  /\ a \in Clients \/ InCallback(a)
  /\ state # "kDestroyed"

Init ==
  /\ state = "kRunning"
  /\ registered_callbacks = {} /\ callback_queue = <<>> /\ shutdown_queue = {}
  /\ delayed_tasks = <<>> /\ to_call = [t \in Threads |-> <<>>]
  /\ deadline = [r \in Tasks |-> 0] /\ current_deadline = Infinite /\ timer_posted = FALSE
  /\ event_waiter = "loop" /\ signaled = FALSE /\ holders = {}
  /\ waits = {} /\ wait_refs = {} /\ loop_waits = {}
  /\ pc = [a \in Actors |-> "idle"] /\ call = [a \in Actors |-> "none"]
  /\ req = [a \in Actors |-> None]
  /\ dispatching_sync = FALSE /\ active_threads = {}
  /\ shutdown_event = "none" /\ idle_waiters = {}
  /\ pending_queue = {} /\ now = 0 /\ pending = {} /\ panic = "none"
-----------------------------------------------------------------------------
(* The async_dispatcher_t interface and the interface to channels.         *)

\* A task or wait object is free when the dispatcher has finished with it and
\* no PostTask about it is still under way.
Free(r) == r \notin pending /\ \A a \in Actors : req[a] # r

\* Mutant: no check that the dispatcher is running.
RegisterCallbackAnyway(r) ==
  /\ registered_callbacks' = registered_callbacks \cup {r}
  /\ pending' = pending \cup {r}

\* RegisterCallbackWithoutQueueing; nothing happens unless running.
RegisterCallbackWithoutQueueing(r) ==
  /\ Running
  /\ registered_callbacks' = registered_callbacks \cup {r}
  /\ pending' = pending \cup {r}

\* PostTask with a deadline that has passed: register, then queue.
PostTask(a, r) ==
  /\ CanCall(a) /\ Free(r)
  /\ RegisterCallbackWithoutQueueing(r)
  /\ Enter(a, "queue", r)
  /\ UNCHANGED <<state, callback_queue, shutdown_queue, delayed_tasks, to_call, timer, waiter,
                 loop, pc, dispatching_sync, active_threads, pending_queue, now, panic>>
  /\ NoIdleCheck

\* InsertDelayedTaskSortedLocked: before the first task with a later deadline.
InsertDelayedTaskSorted(r, d) ==
  \E i \in 1 .. Len(delayed_tasks) + 1 :
    /\ \A j \in 1 .. i - 1 : deadline[delayed_tasks[j]] <= d
    /\ i <= Len(delayed_tasks) => deadline[delayed_tasks[i]] > d
    /\ delayed_tasks' = SubSeq(delayed_tasks, 1, i - 1) \o <<r>>
                          \o SubSeq(delayed_tasks, i, Len(delayed_tasks))

\* PostTask with a deadline in the future: there is no check that the
\* dispatcher is running.
PostDelayedTask(a, r, d) ==
  /\ CanCall(a) /\ Free(r)
  /\ Running \/ LateDelayed
  /\ d > now
  /\ InsertDelayedTaskSorted(r, d)
  /\ deadline' = [deadline EXCEPT ![r] = d]
  /\ ResetTimer(callback_queue, delayed_tasks', deadline')
  /\ pending' = pending \cup {r}
  /\ UNCHANGED <<state, registered_callbacks, callback_queue, shutdown_queue, to_call, waiter,
                 loop, control, dispatching_sync, active_threads, pending_queue, now, panic>>
  /\ NoIdleCheck

\* Channel::WaitAsync hands a read request to the dispatcher.
RegisterRead(a, r) ==
  /\ CanCall(a) /\ r \notin pending
  /\ RegisterCallbackWithoutQueueing(r)
  /\ pending_queue' = pending_queue \cup {r}
  /\ UNCHANGED <<state, callback_queue, shutdown_queue, delayed_tasks, to_call, timer, waiter,
                 loop, control, dispatching_sync, active_threads, now, panic>>
  /\ NoIdleCheck

\* A channel write, or the peer closing, decides under the channel's lock to
\* queue the read callback, and calls QueueRegisteredCallback after unlocking.
QueueRead(a, r) ==
  /\ CanCall(a) /\ r \in pending_queue
  /\ pending_queue' = pending_queue \ {r}
  /\ Enter(a, "queue", r)
  /\ UNCHANGED <<state, queues, timer, waiter, loop, pc, dispatching_sync, active_threads,
                 now, pending, panic>>
  /\ NoIdleCheck

\* Mutant: dispatching_sync_ is not looked at.
DirectCallInParallel(a, r) ==
  /\ Unsynchronized \/ (~AllowSyncCalls /\ r \notin Tasks)
  /\ a \in Runtime /\ ~OwnerInStack(a)

\* May QueueRegisteredCallback call into the driver on the calling thread?
DirectCall(a, r) ==
  /\ Unsynchronized \/ (~dispatching_sync /\ ~AllowSyncCalls /\ r \notin Tasks)
  /\ a \in Runtime /\ ~OwnerInStack(a)

\* QueueRegisteredCallback, first critical section: every early return, the
\* direct call and the queueing.
QueueRegisteredCallback(a) ==
  LET r == req[a] IN
  /\ call[a] = "queue"
  /\ IF Running /\ InContainer(r) /\ r \in registered_callbacks /\ DirectCall(a, r)
     THEN /\ registered_callbacks' = registered_callbacks \ {r}
          /\ dispatching_sync' = TRUE
          /\ active_threads' = active_threads \cup {<<a, "direct">>}
          /\ pending' = pending \ {r} /\ pending_queue' = pending_queue \ {r}
          /\ Goto(a, "direct") /\ Return(a)
          /\ UNCHANGED <<callback_queue, signaled, panic>>
     ELSE /\ active_threads' = active_threads \cup {<<a, "queue">>}
          /\ Enter(a, "queue_defer", None)
          /\ UNCHANGED <<pc, dispatching_sync, pending, pending_queue>>
          /\ IF Running /\ r \in registered_callbacks
             THEN /\ registered_callbacks' = registered_callbacks \ {r}
                  /\ callback_queue' = Append(callback_queue, r)
                  /\ Signal
                  /\ UNCHANGED panic
             ELSE /\ panic' = IF Running /\ InContainer(r) THEN "wrong_list" ELSE panic
                  /\ UNCHANGED <<registered_callbacks, callback_queue, signaled>>
  /\ UNCHANGED <<state, shutdown_queue, delayed_tasks, to_call, timer, event_waiter, holders,
                 loop, now>>
  /\ NoIdleCheck

\* The direct call returns: second critical section.
DirectCallEnd(a) ==
  /\ pc[a] = "direct" /\ call[a] = "none"
  /\ dispatching_sync' = FALSE
  /\ signaled' = (signaled \/ (callback_queue # <<>> /\ event_waiter # "null" /\ Running))
  /\ active_threads' = (active_threads \ {<<a, "direct">>}) \cup {<<a, "queue">>}
  /\ Goto(a, "idle") /\ Enter(a, "queue_defer", None)
  /\ UNCHANGED <<state, queues, timer, event_waiter, holders, loop, pending_queue, now,
                 pending, panic>>
  /\ NoIdleCheck

\* The deferred decrement of num_active_threads_ and idle check.
QueueDefer(a) ==
  /\ call[a] = "queue_defer"
  /\ active_threads' = active_threads \ {<<a, "queue">>}
  /\ Return(a)
  /\ Goto(a, IF pc[a] = "wait_queued" THEN "idle" ELSE pc[a])
  /\ UNCHANGED <<state, queues, timer, waiter, loop, dispatching_sync, pending_queue, now,
                 pending, panic>>
  /\ IdleCheck

\* Remove r from sequence variable s, where it is known to be.
Extract(s, r, new) == \E i \in DOMAIN s : s[i] = r /\ new = RemoveIndex(s, i)

\* CancelAsyncOperation: the callback queue, then the shutdown queue, then the
\* delayed tasks; only the last resets the timer.  Registered callbacks are
\* not searched.
CancelAsyncOperation(r) ==
  \/ /\ r \in Elems(callback_queue)
     /\ Extract(callback_queue, r, callback_queue')
     /\ pending' = pending \ {r}
     /\ UNCHANGED <<shutdown_queue, delayed_tasks, current_deadline, timer_posted>>
  \/ /\ r \notin Elems(callback_queue) /\ r \in shutdown_queue
     /\ shutdown_queue' = shutdown_queue \ {r}
     /\ pending' = pending \ {r}
     /\ UNCHANGED <<callback_queue, delayed_tasks, current_deadline, timer_posted>>
  \/ /\ r \notin Elems(callback_queue) \cup shutdown_queue /\ r \in Elems(delayed_tasks)
     /\ Extract(delayed_tasks, r, delayed_tasks')
     /\ ResetTimer(callback_queue, delayed_tasks', deadline)
     /\ pending' = pending \ {r}
     /\ UNCHANGED <<callback_queue, shutdown_queue>>
  \/ /\ r \notin Elems(callback_queue) \cup shutdown_queue \cup Elems(delayed_tasks)
     /\ UNCHANGED <<callback_queue, shutdown_queue, delayed_tasks, current_deadline,
                    timer_posted, pending>>

CancelTask(a, r) ==
  /\ CanCall(a) /\ r \in pending
  /\ CancelAsyncOperation(r)
  /\ UNCHANGED <<state, registered_callbacks, to_call, deadline, waiter, loop, control,
                 dispatching_sync, active_threads, pending_queue, now, panic>>
  /\ NoIdleCheck

\* BeginWait; when async_begin_wait fails, RemoveWaitLocked's result is
\* destroyed while dispatcher_ref_ is still set (~AsyncWait asserts).
BeginWait(a, w) ==
  /\ CanCall(a) /\ Free(w) /\ Running
  /\ \/ /\ waits' = waits \cup {w} /\ wait_refs' = wait_refs \cup {w}
        /\ loop_waits' = loop_waits \cup {w}
        /\ pending' = pending \cup {w}
        /\ UNCHANGED panic
     \/ /\ WaitsCanFail
        /\ panic' = "wait_dropped"
        /\ UNCHANGED <<loop, pending>>
  /\ UNCHANGED <<state, queues, timer, waiter, control, dispatching_sync, active_threads,
                 pending_queue, now>>
  /\ NoIdleCheck

\* AsyncWait::Cancel succeeds on waits that are still pending on the loop.
WaitCancels(w) == w \in wait_refs /\ w \in loop_waits

\* CancelWait: AsyncWait::Cancel, outside the lock.
CancelWait(a, w) ==
  /\ CanCall(a) /\ w \in pending
  /\ IF WaitCancels(w)
     THEN /\ wait_refs' = wait_refs \ {w} /\ loop_waits' = loop_waits \ {w}
          /\ Enter(a, "remove_wait", w)
     ELSE Enter(a, "cancel_op", w) /\ UNCHANGED <<wait_refs, loop_waits>>
  /\ UNCHANGED <<state, queues, timer, waiter, waits, pc, dispatching_sync, active_threads,
                 pending_queue, now, pending, panic>>
  /\ NoIdleCheck

\* CancelWait, after a successful cancellation: RemoveWait.
RemoveWait(a) ==
  /\ call[a] = "remove_wait"
  /\ waits' = waits \ {req[a]}
  /\ pending' = pending \ {req[a]}
  /\ Return(a)
  /\ UNCHANGED <<state, queues, timer, waiter, wait_refs, loop_waits, pc, dispatching_sync,
                 active_threads, pending_queue, now, panic>>
  /\ IdleCheck

\* CancelWait, after a failed cancellation.
CancelWaitOperation(a) ==
  /\ call[a] = "cancel_op"
  /\ CancelAsyncOperation(req[a])
  /\ Return(a)
  /\ UNCHANGED <<state, registered_callbacks, to_call, deadline, waiter, loop, pc,
                 dispatching_sync, active_threads, pending_queue, now, panic>>
  /\ NoIdleCheck

\* CancelCallback, called by Channel::CancelWait from the dispatcher's own
\* callbacks (a synchronized dispatcher): the request is taken out of whichever
\* container holds it, the local batch of DispatchCallbacks included.
CancelCallback(a, r) ==
  /\ CanCall(a) /\ InCallback(a) /\ ~Unsynchronized
  /\ r \in pending /\ InContainer(r)
  /\ registered_callbacks' = registered_callbacks \ {r}
  /\ shutdown_queue' = shutdown_queue \ {r}
  /\ IF r \in Elems(callback_queue)
     THEN Extract(callback_queue, r, callback_queue')
     ELSE UNCHANGED callback_queue
  /\ IF InToCall(r)
     THEN \E t \in Threads : \E i \in DOMAIN to_call[t] :
            /\ to_call[t][i] = r
            /\ to_call' = [to_call EXCEPT ![t] = RemoveIndex(to_call[t], i)]
     ELSE UNCHANGED to_call
  /\ pending' = pending \ {r} /\ pending_queue' = pending_queue \ {r}
  /\ UNCHANGED <<state, delayed_tasks, timer, waiter, loop, control, dispatching_sync,
                 active_threads, now, panic>>
  /\ NoIdleCheck

\* WaitUntilIdle blocks on idle_event_; callers are not runtime threads.
WaitUntilIdle(a) ==
  /\ CanCall(a) /\ a \in Clients \ Runtime /\ ~IsIdle
  /\ Enter(a, "wait_idle", None)
  /\ idle_waiters' = idle_waiters \cup {a}
  /\ UNCHANGED <<state, queues, timer, waiter, loop, pc, dispatching_sync, active_threads,
                 shutdown_event, pending_queue, now, pending, panic>>

WaitUntilIdleReturn(a) ==
  /\ call[a] = "wait_idle" /\ a \notin idle_waiters
  /\ Return(a)
  /\ UNCHANGED <<state, queues, timer, waiter, loop, pc, dispatching_sync, active_threads,
                 pending_queue, now, pending, panic>>
  /\ NoIdleCheck

-----------------------------------------------------------------------------
(* Handlers that the threads of the shared loop run.                       *)

Quiet(t) == pc[t] = "idle" /\ call[t] = "none"

\* EventWaiter::HandleEvent: the loop delivers the signalled event.
HandleEvent(t) ==
  /\ Quiet(t) /\ event_waiter = "loop" /\ signaled
  /\ event_waiter' = "held" /\ holders' = holders \cup {t}
  /\ Goto(t, "dispatch")
  /\ UNCHANGED <<state, queues, timer, signaled, loop, call, req, dispatching_sync,
                 active_threads, pending_queue, now, pending, panic>>
  /\ NoIdleCheck

\* Mutant: async operations share their batch.
IsBatchMixed(n) ==
  /\ n \in 0 .. Len(callback_queue) /\ n <= BatchSize
  /\ n < Len(callback_queue) => n = BatchSize

\* The length of the batch DispatchCallbacks pops: at most BatchSize, and on a
\* synchronized dispatcher an async operation is alone in its batch.
IsBatch(n) ==
  /\ n \in 0 .. Len(callback_queue) /\ n <= BatchSize
  /\ ~Unsynchronized =>
       \A i \in 1 .. n : callback_queue[i] \in AsyncOps => n = 1
  /\ n < Len(callback_queue) /\ n < BatchSize =>
       /\ ~Unsynchronized /\ n > 0
       /\ callback_queue[n] \in AsyncOps \/ callback_queue[n + 1] \in AsyncOps

\* DispatchCallbacks, first critical section.
DispatchCallbacks(t) ==
  /\ pc[t] = "dispatch"
  /\ active_threads' = active_threads \cup {<<t, "dispatch">>}
  /\ IF (~Unsynchronized /\ dispatching_sync) \/ ~Running
     THEN /\ signaled' = FALSE
          /\ Goto(t, "dispatch_defer")
          /\ UNCHANGED <<callback_queue, to_call, dispatching_sync, event_waiter, holders>>
     ELSE /\ dispatching_sync' = TRUE
          /\ \E n \in 0 .. Len(callback_queue) :
               /\ IsBatch(n)
               /\ to_call' = [to_call EXCEPT ![t] = SubSeq(callback_queue, 1, n)]
               /\ callback_queue' = SubSeq(callback_queue, n + 1, Len(callback_queue))
               /\ IF Unsynchronized /\ n < Len(callback_queue)
                  THEN event_waiter' = "loop" /\ holders' = holders \ {t}
                  ELSE UNCHANGED <<event_waiter, holders>>
          /\ Goto(t, "calling")
          /\ UNCHANGED signaled
  /\ UNCHANGED <<state, registered_callbacks, shutdown_queue, delayed_tasks, timer, loop, call,
                 req, pending_queue, now, pending, panic>>
  /\ NoIdleCheck

\* DispatchCallback on the next request of the batch.
DispatchCallback(t) ==
  /\ pc[t] = "calling" /\ to_call[t] # <<>>
  /\ to_call' = [to_call EXCEPT ![t] = Tail(to_call[t])]
  /\ pending' = pending \ {Head(to_call[t])}
  /\ pending_queue' = pending_queue \ {Head(to_call[t])}
  /\ Goto(t, "callback")
  /\ UNCHANGED <<state, registered_callbacks, callback_queue, shutdown_queue, delayed_tasks,
                 timer, waiter, loop, call, req, dispatching_sync, active_threads, now, panic>>
  /\ NoIdleCheck

CallbackReturns(t) ==
  /\ pc[t] = "callback" /\ call[t] = "none"
  /\ Goto(t, "calling")
  /\ UNCHANGED <<state, queues, timer, waiter, loop, call, req, dispatching_sync,
                 active_threads, pending_queue, now, pending, panic>>
  /\ NoIdleCheck

\* DispatchCallbacks, second critical section; the thread that gave the event
\* waiter away leaves everything to the thread that has it.
DispatchEnd(t) ==
  /\ pc[t] = "calling" /\ to_call[t] = <<>>
  /\ Goto(t, "dispatch_defer")
  /\ IF t \in holders
     THEN /\ dispatching_sync' = FALSE
          /\ ResetTimer(callback_queue, delayed_tasks, deadline)
          /\ signaled' = (signaled /\ callback_queue # <<>>)
     ELSE UNCHANGED <<dispatching_sync, current_deadline, timer_posted, signaled>>
  /\ UNCHANGED <<state, queues, deadline, event_waiter, holders, loop, call, req,
                 active_threads, pending_queue, now, pending, panic>>
  /\ NoIdleCheck

\* The deferred block: give the event waiter back to the loop, idle check.
DispatchDefer(t) ==
  /\ pc[t] = "dispatch_defer"
  /\ event_waiter' = IF t \in holders THEN "loop" ELSE event_waiter
  /\ holders' = holders \ {t}
  /\ active_threads' = active_threads \ {<<t, "dispatch">>}
  /\ Goto(t, "idle")
  /\ UNCHANGED <<state, queues, timer, signaled, loop, call, req, dispatching_sync,
                 pending_queue, now, pending, panic>>
  /\ IdleCheck

\* The loop runs the timer's task.
TimerFires(t) ==
  /\ Quiet(t) /\ timer_posted /\ now >= current_deadline
  /\ timer_posted' = FALSE
  /\ Goto(t, "timer")
  /\ UNCHANGED <<state, queues, deadline, current_deadline, waiter, loop, call, req,
                 dispatching_sync, active_threads, pending_queue, now, pending, panic>>
  /\ NoIdleCheck

\* Timer::Handler disarms the timer without holding callback_lock_ ...
TimerHandler(t) ==
  /\ pc[t] = "timer"
  /\ current_deadline' = Infinite
  /\ Goto(t, "timer_check")
  /\ UNCHANGED <<state, queues, deadline, timer_posted, waiter, loop, call, req,
                 dispatching_sync, active_threads, pending_queue, now, pending, panic>>
  /\ NoIdleCheck

\* The delayed tasks that are due: a prefix of the sorted list.
IsDue(k) ==
  /\ \A i \in 1 .. k : deadline[delayed_tasks[i]] <= now
  /\ k < Len(delayed_tasks) => deadline[delayed_tasks[k + 1]] > now

\* ... and then takes it in CheckDelayedTasks.
CheckDelayedTasks(t) ==
  /\ pc[t] = "timer_check"
  /\ Goto(t, "idle")
  /\ UNCHANGED <<state, registered_callbacks, shutdown_queue, to_call, deadline, event_waiter,
                 holders, loop, call, req, dispatching_sync, active_threads, pending_queue, now,
                 pending, panic>>
  /\ IF ~Running
     THEN /\ UNCHANGED <<callback_queue, delayed_tasks, current_deadline, timer_posted, signaled>>
          /\ IdleCheck
     ELSE /\ \E k \in 0 .. Len(delayed_tasks) :
               /\ IsDue(k)
               /\ callback_queue' = callback_queue \o SubSeq(delayed_tasks, 1, k)
               /\ delayed_tasks' = SubSeq(delayed_tasks, k + 1, Len(delayed_tasks))
               /\ IF k > 0
                  THEN Signal /\ UNCHANGED <<current_deadline, timer_posted>>
                  ELSE /\ ResetTimer(callback_queue, delayed_tasks, deadline)
                       /\ UNCHANGED signaled
          /\ NoIdleCheck

\* The object of a wait is signalled and the loop runs AsyncWait::Handler.
WaitSignaled(t, w) ==
  /\ Quiet(t) /\ w \in loop_waits
  /\ loop_waits' = loop_waits \ {w}
  /\ Goto(t, "signal") /\ req' = [req EXCEPT ![t] = w]
  /\ UNCHANGED <<state, queues, timer, waiter, waits, wait_refs, call, dispatching_sync,
                 active_threads, pending_queue, now, pending, panic>>
  /\ NoIdleCheck

\* AsyncWait::OnSignal takes the wait's reference, outside the lock.
OnSignal(t) ==
  /\ pc[t] = "signal"
  /\ wait_refs' = wait_refs \ {req[t]}
  /\ Goto(t, "queue_wait")
  /\ UNCHANGED <<state, queues, timer, waiter, waits, loop_waits, call, req, dispatching_sync,
                 active_threads, pending_queue, now, pending, panic>>
  /\ NoIdleCheck

\* QueueWait; while running it goes on to QueueRegisteredCallback unlocked.
QueueWait(t) ==
  /\ pc[t] = "queue_wait"
  /\ waits' = waits \ {req[t]}
  /\ UNCHANGED <<state, callback_queue, delayed_tasks, to_call, timer, waiter, wait_refs,
                 loop_waits, dispatching_sync, active_threads, pending_queue, now, pending, panic>>
  /\ IF Running
     THEN /\ registered_callbacks' = registered_callbacks \cup {req[t]}
          /\ Goto(t, "wait_queued") /\ Enter(t, "queue", req[t])
          /\ UNCHANGED shutdown_queue
          /\ NoIdleCheck
     ELSE /\ shutdown_queue' = shutdown_queue \cup {req[t]}
          /\ Goto(t, "idle") /\ Return(t)
          /\ UNCHANGED registered_callbacks
          /\ IdleCheck

-----------------------------------------------------------------------------
(* Shutting down.                                                          *)

\* ShutdownAsync, locked part: everything that can be taken back is moved to
\* the shutdown queue.
ShutdownAsync(a) ==
  LET cancelled == {w \in waits : WaitCancels(w)} IN
  /\ CanCall(a) /\ Running
  /\ state' = "kShuttingDown"
  /\ shutdown_queue' = Elems(callback_queue) \cup registered_callbacks \cup cancelled
                         \cup Elems(delayed_tasks)
  /\ callback_queue' = <<>> /\ registered_callbacks' = {} /\ delayed_tasks' = <<>>
  /\ waits' = waits \ cancelled
  /\ wait_refs' = wait_refs \ cancelled /\ loop_waits' = loop_waits \ cancelled
  /\ TimerCancel
  /\ Enter(a, "register_shutdown", None)
  /\ UNCHANGED <<to_call, deadline, waiter, pc, dispatching_sync, active_threads, pending_queue,
                 now, pending, panic>>
  /\ NoIdleCheck

\* Mutant: the event of an already idle dispatcher is not signalled at once.
RegisterWithoutCheck(a) ==
  /\ call[a] = "register_shutdown"
  /\ shutdown_event' = "valid"
  /\ Return(a)
  /\ UNCHANGED <<state, queues, timer, waiter, loop, pc, dispatching_sync, active_threads,
                 idle_waiters, pending_queue, now, pending, panic>>

\* ShutdownAsync, second part: RegisterForCompleteShutdownEvent and the wait
\* for that event on the loop.
RegisterForCompleteShutdownEvent(a) ==
  /\ call[a] = "register_shutdown"
  /\ shutdown_event' = IF IsIdle /\ ~HasFutureOps THEN "signaled" ELSE "valid"
  /\ Return(a)
  /\ UNCHANGED <<state, queues, timer, waiter, loop, pc, dispatching_sync, active_threads,
                 idle_waiters, pending_queue, now, pending, panic>>

\* The loop delivers the event.
ShutdownEventSignaled(t) ==
  /\ Quiet(t) /\ shutdown_event = "signaled"
  /\ shutdown_event' = "taken"
  /\ Goto(t, "complete")
  /\ UNCHANGED <<state, queues, timer, waiter, loop, call, req, dispatching_sync,
                 active_threads, idle_waiters, pending_queue, now, pending, panic>>

\* CompleteShutdown, first critical section with its assertions.
CompleteShutdown(t) ==
  /\ pc[t] = "complete"
  /\ panic' = IF state # "kShuttingDown" \/ ~IsIdle \/ HasFutureOps THEN "not_idle"
              ELSE IF event_waiter = "held" \/ signaled THEN "waiter_busy"
              ELSE panic
  /\ event_waiter' = "null"
  /\ Goto(t, "drain")
  /\ UNCHANGED <<state, queues, timer, signaled, holders, loop, call, req, dispatching_sync,
                 active_threads, pending_queue, now, pending>>
  /\ NoIdleCheck

\* One cancellation callback, called with ZX_ERR_CANCELED outside the lock.
CancelNext(t, r) ==
  /\ pc[t] = "drain" /\ r \in shutdown_queue
  /\ shutdown_queue' = shutdown_queue \ {r}
  /\ pending' = pending \ {r} /\ pending_queue' = pending_queue \ {r}
  /\ Goto(t, "cancelcb")
  /\ UNCHANGED <<state, registered_callbacks, callback_queue, delayed_tasks, to_call, timer,
                 waiter, loop, call, req, dispatching_sync, active_threads, now, panic>>
  /\ NoIdleCheck

CancelReturns(t) ==
  /\ pc[t] = "cancelcb" /\ call[t] = "none"
  /\ Goto(t, "drain")
  /\ UNCHANGED <<state, queues, timer, waiter, loop, call, req, dispatching_sync,
                 active_threads, pending_queue, now, pending, panic>>
  /\ NoIdleCheck

\* Mutant: the loop over shutdown_queue_ ends before the queue is empty.
ShutdownQueueAbandoned(t) ==
  /\ pc[t] = "drain"
  /\ Goto(t, "drained")
  /\ UNCHANGED <<state, queues, timer, waiter, loop, call, req, dispatching_sync,
                 active_threads, pending_queue, now, pending, panic>>
  /\ NoIdleCheck

ShutdownQueueEmpty(t) ==
  /\ pc[t] = "drain" /\ shutdown_queue = {}
  /\ Goto(t, "drained")
  /\ UNCHANGED <<state, queues, timer, waiter, loop, call, req, dispatching_sync,
                 active_threads, pending_queue, now, pending, panic>>
  /\ NoIdleCheck

EnterShutdown(t) ==
  /\ pc[t] = "drained"
  /\ state' = "kShutdown"
  /\ Goto(t, "observer")
  /\ UNCHANGED <<queues, timer, waiter, loop, call, req, dispatching_sync, active_threads,
                 pending_queue, now, pending, panic>>
  /\ NoIdleCheck

\* The shutdown observer's handler has been called and returns.
ObserverReturns(t) ==
  /\ pc[t] = "observer"
  /\ Goto(t, "idle")
  /\ UNCHANGED <<state, queues, timer, waiter, loop, call, req, dispatching_sync,
                 active_threads, pending_queue, now, pending, panic>>
  /\ NoIdleCheck

\* Destroy, by the driver once it has been told that the dispatcher is shut
\* down and its own calls have returned; a channel's writer knows nothing of
\* the dispatcher and may still be about to queue a read.
Destroy(a) ==
  /\ state = "kShutdown" /\ call[a] = "none"
  /\ \/ a \in Clients /\ pc[a] = "idle" /\ \A t \in Threads : pc[t] # "observer"
     \/ pc[a] = "observer"
  /\ \A b \in Actors : call[b] = "none" \/ (call[b] = "queue" /\ req[b] \in Reads)
  /\ state' = "kDestroyed"
  /\ UNCHANGED <<queues, timer, waiter, loop, control, dispatching_sync, active_threads,
                 pending_queue, now, pending, panic>>
  /\ NoIdleCheck

Tick ==
  /\ now < MaxTime
  /\ now' = now + 1
  /\ UNCHANGED <<state, queues, timer, waiter, loop, control, dispatching_sync, active_threads,
                 pending_queue, pending, panic>>
  /\ NoIdleCheck

-----------------------------------------------------------------------------
ApiCall(a) ==
  \/ \E r \in Tasks : PostTask(a, r) \/ CancelTask(a, r)
  \/ \E r \in Tasks, d \in 1 .. MaxTime : PostDelayedTask(a, r, d)
  \/ \E r \in Reads : RegisterRead(a, r) \/ QueueRead(a, r) \/ CancelCallback(a, r)
  \/ \E w \in Waits : BeginWait(a, w) \/ CancelWait(a, w)
  \/ ShutdownAsync(a)
  \/ WaitUntilIdle(a)
  \/ Destroy(a)

\* Steps of a call that has begun.
CallStep(a) ==
  \/ QueueRegisteredCallback(a) \/ QueueDefer(a)
  \/ RemoveWait(a) \/ CancelWaitOperation(a)
  \/ RegisterForCompleteShutdownEvent(a)
  \/ WaitUntilIdleReturn(a)

\* Steps of a handler that has begun.
HandlerStep(t) ==
  \/ DispatchCallbacks(t) \/ DispatchCallback(t) \/ DispatchEnd(t) \/ DispatchDefer(t)
  \/ TimerHandler(t) \/ CheckDelayedTasks(t)
  \/ OnSignal(t) \/ QueueWait(t)
  \/ CompleteShutdown(t) \/ (\E r \in Requests : CancelNext(t, r))
  \/ ShutdownQueueEmpty(t) \/ EnterShutdown(t) \/ ObserverReturns(t)

CallbackEnds(a) == DirectCallEnd(a) \/ CallbackReturns(a) \/ CancelReturns(a)

LoopStep(t) ==
  \/ HandleEvent(t) \/ TimerFires(t) \/ ShutdownEventSignaled(t)
  \/ \E w \in Waits : WaitSignaled(t, w)

Next ==
  /\ panic = "none"
  /\ \/ \E a \in Actors : ApiCall(a) \/ CallStep(a) \/ CallbackEnds(a)
     \/ \E t \in Threads : LoopStep(t) \/ HandlerStep(t)
     \/ Tick

Spec == Init /\ [][Next]_vars

(* Fairness.  A thread that has begun a call or a handler goes on (the lock *)
(* is held for finitely many steps and callbacks return, after however many *)
(* calls they make); the loop's port delivers packets in order, so a packet *)
(* that is there again and again is taken; clients, and the objects that    *)
(* waits are for, promise nothing.                                          *)
Alive == panic = "none"
Fairness ==
  /\ \A a \in Actors : WF_vars(Alive /\ CallStep(a)) /\ SF_vars(Alive /\ CallbackEnds(a))
  /\ \A t \in Threads : WF_vars(Alive /\ HandlerStep(t))
  /\ SF_vars(Alive /\ \E t \in Threads : HandleEvent(t))
  /\ SF_vars(Alive /\ \E t \in Threads : TimerFires(t))
  /\ SF_vars(Alive /\ \E t \in Threads : ShutdownEventSignaled(t))
  /\ WF_vars(Alive /\ Tick)

FairSpec == Spec /\ Fairness

-----------------------------------------------------------------------------
(* Properties.                                                             *)

QueuesOK ==
  /\ registered_callbacks \in SUBSET Requests
  /\ callback_queue \in Seq(Requests)
  /\ shutdown_queue \in SUBSET Requests
  /\ delayed_tasks \in Seq(Tasks)
  /\ to_call \in [Threads -> Seq(Requests)]
  /\ pending_queue \in SUBSET Reads
  /\ pending \in SUBSET Requests
TimerOK ==
  /\ deadline \in [Tasks -> Times]
  /\ current_deadline \in Times
  /\ timer_posted \in BOOLEAN
  /\ now \in 0 .. MaxTime
WaiterOK ==
  /\ dispatching_sync \in BOOLEAN
  /\ active_threads \in SUBSET (Actors \X {"dispatch", "queue", "direct"})
  /\ event_waiter \in {"loop", "held", "null"}
  /\ signaled \in BOOLEAN
  /\ holders \in SUBSET Threads
  /\ shutdown_event \in {"none", "valid", "signaled", "taken"}
  /\ idle_waiters \in SUBSET Clients
LoopOK == waits \in SUBSET Waits /\ wait_refs \in SUBSET Waits /\ loop_waits \in SUBSET Waits
ControlOK ==
  /\ state \in States
  /\ panic \in Panics
  /\ pc \in [Actors -> ThreadPcs \cup ClientPcs]
  /\ call \in [Actors -> Calls]
  /\ req \in [Actors -> Requests \cup {None}]

\* Every variable stays in its type.
TypeOK == QueuesOK /\ TimerOK /\ WaiterOK /\ LoopOK /\ ControlOK

\* A thread that handles a signal is handling a wait, and is in no call yet.
SignalsHaveWaits ==
  \A t \in Threads : pc[t] \in {"signal", "queue_wait"} => req[t] \in Waits /\ call[t] = "none"
TypeInv == TypeOK /\ SignalsHaveWaits

\* A synchronized dispatcher never runs two callbacks in parallel, whether from
\* the loop, by a direct call from another driver's thread, or to cancel.
CallbacksSerialized ==
  ~Unsynchronized => \A a, b \in Actors : InCallback(a) /\ InCallback(b) => a = b

\* On any dispatcher, cancellation callbacks run when every other callback has
\* finished ("tasks and cancellation callbacks should run serialized").
CancellationsRunAlone ==
  \A t \in Threads, a \in Actors : pc[t] = "cancelcb" /\ InCallback(a) => a = t

IsInjectiveSeq(s) == \A i, j \in DOMAIN s : s[i] = s[j] => i = j

\* An accepted request that was neither run nor cancelled is in exactly one of
\* the dispatcher's lists, and nothing else is in them: no interleaving of
\* registering, queueing, signalling, cancelling, the timer and shutdown loses
\* a request or has it twice.
RequestsConserved ==
  /\ pending = registered_callbacks \cup Elems(callback_queue) \cup shutdown_queue \cup waits
                 \cup Elems(delayed_tasks) \cup UNION {Elems(to_call[t]) : t \in Threads}
  /\ registered_callbacks \cap (Elems(callback_queue) \cup shutdown_queue \cup waits
                                  \cup Elems(delayed_tasks)) = {}
  /\ Elems(callback_queue) \cap (shutdown_queue \cup waits \cup Elems(delayed_tasks)) = {}
  /\ shutdown_queue \cap (waits \cup Elems(delayed_tasks)) = {}
  /\ \A t \in Threads :
       /\ Elems(to_call[t]) \cap (registered_callbacks \cup Elems(callback_queue)
             \cup shutdown_queue \cup waits \cup Elems(delayed_tasks)) = {}
       /\ \A u \in Threads : t # u => Elems(to_call[t]) \cap Elems(to_call[u]) = {}
       /\ IsInjectiveSeq(to_call[t])
  /\ IsInjectiveSeq(callback_queue) /\ IsInjectiveSeq(delayed_tasks)

\* Queued callbacks are never forgotten: the event is signalled, or a direct
\* call is in progress that will signal it when it ends.
NoLostWakeup ==
  callback_queue # <<>> =>
    /\ Running /\ event_waiter # "null"
    /\ signaled \/ (~Unsynchronized /\ \E a \in Clients : pc[a] = "direct")

\* A thread blocked in WaitUntilIdle is never left behind by an idle transition
\* that forgot to broadcast.
IdleIsBroadcast == idle_waiters # {} => ~IsIdle

\* Whoever runs inside a synchronized dispatcher can still cancel every task
\* that was posted and has not started: none hides in DispatchCallbacks' batch.
TasksCancellable ==
  ~Unsynchronized =>
    \A a \in Actors, r \in Tasks :
      InCallback(a) /\ r \in pending =>
        \/ r \in Elems(callback_queue) \cup shutdown_queue \cup Elems(delayed_tasks)
        \/ \E b \in Actors : call[b] = "queue" /\ req[b] = r

\* While delayed tasks wait, something will look at them: the timer is armed
\* for the first one, or its handler runs, or a dispatch is coming or under way
\* that resets the timer at its end ("reset the timer whenever callback queue
\* is empty").
DelayedTasksWatched ==
  Running /\ delayed_tasks # <<>> =>
    \/ timer_posted /\ current_deadline <= deadline[Head(delayed_tasks)]
    \/ \E t \in Threads : pc[t] \in {"timer", "timer_check"}
    \/ signaled
    \/ \E t \in holders : pc[t] \in {"calling", "callback"}
    \/ callback_queue # <<>>

\* When the dispatcher reports that it has shut down, every request it ever
\* accepted has been run or cancelled, and none of its callbacks is running.
ShutdownIsFinal ==
  state \in {"kShutdown", "kDestroyed"} =>
    pending = {} /\ \A a \in Actors : ~InCallback(a)

\* CompleteShutdown's assertion that the dispatcher is idle and has nothing
\* scheduled.
ShutdownFindsIdle == panic # "not_idle"

\* Once ShutdownAsync was called the dispatcher reaches kShutdown, whatever
\* waits, timers, direct calls and cancellations are in flight.
ShutdownCompletes ==
  state = "kShuttingDown" ~> (state = "kShutdown" \/ panic # "none")

\* A queued callback is eventually run, cancelled, or moved aside by shutdown,
\* unless direct calls into a synchronized dispatcher never cease.
QueuedCallbacksRun ==
  (<>[](\A a \in Actors : pc[a] # "direct")) =>
    \A r \in Requests :
      r \in Elems(callback_queue) ~> (r \notin Elems(callback_queue) \/ panic # "none")

-----------------------------------------------------------------------------
(* Why callbacks are serialized: the inductive strengthening.              *)

\* Between taking a batch and finishing it, or inside a direct call.
Busy(a) == pc[a] \in {"calling", "callback", "direct"}
Completing(a) == pc[a] \in {"complete", "drain", "cancelcb", "drained", "observer"}

\* num_active_threads_ counts whoever is dispatching.
BusyIsCounted ==
  \A a \in Actors :
    /\ pc[a] = "direct" => <<a, "direct">> \in active_threads
    /\ pc[a] \in {"calling", "callback"} => <<a, "dispatch">> \in active_threads

\* dispatching_sync_ is the lock of a synchronized dispatcher's callbacks.
SyncIsALock ==
  ~Unsynchronized =>
    \A a, b \in Actors : Busy(a) => dispatching_sync /\ (Busy(b) => a = b)

\* ShutdownAsync takes effect once, so CompleteShutdown runs once.
ShutdownRunsOnce ==
  /\ Running => shutdown_event = "none" /\ \A a \in Actors : call[a] # "register_shutdown"
  /\ \A a, b \in Actors :
       call[a] = "register_shutdown" =>
         shutdown_event = "none" /\ (call[b] = "register_shutdown" => a = b)
  /\ \A a, b \in Actors :
       Completing(a) => shutdown_event = "taken" /\ (Completing(b) => a = b)

\* Past its assertions, CompleteShutdown runs when nobody else dispatches.
DrainsAlone ==
  \A a, b \in Actors :
    \/ pc[a] = "cancelcb"
    \/ panic = "none" /\ pc[a] \in {"drain", "drained", "observer"}
    => ~Busy(b)

SerialInv == BusyIsCounted /\ SyncIsALock /\ ShutdownRunsOnce /\ DrainsAlone

-----------------------------------------------------------------------------
(* The dispatcher implements DispatcherContract.                           *)

ContractPhase ==
  CASE Running -> "open"
    [] state \in {"kShutdown", "kDestroyed"} -> "closed"
    [] state = "kShuttingDown" /\ panic = "none"
         /\ \E t \in Threads : pc[t] \in {"drain", "cancelcb", "drained"} -> "draining"
    [] OTHER -> "closing"

Contract == INSTANCE DispatcherContract WITH
  phase <- ContractPhase, running <- {a \in Actors : InCallback(a)},
  Serial <- ~Unsynchronized

\* Every behaviour of the dispatcher is one the contract allows.
ImplementsContract == Contract!Spec
=============================================================================
