----------------------- MODULE DispatcherTimerProofs -----------------------
(* Delayed tasks never wait without the timer, or a dispatch, to look at     *)
(* them, whatever Timer::Handler, which disarms the timer outside the lock,  *)
(* races with.                                                               *)
EXTENDS DispatcherProofs

\* Timer::current_deadline_ and the task on the loop agree: the timer is armed
\* when the loop has the task, or when the one thread that took it has not yet
\* reset current_deadline_ (without holding callback_lock_).
TimerOwned ==
  /\ \A r \in Tasks : deadline[r] # Infinite
  /\ timer_posted => current_deadline # Infinite
  /\ current_deadline # Infinite /\ ~timer_posted => \E t \in Threads : pc[t] = "timer"
  /\ \A t \in Threads : pc[t] = "timer" => current_deadline # Infinite /\ ~timer_posted
  /\ \A t, u \in Threads : pc[t] = "timer" /\ pc[u] = "timer" => t = u

\* No direct call holds a synchronized dispatcher's callbacks up.
Undirected == Unsynchronized \/ \A c \in Clients : pc[c] # "direct"

TimerStep == TimerOwned' /\ (Undirected /\ DelayedTasksWatched => DelayedTasksWatched')

\* Steps that leave the timer and whoever will reset it alone.
Untimed ==
  /\ UNCHANGED <<deadline, current_deadline, timer_posted, delayed_tasks>>
  /\ Running' => Running
  /\ Undirected /\ Running /\ signaled => signaled'
  /\ \A t \in Threads :
       pc[t] \in {"timer", "timer_check"} \/ pc'[t] = "timer" => pc'[t] = pc[t]
  /\ \A t \in holders : pc[t] \in {"calling", "callback"} =>
       t \in holders' /\ pc'[t] \in {"calling", "callback"}

\* Steps that change none of it.
Untouched ==
  UNCHANGED <<deadline, current_deadline, timer_posted, delayed_tasks, state, signaled, holders, pc>>

\* Steps that change none of it leave it alone.
LEMMA UntouchedSteps == Untouched => Untimed
BY DEF Untouched, Untimed, Running

\* Such a step keeps the delayed tasks watched: while callbacks are queued the
\* event is signalled.
LEMMA UntimedSteps ==
  ASSUME WakeInv, TimerOwned, Untimed
  PROVE  TimerStep
<1>1. TimerOwned'
  <2>1. /\ UNCHANGED <<deadline, current_deadline, timer_posted>>
        /\ \A t \in Threads : pc'[t] = "timer" <=> pc[t] = "timer"
    BY Zenon DEF Untimed
  <2>. QED BY Zenon, <2>1 DEF TimerOwned
<1>2. ASSUME Undirected, DelayedTasksWatched PROVE DelayedTasksWatched'
  <2>. SUFFICES ASSUME Running', delayed_tasks' # <<>>
                PROVE  \/ timer_posted' /\ current_deadline' <= deadline'[Head(delayed_tasks')]
                       \/ \E t \in Threads : pc'[t] \in {"timer", "timer_check"}
                       \/ signaled'
                       \/ \E t \in holders' : pc'[t] \in {"calling", "callback"}
    BY Zenon DEF DelayedTasksWatched
  <2>1. Running /\ delayed_tasks # <<>>
    BY Zenon DEF Untimed
  <2>2. callback_queue # <<>> => signaled
    BY Zenon, <1>2 DEF WakeInv, NoLostWakeup, Undirected
  <2>3. CASE timer_posted /\ current_deadline <= deadline[Head(delayed_tasks)]
    BY Zenon, <2>3 DEF Untimed
  <2>4. CASE \E t \in Threads : pc[t] \in {"timer", "timer_check"}
    BY Zenon, <2>4 DEF Untimed
  <2>5. CASE signaled
    BY Zenon, <1>2, <2>1, <2>5 DEF Untimed
  <2>6. CASE \E t \in holders : pc[t] \in {"calling", "callback"}
    BY Zenon, <2>6 DEF Untimed
  <2>. QED BY Zenon, <1>2, <2>1, <2>2, <2>3, <2>4, <2>5, <2>6 DEF DelayedTasksWatched
<1>. QED BY Zenon, <1>1, <1>2 DEF TimerStep

\* Who may set the timer and what it is left like.
Armed(d, p) ==
  /\ p => d # Infinite
  /\ d # Infinite /\ ~p => \E t \in Threads : pc[t] = "timer"
  /\ \A t \in Threads : pc[t] = "timer" => d # Infinite /\ ~p

\* A cancelled timer is disarmed, or is in the hands of the thread that took it.
LEMMA TimerCancelArms ==
  ASSUME TimerOwned, TimerCancel
  PROVE  Armed(current_deadline', timer_posted')
<1>1. CASE TimerCancels
  BY Zenon, <1>1 DEF TimerOwned, TimerCancel, TimerCancels, Armed
<1>2. CASE ~TimerCancels
  BY Zenon, <1>2 DEF TimerOwned, TimerCancel, TimerCancels, Armed
<1>. QED BY Zenon, <1>1, <1>2

\* ResetTimerLocked arms the timer for the first delayed task, unless callbacks
\* are queued or a thread is about to look at the delayed tasks.
LEMMA ResetTimerArms ==
  ASSUME TimerOK, TimerOwned, NEW q, NEW ds \in Seq(Tasks), NEW dl \in [Tasks -> Times],
         \A r \in Tasks : dl[r] # Infinite, ResetTimer(q, ds, dl)
  PROVE  /\ Armed(current_deadline', timer_posted')
         /\ ds # <<>> => \/ q # <<>>
                         \/ timer_posted' /\ current_deadline' <= dl[Head(ds)]
                         \/ \E t \in Threads : pc[t] = "timer"
<1>1. ASSUME ds # <<>> PROVE Head(ds) \in Tasks /\ dl[Head(ds)] \in Times /\ dl[Head(ds)] # Infinite
  <2>1. Head(ds) \in Tasks
    BY <1>1
  <2>. QED BY Zenon, <2>1
<1>2. CASE NextTimeout(q, ds, dl) = Infinite
  <2>1. TimerCancel
    BY Zenon, <1>2 DEF ResetTimer
  <2>2. ds # <<>> => q # <<>>
    BY Zenon, <1>1, <1>2 DEF NextTimeout
  <2>. QED BY Zenon, <2>1, <2>2, TimerCancelArms
<1>3. CASE NextTimeout(q, ds, dl) # Infinite
  <2>. DEFINE next == dl[Head(ds)]
  <2>1. NextTimeout(q, ds, dl) = next /\ ds # <<>>
    BY Zenon, <1>3 DEF NextTimeout
  <2>2. next \in Times /\ next # Infinite /\ current_deadline \in Times
    BY Zenon, <1>1, <2>1 DEF TimerOK
  <2>3. CASE current_deadline > next /\ TimerCancels
    <3>1. current_deadline' = next /\ timer_posted' = TRUE
      BY Zenon, <1>3, <2>1, <2>3 DEF ResetTimer
    <3>2. \A t \in Threads : pc[t] # "timer"
      BY Zenon, <2>3 DEF TimerOwned, TimerCancels
    <3>3. next <= next
      BY <2>2 DEF Times
    <3>. QED BY Zenon, <2>2, <3>1, <3>2, <3>3 DEF Armed
  <2>4. CASE ~(current_deadline > next /\ TimerCancels)
    <3>1. UNCHANGED <<current_deadline, timer_posted>>
      BY Zenon, <1>3, <2>1, <2>4 DEF ResetTimer
    <3>2. Armed(current_deadline', timer_posted')
      BY Zenon, <3>1 DEF TimerOwned, Armed
    <3>3. CASE ~TimerCancels
      BY Zenon, <3>2, <3>3 DEF TimerOwned, TimerCancels
    <3>4. CASE TimerCancels
      <4>1. current_deadline <= next
        BY <2>2, <2>4, <3>4, BoundsAssumption DEF Times, Infinite
      <4>2. current_deadline # Infinite
        BY <2>2, <4>1, BoundsAssumption DEF Times, Infinite
      <4>. QED BY Zenon, <3>1, <3>2, <3>4, <4>1, <4>2 DEF TimerCancels
    <3>. QED BY Zenon, <3>3, <3>4
  <2>. QED BY Zenon, <2>3, <2>4
<1>. QED BY Zenon, <1>2, <1>3

\* A step that leaves the threads in Timer::Handler alone keeps TimerOwned if
\* the timer is armed afterwards as ResetTimerLocked leaves it.
LEMMA ArmedSteps ==
  ASSUME TimerOwned, Armed(current_deadline', timer_posted'),
         \A r \in Tasks : deadline'[r] # Infinite,
         \A t \in Threads : pc'[t] = "timer" <=> pc[t] = "timer"
  PROVE  TimerOwned'
BY Zenon DEF TimerOwned, Armed

-----------------------------------------------------------------------------
(* The actions. *)

\* CancelAsyncOperation resets the timer when it removes a delayed task.
LEMMA CancelTimes ==
  ASSUME QueuesOK, TimerOK, WakeInv, TimerOwned, NEW r, CancelAsyncOperation(r),
         UNCHANGED <<state, deadline, waiter, pc>>
  PROVE  TimerStep
<1>1. CASE r \in Elems(callback_queue) \cup shutdown_queue
           \/ r \notin Elems(callback_queue) \cup shutdown_queue \cup Elems(delayed_tasks)
  <2>1. UNCHANGED <<current_deadline, timer_posted, delayed_tasks>>
    BY Zenon, <1>1 DEF CancelAsyncOperation
  <2>2. Untimed
    BY Zenon, <2>1 DEF Untimed, Running, waiter
  <2>. QED BY Zenon, <2>2, UntimedSteps
<1>2. CASE r \notin Elems(callback_queue) \cup shutdown_queue /\ r \in Elems(delayed_tasks)
  <2>1. /\ Extract(delayed_tasks, r, delayed_tasks')
        /\ ResetTimer(callback_queue, delayed_tasks', deadline)
        /\ UNCHANGED callback_queue
    BY Zenon, <1>2 DEF CancelAsyncOperation
  <2>2. delayed_tasks' \in Seq(Tasks) /\ deadline \in [Tasks -> Times]
    BY Zenon, <1>2, <2>1, ExtractType DEF QueuesOK, TimerOK
  <2>3. \A x \in Tasks : deadline[x] # Infinite
    BY Zenon DEF TimerOwned
  <2>4. /\ Armed(current_deadline', timer_posted')
        /\ delayed_tasks' # <<>> =>
             \/ callback_queue # <<>>
             \/ timer_posted' /\ current_deadline' <= deadline[Head(delayed_tasks')]
             \/ \E t \in Threads : pc[t] = "timer"
    BY Zenon, <2>1, <2>2, <2>3, ResetTimerArms
  <2>5. TimerOwned'
    BY Zenon, <2>3, <2>4, ArmedSteps
  <2>6. DelayedTasksWatched'
    BY Zenon, <2>1, <2>4 DEF DelayedTasksWatched
  <2>. QED BY Zenon, <2>5, <2>6 DEF TimerStep
<1>. QED BY Zenon, <1>1, <1>2
\* API calls: a delayed task is posted or cancelled with the timer reset for
\* what is then first.
LEMMA ApiCallTimes ==
  ASSUME TypeInv, WakeInv, TimerOwned, NEW a \in Actors, ApiCall(a)
  PROVE  TimerStep
<1>0. /\ QueuesOK /\ TimerOK /\ deadline \in [Tasks -> Times]
      /\ \A x \in Tasks : deadline[x] # Infinite
  BY Zenon DEF TypeInv, TypeOK, TimerOK, TimerOwned
<1>1. ASSUME NEW r \in Tasks, PostTask(a, r) PROVE Untouched
  BY Zenon, <1>1 DEF PostTask, Untouched, timer, waiter
<1>2. ASSUME NEW r \in Tasks, CancelTask(a, r) PROVE TimerStep
  BY Zenon, <1>0, <1>2, CancelTimes DEF CancelTask, control
<1>3. ASSUME NEW r \in Tasks, NEW d \in 1 .. MaxTime, PostDelayedTask(a, r, d) PROVE TimerStep
  <2>1. /\ InsertDelayedTaskSorted(r, d) /\ deadline' = [deadline EXCEPT ![r] = d]
        /\ ResetTimer(callback_queue, delayed_tasks', deadline')
        /\ UNCHANGED <<state, callback_queue, pc>>
    BY Zenon, <1>3 DEF PostDelayedTask, control
  <2>2. delayed_tasks' \in Seq(Tasks)
    BY Zenon, <1>0, <2>1, InsertDelayedTaskSortedType
  <2>3. d \in Times /\ d # Infinite
    BY BoundsAssumption DEF Times, Infinite
  <2>4. deadline' \in [Tasks -> Times] /\ \A x \in Tasks : deadline'[x] # Infinite
    BY Zenon, <1>0, <2>1, <2>3
  <2>5. /\ Armed(current_deadline', timer_posted')
        /\ delayed_tasks' # <<>> =>
             \/ callback_queue # <<>>
             \/ timer_posted' /\ current_deadline' <= deadline'[Head(delayed_tasks')]
             \/ \E t \in Threads : pc[t] = "timer"
    BY Zenon, <1>0, <2>1, <2>2, <2>4, ResetTimerArms
  <2>6. TimerOwned'
    BY Zenon, <2>1, <2>4, <2>5, ArmedSteps
  <2>7. DelayedTasksWatched'
    BY Zenon, <2>1, <2>5 DEF DelayedTasksWatched
  <2>. QED BY Zenon, <2>6, <2>7 DEF TimerStep
<1>4. ASSUME NEW r \in Reads, RegisterRead(a, r) \/ QueueRead(a, r) \/ CancelCallback(a, r)
      PROVE  Untouched
  BY Zenon, <1>4 DEF RegisterRead, QueueRead, CancelCallback, Untouched, timer, waiter, queues,
                     control
<1>5. ASSUME NEW w \in Waits, BeginWait(a, w) \/ CancelWait(a, w) PROVE Untouched
  BY Zenon, <1>5 DEF BeginWait, CancelWait, Untouched, timer, waiter, queues, control
<1>6. ASSUME WaitUntilIdle(a) PROVE Untouched
  BY Zenon, <1>6 DEF WaitUntilIdle, Untouched, timer, waiter, queues
<1>8. ASSUME Destroy(a) PROVE Untimed
  <2>1. /\ UNCHANGED <<deadline, current_deadline, timer_posted, delayed_tasks, signaled, holders, pc>>
        /\ ~Running'
    BY Zenon, <1>8 DEF Destroy, timer, waiter, queues, control, Running
  <2>. QED BY Zenon, <2>1 DEF Untimed
<1>7. ASSUME ShutdownAsync(a) PROVE TimerStep
  <2>1. TimerCancel /\ ~Running' /\ UNCHANGED <<deadline, pc>>
    BY Zenon, <1>7 DEF ShutdownAsync, Running
  <2>2. TimerOwned'
    BY Zenon, <1>0, <2>1, TimerCancelArms, ArmedSteps
  <2>. QED BY Zenon, <2>1, <2>2 DEF TimerStep, DelayedTasksWatched
<1>. QED
  BY Zenon, <1>1, <1>2, <1>3, <1>4, <1>5, <1>6, <1>7, <1>8, UntouchedSteps, UntimedSteps DEF ApiCall

\* The later steps of an API call, and the ends of callbacks.
LEMMA CallStepTimes ==
  ASSUME TypeInv, WakeInv, TimerOwned, NEW a \in Actors, CallStep(a) \/ CallbackEnds(a)
  PROVE  TimerStep
<1>0. /\ QueuesOK /\ TimerOK /\ pc \in [Actors -> ThreadPcs \cup ClientPcs]
      /\ Threads \subseteq Actors /\ holders \subseteq Threads
  BY Zenon DEF TypeInv, TypeOK, ControlOK, WaiterOK, Actors
<1>1. ASSUME QueueRegisteredCallback(a) PROVE Untimed
  <2>1. UNCHANGED <<deadline, current_deadline, timer_posted, delayed_tasks, state, holders>>
    BY Zenon, <1>1 DEF QueueRegisteredCallback, timer
  <2>2. signaled => signaled'
    BY ZenonT(40), <1>1 DEF QueueRegisteredCallback, Signal
  <2>3. pc' = pc \/ (pc' = [pc EXCEPT ![a] = "direct"] /\ a \in Clients)
    BY Zenon, <1>1, ActorsAssumption DEF QueueRegisteredCallback, Goto, DirectCall
  <2>4. \A t \in Threads : pc'[t] = pc[t]
    BY Zenon, <1>0, <2>3, ActorsAssumption
  <2>. QED BY Zenon, <1>0, <2>1, <2>2, <2>4 DEF Untimed, Running
<1>2. ASSUME QueueDefer(a) PROVE Untimed
  <2>1. \A b \in Actors : pc'[b] = pc[b] \/ (pc[b] = "wait_queued" /\ pc'[b] = "idle")
    BY Zenon, <1>0, <1>2 DEF QueueDefer, Goto
  <2>. QED BY Zenon, <1>0, <1>2, <2>1 DEF QueueDefer, Untimed, timer, waiter, queues, Running
<1>3. ASSUME \/ RemoveWait(a) \/ RegisterForCompleteShutdownEvent(a)
             \/ WaitUntilIdleReturn(a)
      PROVE  Untouched
  BY Zenon, <1>3 DEF RemoveWait, RegisterForCompleteShutdownEvent, WaitUntilIdleReturn, Untouched,
                     timer, waiter, queues
<1>4. ASSUME CancelWaitOperation(a) PROVE TimerStep
  BY Zenon, <1>0, <1>4, CancelTimes DEF CancelWaitOperation
<1>5. ASSUME DirectCallEnd(a) PROVE Untimed
  <2>1. pc[a] = "direct" /\ pc' = [pc EXCEPT ![a] = "idle"] /\ (signaled => signaled')
    BY Zenon, <1>5 DEF DirectCallEnd, Goto
  <2>2. \A b \in Actors : pc'[b] = pc[b] \/ (pc[b] = "direct" /\ pc'[b] = "idle")
    BY Zenon, <1>0, <2>1
  <2>. QED BY Zenon, <1>0, <1>5, <2>1, <2>2 DEF DirectCallEnd, Untimed, timer, queues, Running
<1>6. ASSUME CallbackReturns(a) \/ CancelReturns(a) PROVE Untimed
  <2>1. \A b \in Actors : \/ pc'[b] = pc[b]
                          \/ pc[b] = "callback" /\ pc'[b] = "calling"
                          \/ pc[b] = "cancelcb" /\ pc'[b] = "drain"
    BY Zenon, <1>0, <1>6 DEF CallbackReturns, CancelReturns, Goto
  <2>2. UNCHANGED <<deadline, current_deadline, timer_posted, delayed_tasks, state, signaled, holders>>
    BY Zenon, <1>6 DEF CallbackReturns, CancelReturns, timer, waiter, queues
  <2>. QED BY Zenon, <1>0, <2>1, <2>2 DEF Untimed, Running
<1>. QED
  BY Zenon, <1>1, <1>2, <1>3, <1>4, <1>5, <1>6, UntouchedSteps, UntimedSteps
     DEF CallStep, CallbackEnds

\* What the loop delivers: the timer's task goes to one thread.
LEMMA LoopStepTimes ==
  ASSUME TypeInv, WakeInv, TimerOwned, NEW t \in Threads, LoopStep(t)
  PROVE  TimerStep
<1>0. /\ pc \in [Actors -> ThreadPcs \cup ClientPcs] /\ t \in Actors
      /\ Threads \subseteq Actors /\ holders \subseteq Threads
  BY Zenon DEF TypeInv, TypeOK, ControlOK, WaiterOK, Actors
<1>1. ASSUME HandleEvent(t) \/ ShutdownEventSignaled(t) \/ \E w \in Waits : WaitSignaled(t, w)
      PROVE  Untimed
  <2>1. \A u \in Threads : \/ pc'[u] = pc[u]
                           \/ pc[u] = "idle" /\ pc'[u] \in {"dispatch", "complete", "signal"}
    BY Zenon, <1>0, <1>1 DEF HandleEvent, ShutdownEventSignaled, WaitSignaled, Quiet, Goto
  <2>2. signaled' = signaled /\ (holders' = holders \/ holders' = holders \cup {t})
    BY Zenon, <1>1 DEF HandleEvent, ShutdownEventSignaled, WaitSignaled, waiter
  <2>3. UNCHANGED <<deadline, current_deadline, timer_posted, delayed_tasks, state>>
    BY Zenon, <1>1 DEF HandleEvent, ShutdownEventSignaled, WaitSignaled, timer, queues
  <2>. QED BY Zenon, <1>0, <2>1, <2>2, <2>3 DEF Untimed, Running
<1>2. ASSUME TimerFires(t) PROVE TimerStep
  <2>1. /\ timer_posted /\ ~timer_posted' /\ UNCHANGED <<deadline, current_deadline>>
        /\ pc' = [pc EXCEPT ![t] = "timer"]
    BY Zenon, <1>2 DEF TimerFires, Goto
  <2>2. pc'[t] = "timer" /\ \A u \in Threads \ {t} : pc'[u] = pc[u]
    BY Zenon, <1>0, <2>1
  <2>3. TimerOwned'
    BY Zenon, <2>1, <2>2 DEF TimerOwned
  <2>. QED BY Zenon, <2>2, <2>3 DEF TimerStep, DelayedTasksWatched
<1>. QED BY Zenon, <1>1, <1>2, UntimedSteps DEF LoopStep
\* Dispatching: the thread that ends a dispatch resets the timer.
LEMMA DispatchTimes ==
  ASSUME TypeInv, WakeInv, TimerOwned, NEW t \in Threads,
         DispatchCallbacks(t) \/ DispatchCallback(t) \/ DispatchEnd(t) \/ DispatchDefer(t)
  PROVE  TimerStep
<1>0. /\ pc \in [Actors -> ThreadPcs \cup ClientPcs] /\ t \in Actors
      /\ Threads \subseteq Actors /\ holders \subseteq Threads
      /\ TimerOK /\ deadline \in [Tasks -> Times] /\ delayed_tasks \in Seq(Tasks)
      /\ \A x \in Tasks : deadline[x] # Infinite
  BY Zenon DEF TypeInv, TypeOK, ControlOK, WaiterOK, TimerOK, QueuesOK, TimerOwned, Actors
<1>1. ASSUME DispatchCallbacks(t) PROVE Untimed
  <2>1. /\ pc[t] = "dispatch" /\ t \in holders
        /\ UNCHANGED <<state, deadline, current_deadline, timer_posted, delayed_tasks>>
    BY Zenon, <1>1 DEF DispatchCallbacks, timer, WakeInv, OneHolder
  <2>2. \A u \in holders : u = t
    BY Zenon, <2>1 DEF WakeInv, OneHolder
  <2>3. pc' = [pc EXCEPT ![t] = "dispatch_defer"] \/ pc' = [pc EXCEPT ![t] = "calling"]
    BY Zenon, <1>1 DEF DispatchCallbacks, Goto
  <2>4. pc'[t] \in {"dispatch_defer", "calling"} /\ \A u \in Threads \ {t} : pc'[u] = pc[u]
    BY Zenon, <1>0, <2>3
  <2>5. ASSUME Undirected, Running PROVE signaled' = signaled
    <3>1. ASSUME ~Unsynchronized, dispatching_sync PROVE FALSE
      <4>1. PICK b \in Actors : Busy(b)
        BY Zenon, <3>1 DEF WakeInv, SyncIsHeld
      <4>2. b \in Threads /\ pc[b] \in {"calling", "callback"}
        BY Zenon, <2>5, <3>1, <4>1 DEF Undirected, Busy, WakeInv, OwnPcs, ThreadPcs, ClientPcs, Actors
      <4>3. b \in holders
        BY Zenon, <3>1, <4>2 DEF WakeInv, OneHolder
      <4>. QED BY Zenon, <2>1, <2>2, <4>2, <4>3
    <3>2. ~((~Unsynchronized /\ dispatching_sync) \/ ~Running)
      BY Zenon, <2>5, <3>1
    <3>. QED BY Zenon, <1>1, <3>2 DEF DispatchCallbacks
  <2>6. \A u \in Threads :
          pc[u] \in {"timer", "timer_check"} \/ pc'[u] = "timer" => pc'[u] = pc[u]
    BY Zenon, <2>1, <2>4
  <2>7. \A u \in holders : pc[u] \notin {"calling", "callback"}
    BY Zenon, <2>1, <2>2
  <2>8. Undirected /\ Running /\ signaled => signaled'
    BY Zenon, <2>5
  <2>9. Running' => Running
    BY Zenon, <2>1 DEF Running
  <2>. QED BY Zenon, <2>1, <2>6, <2>7, <2>8, <2>9 DEF Untimed
<1>2. ASSUME DispatchCallback(t) PROVE Untimed
  <2>1. \A u \in Threads : pc'[u] = pc[u] \/ (pc[u] = "calling" /\ pc'[u] = "callback")
    BY Zenon, <1>0, <1>2 DEF DispatchCallback, Goto
  <2>2. UNCHANGED <<deadline, current_deadline, timer_posted, delayed_tasks, state, signaled, holders>>
    BY Zenon, <1>2 DEF DispatchCallback, timer, waiter
  <2>. QED BY Zenon, <1>0, <2>1, <2>2 DEF Untimed, Running
<1>3. ASSUME DispatchEnd(t) PROVE TimerStep
  <2>1. /\ pc[t] = "calling" /\ pc' = [pc EXCEPT ![t] = "dispatch_defer"]
        /\ UNCHANGED <<state, deadline, delayed_tasks, callback_queue, holders>>
    BY Zenon, <1>3 DEF DispatchEnd, Goto, queues
  <2>2. pc'[t] = "dispatch_defer" /\ \A u \in Threads \ {t} : pc'[u] = pc[u]
    BY Zenon, <1>0, <2>1
  <2>3. CASE t \notin holders
    <3>1. UNCHANGED <<current_deadline, timer_posted, signaled>>
      BY Zenon, <1>3, <2>3 DEF DispatchEnd
    <3>2. Untimed
      BY Zenon, <1>0, <2>1, <2>2, <2>3, <3>1 DEF Untimed, Running
    <3>. QED BY Zenon, <3>2, UntimedSteps
  <2>4. CASE t \in holders
    <3>1. ResetTimer(callback_queue, delayed_tasks, deadline)
      BY Zenon, <1>3, <2>4 DEF DispatchEnd
    <3>2. /\ Armed(current_deadline', timer_posted')
          /\ delayed_tasks # <<>> =>
               \/ callback_queue # <<>>
               \/ timer_posted' /\ current_deadline' <= deadline[Head(delayed_tasks)]
               \/ \E u \in Threads : pc[u] = "timer"
      BY Zenon, <1>0, <3>1, ResetTimerArms
    <3>3. \A u \in Threads : pc'[u] = "timer" <=> pc[u] = "timer"
      BY Zenon, <2>1, <2>2
    <3>4. TimerOwned'
      BY Zenon, <1>0, <2>1, <3>2, <3>3, ArmedSteps
    <3>5. DelayedTasksWatched'
      BY Zenon, <2>1, <3>2, <3>3 DEF DelayedTasksWatched
    <3>. QED BY Zenon, <3>4, <3>5 DEF TimerStep
  <2>. QED BY Zenon, <2>3, <2>4
<1>4. ASSUME DispatchDefer(t) PROVE Untimed
  <2>1. /\ pc[t] = "dispatch_defer" /\ pc' = [pc EXCEPT ![t] = "idle"] /\ holders' = holders \ {t}
        /\ UNCHANGED <<deadline, current_deadline, timer_posted, delayed_tasks, state, signaled>>
    BY Zenon, <1>4 DEF DispatchDefer, Goto, timer, queues
  <2>2. pc'[t] = "idle" /\ \A u \in Threads \ {t} : pc'[u] = pc[u]
    BY Zenon, <1>0, <2>1
  <2>. QED BY Zenon, <1>0, <2>1, <2>2 DEF Untimed, Running
<1>. QED BY Zenon, <1>1, <1>2, <1>3, <1>4, UntimedSteps

\* The other handlers: the timer's own resets the timer, or signals what it
\* has queued.
LEMMA HandlerStepTimes ==
  ASSUME TypeInv, WakeInv, TimerOwned, NEW t \in Threads, HandlerStep(t)
  PROVE  TimerStep
<1>0. /\ pc \in [Actors -> ThreadPcs \cup ClientPcs] /\ t \in Actors
      /\ Threads \subseteq Actors /\ holders \subseteq Threads
      /\ TimerOK /\ deadline \in [Tasks -> Times] /\ delayed_tasks \in Seq(Tasks)
      /\ callback_queue \in Seq(Requests)
      /\ \A x \in Tasks : deadline[x] # Infinite
  BY Zenon DEF TypeInv, TypeOK, ControlOK, WaiterOK, TimerOK, QueuesOK, TimerOwned, Actors
<1>1. ASSUME TimerHandler(t) PROVE TimerStep
  <2>1. /\ pc[t] = "timer" /\ pc' = [pc EXCEPT ![t] = "timer_check"]
        /\ current_deadline' = Infinite /\ UNCHANGED <<deadline, timer_posted>>
    BY Zenon, <1>1 DEF TimerHandler, Goto
  <2>2. pc'[t] = "timer_check" /\ \A u \in Threads \ {t} : pc'[u] = pc[u]
    BY Zenon, <1>0, <2>1
  <2>3. \A u \in Threads : pc'[u] # "timer"
    BY Zenon, <2>1, <2>2 DEF TimerOwned
  <2>4. TimerOwned'
    BY Zenon, <2>1, <2>3 DEF TimerOwned
  <2>. QED BY Zenon, <2>2, <2>4 DEF TimerStep, DelayedTasksWatched
<1>2. ASSUME CheckDelayedTasks(t) PROVE TimerStep
  <2>1. /\ pc[t] = "timer_check" /\ pc' = [pc EXCEPT ![t] = "idle"]
        /\ UNCHANGED <<state, deadline>>
    BY Zenon, <1>2 DEF CheckDelayedTasks, Goto
  <2>2. pc'[t] = "idle" /\ \A u \in Threads \ {t} : pc'[u] = pc[u]
    BY Zenon, <1>0, <2>1
  <2>3. \A u \in Threads : pc'[u] = "timer" <=> pc[u] = "timer"
    BY Zenon, <2>1, <2>2
  <2>4. ASSUME UNCHANGED <<current_deadline, timer_posted>> PROVE TimerOwned'
    BY Zenon, <2>1, <2>3, <2>4 DEF TimerOwned
  <2>5. CASE ~Running
    <3>1. UNCHANGED <<current_deadline, timer_posted>>
      BY Zenon, <1>2, <2>5 DEF CheckDelayedTasks
    <3>. QED BY Zenon, <2>1, <2>4, <2>5, <3>1 DEF TimerStep, DelayedTasksWatched, Running
  <2>6. CASE Running
    <3>1. PICK k \in 0 .. Len(delayed_tasks) :
            /\ callback_queue' = callback_queue \o SubSeq(delayed_tasks, 1, k)
            /\ delayed_tasks' = SubSeq(delayed_tasks, k + 1, Len(delayed_tasks))
            /\ IF k > 0
               THEN Signal /\ UNCHANGED <<current_deadline, timer_posted>>
               ELSE ResetTimer(callback_queue, delayed_tasks, deadline)
      BY Zenon, <1>2, <2>6 DEF CheckDelayedTasks
    <3>2. CASE k > 0
      <4>1. event_waiter # "null"
        BY Zenon, <2>6 DEF WakeInv, QuietAfterShutdown
      <4>2. signaled' /\ UNCHANGED <<current_deadline, timer_posted>>
        BY Zenon, <3>1, <3>2, <4>1 DEF Signal
      <4>. QED BY Zenon, <2>4, <4>2 DEF TimerStep, DelayedTasksWatched
    <3>3. CASE k = 0
      <4>1. SubSeq(delayed_tasks, 1, 0) = <<>> /\ SubSeq(delayed_tasks, 1, Len(delayed_tasks)) = delayed_tasks
        BY <1>0
      <4>2. callback_queue' = callback_queue /\ delayed_tasks' = delayed_tasks
        BY <1>0, <3>1, <3>3, <4>1
      <4>3. ResetTimer(callback_queue, delayed_tasks, deadline)
        BY <3>1, <3>3
      <4>4. /\ Armed(current_deadline', timer_posted')
            /\ delayed_tasks # <<>> =>
                 \/ callback_queue # <<>>
                 \/ timer_posted' /\ current_deadline' <= deadline[Head(delayed_tasks)]
                 \/ \E u \in Threads : pc[u] = "timer"
        BY Zenon, <1>0, <4>3, ResetTimerArms
      <4>5. TimerOwned'
        BY Zenon, <1>0, <2>1, <2>3, <4>4, ArmedSteps
      <4>6. DelayedTasksWatched'
        BY Zenon, <2>1, <2>3, <4>2, <4>4 DEF DelayedTasksWatched
      <4>. QED BY Zenon, <4>5, <4>6 DEF TimerStep
    <3>. QED BY <3>2, <3>3
  <2>. QED BY Zenon, <2>5, <2>6
<1>3. ASSUME \/ OnSignal(t) \/ QueueWait(t) \/ CompleteShutdown(t)
             \/ \E r \in Requests : CancelNext(t, r)
             \/ ShutdownQueueEmpty(t) \/ EnterShutdown(t) \/ ObserverReturns(t)
      PROVE  Untimed
  <2>1. \E l \in {"queue_wait", "wait_queued", "idle", "drain", "cancelcb", "drained", "observer"} :
          pc' = [pc EXCEPT ![t] = l]
    BY Zenon, <1>3 DEF OnSignal, QueueWait, CompleteShutdown, CancelNext, ShutdownQueueEmpty,
                       EnterShutdown, ObserverReturns, Goto
  <2>2. pc[t] \notin {"timer", "timer_check", "calling", "callback"}
    BY Zenon, <1>3 DEF OnSignal, QueueWait, CompleteShutdown, CancelNext, ShutdownQueueEmpty,
                       EnterShutdown, ObserverReturns
  <2>3. pc'[t] # "timer" /\ \A u \in Threads \ {t} : pc'[u] = pc[u]
    BY Zenon, <1>0, <2>1
  <2>4. UNCHANGED <<deadline, current_deadline, timer_posted, delayed_tasks, signaled, holders>>
    BY Zenon, <1>3 DEF OnSignal, QueueWait, CompleteShutdown, CancelNext, ShutdownQueueEmpty,
                       EnterShutdown, ObserverReturns, timer, waiter, queues
  <2>5. Running' => Running
    BY Zenon, <1>3 DEF OnSignal, QueueWait, CompleteShutdown, CancelNext, ShutdownQueueEmpty,
                       EnterShutdown, ObserverReturns, Running
  <2>. QED BY Zenon, <1>0, <2>2, <2>3, <2>4, <2>5 DEF Untimed
<1>. QED BY Zenon, <1>1, <1>2, <1>3, DispatchTimes, UntimedSteps DEF HandlerStep

\* Every step keeps the timer owned, and the delayed tasks watched unless a
\* direct call is in the way.
LEMMA TimerNext == TypeInv /\ WakeInv /\ TimerOwned /\ [Next]_vars => TimerStep
<1>1. ASSUME TypeInv, WakeInv, TimerOwned, Tick \/ UNCHANGED vars PROVE TimerStep
  <2>1. Untouched
    BY Zenon, <1>1 DEF Tick, vars, Untouched, timer, waiter, queues, control
  <2>. QED BY Zenon, <1>1, <2>1, UntouchedSteps, UntimedSteps
<1>. QED
  BY Zenon, <1>1, ApiCallTimes, CallStepTimes, LoopStepTimes, HandlerStepTimes DEF Next

\* The timer is armed exactly when the loop has its task or one thread has just
\* taken it, and never twice.
THEOREM TimerInvariant == Spec => []TimerOwned
<1>1. Init => TimerOwned
  BY BoundsAssumption DEF Init, TimerOwned, Infinite, Actors
<1>2. TypeInv /\ WakeInv /\ TimerOwned /\ [Next]_vars => TimerOwned'
  BY Zenon, TimerNext DEF TimerStep
<1>3. TypeInv /\ [Next]_vars => TypeInv'
  BY Zenon, TypeNext, TypeStutter
<1>. QED BY TypeInit, WakeInvariant, <1>1, <1>2, <1>3, PTL DEF Spec

\* Only a runtime thread's QueueRegisteredCallback calls into the driver
\* directly.
LEMMA DirectCallers ==
  ASSUME TypeInv, [Next]_vars, NEW c \in Clients, pc'[c] = "direct", pc[c] # "direct"
  PROVE  c \in Runtime
<1>0. pc \in [Actors -> ThreadPcs \cup ClientPcs] /\ c \in Actors /\ c \notin Threads
  BY Zenon, ActorsAssumption DEF TypeInv, TypeOK, ControlOK, Actors
<1>1. pc' # pc
  BY Zenon
<1>2. ASSUME NEW a \in Actors, ApiCall(a) PROVE FALSE
  BY Zenon, <1>1, <1>2 DEF ApiCall, PostTask, CancelTask, PostDelayedTask, RegisterRead, QueueRead,
     CancelCallback, BeginWait, CancelWait, ShutdownAsync, WaitUntilIdle, Destroy, control
<1>3. ASSUME NEW a \in Actors, CallStep(a) PROVE c \in Runtime
  <2>1. ASSUME QueueRegisteredCallback(a) PROVE c \in Runtime
    <3>1. pc' = [pc EXCEPT ![a] = "direct"] /\ a \in Runtime
      BY Zenon, <1>1, <2>1 DEF QueueRegisteredCallback, Goto, DirectCall
    <3>. QED BY Zenon, <1>0, <3>1
  <2>2. ASSUME QueueDefer(a) PROVE FALSE
    BY Zenon, <1>0, <2>2 DEF QueueDefer, Goto
  <2>. QED
    BY Zenon, <1>1, <1>3, <2>1, <2>2 DEF CallStep, RemoveWait, CancelWaitOperation,
       RegisterForCompleteShutdownEvent, WaitUntilIdleReturn
<1>4. ASSUME NEW a \in Actors, CallbackEnds(a) PROVE FALSE
  <2>1. \E l \in {"idle", "calling", "drain"} : pc' = [pc EXCEPT ![a] = l]
    BY Zenon, <1>4 DEF CallbackEnds, DirectCallEnd, CallbackReturns, CancelReturns, Goto
  <2>. QED BY Zenon, <1>0, <2>1
<1>5. ASSUME NEW t \in Threads, LoopStep(t) \/ HandlerStep(t) PROVE FALSE
  <2>1. \E l : pc' = [pc EXCEPT ![t] = l]
    BY Zenon, <1>5 DEF LoopStep, HandleEvent, TimerFires, ShutdownEventSignaled, WaitSignaled,
       HandlerStep, DispatchCallbacks, DispatchCallback, DispatchEnd, DispatchDefer, TimerHandler,
       CheckDelayedTasks, OnSignal, QueueWait, CompleteShutdown, CancelNext, ShutdownQueueEmpty,
       EnterShutdown, ObserverReturns, Goto
  <2>. QED BY Zenon, <1>0, <2>1
<1>6. ASSUME Tick \/ UNCHANGED vars PROVE FALSE
  BY Zenon, <1>1, <1>6 DEF Tick, vars, control
<1>. QED BY Zenon, <1>2, <1>3, <1>4, <1>5, <1>6 DEF Next

\* On an unsynchronized dispatcher, and on one no runtime thread calls into
\* directly, delayed tasks never wait without a timer or a dispatch to come.
THEOREM DelayedWatched ==
  ASSUME Unsynchronized \/ Runtime = {} PROVE Spec => []DelayedTasksWatched
<1>1. Init => Undirected /\ DelayedTasksWatched
  BY Zenon DEF Init, Undirected, DelayedTasksWatched, Actors
<1>2. TypeInv /\ [Next]_vars => TypeInv'
  BY Zenon, TypeNext, TypeStutter
<1>3. TypeInv /\ WakeInv /\ Undirected /\ [Next]_vars => Undirected'
  BY Zenon, DirectCallers DEF Undirected
<1>4. TypeInv /\ WakeInv /\ TimerOwned /\ Undirected /\ DelayedTasksWatched /\ [Next]_vars =>
        DelayedTasksWatched'
  BY Zenon, TimerNext DEF TimerStep
<1>. QED
  BY TypeInit, WakeInvariant, TimerInvariant, <1>1, <1>2, <1>3, <1>4, PTL DEF Spec
=============================================================================
