-------------------------- MODULE DispatcherProofs --------------------------
(* Callbacks of a synchronized dispatcher exclude each other, cancellations *)
(* run alone, and no wake-up is lost.                                      *)
EXTENDS DispatcherTypeProofs

\* Steps that neither start a callback nor move CompleteShutdown forward: the
\* threads they move leave the dispatching and completing parts of the code.
Harmless ==
  /\ panic = "none"
  /\ Running' => Running
  /\ \/ shutdown_event' = shutdown_event
     \/ shutdown_event = "valid" /\ shutdown_event' = "signaled"
  /\ \A a \in Actors :
       /\ call'[a] = "register_shutdown" => call[a] = "register_shutdown"
       /\ \/ pc'[a] = pc[a]
          \/ pc'[a] \in {"idle", "dispatch", "timer", "timer_check", "signal", "queue_wait",
                         "wait_queued"}
       /\ \A k \in {"dispatch", "direct"} :
            <<a, k>> \in active_threads => <<a, k>> \in active_threads'
  /\ dispatching_sync' = dispatching_sync

\* A step that starts no callback and does not advance CompleteShutdown keeps SerialInv.
LEMMA HarmlessSteps ==
  ASSUME SerialInv, Harmless
  PROVE  SerialInv'
<1>1. BusyIsCounted'
  BY ZenonT(30) DEF Harmless, SerialInv, BusyIsCounted
<1>2. SyncIsALock'
  BY ZenonT(30) DEF Harmless, SerialInv, SyncIsALock, Busy
<1>3. ShutdownRunsOnce'
  BY ZenonT(30) DEF Harmless, SerialInv, ShutdownRunsOnce, Completing
<1>4. DrainsAlone'
  BY ZenonT(30) DEF Harmless, SerialInv, DrainsAlone, Busy
<1>. QED BY Zenon, <1>1, <1>2, <1>3, <1>4 DEF SerialInv

\* SerialInv holds initially.
LEMMA SerialInit == Init => SerialInv
BY Zenon DEF Init, SerialInv, BusyIsCounted, SyncIsALock, ShutdownRunsOnce, DrainsAlone, Busy,
       Completing, Running

\* Starting an API call keeps SerialInv.
LEMMA ApiCallSerial ==
  ASSUME TypeInv, SerialInv, panic = "none", NEW a \in Actors, ApiCall(a)
  PROVE  SerialInv'
<1>. USE DEF TypeInv, TypeOK, ControlOK, NoIdleCheck, Enter, control
<1>1. ASSUME NEW r \in Tasks, PostTask(a, r) \/ CancelTask(a, r) PROVE Harmless
  BY Zenon, <1>1 DEF PostTask, CancelTask, Harmless, Running
<1>2. ASSUME NEW r \in Tasks, NEW d \in 1 .. MaxTime, PostDelayedTask(a, r, d) PROVE Harmless
  BY Zenon, <1>2 DEF PostDelayedTask, Harmless, Running
<1>3. ASSUME NEW r \in Reads, RegisterRead(a, r) \/ QueueRead(a, r) \/ CancelCallback(a, r)
      PROVE  Harmless
  BY ZenonT(30), <1>3 DEF RegisterRead, QueueRead, CancelCallback, Harmless, Running
<1>4. ASSUME NEW w \in Waits, BeginWait(a, w) PROVE Harmless
  BY Zenon, <1>4 DEF BeginWait, Harmless, Running
<1>5. ASSUME NEW w \in Waits, CancelWait(a, w) PROVE Harmless
  BY Zenon, <1>5 DEF CancelWait, Harmless, Running
<1>6. CASE WaitUntilIdle(a) \/ Destroy(a)
  BY Zenon, <1>6, HarmlessSteps DEF WaitUntilIdle, Destroy, Harmless, Running
<1>7. CASE ShutdownAsync(a)
  <2>1. BusyIsCounted' /\ SyncIsALock'
    BY Zenon, <1>7 DEF ShutdownAsync, SerialInv, BusyIsCounted, SyncIsALock, Busy
  <2>2. ShutdownRunsOnce'
    BY Zenon, <1>7 DEF ShutdownAsync, SerialInv, ShutdownRunsOnce, Completing, Running
  <2>3. DrainsAlone'
    BY Zenon, <1>7 DEF ShutdownAsync, SerialInv, DrainsAlone, Busy
  <2>. QED BY Zenon, <2>1, <2>2, <2>3 DEF SerialInv
<1>. QED BY Zenon, <1>1, <1>2, <1>3, <1>4, <1>5, <1>6, <1>7, HarmlessSteps DEF ApiCall

\* The later steps of an API call, direct calls included, keep SerialInv.
LEMMA CallStepSerial ==
  ASSUME TypeInv, SerialInv, panic = "none", NEW a \in Actors, CallStep(a)
  PROVE  SerialInv'
<1>. USE DEF TypeInv, TypeOK, ControlOK, NoIdleCheck, Enter, Return, Goto
<1>1. CASE QueueRegisteredCallback(a)
  <2>. DEFINE direct == /\ Running /\ InContainer(req[a]) /\ req[a] \in registered_callbacks
                        /\ DirectCall(a, req[a])
  <2>1. CASE direct
    <3>1. /\ Running /\ state' = state /\ shutdown_event' = shutdown_event
          /\ dispatching_sync' = TRUE
          /\ active_threads' = active_threads \cup {<<a, "direct">>}
          /\ pc' = [pc EXCEPT ![a] = "direct"] /\ call' = [call EXCEPT ![a] = "none"]
      BY Zenon, <1>1, <2>1 DEF QueueRegisteredCallback
    <3>2. BusyIsCounted'
      BY ZenonT(30), <3>1 DEF SerialInv, BusyIsCounted
    <3>3. SyncIsALock'
      BY Zenon, <2>1, <3>1 DEF SerialInv, SyncIsALock, Busy, DirectCall
    <3>4. ShutdownRunsOnce'
      BY Zenon, <3>1 DEF SerialInv, ShutdownRunsOnce, Completing, Running
    <3>5. DrainsAlone'
      BY Zenon, <3>1 DEF SerialInv, ShutdownRunsOnce, DrainsAlone, Completing, Busy
    <3>. QED BY Zenon, <3>2, <3>3, <3>4, <3>5 DEF SerialInv
  <2>2. CASE ~direct
    <3>1. /\ active_threads' = active_threads \cup {<<a, "queue">>}
          /\ call' = [call EXCEPT ![a] = "queue_defer"]
          /\ UNCHANGED <<pc, dispatching_sync>>
      BY Zenon, <1>1, <2>2 DEF QueueRegisteredCallback
    <3>2. Harmless
      BY Zenon, <1>1, <3>1 DEF QueueRegisteredCallback, Harmless, Running
    <3>. QED BY Zenon, <3>2, HarmlessSteps
  <2>. QED BY Zenon, <2>1, <2>2
<1>2. CASE QueueDefer(a)
  BY Zenon, <1>2, HarmlessSteps DEF QueueDefer, IdleCheck, Harmless, Running
<1>3. CASE RemoveWait(a)
  BY Zenon, <1>3, HarmlessSteps DEF RemoveWait, IdleCheck, Harmless, Running
<1>4. CASE CancelWaitOperation(a)
  BY Zenon, <1>4, HarmlessSteps DEF CancelWaitOperation, Harmless, Running
<1>5. CASE WaitUntilIdleReturn(a)
  BY Zenon, <1>5, HarmlessSteps DEF WaitUntilIdleReturn, Harmless, Running
<1>6. CASE RegisterForCompleteShutdownEvent(a)
  <2>1. BusyIsCounted' /\ SyncIsALock' /\ DrainsAlone'
    BY Zenon, <1>6 DEF RegisterForCompleteShutdownEvent, SerialInv, BusyIsCounted, SyncIsALock,
       DrainsAlone, Busy
  <2>2. ShutdownRunsOnce'
    BY Zenon, <1>6 DEF RegisterForCompleteShutdownEvent, SerialInv, ShutdownRunsOnce, Completing, Running
  <2>. QED BY Zenon, <2>1, <2>2 DEF SerialInv
<1>. QED BY Zenon, <1>1, <1>2, <1>3, <1>4, <1>5, <1>6 DEF CallStep

\* The end of a callback keeps SerialInv.
LEMMA CallbackEndsSerial ==
  ASSUME TypeInv, SerialInv, panic = "none", NEW a \in Actors, CallbackEnds(a)
  PROVE  SerialInv'
<1>. USE DEF TypeInv, TypeOK, ControlOK, NoIdleCheck, Enter, Goto
<1>1. CASE DirectCallEnd(a)
  <2>1. BusyIsCounted'
    BY ZenonT(30), <1>1 DEF DirectCallEnd, SerialInv, BusyIsCounted
  <2>2. SyncIsALock'
    BY Zenon, <1>1 DEF DirectCallEnd, SerialInv, SyncIsALock, Busy
  <2>3. ShutdownRunsOnce'
    BY Zenon, <1>1 DEF DirectCallEnd, SerialInv, ShutdownRunsOnce, Completing, Running
  <2>4. DrainsAlone'
    BY Zenon, <1>1 DEF DirectCallEnd, SerialInv, DrainsAlone, Busy
  <2>. QED BY Zenon, <2>1, <2>2, <2>3, <2>4 DEF SerialInv
<1>2. CASE CallbackReturns(a)
  <2>1. BusyIsCounted' /\ SyncIsALock'
    BY Zenon, <1>2 DEF CallbackReturns, SerialInv, BusyIsCounted, SyncIsALock, Busy
  <2>2. ShutdownRunsOnce' /\ DrainsAlone'
    BY <1>2 DEF CallbackReturns, SerialInv, ShutdownRunsOnce, DrainsAlone, Busy, Completing, Running
  <2>. QED BY Zenon, <2>1, <2>2 DEF SerialInv
<1>3. CASE CancelReturns(a)
  <2>1. BusyIsCounted' /\ SyncIsALock'
    BY Zenon, <1>3 DEF CancelReturns, SerialInv, BusyIsCounted, SyncIsALock, Busy
  <2>2. ShutdownRunsOnce' /\ DrainsAlone'
    BY <1>3 DEF CancelReturns, SerialInv, ShutdownRunsOnce, DrainsAlone, Busy, Completing, Running
  <2>. QED BY <2>1, <2>2 DEF SerialInv
<1>. QED BY Zenon, <1>1, <1>2, <1>3 DEF CallbackEnds

\* What the loop delivers keeps SerialInv.
LEMMA LoopStepSerial ==
  ASSUME TypeInv, SerialInv, panic = "none", NEW t \in Threads, LoopStep(t)
  PROVE  SerialInv'
<1>. USE DEF TypeInv, TypeOK, ControlOK, NoIdleCheck, Goto
<1>0. t \in Actors
  BY Zenon DEF Actors
<1>1. CASE HandleEvent(t) \/ TimerFires(t)
  BY Zenon, <1>0, <1>1, HarmlessSteps DEF HandleEvent, TimerFires, Harmless, Running
<1>2. ASSUME NEW w \in Waits, WaitSignaled(t, w) PROVE Harmless
  BY Zenon, <1>0, <1>2 DEF WaitSignaled, Harmless, Running
<1>3. CASE ShutdownEventSignaled(t)
  <2>1. BusyIsCounted' /\ SyncIsALock'
    BY Zenon, <1>0, <1>3
       DEF ShutdownEventSignaled, Quiet, SerialInv, BusyIsCounted, SyncIsALock, Busy
  <2>2. ShutdownRunsOnce'
    BY Zenon, <1>0, <1>3 DEF ShutdownEventSignaled, SerialInv, ShutdownRunsOnce, Completing, Running
  <2>3. DrainsAlone'
    BY Zenon, <1>0, <1>3 DEF ShutdownEventSignaled, SerialInv, DrainsAlone, Busy
  <2>. QED BY Zenon, <2>1, <2>2, <2>3 DEF SerialInv
<1>. QED BY Zenon, <1>1, <1>2, <1>3, HarmlessSteps DEF LoopStep

\* DispatchCallbacks keeps SerialInv: it starts only when nobody is busy.
LEMMA DispatchSerial ==
  ASSUME TypeInv, SerialInv, panic = "none", NEW t \in Threads,
         DispatchCallbacks(t) \/ DispatchCallback(t) \/ DispatchEnd(t) \/ DispatchDefer(t)
  PROVE  SerialInv'
<1>. USE DEF TypeInv, TypeOK, ControlOK, NoIdleCheck, Goto
<1>0. t \in Actors
  BY Zenon DEF Actors
<1>1. CASE DispatchCallbacks(t)
  <2>. DEFINE returns == (~Unsynchronized /\ dispatching_sync) \/ ~Running
  <2>0. /\ pc[t] = "dispatch" /\ active_threads' = active_threads \cup {<<t, "dispatch">>}
        /\ UNCHANGED <<state, call, shutdown_event, panic>>
    BY ZenonT(30), <1>1 DEF DispatchCallbacks
  <2>1. CASE returns
    <3>1. pc' = [pc EXCEPT ![t] = "dispatch_defer"] /\ dispatching_sync' = dispatching_sync
      BY ZenonT(30), <1>1, <2>1 DEF DispatchCallbacks
    <3>2. BusyIsCounted' /\ SyncIsALock'
      BY Zenon, <1>0, <2>0, <3>1 DEF SerialInv, BusyIsCounted, SyncIsALock, Busy
    <3>3. ShutdownRunsOnce' /\ DrainsAlone'
      BY Zenon, <1>0, <2>0, <3>1 DEF SerialInv, ShutdownRunsOnce, DrainsAlone, Busy, Completing, Running
    <3>. QED BY Zenon, <3>2, <3>3 DEF SerialInv
  <2>2. CASE ~returns
    <3>1. pc' = [pc EXCEPT ![t] = "calling"] /\ dispatching_sync' = TRUE
      BY ZenonT(30), <1>1, <2>2 DEF DispatchCallbacks
    <3>2. BusyIsCounted'
      BY ZenonT(30), <1>0, <2>0, <3>1 DEF SerialInv, BusyIsCounted
    <3>3. SyncIsALock'
      BY Zenon, <1>0, <2>2, <3>1 DEF SerialInv, SyncIsALock, Busy
    <3>4. ShutdownRunsOnce'
      BY Zenon, <1>0, <2>0, <3>1 DEF SerialInv, ShutdownRunsOnce, Completing, Running
    <3>5. DrainsAlone'
      BY <1>0, <2>0, <2>2, <3>1
         DEF SerialInv, ShutdownRunsOnce, DrainsAlone, Completing, Busy
    <3>. QED BY Zenon, <3>2, <3>3, <3>4, <3>5 DEF SerialInv
  <2>. QED BY Zenon, <2>1, <2>2
<1>2. CASE DispatchCallback(t)
  <2>1. BusyIsCounted' /\ SyncIsALock'
    BY Zenon, <1>0, <1>2 DEF DispatchCallback, SerialInv, BusyIsCounted, SyncIsALock, Busy
  <2>2. ShutdownRunsOnce' /\ DrainsAlone'
    BY ZenonT(30), <1>0, <1>2
       DEF DispatchCallback, SerialInv, ShutdownRunsOnce, DrainsAlone, Busy, Completing, Running
  <2>. QED BY <2>1, <2>2 DEF SerialInv
<1>3. CASE DispatchEnd(t)
  <2>1. BusyIsCounted'
    BY ZenonT(30), <1>0, <1>3 DEF DispatchEnd, SerialInv, BusyIsCounted
  <2>2. SyncIsALock'
    BY ZenonT(30), <1>0, <1>3 DEF DispatchEnd, SerialInv, SyncIsALock, Busy
  <2>3. ShutdownRunsOnce' /\ DrainsAlone'
    BY <1>0, <1>3, ZenonT(30)
       DEF DispatchEnd, SerialInv, ShutdownRunsOnce, DrainsAlone, Busy, Completing, Running
  <2>. QED BY Zenon, <2>1, <2>2, <2>3 DEF SerialInv
<1>4. CASE DispatchDefer(t)
  <2>1. BusyIsCounted'
    BY ZenonT(30), <1>0, <1>4 DEF DispatchDefer, SerialInv, BusyIsCounted
  <2>2. SyncIsALock'
    BY Zenon, <1>0, <1>4 DEF DispatchDefer, SerialInv, SyncIsALock, Busy
  <2>3. ShutdownRunsOnce' /\ DrainsAlone'
    BY ZenonT(30), <1>0, <1>4
       DEF DispatchDefer, IdleCheck, SerialInv, ShutdownRunsOnce, DrainsAlone, Busy, Completing,
           Running
  <2>. QED BY <2>1, <2>2, <2>3 DEF SerialInv
<1>. QED BY Zenon, <1>1, <1>2, <1>3, <1>4

\* CompleteShutdown keeps SerialInv: past its assertion nobody is busy.
LEMMA CompletionSerial ==
  ASSUME TypeInv, SerialInv, panic = "none", NEW t \in Threads,
         \/ CompleteShutdown(t) \/ \E r \in Requests : CancelNext(t, r)
         \/ ShutdownQueueEmpty(t) \/ EnterShutdown(t)
  PROVE  SerialInv'
<1>. USE DEF TypeInv, TypeOK, ControlOK, NoIdleCheck, Goto
<1>0. t \in Actors
  BY Zenon DEF Actors
<1>1. PICK from, to :
        /\ pc[t] = from /\ pc' = [pc EXCEPT ![t] = to]
        /\ \/ from = "complete" /\ to = "drain" /\ (panic' = "none" => active_threads = {})
           \/ from = "drain" /\ to \in {"cancelcb", "drained"}
           \/ from = "drained" /\ to = "observer"
  BY ZenonT(30) DEF CompleteShutdown, IsIdle, CancelNext, ShutdownQueueEmpty, EnterShutdown
<1>2. /\ UNCHANGED <<call, shutdown_event, dispatching_sync, active_threads>>
      /\ Running' => Running
  BY ZenonT(30) DEF CompleteShutdown, CancelNext, ShutdownQueueEmpty, EnterShutdown, Running
<1>3. BusyIsCounted' /\ SyncIsALock'
  BY Zenon, <1>0, <1>1, <1>2 DEF SerialInv, BusyIsCounted, SyncIsALock, Busy
<1>4. ShutdownRunsOnce'
  BY Zenon, <1>0, <1>1, <1>2 DEF SerialInv, ShutdownRunsOnce, Completing, Running
<1>5. DrainsAlone'
  BY ZenonT(30), <1>0, <1>1, <1>2
     DEF SerialInv, DrainsAlone, BusyIsCounted, ShutdownRunsOnce, Completing, Busy
<1>. QED BY Zenon, <1>3, <1>4, <1>5 DEF SerialInv

\* Every step of a loop thread's handler keeps SerialInv.
LEMMA HandlerStepSerial ==
  ASSUME TypeInv, SerialInv, panic = "none", NEW t \in Threads, HandlerStep(t)
  PROVE  SerialInv'
<1>. USE DEF TypeInv, TypeOK, ControlOK, NoIdleCheck, Goto
<1>0. t \in Actors
  BY Zenon DEF Actors
<1>1. CASE TimerHandler(t) \/ OnSignal(t) \/ ObserverReturns(t)
  BY Zenon, <1>0, <1>1, HarmlessSteps
     DEF TimerHandler, OnSignal, ObserverReturns, Harmless, Running
<1>2. CASE CheckDelayedTasks(t)
  BY Zenon, <1>0, <1>2, HarmlessSteps DEF CheckDelayedTasks, IdleCheck, Harmless, Running
<1>3. CASE QueueWait(t)
  BY Zenon, <1>0, <1>3, HarmlessSteps DEF QueueWait, IdleCheck, Enter, Return, Harmless, Running
<1>. QED BY Zenon, <1>1, <1>2, <1>3, DispatchSerial, CompletionSerial DEF HandlerStep

\* Every step keeps SerialInv.
LEMMA SerialNext ==
  ASSUME TypeInv, SerialInv, [Next]_vars
  PROVE  SerialInv'
<1>1. CASE Next
  <2>1. CASE Tick
    <3>1. Harmless
      BY ZenonT(30), <1>1, <2>1 DEF Next, Tick, Harmless, NoIdleCheck, control, Running
    <3>. QED BY Zenon, <3>1, HarmlessSteps
  <2>. QED
    BY Zenon, <1>1, <2>1, ApiCallSerial, CallStepSerial, CallbackEndsSerial, LoopStepSerial,
       HandlerStepSerial DEF Next
<1>2. CASE UNCHANGED vars
  BY ZenonT(30), <1>2 DEF vars, control, SerialInv, BusyIsCounted, SyncIsALock, ShutdownRunsOnce,
     DrainsAlone, Busy, Completing, Running
<1>. QED BY Zenon, <1>1, <1>2

\* The strengthening is an invariant: num_active_threads_ counts whoever
\* dispatches, dispatching_sync_ is a lock, CompleteShutdown runs once and alone.
THEOREM SerialInvariant == Spec => []SerialInv
<1>1. TypeInv /\ [Next]_vars => TypeInv'
  BY Zenon, TypeNext, TypeStutter
<1>2. TypeInv /\ SerialInv /\ [Next]_vars => SerialInv'
  BY Zenon, SerialNext
<1>. QED BY TypeInit, SerialInit, <1>1, <1>2, PTL DEF Spec

\* A synchronized dispatcher never runs two callbacks in parallel, whatever
\* mixes of loop threads, direct calls and shutdown there are.
THEOREM Serialized == Spec => []CallbacksSerialized
<1>1. SerialInv => CallbacksSerialized
  BY Zenon DEF SerialInv, SyncIsALock, ShutdownRunsOnce, DrainsAlone, CallbacksSerialized, InCallback,
         Busy, Completing
<1>. QED BY SerialInvariant, <1>1, PTL

\* On any dispatcher a cancellation callback runs when no other callback does.
THEOREM CancellationsAlone == Spec => []CancellationsRunAlone
<1>1. SerialInv => CancellationsRunAlone
  BY Zenon DEF SerialInv, ShutdownRunsOnce, DrainsAlone, CancellationsRunAlone, InCallback, Busy,
         Completing, Actors
<1>. QED BY SerialInvariant, <1>1, PTL

-----------------------------------------------------------------------------
(* No wake-up is lost: the strengthening. *)

Dispatching == {"dispatch", "calling", "callback", "dispatch_defer", "direct"}

\* The event waiter is held by one thread, which dispatches; on a synchronized
\* dispatcher nobody dispatches without it.
OneHolder ==
  /\ \A t \in holders : pc[t] \in {"dispatch", "calling", "callback", "dispatch_defer"}
  /\ \A t, u \in holders : t = u
  /\ holders # {} => event_waiter # "loop"
  /\ \A t \in Threads :
       \/ pc[t] = "dispatch"
       \/ ~Unsynchronized /\ pc[t] \in {"calling", "callback", "dispatch_defer"}
       => t \in holders

\* Handlers run on the loop's threads, direct calls on the others.
OwnPcs ==
  /\ \A c \in Clients : pc[c] \in ClientPcs
  /\ \A t \in Threads : pc[t] \in ThreadPcs

\* dispatching_sync_ is set by somebody who will reset it.
SyncIsHeld == ~Unsynchronized /\ dispatching_sync => \E a \in Actors : Busy(a)

\* From the moment CompleteShutdown is due the event stays unsignalled.
QuietAfterShutdown ==
  event_waiter = "null" \/ shutdown_event \in {"signaled", "taken"} => ~signaled /\ ~Running

WakeInv ==
  OneHolder /\ OwnPcs /\ SyncIsHeld /\ QuietAfterShutdown /\ NoLostWakeup /\ IdleIsBroadcast

\* WakeInv holds initially.
LEMMA WakeInit == Init => WakeInv
BY Zenon DEF Init, WakeInv, OneHolder, OwnPcs, SyncIsHeld, QuietAfterShutdown, NoLostWakeup,
       IdleIsBroadcast, Running, ClientPcs, ThreadPcs, Actors

-----------------------------------------------------------------------------
(* Steps that leave the event waiter and whoever dispatches alone. *)

Aside ==
  /\ UNCHANGED <<holders, event_waiter, dispatching_sync, signaled>>
  /\ Running' <=> Running
  /\ callback_queue' # <<>> => callback_queue # <<>>
  /\ \A a \in Actors :
       \/ pc'[a] = pc[a]
       \/ /\ pc[a] \notin Dispatching /\ pc'[a] \notin Dispatching
          /\ pc'[a] = "idle" \/ (a \in Threads /\ pc'[a] \in ThreadPcs)
  /\ IsIdle' => \/ idle_waiters' = {}
                \/ active_threads' = active_threads /\ idle_waiters' \subseteq idle_waiters
  /\ shutdown_event' \in {"signaled", "taken"} =>
       shutdown_event \in {"signaled", "taken"} \/ IsIdle'

\* Such a step keeps WakeInv: if it empties the queue, the event stays
\* signalled or the direct call counted, so that the dispatcher is not idle.
LEMMA AsideSteps ==
  ASSUME TypeInv, SerialInv, SerialInv', WakeInv, Aside
  PROVE  WakeInv'
<1>1. /\ \A t \in Threads : pc'[t] \in Dispatching <=> pc[t] \in Dispatching
      /\ \A a \in Actors : pc[a] \in Dispatching \/ pc'[a] \in Dispatching => pc'[a] = pc[a]
  BY Zenon DEF Aside, Actors
<1>2. OneHolder'
  <2>1. holders \subseteq Threads
    BY Zenon DEF TypeInv, TypeOK, WaiterOK
  <2>2. UNCHANGED <<holders, event_waiter>>
    BY Zenon DEF Aside
  <2>. QED BY Zenon, <1>1, <2>1, <2>2 DEF WakeInv, OneHolder, Dispatching, Actors
<1>3. OwnPcs'
  BY Zenon, ActorsAssumption DEF Aside, WakeInv, OwnPcs, ClientPcs, ThreadPcs, Actors
<1>4. SyncIsHeld'
  BY Zenon, <1>1 DEF Aside, WakeInv, SyncIsHeld, Busy, Dispatching
<1>5. QuietAfterShutdown'
  <2>1. IsIdle' => event_waiter = "null" \/ ~signaled
    BY Zenon DEF IsIdle, Aside
  <2>2. shutdown_event' \in {"signaled", "taken"} => ~Running'
    BY Zenon DEF SerialInv, ShutdownRunsOnce
  <2>. QED BY Zenon, <2>1, <2>2 DEF Aside, WakeInv, QuietAfterShutdown
<1>6. NoLostWakeup'
  <2>1. \A a \in Clients : pc[a] = "direct" => pc'[a] = "direct"
    BY Zenon, <1>1 DEF Dispatching, Actors
  <2>2. /\ callback_queue' # <<>> => callback_queue # <<>>
        /\ Running' <=> Running
        /\ UNCHANGED <<event_waiter, signaled>>
    BY Zenon DEF Aside
  <2>. QED BY Zenon, <2>1, <2>2 DEF WakeInv, NoLostWakeup
<1>7. IdleIsBroadcast'
  <2>. SUFFICES ASSUME idle_waiters' # {}, IsIdle' PROVE FALSE
    BY Zenon DEF IdleIsBroadcast
  <2>1. active_threads' = active_threads /\ idle_waiters # {}
    BY Zenon DEF Aside
  <2>2. active_threads = {} /\ (event_waiter = "null" \/ ~signaled)
    BY Zenon, <2>1 DEF Aside, IsIdle
  <2>3. callback_queue # <<>>
    BY Zenon, <2>1, <2>2 DEF WakeInv, IdleIsBroadcast, IsIdle
  <2>4. PICK c \in Clients : pc[c] = "direct"
    BY Zenon, <2>2, <2>3 DEF WakeInv, NoLostWakeup
  <2>5. <<c, "direct">> \in active_threads
    BY Zenon, <2>4 DEF SerialInv, BusyIsCounted, Actors
  <2>. QED BY Zenon, <2>2, <2>5
<1>. QED BY Zenon, <1>2, <1>3, <1>4, <1>5, <1>6, <1>7 DEF WakeInv

-----------------------------------------------------------------------------
(* The actions. *)

\* Cancelling adds nothing to the queue.
LEMMA CancelAddsNothing ==
  ASSUME NEW r, CancelAsyncOperation(r), callback_queue = <<>>
  PROVE  callback_queue' = <<>>
<1>1. r \notin Elems(callback_queue)
  BY DEF Elems
<1>2. callback_queue' = callback_queue
  BY Zenon, <1>1 DEF CancelAsyncOperation
<1>. QED BY Zenon, <1>2

\* API calls: ShutdownAsync clears the queue, and whoever starts to wait for
\* idleness has seen that the dispatcher is not idle.
LEMMA ApiCallWakes ==
  ASSUME TypeInv, SerialInv, SerialInv', WakeInv, NEW a \in Actors, ApiCall(a)
  PROVE  WakeInv'
<1>0. /\ callback_queue \in Seq(Requests)
      /\ pc \in [Actors -> ThreadPcs \cup ClientPcs]
  BY Zenon DEF TypeInv, TypeOK, QueuesOK, ControlOK
<1>1. \A r : CancelAsyncOperation(r) /\ callback_queue' # <<>> => callback_queue # <<>>
  BY Zenon, CancelAddsNothing
<1>2. ASSUME NEW r \in Tasks, PostTask(a, r) PROVE Aside
  BY Zenon, <1>2 DEF PostTask, Aside, NoIdleCheck, Running, waiter
<1>3. ASSUME NEW r \in Tasks, CancelTask(a, r) PROVE Aside
  BY Zenon, <1>1, <1>3 DEF CancelTask, Aside, NoIdleCheck, Running, waiter, control
<1>4. ASSUME NEW r \in Tasks, NEW d \in 1 .. MaxTime, PostDelayedTask(a, r, d) PROVE Aside
  BY Zenon, <1>4 DEF PostDelayedTask, Aside, NoIdleCheck, Running, waiter, control
<1>5. ASSUME NEW r \in Reads, RegisterRead(a, r) \/ QueueRead(a, r) PROVE Aside
  BY Zenon, <1>5 DEF RegisterRead, QueueRead, Aside, NoIdleCheck, Running, waiter, control, queues
<1>6. ASSUME NEW r \in Reads, CancelCallback(a, r) PROVE Aside
  <2>1. callback_queue' # <<>> => callback_queue # <<>>
    BY <1>6 DEF CancelCallback, Elems
  <2>. QED BY Zenon, <1>6, <2>1 DEF CancelCallback, Aside, NoIdleCheck, Running, waiter, control
<1>7. ASSUME NEW w \in Waits, BeginWait(a, w) \/ CancelWait(a, w) PROVE Aside
  BY Zenon, <1>7 DEF BeginWait, CancelWait, Aside, NoIdleCheck, Running, waiter, control, queues
<1>8. CASE Destroy(a)
  <2>1. Aside
    BY Zenon, <1>8 DEF Destroy, Aside, NoIdleCheck, Running, waiter, control, queues
  <2>. QED BY Zenon, <2>1, AsideSteps
<1>9. CASE WaitUntilIdle(a)
  <2>1. ~IsIdle /\ IsIdle' = IsIdle
    BY Zenon, <1>9 DEF WaitUntilIdle, IsIdle, waiter, queues
  <2>2. /\ UNCHANGED <<holders, event_waiter, dispatching_sync, signaled, state, pc,
                       callback_queue, shutdown_event>>
    BY Zenon, <1>9 DEF WaitUntilIdle, waiter, queues
  <2>. QED
    BY Zenon, <2>1, <2>2 DEF WakeInv, OneHolder, OwnPcs, SyncIsHeld, QuietAfterShutdown, NoLostWakeup,
       IdleIsBroadcast, Running, Busy
<1>10. CASE ShutdownAsync(a)
  <2>1. /\ Running /\ ~Running' /\ callback_queue' = <<>>
        /\ UNCHANGED <<holders, event_waiter, dispatching_sync, signaled, pc, active_threads,
                       shutdown_event, idle_waiters>>
    BY Zenon, <1>10 DEF ShutdownAsync, waiter, NoIdleCheck, Running
  <2>2. OneHolder' /\ OwnPcs' /\ SyncIsHeld' /\ QuietAfterShutdown'
    BY Zenon, <2>1 DEF WakeInv, OneHolder, OwnPcs, SyncIsHeld, QuietAfterShutdown, Busy
  <2>3. NoLostWakeup'
    BY Zenon, <2>1 DEF NoLostWakeup
  <2>4. IdleIsBroadcast'
    <3>1. CASE callback_queue = <<>>
      BY Zenon, <2>1, <3>1 DEF WakeInv, IdleIsBroadcast, IsIdle
    <3>2. CASE callback_queue # <<>> /\ signaled
      BY Zenon, <2>1, <3>2 DEF WakeInv, NoLostWakeup, IdleIsBroadcast, IsIdle
    <3>3. CASE \E c \in Clients : pc[c] = "direct"
      <4>1. active_threads # {}
        BY Zenon, <3>3 DEF SerialInv, BusyIsCounted, Actors
      <4>. QED BY Zenon, <2>1, <4>1 DEF IdleIsBroadcast, IsIdle
    <3>. QED BY Zenon, <3>1, <3>2, <3>3 DEF WakeInv, NoLostWakeup
  <2>. QED BY Zenon, <2>2, <2>3, <2>4 DEF WakeInv
<1>. QED
  BY <1>2, <1>3, <1>4, <1>5, <1>6, <1>7, <1>8, <1>9, <1>10, AsideSteps DEF ApiCall

\* The later steps of an API call: what is queued is signalled.
LEMMA CallStepWakes ==
  ASSUME TypeInv, SerialInv, SerialInv', WakeInv, NEW a \in Actors, CallStep(a)
  PROVE  WakeInv'
<1>0. pc \in [Actors -> ThreadPcs \cup ClientPcs]
  BY Zenon DEF TypeInv, TypeOK, ControlOK
<1>1. CASE QueueRegisteredCallback(a)
  <2>. DEFINE r == req[a]
              direct == Running /\ InContainer(r) /\ r \in registered_callbacks /\ DirectCall(a, r)
  <2>1. UNCHANGED <<state, event_waiter, holders, shutdown_event, idle_waiters>>
    BY Zenon, <1>1 DEF QueueRegisteredCallback, NoIdleCheck
  <2>2. active_threads' # {}
    BY Zenon, <1>1 DEF QueueRegisteredCallback
  <2>3. CASE direct
    <3>1. /\ dispatching_sync' = TRUE /\ pc' = [pc EXCEPT ![a] = "direct"]
          /\ UNCHANGED <<callback_queue, signaled>>
      BY Zenon, <1>1, <2>3 DEF QueueRegisteredCallback, Goto
    <3>2. a \in Clients /\ pc[a] # "direct"
      BY Zenon, <2>3, ActorsAssumption DEF DirectCall, OwnerInStack
    <3>3. /\ \A b \in Actors \ {a} : pc'[b] = pc[b]
          /\ pc'[a] = "direct" /\ a \notin Threads /\ holders \subseteq Threads
      BY Zenon, <1>0, <3>1, <3>2, ActorsAssumption DEF TypeInv, TypeOK, WaiterOK
    <3>4. OneHolder' /\ OwnPcs'
      BY Zenon, <2>1, <3>2, <3>3 DEF WakeInv, OneHolder, OwnPcs, ClientPcs, Actors
    <3>5. SyncIsHeld' /\ QuietAfterShutdown'
      BY Zenon, <2>1, <3>1, <3>3 DEF WakeInv, SyncIsHeld, QuietAfterShutdown, Busy, Running
    <3>6. NoLostWakeup'
      BY Zenon, <2>1, <3>1, <3>2, <3>3 DEF WakeInv, NoLostWakeup, Running, Actors
    <3>7. IdleIsBroadcast'
      BY Zenon, <2>2 DEF IdleIsBroadcast, IsIdle
    <3>. QED BY Zenon, <3>4, <3>5, <3>6, <3>7 DEF WakeInv
  <2>4. CASE ~direct
    <3>1. UNCHANGED <<pc, dispatching_sync>>
      BY Zenon, <1>1, <2>4 DEF QueueRegisteredCallback
    <3>2. OneHolder' /\ OwnPcs' /\ SyncIsHeld'
      BY Zenon, <2>1, <3>1 DEF WakeInv, OneHolder, OwnPcs, SyncIsHeld, Busy
    <3>3. IdleIsBroadcast'
      BY <2>2 DEF IdleIsBroadcast, IsIdle
    <3>4. CASE Running /\ r \in registered_callbacks
      <4>1. event_waiter # "null" /\ shutdown_event \notin {"signaled", "taken"}
        BY Zenon, <3>4 DEF WakeInv, QuietAfterShutdown
      <4>2. signaled'
        BY ZenonT(40), <1>1, <2>4, <3>4, <4>1 DEF QueueRegisteredCallback, Signal
      <4>3. QuietAfterShutdown' /\ NoLostWakeup'
        BY Zenon, <2>1, <3>4, <4>1, <4>2 DEF QuietAfterShutdown, NoLostWakeup, Running
      <4>. QED BY Zenon, <3>2, <3>3, <4>3 DEF WakeInv
    <3>5. CASE ~(Running /\ r \in registered_callbacks)
      <4>1. UNCHANGED <<callback_queue, signaled>>
        BY Zenon, <1>1, <2>4, <3>5 DEF QueueRegisteredCallback
      <4>2. QuietAfterShutdown' /\ NoLostWakeup'
        BY Zenon, <2>1, <3>1, <4>1 DEF WakeInv, QuietAfterShutdown, NoLostWakeup, Running
      <4>. QED BY Zenon, <3>2, <3>3, <4>2 DEF WakeInv
    <3>. QED BY Zenon, <3>4, <3>5
  <2>. QED BY Zenon, <2>3, <2>4
<1>2. CASE QueueDefer(a)
  <2>1. \A b \in Actors : pc'[b] = pc[b] \/ (pc[b] = "wait_queued" /\ pc'[b] = "idle")
    BY Zenon, <1>0, <1>2 DEF QueueDefer, Goto
  <2>2. Aside
    BY ZenonT(40), <1>2, <2>1 DEF QueueDefer, Aside, IdleCheck, Running, waiter, queues, Dispatching
  <2>. QED BY Zenon, <2>2, AsideSteps
<1>3. CASE RemoveWait(a)
  <2>1. Aside
    BY ZenonT(40), <1>3 DEF RemoveWait, Aside, IdleCheck, Running, waiter, queues
  <2>. QED BY <2>1, AsideSteps
<1>4. CASE CancelWaitOperation(a)
  <2>1. callback_queue' # <<>> => callback_queue # <<>>
    BY Zenon, <1>4, CancelAddsNothing DEF CancelWaitOperation
  <2>2. Aside
    BY Zenon, <1>4, <2>1 DEF CancelWaitOperation, Aside, NoIdleCheck, Running, waiter
  <2>. QED BY <2>2, AsideSteps
<1>5. CASE WaitUntilIdleReturn(a)
  <2>1. Aside
    BY Zenon, <1>5 DEF WaitUntilIdleReturn, Aside, NoIdleCheck, Running, waiter, queues
  <2>. QED BY <2>1, AsideSteps
<1>6. CASE RegisterForCompleteShutdownEvent(a)
  <2>1. IsIdle' = IsIdle
    BY Zenon, <1>6 DEF RegisterForCompleteShutdownEvent, IsIdle, waiter, queues
  <2>2. Aside
    BY Zenon, <1>6, <2>1 DEF RegisterForCompleteShutdownEvent, Aside, Running, waiter, queues
  <2>. QED BY <2>2, AsideSteps
<1>. QED BY Zenon, <1>1, <1>2, <1>3, <1>4, <1>5, <1>6 DEF CallStep

\* The end of a callback: a direct call signals what it has held up.
LEMMA CallbackEndsWakes ==
  ASSUME TypeInv, SerialInv, SerialInv', WakeInv, NEW a \in Actors, CallbackEnds(a)
  PROVE  WakeInv'
<1>0. pc \in [Actors -> ThreadPcs \cup ClientPcs] /\ holders \subseteq Threads
  BY Zenon DEF TypeInv, TypeOK, ControlOK, WaiterOK
<1>1. CASE DirectCallEnd(a)
  <2>1. /\ pc[a] = "direct" /\ pc' = [pc EXCEPT ![a] = "idle"]
        /\ dispatching_sync' = FALSE /\ active_threads' # {}
        /\ signaled' = (signaled \/ (callback_queue # <<>> /\ event_waiter # "null" /\ Running))
        /\ UNCHANGED <<state, callback_queue, event_waiter, holders, shutdown_event, idle_waiters>>
    BY Zenon, <1>1 DEF DirectCallEnd, Goto, queues, NoIdleCheck
  <2>2. a \in Clients /\ a \notin Threads
    BY Zenon, <2>1, ActorsAssumption DEF WakeInv, OwnPcs, ThreadPcs, Actors
  <2>3. pc'[a] = "idle" /\ \A b \in Actors \ {a} : pc'[b] = pc[b]
    BY Zenon, <1>0, <2>1
  <2>4. OneHolder' /\ OwnPcs' /\ SyncIsHeld'
    BY Zenon, <1>0, <2>1, <2>2, <2>3 DEF WakeInv, OneHolder, OwnPcs, SyncIsHeld, ClientPcs, Actors
  <2>5. QuietAfterShutdown'
    BY Zenon, <2>1 DEF WakeInv, QuietAfterShutdown, Running
  <2>6. NoLostWakeup'
    BY Zenon, <2>1 DEF WakeInv, NoLostWakeup, Running
  <2>7. IdleIsBroadcast'
    BY Zenon, <2>1 DEF IdleIsBroadcast, IsIdle
  <2>. QED BY Zenon, <2>4, <2>5, <2>6, <2>7 DEF WakeInv
<1>2. CASE CallbackReturns(a)
  <2>1. /\ pc[a] = "callback" /\ pc' = [pc EXCEPT ![a] = "calling"]
        /\ UNCHANGED <<state, callback_queue, event_waiter, holders, shutdown_event, idle_waiters,
                       dispatching_sync, active_threads, signaled>>
    BY Zenon, <1>2 DEF CallbackReturns, Goto, queues, waiter, NoIdleCheck
  <2>2. a \in Threads /\ a \notin Clients
    BY Zenon, <2>1, ActorsAssumption DEF WakeInv, OwnPcs, ClientPcs, Actors
  <2>3. pc'[a] = "calling" /\ \A b \in Actors \ {a} : pc'[b] = pc[b]
    BY Zenon, <1>0, <2>1
  <2>4. OneHolder' /\ OwnPcs'
    BY Zenon, <1>0, <2>1, <2>2, <2>3 DEF WakeInv, OneHolder, OwnPcs, ThreadPcs, Actors
  <2>5. SyncIsHeld' /\ QuietAfterShutdown'
    BY Zenon, <2>1, <2>3 DEF WakeInv, SyncIsHeld, QuietAfterShutdown, Busy, Running
  <2>6. NoLostWakeup' /\ IdleIsBroadcast'
    BY Zenon, <2>1, <2>2, <2>3 DEF WakeInv, NoLostWakeup, IdleIsBroadcast, IsIdle, Running, Actors
  <2>. QED BY Zenon, <2>4, <2>5, <2>6 DEF WakeInv
<1>3. CASE CancelReturns(a)
  <2>1. a \in Threads
    BY Zenon, <1>3 DEF CancelReturns, WakeInv, OwnPcs, ClientPcs, Actors
  <2>2. Aside
    BY Zenon, <1>0, <1>3, <2>1
       DEF CancelReturns, Aside, Goto, NoIdleCheck, Running, waiter, queues, Dispatching, ThreadPcs
  <2>. QED BY Zenon, <2>2, AsideSteps
<1>. QED BY Zenon, <1>1, <1>2, <1>3 DEF CallbackEnds

\* What the loop delivers: the event waiter goes to one thread.
LEMMA LoopStepWakes ==
  ASSUME TypeInv, SerialInv, SerialInv', WakeInv, NEW t \in Threads, LoopStep(t)
  PROVE  WakeInv'
<1>0. /\ pc \in [Actors -> ThreadPcs \cup ClientPcs] /\ holders \subseteq Threads
      /\ t \in Actors /\ t \notin Clients
  BY Zenon, ActorsAssumption DEF TypeInv, TypeOK, ControlOK, WaiterOK, Actors
<1>1. CASE HandleEvent(t)
  <2>1. /\ pc[t] = "idle" /\ pc' = [pc EXCEPT ![t] = "dispatch"]
        /\ event_waiter = "loop" /\ event_waiter' = "held" /\ holders' = holders \cup {t}
        /\ UNCHANGED <<state, callback_queue, shutdown_event, idle_waiters,
                       dispatching_sync, active_threads, signaled>>
    BY Zenon, <1>1 DEF HandleEvent, Quiet, Goto, queues, NoIdleCheck
  <2>2. pc'[t] = "dispatch" /\ \A b \in Actors \ {t} : pc'[b] = pc[b]
    BY Zenon, <1>0, <2>1
  <2>3. holders = {}
    BY Zenon, <2>1 DEF WakeInv, OneHolder
  <2>4. OneHolder' /\ OwnPcs'
    BY Zenon, <1>0, <2>1, <2>2, <2>3 DEF WakeInv, OneHolder, OwnPcs, ThreadPcs, Actors
  <2>5. SyncIsHeld' /\ QuietAfterShutdown'
    BY Zenon, <2>1, <2>2 DEF WakeInv, SyncIsHeld, QuietAfterShutdown, Busy, Running
  <2>6. NoLostWakeup' /\ IdleIsBroadcast'
    BY Zenon, <1>0, <2>1, <2>2 DEF WakeInv, NoLostWakeup, IdleIsBroadcast, IsIdle, Running, Actors
  <2>. QED BY Zenon, <2>4, <2>5, <2>6 DEF WakeInv
<1>2. ASSUME TimerFires(t) \/ ShutdownEventSignaled(t) \/ \E w \in Waits : WaitSignaled(t, w)
      PROVE  Aside
  BY <1>0, <1>2
     DEF TimerFires, ShutdownEventSignaled, WaitSignaled, Quiet, Goto, Aside, NoIdleCheck, Running,
         waiter, queues, Dispatching, ThreadPcs
<1>. QED BY Zenon, <1>1, <1>2, AsideSteps DEF LoopStep

\* Dispatching: a thread that finds dispatching_sync_ set may reset the event,
\* for it is a direct call that has set it.
LEMMA DispatchWakes ==
  ASSUME TypeInv, SerialInv, SerialInv', WakeInv, NEW t \in Threads,
         DispatchCallbacks(t) \/ DispatchCallback(t) \/ DispatchEnd(t) \/ DispatchDefer(t)
  PROVE  WakeInv'
<1>0. /\ pc \in [Actors -> ThreadPcs \cup ClientPcs] /\ holders \subseteq Threads
      /\ t \in Actors /\ t \notin Clients /\ callback_queue \in Seq(Requests)
  BY Zenon, ActorsAssumption DEF TypeInv, TypeOK, ControlOK, WaiterOK, QueuesOK, Actors
<1>1. CASE DispatchCallbacks(t)
  <2>1. /\ pc[t] = "dispatch" /\ active_threads' # {} /\ t \in holders
        /\ UNCHANGED <<state, shutdown_event, idle_waiters>>
    BY Zenon, <1>1 DEF DispatchCallbacks, NoIdleCheck, WakeInv, OneHolder
  <2>2. IdleIsBroadcast'
    BY Zenon, <2>1 DEF IdleIsBroadcast, IsIdle
  <2>3. CASE (~Unsynchronized /\ dispatching_sync) \/ ~Running
    <3>1. /\ signaled' = FALSE /\ pc' = [pc EXCEPT ![t] = "dispatch_defer"]
          /\ UNCHANGED <<callback_queue, dispatching_sync, event_waiter, holders>>
      BY Zenon, <1>1, <2>3 DEF DispatchCallbacks, Goto
    <3>2. pc'[t] = "dispatch_defer" /\ \A b \in Actors \ {t} : pc'[b] = pc[b]
      BY Zenon, <1>0, <3>1
    <3>3. OneHolder' /\ OwnPcs'
      BY <1>0, <2>1, <3>1, <3>2 DEF WakeInv, OneHolder, OwnPcs, ThreadPcs, Actors
    <3>4. SyncIsHeld' /\ QuietAfterShutdown'
      BY Zenon, <2>1, <3>1, <3>2 DEF WakeInv, SyncIsHeld, QuietAfterShutdown, Busy, Running
    <3>5. NoLostWakeup'
      <4>. SUFFICES ASSUME callback_queue # <<>>
                    PROVE  /\ Running /\ event_waiter # "null" /\ ~Unsynchronized
                           /\ \E c \in Clients : pc'[c] = "direct"
        BY Zenon, <2>1, <3>1 DEF NoLostWakeup, Running
      <4>1. Running /\ event_waiter # "null"
        BY Zenon DEF WakeInv, NoLostWakeup
      <4>2. PICK b \in Actors : Busy(b)
        BY Zenon, <2>3, <4>1 DEF WakeInv, SyncIsHeld
      <4>3. ASSUME b \in Threads PROVE FALSE
        <5>1. pc[b] \in {"calling", "callback"}
          BY Zenon, <4>2, <4>3 DEF Busy, WakeInv, OwnPcs, ThreadPcs
        <5>2. b \in holders /\ b # t
          BY Zenon, <2>1, <2>3, <4>1, <4>3, <5>1 DEF WakeInv, OneHolder
        <5>. QED BY Zenon, <2>1, <5>2 DEF WakeInv, OneHolder
      <4>4. b \in Clients /\ pc[b] = "direct"
        BY Zenon, <4>2, <4>3 DEF Busy, WakeInv, OwnPcs, ClientPcs, Actors
      <4>. QED BY Zenon, <1>0, <2>3, <3>2, <4>1, <4>4
    <3>. QED BY Zenon, <2>2, <3>3, <3>4, <3>5 DEF WakeInv
  <2>4. CASE ~((~Unsynchronized /\ dispatching_sync) \/ ~Running)
    <3>1. /\ dispatching_sync' = TRUE /\ pc' = [pc EXCEPT ![t] = "calling"]
          /\ signaled' = signaled
      BY Zenon, <1>1, <2>4 DEF DispatchCallbacks, Goto
    <3>2. PICK n \in 0 .. Len(callback_queue) :
            /\ callback_queue' = SubSeq(callback_queue, n + 1, Len(callback_queue))
            /\ IF Unsynchronized /\ n < Len(callback_queue)
               THEN event_waiter' = "loop" /\ holders' = holders \ {t}
               ELSE UNCHANGED <<event_waiter, holders>>
      BY Zenon, <1>1, <2>4 DEF DispatchCallbacks
    <3>3. pc'[t] = "calling" /\ \A b \in Actors \ {t} : pc'[b] = pc[b]
      BY Zenon, <1>0, <3>1
    <3>4. callback_queue = <<>> => callback_queue' = <<>>
      <4>1. ASSUME callback_queue = <<>> PROVE callback_queue' = <<>>
        <5>1. Len(callback_queue) = 0 /\ n = 0
          BY <4>1
        <5>. QED BY <3>2, <4>1, <5>1
      <4>. QED BY Zenon, <4>1
    <3>5. OneHolder'
      BY Zenon, <1>0, <2>1, <3>2, <3>3 DEF WakeInv, OneHolder, Actors
    <3>6. OwnPcs' /\ SyncIsHeld'
      BY Zenon, <1>0, <3>1, <3>3 DEF WakeInv, OwnPcs, SyncIsHeld, ThreadPcs, Busy, Actors
    <3>7. Running /\ event_waiter' # "null" /\ shutdown_event' \notin {"signaled", "taken"}
      BY Zenon, <2>1, <2>4, <3>2 DEF WakeInv, QuietAfterShutdown
    <3>8. QuietAfterShutdown'
      BY Zenon, <3>7 DEF QuietAfterShutdown
    <3>9. NoLostWakeup'
      BY Zenon, <1>0, <2>1, <3>1, <3>3, <3>4, <3>7 DEF WakeInv, NoLostWakeup, Running, Actors
    <3>. QED BY Zenon, <2>2, <3>5, <3>6, <3>8, <3>9 DEF WakeInv
  <2>. QED BY Zenon, <2>3, <2>4
<1>2. CASE DispatchCallback(t)
  <2>1. /\ pc[t] = "calling" /\ pc' = [pc EXCEPT ![t] = "callback"]
        /\ UNCHANGED <<state, callback_queue, event_waiter, holders, shutdown_event, idle_waiters,
                       dispatching_sync, active_threads, signaled>>
    BY Zenon, <1>2 DEF DispatchCallback, Goto, waiter, NoIdleCheck
  <2>2. pc'[t] = "callback" /\ \A b \in Actors \ {t} : pc'[b] = pc[b]
    BY Zenon, <1>0, <2>1
  <2>3. OneHolder' /\ OwnPcs'
    BY Zenon, <1>0, <2>1, <2>2 DEF WakeInv, OneHolder, OwnPcs, ThreadPcs, Actors
  <2>4. SyncIsHeld' /\ QuietAfterShutdown'
    BY Zenon, <2>1, <2>2 DEF WakeInv, SyncIsHeld, QuietAfterShutdown, Busy, Running
  <2>5. NoLostWakeup' /\ IdleIsBroadcast'
    BY Zenon, <1>0, <2>1, <2>2 DEF WakeInv, NoLostWakeup, IdleIsBroadcast, IsIdle, Running, Actors
  <2>. QED BY Zenon, <2>3, <2>4, <2>5 DEF WakeInv
<1>3. CASE DispatchEnd(t)
  <2>1. /\ pc[t] = "calling" /\ pc' = [pc EXCEPT ![t] = "dispatch_defer"]
        /\ UNCHANGED <<state, callback_queue, event_waiter, holders, shutdown_event, idle_waiters,
                       active_threads>>
        /\ signaled' => signaled
        /\ callback_queue # <<>> => signaled' = signaled
        /\ t \in holders => dispatching_sync' = FALSE
        /\ t \notin holders => dispatching_sync' = dispatching_sync
    <3>1. /\ pc[t] = "calling" /\ pc' = [pc EXCEPT ![t] = "dispatch_defer"]
          /\ UNCHANGED <<state, callback_queue, event_waiter, holders, shutdown_event,
                         idle_waiters, active_threads>>
      BY Zenon, <1>3 DEF DispatchEnd, Goto, queues, NoIdleCheck
    <3>2. CASE t \in holders
      <4>1. dispatching_sync' = FALSE /\ signaled' = (signaled /\ callback_queue # <<>>)
        BY Zenon, <1>3, <3>2 DEF DispatchEnd
      <4>2. signaled \in BOOLEAN
        BY Zenon DEF TypeInv, TypeOK, WaiterOK
      <4>. QED BY Zenon, <3>1, <3>2, <4>1, <4>2
    <3>3. CASE t \notin holders
      <4>1. UNCHANGED <<dispatching_sync, signaled>>
        BY Zenon, <1>3, <3>3 DEF DispatchEnd
      <4>. QED BY Zenon, <3>1, <3>3, <4>1
    <3>. QED BY Zenon, <3>2, <3>3
  <2>2. pc'[t] = "dispatch_defer" /\ \A b \in Actors \ {t} : pc'[b] = pc[b]
    BY Zenon, <1>0, <2>1
  <2>3. OneHolder' /\ OwnPcs'
    BY <1>0, <2>1, <2>2 DEF WakeInv, OneHolder, OwnPcs, ThreadPcs, Actors
  <2>4. SyncIsHeld'
    BY Zenon, <2>1 DEF WakeInv, OneHolder, SyncIsHeld
  <2>5. QuietAfterShutdown'
    BY Zenon, <2>1 DEF WakeInv, QuietAfterShutdown, Running
  <2>6. NoLostWakeup'
    BY <1>0, <2>1, <2>2 DEF WakeInv, NoLostWakeup, Running, Actors
  <2>7. <<t, "dispatch">> \in active_threads
    BY Zenon, <1>0, <2>1 DEF SerialInv, BusyIsCounted
  <2>8. IdleIsBroadcast'
    BY Zenon, <2>1, <2>7 DEF IdleIsBroadcast, IsIdle
  <2>. QED BY Zenon, <2>3, <2>4, <2>5, <2>6, <2>8 DEF WakeInv
<1>4. CASE DispatchDefer(t)
  <2>1. /\ pc[t] = "dispatch_defer" /\ pc' = [pc EXCEPT ![t] = "idle"]
        /\ event_waiter' = IF t \in holders THEN "loop" ELSE event_waiter
        /\ holders' = holders \ {t}
        /\ UNCHANGED <<state, callback_queue, dispatching_sync, signaled>>
        /\ IsIdle' => idle_waiters' = {}
        /\ shutdown_event' = shutdown_event \/ (shutdown_event' = "signaled" /\ IsIdle')
    BY Zenon, <1>4 DEF DispatchDefer, Goto, queues, IdleCheck
  <2>2. pc'[t] = "idle" /\ \A b \in Actors \ {t} : pc'[b] = pc[b]
    BY Zenon, <1>0, <2>1
  <2>3. OneHolder' /\ OwnPcs'
    BY <1>0, <2>1, <2>2 DEF WakeInv, OneHolder, OwnPcs, ThreadPcs, Actors
  <2>4. SyncIsHeld'
    BY Zenon, <2>1, <2>2 DEF WakeInv, SyncIsHeld, Busy
  <2>5. QuietAfterShutdown'
    <3>1. IsIdle' => event_waiter' = "null" \/ ~signaled
      BY Zenon, <2>1 DEF IsIdle
    <3>2. shutdown_event' \in {"signaled", "taken"} => ~Running'
      BY Zenon DEF SerialInv, ShutdownRunsOnce
    <3>3. event_waiter' = "null" => event_waiter = "null"
      BY Zenon, <2>1
    <3>. QED BY Zenon, <2>1, <3>1, <3>2, <3>3 DEF WakeInv, QuietAfterShutdown, Running
  <2>6. NoLostWakeup'
    BY Zenon, <1>0, <2>1, <2>2 DEF WakeInv, NoLostWakeup, Running, Actors
  <2>7. IdleIsBroadcast'
    BY Zenon, <2>1 DEF IdleIsBroadcast
  <2>. QED BY Zenon, <2>3, <2>4, <2>5, <2>6, <2>7 DEF WakeInv
<1>. QED BY Zenon, <1>1, <1>2, <1>3, <1>4

\* The other handlers: the timer signals what it queues, and CompleteShutdown
\* takes an event waiter that has nothing to report.
LEMMA HandlerStepWakes ==
  ASSUME TypeInv, SerialInv, SerialInv', WakeInv, NEW t \in Threads, HandlerStep(t)
  PROVE  WakeInv'
<1>0. /\ pc \in [Actors -> ThreadPcs \cup ClientPcs] /\ holders \subseteq Threads
      /\ t \in Actors /\ t \notin Clients /\ callback_queue \in Seq(Requests)
      /\ delayed_tasks \in Seq(Tasks)
  BY Zenon, ActorsAssumption DEF TypeInv, TypeOK, ControlOK, WaiterOK, QueuesOK, Actors
<1>1. ASSUME TimerHandler(t) \/ OnSignal(t) \/ ShutdownQueueEmpty(t) \/ ObserverReturns(t)
      PROVE  Aside
  BY Zenon, <1>0, <1>1
     DEF TimerHandler, OnSignal, ShutdownQueueEmpty, ObserverReturns, Goto, Aside, NoIdleCheck,
         Running, waiter, queues, Dispatching, ThreadPcs
<1>2. ASSUME NEW r \in Requests, CancelNext(t, r) PROVE Aside
  BY Zenon, <1>0, <1>2
     DEF CancelNext, Goto, Aside, NoIdleCheck, Running, waiter, Dispatching, ThreadPcs
<1>3. ASSUME QueueWait(t) PROVE Aside
  <2>1. /\ pc[t] = "queue_wait"
        /\ pc' = [pc EXCEPT ![t] = "wait_queued"] \/ pc' = [pc EXCEPT ![t] = "idle"]
        /\ UNCHANGED <<state, callback_queue, event_waiter, signaled, holders, dispatching_sync,
                       active_threads>>
        /\ NoIdleCheck \/ IdleCheck
    BY Zenon, <1>3 DEF QueueWait, Goto, waiter
  <2>. QED
    BY Zenon, <1>0, <2>1 DEF Aside, NoIdleCheck, IdleCheck, Running, Dispatching, ThreadPcs
<1>4. ASSUME EnterShutdown(t) PROVE Aside
  <2>1. ~Running
    BY Zenon, <1>0, <1>4 DEF EnterShutdown, SerialInv, ShutdownRunsOnce, Completing
  <2>. QED
    BY Zenon, <1>0, <1>4, <2>1
       DEF EnterShutdown, Goto, Aside, NoIdleCheck, Running, waiter, queues, Dispatching, ThreadPcs
<1>5. CASE CheckDelayedTasks(t)
  <2>1. /\ pc[t] = "timer_check" /\ pc' = [pc EXCEPT ![t] = "idle"]
        /\ UNCHANGED <<state, event_waiter, holders, dispatching_sync, active_threads>>
    BY Zenon, <1>5 DEF CheckDelayedTasks, Goto
  <2>2. CASE ~Running
    <3>1. UNCHANGED <<callback_queue, signaled>> /\ IdleCheck
      BY Zenon, <1>5, <2>2 DEF CheckDelayedTasks
    <3>2. Aside
      BY Zenon, <1>0, <2>1, <3>1 DEF Aside, IdleCheck, Running, Dispatching
    <3>. QED BY Zenon, <3>2, AsideSteps
  <2>3. CASE Running
    <3>1. event_waiter # "null" /\ shutdown_event \notin {"signaled", "taken"}
      BY Zenon, <2>3 DEF WakeInv, QuietAfterShutdown
    <3>2. PICK k \in 0 .. Len(delayed_tasks) :
            /\ callback_queue' = callback_queue \o SubSeq(delayed_tasks, 1, k)
            /\ IF k > 0 THEN Signal ELSE UNCHANGED signaled
            /\ NoIdleCheck
      BY Zenon, <1>5, <2>3 DEF CheckDelayedTasks
    <3>3. CASE k = 0
      <4>1. SubSeq(delayed_tasks, 1, 0) = <<>>
        BY <1>0
      <4>2. callback_queue' = callback_queue
        BY <1>0, <3>2, <3>3, <4>1
      <4>3. Aside
        BY <1>0, <2>1, <3>2, <3>3, <4>2 DEF Aside, NoIdleCheck, Running, Dispatching
      <4>. QED BY Zenon, <4>3, AsideSteps
    <3>4. CASE k > 0
      <4>1. signaled' /\ UNCHANGED <<shutdown_event, idle_waiters>>
        BY Zenon, <3>1, <3>2, <3>4 DEF Signal, NoIdleCheck
      <4>2. pc'[t] = "idle" /\ \A b \in Actors \ {t} : pc'[b] = pc[b]
        BY Zenon, <1>0, <2>1
      <4>3. OneHolder' /\ OwnPcs'
        BY <1>0, <2>1, <4>2 DEF WakeInv, OneHolder, OwnPcs, ThreadPcs, Actors
      <4>4. SyncIsHeld'
        BY Zenon, <2>1, <4>2 DEF WakeInv, SyncIsHeld, Busy
      <4>5. QuietAfterShutdown' /\ NoLostWakeup' /\ IdleIsBroadcast'
        BY Zenon, <2>1, <2>3, <3>1, <4>1
           DEF QuietAfterShutdown, NoLostWakeup, IdleIsBroadcast, IsIdle, Running
      <4>. QED BY Zenon, <4>3, <4>4, <4>5 DEF WakeInv
    <3>. QED BY <3>3, <3>4
  <2>. QED BY Zenon, <2>2, <2>3
<1>6. CASE CompleteShutdown(t)
  <2>1. /\ pc[t] = "complete" /\ pc' = [pc EXCEPT ![t] = "drain"] /\ event_waiter' = "null"
        /\ UNCHANGED <<state, callback_queue, signaled, holders, dispatching_sync, active_threads,
                       shutdown_event, idle_waiters>>
    BY Zenon, <1>6 DEF CompleteShutdown, Goto, queues, NoIdleCheck
  <2>2. ~signaled /\ ~Running
    BY Zenon, <1>0, <2>1 DEF WakeInv, QuietAfterShutdown, SerialInv, ShutdownRunsOnce, Completing
  <2>3. pc'[t] = "drain" /\ \A b \in Actors \ {t} : pc'[b] = pc[b]
    BY Zenon, <1>0, <2>1
  <2>4. OneHolder' /\ OwnPcs'
    BY <1>0, <2>1, <2>3 DEF WakeInv, OneHolder, OwnPcs, ThreadPcs, Actors
  <2>5. SyncIsHeld'
    BY Zenon, <2>1, <2>3 DEF WakeInv, SyncIsHeld, Busy
  <2>6. QuietAfterShutdown' /\ NoLostWakeup' /\ IdleIsBroadcast'
    BY Zenon, <2>1, <2>2 DEF WakeInv, QuietAfterShutdown, NoLostWakeup, IdleIsBroadcast, IsIdle, Running
  <2>. QED BY Zenon, <2>4, <2>5, <2>6 DEF WakeInv
<1>. QED
  BY Zenon, <1>1, <1>2, <1>3, <1>4, <1>5, <1>6, AsideSteps, DispatchWakes DEF HandlerStep

\* Every step keeps WakeInv.
LEMMA WakeNext ==
  ASSUME TypeInv, SerialInv, SerialInv', WakeInv, [Next]_vars
  PROVE  WakeInv'
<1>1. CASE Tick \/ UNCHANGED vars
  <2>1. Aside
    BY Zenon, <1>1 DEF Tick, vars, Aside, NoIdleCheck, Running, waiter, queues, control
  <2>. QED BY Zenon, <2>1, AsideSteps
<1>. QED
  BY Zenon, <1>1, ApiCallWakes, CallStepWakes, CallbackEndsWakes, LoopStepWakes, HandlerStepWakes DEF Next

\* The strengthening is an invariant: the event waiter has one holder,
\* dispatching_sync_ is reset by whoever set it, queued callbacks are announced.
THEOREM WakeInvariant == Spec => []WakeInv
<1>1. TypeInv /\ SerialInv /\ [Next]_vars => TypeInv' /\ SerialInv'
  BY Zenon, TypeNext, TypeStutter, SerialNext
<1>2. TypeInv /\ SerialInv /\ SerialInv' /\ WakeInv /\ [Next]_vars => WakeInv'
  BY Zenon, WakeNext
<1>. QED BY TypeInit, SerialInit, WakeInit, <1>1, <1>2, PTL DEF Spec

\* As long as callbacks are queued the loop will deliver the event that has
\* them dispatched, or a direct call is under way that signals it at its end.
THEOREM WakeupsNotLost == Spec => []NoLostWakeup
<1>1. WakeInv => NoLostWakeup
  BY Zenon DEF WakeInv
<1>. QED BY WakeInvariant, <1>1, PTL

\* No thread is left blocked in WaitUntilIdle when the dispatcher is idle.
THEOREM IdleBroadcast == Spec => []IdleIsBroadcast
<1>1. WakeInv => IdleIsBroadcast
  BY Zenon DEF WakeInv
<1>. QED BY WakeInvariant, <1>1, PTL
=============================================================================
