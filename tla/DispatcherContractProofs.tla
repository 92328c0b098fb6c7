---------------------- MODULE DispatcherContractProofs ----------------------
(* A dispatcher that reports its shutdown has nothing left to do, and the  *)
(* dispatcher implements DispatcherContract.                               *)
EXTENDS DispatcherRequestProofs

-----------------------------------------------------------------------------
(* Shutdown leaves nothing.  A task posted with a later deadline after      *)
(* ShutdownAsync is never taken back, so this needs ~LateDelayed.           *)

Closed == state \in {"kShutdown", "kDestroyed"}

\* Past its assertions CompleteShutdown finds no wait, its loop over the
\* shutdown queue ends with the queue empty, and afterwards nothing starts.
FinalInv ==
  /\ \A a \in Actors : panic = "none" /\ pc[a] \in {"drain", "cancelcb", "drained"} => waits = {}
  /\ \A a \in Actors : panic = "none" /\ pc[a] = "drained" => shutdown_queue = {}
  /\ Closed => /\ waits = {} /\ shutdown_queue = {} /\ shutdown_event = "taken"
               /\ \A a \in Actors : pc[a] \notin {"complete", "drain", "cancelcb", "drained"} /\ ~Busy(a)

\* Steps that add no wait and nothing to the shutdown queue, start no callback
\* and do not advance CompleteShutdown.
Settled ==
  /\ panic = "none" /\ (Closed' => Closed)
  /\ waits' \subseteq waits
  /\ waits = {} => shutdown_queue' \subseteq shutdown_queue
  /\ shutdown_event = "taken" => shutdown_event' = "taken"
  /\ \A a \in Actors : \/ pc'[a] = pc[a]
                       \/ pc'[a] = "drain" /\ pc[a] = "cancelcb"
                       \/ pc'[a] = "calling" /\ pc[a] = "callback"
                       \/ pc'[a] \notin {"complete", "drain", "cancelcb", "drained"} /\ ~Busy(a)'

\* Such steps keep FinalInv.
LEMMA SettledSteps ==
  ASSUME FinalInv, Settled
  PROVE  FinalInv'
<1>1. ASSUME NEW a \in Actors, pc'[a] \in {"drain", "cancelcb", "drained"} PROVE waits' = {}
  BY Zenon, <1>1 DEF FinalInv, Settled, Busy
<1>2. ASSUME NEW a \in Actors, pc'[a] = "drained" PROVE shutdown_queue' = {}
  BY Zenon, <1>2 DEF FinalInv, Settled, Busy
<1>3. ASSUME Closed' PROVE waits' = {} /\ shutdown_queue' = {} /\ shutdown_event' = "taken"
  BY Zenon, <1>3 DEF FinalInv, Settled
<1>4. ASSUME Closed', NEW a \in Actors
      PROVE  pc'[a] \notin {"complete", "drain", "cancelcb", "drained"} /\ ~Busy(a)'
  BY Zenon, <1>4 DEF FinalInv, Settled, Busy
<1>. QED BY Zenon, <1>1, <1>2, <1>3, <1>4 DEF FinalInv

\* Starting an API call keeps FinalInv.
LEMMA ApiCallFinal ==
  ASSUME TypeInv, SerialInv, FinalInv, panic = "none", NEW a \in Actors, ApiCall(a)
  PROVE  FinalInv'
<1>1. ASSUME Running, UNCHANGED pc, ~Closed' PROVE FinalInv'
  <2>1. \A b \in Actors : ~Completing(b)
    BY Zenon, <1>1 DEF SerialInv, ShutdownRunsOnce
  <2>. QED BY Zenon, <1>1, <2>1 DEF FinalInv, Completing
<1>2. ASSUME UNCHANGED <<waits, shutdown_event, pc>>, shutdown_queue' \subseteq shutdown_queue,
             Closed' => Closed
      PROVE  FinalInv'
  BY Zenon, <1>2, SettledSteps DEF Settled
<1>3. ASSUME NEW r \in Tasks, PostTask(a, r) PROVE FinalInv'
  BY Zenon, <1>1, <1>3 DEF PostTask, RegisterCallbackWithoutQueueing, Running, Closed
<1>4. ASSUME NEW r \in Tasks, CancelTask(a, r) PROVE FinalInv'
  <2>1. UNCHANGED <<waits, shutdown_event, pc, state>> /\ shutdown_queue' \subseteq shutdown_queue
    BY Zenon, <1>4 DEF CancelTask, CancelAsyncOperation, loop, control, NoIdleCheck
  <2>. QED BY Zenon, <1>2, <2>1 DEF Closed
<1>5. ASSUME NEW r \in Tasks, NEW d \in 1 .. MaxTime, PostDelayedTask(a, r, d) PROVE FinalInv'
  BY Zenon, <1>2, <1>5 DEF PostDelayedTask, loop, control, NoIdleCheck, Closed
<1>6. ASSUME NEW r \in Reads, RegisterRead(a, r) \/ QueueRead(a, r) PROVE FinalInv'
  BY <1>2, <1>6 DEF RegisterRead, QueueRead, loop, control, queues, NoIdleCheck, Closed
<1>7. ASSUME NEW r \in Reads, CancelCallback(a, r) PROVE FinalInv'
  <2>1. UNCHANGED <<waits, shutdown_event, pc, state>> /\ shutdown_queue' \subseteq shutdown_queue
    BY Zenon, <1>7 DEF CancelCallback, loop, control, NoIdleCheck
  <2>. QED BY <1>2, <2>1 DEF Closed
<1>8. ASSUME NEW w \in Waits, BeginWait(a, w) PROVE FinalInv'
  BY Zenon, <1>1, <1>8 DEF BeginWait, control, Running, Closed
<1>9. ASSUME NEW w \in Waits, CancelWait(a, w) PROVE FinalInv'
  BY Zenon, <1>2, <1>9 DEF CancelWait, queues, NoIdleCheck, Closed
<1>10. CASE ShutdownAsync(a)
  BY Zenon, <1>1, <1>10 DEF ShutdownAsync, Running, Closed
<1>11. CASE WaitUntilIdle(a)
  BY Zenon, <1>2, <1>11 DEF WaitUntilIdle, loop, queues, Closed
<1>12. CASE Destroy(a)
  BY Zenon, <1>2, <1>12 DEF Destroy, loop, queues, control, NoIdleCheck, Closed
<1>. QED BY <1>3, <1>4, <1>5, <1>6, <1>7, <1>8, <1>9, <1>10, <1>11, <1>12 DEF ApiCall

\* The idle check signals the shutdown event, and leaves one that was taken.
LEMMA IdleCheckTaken ==
  ASSUME IdleCheck \/ NoIdleCheck
  PROVE  shutdown_event = "taken" => shutdown_event' = "taken"
BY Zenon DEF IdleCheck, NoIdleCheck

\* The later steps of an API call and the ends of callbacks keep FinalInv.
LEMMA CallStepFinal ==
  ASSUME TypeInv, SerialInv, FinalInv, panic = "none", NEW a \in Actors,
         CallStep(a) \/ CallbackEnds(a)
  PROVE  FinalInv'
<1>1. CASE QueueRegisteredCallback(a)
  <2>. DEFINE r == req[a]
              direct == Running /\ InContainer(r) /\ r \in registered_callbacks /\ DirectCall(a, r)
  <2>0. UNCHANGED <<state, shutdown_queue, waits, shutdown_event>>
    BY Zenon, <1>1 DEF QueueRegisteredCallback, loop, NoIdleCheck
  <2>1. CASE direct
    <3>1. Running /\ pc' = [pc EXCEPT ![a] = "direct"]
      BY Zenon, <1>1, <2>1 DEF QueueRegisteredCallback, Goto
    <3>2. \A b \in Actors : ~Completing(b)
      BY Zenon, <3>1 DEF SerialInv, ShutdownRunsOnce
    <3>3. \A b \in Actors : ~Completing(b)'
      BY Zenon, <3>1, <3>2 DEF Completing, TypeInv, TypeOK, ControlOK
    <3>4. ~Closed'
      BY Zenon, <2>0, <3>1 DEF Running, Closed
    <3>. QED BY Zenon, <3>3, <3>4 DEF FinalInv, Completing
  <2>2. CASE ~direct
    <3>1. UNCHANGED pc
      BY Zenon, <1>1, <2>2 DEF QueueRegisteredCallback
    <3>. QED BY Zenon, <2>0, <3>1, SettledSteps DEF Settled, Closed
  <2>. QED BY Zenon, <2>1, <2>2
<1>2. CASE QueueDefer(a)
  <2>1. /\ UNCHANGED <<state, waits, shutdown_queue>> /\ IdleCheck
        /\ pc' = [pc EXCEPT ![a] = IF pc[a] = "wait_queued" THEN "idle" ELSE pc[a]]
    BY Zenon, <1>2 DEF QueueDefer, loop, queues, Goto
  <2>2. \A b \in Actors : pc'[b] = pc[b] \/ pc'[b] = "idle"
    BY Zenon, <2>1 DEF TypeInv, TypeOK, ControlOK
  <2>3. Settled
    BY Zenon, <2>1, <2>2, IdleCheckTaken DEF Settled, Closed, Busy
  <2>. QED BY Zenon, <2>3, SettledSteps
<1>3. CASE RemoveWait(a)
  <2>1. /\ UNCHANGED <<state, shutdown_queue, pc>> /\ waits' \subseteq waits /\ IdleCheck
    BY Zenon, <1>3 DEF RemoveWait, queues
  <2>. QED BY Zenon, <2>1, IdleCheckTaken, SettledSteps DEF Settled, Closed
<1>4. CASE WaitUntilIdleReturn(a)
  BY Zenon, <1>4, SettledSteps DEF WaitUntilIdleReturn, loop, queues, NoIdleCheck, Settled, Closed
<1>5. CASE CancelWaitOperation(a)
  <2>1. UNCHANGED <<waits, shutdown_event, pc, state>> /\ shutdown_queue' \subseteq shutdown_queue
    BY Zenon, <1>5 DEF CancelWaitOperation, CancelAsyncOperation, loop, NoIdleCheck
  <2>. QED BY Zenon, <2>1, SettledSteps DEF Settled, Closed
<1>6. CASE RegisterForCompleteShutdownEvent(a)
  <2>1. UNCHANGED <<state, waits, shutdown_queue, pc>> /\ call[a] = "register_shutdown"
    BY Zenon, <1>6 DEF RegisterForCompleteShutdownEvent, loop, queues
  <2>2. shutdown_event = "none"
    BY <2>1 DEF SerialInv, ShutdownRunsOnce
  <2>. QED BY Zenon, <2>1, <2>2, SettledSteps DEF Settled, Closed
<1>7. CASE CallbackEnds(a)
  <2>1. /\ UNCHANGED <<state, waits, shutdown_queue, shutdown_event>>
        /\ \/ pc[a] = "direct" /\ pc' = [pc EXCEPT ![a] = "idle"]
           \/ pc[a] = "callback" /\ pc' = [pc EXCEPT ![a] = "calling"]
           \/ pc[a] = "cancelcb" /\ pc' = [pc EXCEPT ![a] = "drain"]
    BY Zenon, <1>7 DEF CallbackEnds, DirectCallEnd, CallbackReturns, CancelReturns, loop, queues,
       Goto, NoIdleCheck
  <2>2. \A b \in Actors : \/ pc'[b] \in {pc[b], "idle"}
                          \/ pc'[b] = "calling" /\ pc[b] = "callback"
                          \/ pc'[b] = "drain" /\ pc[b] = "cancelcb"
    BY Zenon, <2>1 DEF TypeInv, TypeOK, ControlOK
  <2>3. Settled
    BY Zenon, <2>1, <2>2 DEF Settled, Closed, Busy
  <2>. QED BY <2>3, SettledSteps
<1>. QED BY <1>1, <1>2, <1>3, <1>4, <1>5, <1>6, <1>7 DEF CallStep

\* The loop's deliveries and the steps of handlers keep FinalInv.
LEMMA LoopFinal ==
  ASSUME TypeInv, SerialInv, ReqInv, FinalInv, panic = "none", NEW t \in Threads,
         LoopStep(t) \/ HandlerStep(t)
  PROVE  FinalInv'
<1>0. t \in Actors
  BY Zenon DEF Actors
<1>1. ASSUME UNCHANGED <<state, waits, shutdown_queue>>, shutdown_event = "taken" => shutdown_event' = "taken",
             NEW l, pc' = [pc EXCEPT ![t] = l],
             l \notin {"complete", "drain", "cancelcb", "drained", "calling", "callback", "direct"}
      PROVE  FinalInv'
  <2>1. \A b \in Actors : pc'[b] \in {pc[b], l}
    BY Zenon, <1>1 DEF TypeInv, TypeOK, ControlOK
  <2>2. Settled
    BY Zenon, <1>1, <2>1 DEF Settled, Closed, Busy
  <2>. QED BY Zenon, <2>2, SettledSteps
<1>2. CASE HandleEvent(t) \/ TimerFires(t)
  BY Zenon, <1>1, <1>2 DEF HandleEvent, TimerFires, Goto, loop, queues, NoIdleCheck
<1>3. ASSUME NEW w \in Waits, WaitSignaled(t, w) PROVE FinalInv'
  BY Zenon, <1>1, <1>3 DEF WaitSignaled, Goto, queues, NoIdleCheck
<1>4. CASE ShutdownEventSignaled(t)
  <2>1. /\ shutdown_event = "signaled" /\ pc' = [pc EXCEPT ![t] = "complete"]
        /\ UNCHANGED <<state, waits, shutdown_queue>>
    BY Zenon, <1>4 DEF ShutdownEventSignaled, Goto, loop, queues
  <2>2. ~Closed /\ ~Closed' /\ \A b \in Actors : ~Completing(b)
    BY Zenon, <2>1 DEF FinalInv, SerialInv, ShutdownRunsOnce, Closed
  <2>3. \A b \in Actors : pc'[b] \notin {"drain", "cancelcb", "drained"}
    BY <2>1, <2>2 DEF Completing, TypeInv, TypeOK, ControlOK
  <2>. QED BY Zenon, <2>2, <2>3 DEF FinalInv
<1>5. CASE DispatchEnd(t) \/ DispatchDefer(t) \/ TimerHandler(t) \/ OnSignal(t) \/ ObserverReturns(t)
  <2>1. /\ UNCHANGED <<state, waits, shutdown_queue>> /\ (IdleCheck \/ NoIdleCheck)
        /\ \E l \in {"dispatch_defer", "idle", "timer_check", "queue_wait"} : pc' = [pc EXCEPT ![t] = l]
    BY ZenonT(30), <1>5 DEF DispatchEnd, DispatchDefer, TimerHandler, OnSignal, ObserverReturns,
       Goto, loop, queues
  <2>. QED BY Zenon, <1>1, <2>1, IdleCheckTaken
<1>6. CASE CheckDelayedTasks(t)
  <2>1. /\ UNCHANGED <<state, waits, shutdown_queue>> /\ (IdleCheck \/ NoIdleCheck)
        /\ pc' = [pc EXCEPT ![t] = "idle"]
    BY ZenonT(30), <1>6 DEF CheckDelayedTasks, Goto, loop
  <2>. QED BY Zenon, <1>1, <2>1, IdleCheckTaken
<1>7. CASE DispatchCallbacks(t)
  <2>1. /\ UNCHANGED <<state, waits, shutdown_queue, shutdown_event>>
        /\ \/ pc' = [pc EXCEPT ![t] = "dispatch_defer"]
           \/ Running /\ pc' = [pc EXCEPT ![t] = "calling"]
    BY ZenonT(30), <1>7 DEF DispatchCallbacks, Goto, loop, NoIdleCheck
  <2>2. CASE pc' = [pc EXCEPT ![t] = "dispatch_defer"]
    BY Zenon, <1>1, <2>1, <2>2
  <2>3. CASE Running /\ pc' = [pc EXCEPT ![t] = "calling"]
    <3>1. ~Closed' /\ \A b \in Actors : ~Completing(b)
      BY <2>1, <2>3 DEF SerialInv, ShutdownRunsOnce, Running, Closed
    <3>2. \A b \in Actors : pc'[b] \notin {"drain", "cancelcb", "drained"}
      BY <2>3, <3>1 DEF Completing, TypeInv, TypeOK, ControlOK
    <3>. QED BY Zenon, <3>1, <3>2 DEF FinalInv
  <2>. QED BY Zenon, <2>1, <2>2, <2>3
<1>8. CASE DispatchCallback(t)
  <2>1. /\ UNCHANGED <<state, waits, shutdown_queue, shutdown_event>>
        /\ pc[t] = "calling" /\ pc' = [pc EXCEPT ![t] = "callback"]
    BY Zenon, <1>8 DEF DispatchCallback, Goto, loop, NoIdleCheck
  <2>2. ~Closed
    BY Zenon, <1>0, <2>1 DEF FinalInv, Busy
  <2>3. \A b \in Actors : pc'[b] \in {pc[b], "callback"}
    BY Zenon, <2>1 DEF TypeInv, TypeOK, ControlOK
  <2>. QED BY Zenon, <2>1, <2>2, <2>3 DEF FinalInv, Closed
<1>9. CASE QueueWait(t)
  <2>1. /\ pc[t] = "queue_wait" /\ waits' \subseteq waits /\ UNCHANGED state
        /\ IdleCheck \/ NoIdleCheck
        /\ \E l \in {"wait_queued", "idle"} : pc' = [pc EXCEPT ![t] = l]
    BY ZenonT(30), <1>9 DEF QueueWait, Goto
  <2>2. waits # {}
    BY Zenon, <1>0, <2>1 DEF ReqInv, WaitTokens, Token, TypeInv, SignalsHaveWaits
  <2>3. \A b \in Actors : pc'[b] \in {pc[b], "wait_queued", "idle"}
    BY Zenon, <2>1 DEF TypeInv, TypeOK, ControlOK
  <2>4. Settled
    BY Zenon, <2>1, <2>2, <2>3, IdleCheckTaken DEF Settled, Closed, Busy
  <2>. QED BY Zenon, <2>4, SettledSteps
<1>10. CASE CompleteShutdown(t)
  <2>1. /\ pc[t] = "complete" /\ pc' = [pc EXCEPT ![t] = "drain"]
        /\ panic' = "none" => ~HasFutureOps
        /\ UNCHANGED <<state, waits, shutdown_queue>>
    BY Zenon, <1>10 DEF CompleteShutdown, Goto, loop, queues
  <2>2. panic' = "none" => waits' = {}
    BY Zenon, <2>1 DEF HasFutureOps
  <2>3. ~Closed' /\ \A b \in Actors \ {t} : ~Completing(b)
    BY <1>0, <2>1 DEF FinalInv, Closed, SerialInv, ShutdownRunsOnce, Completing
  <2>4. \A b \in Actors : pc'[b] # "drained"
    BY Zenon, <2>1, <2>3 DEF Completing, TypeInv, TypeOK, ControlOK
  <2>. QED BY Zenon, <2>2, <2>3, <2>4 DEF FinalInv
<1>11. ASSUME NEW r \in Requests, CancelNext(t, r) PROVE FinalInv'
  <2>1. /\ pc[t] = "drain" /\ pc' = [pc EXCEPT ![t] = "cancelcb"]
        /\ shutdown_queue' \subseteq shutdown_queue /\ UNCHANGED <<state, waits, shutdown_event>>
    BY Zenon, <1>11 DEF CancelNext, Goto, loop, NoIdleCheck
  <2>2. ~Closed' /\ waits' = {}
    BY Zenon, <1>0, <2>1 DEF FinalInv, Closed
  <2>3. \A b \in Actors : pc'[b] \in {pc[b], "cancelcb"}
    BY Zenon, <2>1 DEF TypeInv, TypeOK, ControlOK
  <2>. QED BY Zenon, <2>1, <2>2, <2>3 DEF FinalInv
<1>12. CASE ShutdownQueueEmpty(t)
  <2>1. /\ pc[t] = "drain" /\ pc' = [pc EXCEPT ![t] = "drained"] /\ shutdown_queue = {}
        /\ UNCHANGED <<state, waits, shutdown_queue>>
    BY Zenon, <1>12 DEF ShutdownQueueEmpty, Goto, loop, queues
  <2>2. ~Closed' /\ waits' = {}
    BY Zenon, <1>0, <2>1 DEF FinalInv, Closed
  <2>. QED BY Zenon, <2>1, <2>2 DEF FinalInv
<1>13. CASE EnterShutdown(t)
  <2>1. /\ pc[t] = "drained" /\ pc' = [pc EXCEPT ![t] = "observer"]
        /\ UNCHANGED <<waits, shutdown_queue, shutdown_event>>
    BY Zenon, <1>13 DEF EnterShutdown, Goto, loop, queues, NoIdleCheck
  <2>2. waits' = {} /\ shutdown_queue' = {}
    BY Zenon, <1>0, <2>1 DEF FinalInv
  <2>3. shutdown_event' = "taken" /\ \A b \in Actors \ {t} : ~Completing(b)
    BY Zenon, <1>0, <2>1 DEF SerialInv, ShutdownRunsOnce, Completing
  <2>4. \A b \in Actors : ~Busy(b)
    BY Zenon, <1>0, <2>1 DEF SerialInv, DrainsAlone
  <2>5. pc'[t] = "observer" /\ \A b \in Actors \ {t} : pc'[b] = pc[b]
    BY Zenon, <1>0, <2>1 DEF TypeInv, TypeOK, ControlOK
  <2>6. \A b \in Actors : pc'[b] \notin {"complete", "drain", "cancelcb", "drained"} /\ ~Busy(b)'
    BY Zenon, <2>3, <2>4, <2>5 DEF Completing, Busy
  <2>. QED BY Zenon, <2>2, <2>3, <2>6 DEF FinalInv
<1>. QED BY <1>2, <1>3, <1>4, <1>5, <1>6, <1>7, <1>8, <1>9, <1>10, <1>11, <1>12, <1>13, ZenonT(30)
     DEF LoopStep, HandlerStep

\* FinalInv is an invariant.
THEOREM FinalInvariant == Spec => []FinalInv
<1>1. Init => FinalInv
  BY Zenon DEF Init, FinalInv, Closed
<1>2. TypeInv /\ [Next]_vars => TypeInv'
  BY Zenon, TypeNext, TypeStutter
<1>3. TypeInv /\ SerialInv /\ ReqInv /\ FinalInv /\ [Next]_vars => FinalInv'
  <2>. SUFFICES ASSUME TypeInv, SerialInv, ReqInv, FinalInv, [Next]_vars PROVE FinalInv'
    BY Zenon
  <2>1. CASE UNCHANGED vars
    BY Zenon, <2>1 DEF vars, FinalInv, Closed, Busy, loop, queues, control
  <2>2. CASE panic = "none" /\ Tick
    BY Zenon, <2>2, SettledSteps DEF Tick, Settled, Closed, loop, queues, control, NoIdleCheck
  <2>. QED BY <2>1, <2>2, ApiCallFinal, CallStepFinal, LoopFinal DEF Next
<1>. QED BY <1>1, <1>2, <1>3, TypeInit, SerialInvariant, ReqInvariant, PTL DEF Spec

\* When the dispatcher reports that it has shut down, every request it accepted
\* was run or cancelled and none of its callbacks is running.
THEOREM ShutdownLeavesNothing == ASSUME ~LateDelayed PROVE Spec => []ShutdownIsFinal
<1>1. ASSUME ~LateDelayed, ReqInv, FinalInv PROVE ShutdownIsFinal
  <2>. SUFFICES ASSUME Closed PROVE pending = {} /\ \A a \in Actors : ~InCallback(a)
    BY Zenon DEF ShutdownIsFinal, Closed
  <2>1. /\ waits = {} /\ shutdown_queue = {}
        /\ \A a \in Actors : pc[a] # "cancelcb" /\ ~Busy(a)
    BY Zenon, <1>1 DEF FinalInv
  <2>2. registered_callbacks = {} /\ callback_queue = <<>> /\ delayed_tasks = <<>>
    BY Zenon, <1>1 DEF ReqInv, ListsClosed, Closed, Running
  <2>3. \A t \in Threads : to_call[t] = <<>>
    BY Zenon, <1>1, <2>1 DEF ReqInv, BatchOwned, Busy, Actors
  <2>4. Elems(<<>>) = {}
    BY DEF Elems
  <2>5. \A t \in Threads : Batches[t] = {}
    BY Zenon, <2>3, <2>4 DEF Batches
  <2>6. pending = {}
    BY <1>1, <2>1, <2>2, <2>4, <2>5 DEF ReqInv, Homes, Home
  <2>. QED BY Zenon, <2>1, <2>6 DEF InCallback, Busy
<1>. QED BY <1>1, ReqInvariant, FinalInvariant, PTL

-----------------------------------------------------------------------------
(* The dispatcher implements DispatcherContract, step by step.             *)

Draining(a) == pc[a] \in {"drain", "cancelcb", "drained"}
InCallbacks == {a \in Actors : InCallback(a)}

\* What the phase of the contract is.
LEMMA PhaseIs ==
  /\ Running => ContractPhase = "open"
  /\ Closed => ContractPhase = "closed"
  /\ state = "kShuttingDown" /\ panic = "none" /\ (\E t \in Threads : Draining(t))
       => ContractPhase = "draining"
  /\ state = "kShuttingDown" /\ (panic = "none" => \A t \in Threads : ~Draining(t))
       => ContractPhase = "closing"
  /\ TypeInv /\ ContractPhase = "draining" => panic = "none" /\ \E t \in Threads : Draining(t)
  /\ TypeInv /\ ContractPhase = "closed" => Closed
BY Zenon DEF ContractPhase, Running, Closed, Draining, TypeInv, TypeOK, ControlOK, States

\* Steps that leave the state alone and neither begin nor end the draining
\* leave the phase alone.
LEMMA PhaseKept ==
  ASSUME TypeInv, panic = "none", UNCHANGED state, Running \/ UNCHANGED panic,
         \A t \in Threads : Draining(t)' <=> Draining(t)
  PROVE  ContractPhase' = ContractPhase
<1>1. CASE Running
  BY Zenon, <1>1 DEF ContractPhase, Running
<1>2. CASE ~Running
  BY Zenon, <1>2 DEF ContractPhase, Running, Draining
<1>. QED BY Zenon, <1>1, <1>2

\* A step that changes pc at most from one place outside callbacks and outside
\* the draining to another keeps the phase and who is in a callback.
Unnoticed ==
  /\ UNCHANGED state /\ (Running \/ UNCHANGED panic)
  /\ \A a \in Actors : \/ pc'[a] = pc[a]
                       \/ ~InCallback(a) /\ ~Draining(a) /\ ~InCallback(a)' /\ ~Draining(a)'
LEMMA UnnoticedKeeps ==
  ASSUME TypeInv, panic = "none", Unnoticed
  PROVE  ContractPhase' = ContractPhase /\ InCallbacks' = InCallbacks
<1>1. \A t \in Threads : Draining(t)' <=> Draining(t)
  BY Zenon DEF Unnoticed, Draining, Actors
<1>2. \A a \in Actors : InCallback(a)' <=> InCallback(a)
  BY Zenon DEF Unnoticed, InCallback
<1>. QED BY Zenon, <1>1, <1>2, PhaseKept DEF Unnoticed, InCallbacks

\* Such a step withdraws a request or is none of the contract's concern.
LEMMA UnnoticedContract ==
  ASSUME TypeInv, panic = "none", Unnoticed, NEW r, pending' \in {pending, pending \ {r}}
  PROVE  [Contract!Next]_(Contract!vars)
<1>1. ContractPhase' = ContractPhase /\ InCallbacks' = InCallbacks
  BY Zenon, UnnoticedKeeps
<1>2. CASE r \in pending /\ pending' = pending \ {r}
  <2>1. r \in Requests
    BY Zenon, <1>2 DEF TypeInv, TypeOK, QueuesOK
  <2>. QED BY Zenon, <1>1, <1>2, <2>1 DEF InCallbacks, Contract!Next, Contract!Withdraw
<1>3. CASE pending' = pending
  BY Zenon, <1>1, <1>3 DEF InCallbacks, Contract!vars
<1>. QED BY Zenon, <1>2, <1>3

\* Starting an API call is a step of the contract.
LEMMA ApiCallContract ==
  ASSUME ~LateDelayed, TypeInv, SerialInv, panic = "none", NEW a \in Actors, ApiCall(a)
  PROVE  [Contract!Next]_(Contract!vars)
<1>1. ASSUME Running, UNCHANGED <<state, pc>>, NEW r \in Requests \ pending, pending' = pending \cup {r}
      PROVE  Contract!Next
  BY Zenon, <1>1, PhaseIs, UnnoticedKeeps DEF Unnoticed, InCallbacks, Contract!Next, Contract!Accept
<1>2. ASSUME UNCHANGED <<state, pc, panic>>, NEW r, pending' \in {pending, pending \ {r}}
      PROVE  [Contract!Next]_(Contract!vars)
  <2>1. Unnoticed
    BY Zenon, <1>2 DEF Unnoticed
  <2>. QED BY <1>2, <2>1, UnnoticedContract
<1>3. ASSUME NEW r \in Tasks, PostTask(a, r) PROVE Contract!Next
  BY Zenon, <1>1, <1>3 DEF PostTask, RegisterCallbackWithoutQueueing, Free, Requests, AsyncOps
<1>4. ASSUME NEW r \in Tasks, CancelTask(a, r) PROVE [Contract!Next]_(Contract!vars)
  <2>1. UNCHANGED <<state, pc, panic>> /\ (pending' = pending \/ pending' = pending \ {r})
    BY ZenonT(30), <1>4 DEF CancelTask, CancelAsyncOperation, control
  <2>. QED BY <1>2, <2>1
<1>5. ASSUME NEW r \in Tasks, NEW d \in 1 .. MaxTime, PostDelayedTask(a, r, d) PROVE Contract!Next
  BY Zenon, <1>1, <1>5 DEF PostDelayedTask, Free, Requests, AsyncOps, control
<1>6. ASSUME NEW r \in Reads, RegisterRead(a, r) PROVE Contract!Next
  BY <1>1, <1>6 DEF RegisterRead, RegisterCallbackWithoutQueueing, Requests, control
<1>7. ASSUME NEW r \in Reads, QueueRead(a, r) \/ CancelCallback(a, r)
      PROVE  [Contract!Next]_(Contract!vars)
  <2>1. UNCHANGED <<state, pc, panic>> /\ (pending' = pending \/ pending' = pending \ {r})
    BY Zenon, <1>7 DEF QueueRead, CancelCallback, control
  <2>. QED BY <1>2, <2>1
<1>8. ASSUME NEW w \in Waits, BeginWait(a, w) PROVE [Contract!Next]_(Contract!vars)
  <2>1. /\ Running /\ UNCHANGED <<state, pc>> /\ w \in Requests \ pending
        /\ pending' \in {pending, pending \cup {w}}
    BY Zenon, <1>8 DEF BeginWait, Free, control, Requests, AsyncOps
  <2>2. CASE pending' = pending
    BY Zenon, <2>1, <2>2, UnnoticedKeeps DEF Unnoticed, InCallbacks, Contract!vars
  <2>. QED BY Zenon, <1>1, <2>1, <2>2
<1>9. ASSUME (\E w \in Waits : CancelWait(a, w)) \/ WaitUntilIdle(a)
      PROVE  [Contract!Next]_(Contract!vars)
  BY Zenon, <1>2, <1>9 DEF CancelWait, WaitUntilIdle
<1>10. CASE ShutdownAsync(a)
  <2>1. Running /\ state' = "kShuttingDown" /\ UNCHANGED <<pc, pending, panic>>
    BY Zenon, <1>10 DEF ShutdownAsync
  <2>2. \A t \in Threads : ~Draining(t)'
    BY Zenon, <2>1 DEF SerialInv, ShutdownRunsOnce, Completing, Draining, Actors
  <2>3. ContractPhase = "open" /\ ContractPhase' = "closing"
    BY <2>1, <2>2, PhaseIs DEF ContractPhase, Running, Draining
  <2>. QED BY Zenon, <2>1, <2>3 DEF InCallback, Contract!Next, Contract!Close
<1>11. CASE Destroy(a)
  <2>1. Closed /\ Closed' /\ UNCHANGED <<pc, pending>>
    BY Zenon, <1>11 DEF Destroy, control, Closed
  <2>2. ContractPhase' = ContractPhase
    BY Zenon, <2>1, PhaseIs DEF ContractPhase, Closed, Running
  <2>. QED BY Zenon, <2>1, <2>2 DEF InCallback, Contract!vars
<1>. QED BY <1>3, <1>4, <1>5, <1>6, <1>7, <1>8, <1>9, <1>10, <1>11, ZenonT(30) DEF ApiCall

\* So are the steps of a call that has begun, direct calls included, and the
\* return of a callback.
LEMMA CallStepContract ==
  ASSUME TypeInv, SerialInv, ReqInv, OwnPcs, panic = "none", NEW a \in Actors,
         CallStep(a) \/ CallbackEnds(a)
  PROVE  [Contract!Next]_(Contract!vars)
<1>1. CASE QueueRegisteredCallback(a)
  <2>. DEFINE r == req[a]
              direct == Running /\ InContainer(r) /\ r \in registered_callbacks /\ DirectCall(a, r)
  <2>1. CASE ~direct
    <3>1. UNCHANGED <<state, pc, pending>> /\ (Running \/ UNCHANGED panic)
      BY ZenonT(30), <1>1, <2>1 DEF QueueRegisteredCallback
    <3>. QED BY Zenon, <3>1, UnnoticedContract DEF Unnoticed
  <2>2. CASE direct
    <3>1. /\ Running /\ r \in registered_callbacks /\ a \in Runtime /\ ~OwnerInStack(a)
          /\ Unsynchronized \/ ~dispatching_sync
          /\ pending' = pending \ {r} /\ pc' = [pc EXCEPT ![a] = "direct"]
          /\ UNCHANGED <<state, panic>>
      BY <1>1, <2>2, ZenonT(30) DEF QueueRegisteredCallback, DirectCall, Goto
    <3>2. r \in pending /\ r \in Requests
      BY ZenonT(40), <3>1 DEF ReqInv, Homes, Home, TypeInv, TypeOK, QueuesOK
    <3>3. \A b \in Actors : ~Completing(b)
      BY Zenon, <3>1 DEF SerialInv, ShutdownRunsOnce
    <3>4. a \in Clients /\ a \notin Threads /\ ~InCallback(a)
      BY Zenon, <3>1, ActorsAssumption DEF OwnPcs, ClientPcs, OwnerInStack, InCallback
    <3>5. ~Unsynchronized => InCallbacks = {}
      BY Zenon, <3>1, <3>3 DEF SerialInv, SyncIsALock, Busy, Completing, InCallback, InCallbacks
    <3>6. pc'[a] = "direct" /\ \A b \in Actors \ {a} : pc'[b] = pc[b]
      BY Zenon, <3>1 DEF TypeInv, TypeOK, ControlOK
    <3>7. InCallbacks' = InCallbacks \cup {a}
      BY Zenon, <3>6 DEF InCallbacks, InCallback
    <3>8. ContractPhase = "open" /\ ContractPhase' = "open"
      BY Zenon, <3>1, PhaseIs DEF ContractPhase, Running
    <3>. QED BY <3>1, <3>2, <3>4, <3>5, <3>7, <3>8 DEF InCallbacks, Contract!Next, Contract!Begin
  <2>. QED BY Zenon, <2>1, <2>2
<1>2. CASE QueueDefer(a)
  <2>1. /\ UNCHANGED <<state, panic, pending>>
        /\ pc' = [pc EXCEPT ![a] = IF pc[a] = "wait_queued" THEN "idle" ELSE pc[a]]
    BY Zenon, <1>2 DEF QueueDefer, Goto
  <2>2. \A b \in Actors : pc'[b] = pc[b] \/ (pc[b] = "wait_queued" /\ pc'[b] = "idle")
    BY Zenon, <2>1 DEF TypeInv, TypeOK, ControlOK
  <2>3. Unnoticed
    BY Zenon, <2>1, <2>2 DEF Unnoticed, InCallback, Draining
  <2>. QED BY Zenon, <2>1, <2>3, UnnoticedContract
<1>3. CASE RemoveWait(a) \/ CancelWaitOperation(a)
  <2>. PICK r : r = req[a]
    OBVIOUS
  <2>1. UNCHANGED <<state, pc, panic>> /\ (pending' = pending \/ pending' = pending \ {r})
    BY ZenonT(30), <1>3 DEF RemoveWait, CancelWaitOperation, CancelAsyncOperation
  <2>2. Unnoticed
    BY Zenon, <2>1 DEF Unnoticed, InCallback, Draining
  <2>3. pending' \in {pending, pending \ {r}}
    BY Zenon, <2>1
  <2>. QED BY <2>2, <2>3, UnnoticedContract
<1>4. CASE RegisterForCompleteShutdownEvent(a) \/ WaitUntilIdleReturn(a)
  <2>1. UNCHANGED <<state, pc, panic, pending>>
    BY Zenon, <1>4 DEF RegisterForCompleteShutdownEvent, WaitUntilIdleReturn
  <2>. QED BY Zenon, <2>1, UnnoticedContract DEF Unnoticed
<1>5. CASE CallbackEnds(a)
  <2>1. /\ UNCHANGED <<state, panic, pending>>
        /\ \/ pc[a] = "direct" /\ pc' = [pc EXCEPT ![a] = "idle"]
           \/ pc[a] = "callback" /\ pc' = [pc EXCEPT ![a] = "calling"]
           \/ pc[a] = "cancelcb" /\ pc' = [pc EXCEPT ![a] = "drain"]
    BY Zenon, <1>5 DEF CallbackEnds, DirectCallEnd, CallbackReturns, CancelReturns, Goto
  <2>2. /\ InCallback(a) /\ ~InCallback(a)' /\ (Draining(a)' <=> Draining(a))
        /\ \A b \in Actors \ {a} : pc'[b] = pc[b]
    BY Zenon, <2>1 DEF TypeInv, TypeOK, ControlOK, InCallback, Draining
  <2>3. ContractPhase' = ContractPhase
    BY Zenon, <2>1, <2>2, PhaseKept DEF Draining, Actors
  <2>4. InCallbacks' = InCallbacks \ {a} /\ a \in InCallbacks
    BY Zenon, <2>2 DEF InCallbacks, InCallback
  <2>. QED BY Zenon, <2>1, <2>3, <2>4 DEF InCallbacks, Contract!Next, Contract!End
<1>. QED BY Zenon, <1>1, <1>2, <1>3, <1>4, <1>5 DEF CallStep

\* So are the loop's deliveries and the steps of handlers.
LEMMA LoopContract ==
  ASSUME TypeInv, SerialInv, ReqInv, FinalInv, ShutdownIsFinal', panic = "none", NEW t \in Threads,
         LoopStep(t) \/ HandlerStep(t)
  PROVE  [Contract!Next]_(Contract!vars)
<1>0. t \in Actors
  BY Zenon DEF Actors
<1>1. ASSUME UNCHANGED <<state, panic, pending>>, NEW l, pc' = [pc EXCEPT ![t] = l],
             ~InCallback(t), ~Draining(t), l \notin {"callback", "direct", "cancelcb", "drain", "drained"}
      PROVE  [Contract!Next]_(Contract!vars)
  <2>1. Unnoticed
    BY Zenon, <1>1 DEF Unnoticed, InCallback, Draining, TypeInv, TypeOK, ControlOK
  <2>. QED BY Zenon, <1>1, <2>1, UnnoticedContract
<1>2. CASE LoopStep(t)
  <2>1. /\ UNCHANGED <<state, panic, pending>> /\ pc[t] = "idle"
        /\ \E l \in {"dispatch", "timer", "complete", "signal"} : pc' = [pc EXCEPT ![t] = l]
    BY ZenonT(30), <1>2 DEF LoopStep, HandleEvent, TimerFires, ShutdownEventSignaled, WaitSignaled,
       Quiet, Goto
  <2>. QED BY Zenon, <1>1, <2>1 DEF InCallback, Draining
<1>3. CASE \/ DispatchCallbacks(t) \/ DispatchEnd(t) \/ DispatchDefer(t) \/ TimerHandler(t)
           \/ CheckDelayedTasks(t) \/ OnSignal(t) \/ QueueWait(t) \/ ObserverReturns(t)
  <2>1. /\ UNCHANGED <<state, panic, pending>>
        /\ \/ pc[t] = "dispatch" \/ pc[t] = "calling" \/ pc[t] = "dispatch_defer"
           \/ pc[t] = "timer" \/ pc[t] = "timer_check"
           \/ pc[t] = "signal" \/ pc[t] = "queue_wait" \/ pc[t] = "observer"
        /\ \E l \in {"dispatch_defer", "calling", "idle", "timer_check", "queue_wait", "wait_queued"} :
             pc' = [pc EXCEPT ![t] = l]
    BY <1>3, ZenonT(60) DEF DispatchCallbacks, DispatchEnd, DispatchDefer, TimerHandler,
       CheckDelayedTasks, OnSignal, QueueWait, ObserverReturns, Goto
  <2>. QED BY ZenonT(40), <1>1, <2>1 DEF InCallback, Draining
<1>4. CASE DispatchCallback(t)
  <2>. DEFINE r == Head(to_call[t])
  <2>1. /\ pc[t] = "calling" /\ pc' = [pc EXCEPT ![t] = "callback"]
        /\ to_call[t] # <<>> /\ pending' = pending \ {r}
        /\ UNCHANGED <<state, panic>>
    BY Zenon, <1>4 DEF DispatchCallback, Goto
  <2>2. r \in pending /\ r \in Requests
    <3>1. to_call[t] \in Seq(Requests)
      BY Zenon DEF TypeInv, TypeOK, QueuesOK
    <3>2. r \in Requests /\ r \in Elems(to_call[t])
      BY <2>1, <3>1 DEF Elems
    <3>. QED BY Zenon, <3>2 DEF ReqInv, Homes, Home, Batches
  <2>3. ~Closed /\ (\A b \in Actors : pc[b] # "cancelcb" /\ ~Draining(b))
    BY Zenon, <1>0, <2>1 DEF FinalInv, SerialInv, DrainsAlone, Busy, Draining
  <2>4. ~Unsynchronized => InCallbacks = {}
    BY <1>0, <2>1, <2>3 DEF SerialInv, SyncIsALock, Busy, InCallback, InCallbacks
  <2>5. pc'[t] = "callback" /\ \A b \in Actors \ {t} : pc'[b] = pc[b]
    BY <2>1, <1>0 DEF TypeInv, TypeOK, ControlOK
  <2>6. InCallbacks' = InCallbacks \cup {t} /\ t \notin InCallbacks
    BY Zenon, <1>0, <2>1, <2>5 DEF InCallbacks, InCallback
  <2>7. ContractPhase' = ContractPhase
    BY Zenon, <2>1, <2>5, PhaseKept DEF Draining, Actors
  <2>8. ContractPhase \notin {"closed", "draining"}
    BY Zenon, <2>3, PhaseIs DEF Actors
  <2>. QED BY <1>0, <2>1, <2>2, <2>4, <2>6, <2>7, <2>8 DEF InCallbacks, Contract!Next, Contract!Begin
<1>5. ASSUME Completing(t), pc[t] # "observer"
      PROVE  state = "kShuttingDown" /\ \A b \in Actors \ {t} : ~Completing(b)
  BY <1>0, <1>5 DEF SerialInv, ShutdownRunsOnce, FinalInv, Closed, Running, Completing,
     TypeInv, TypeOK, ControlOK, States
<1>6. CASE CompleteShutdown(t)
  <2>1. /\ pc[t] = "complete" /\ pc' = [pc EXCEPT ![t] = "drain"]
        /\ panic' = "none" => active_threads = {}
        /\ UNCHANGED <<state, pending>>
    BY Zenon, <1>6 DEF CompleteShutdown, Goto, IsIdle
  <2>2. state = "kShuttingDown" /\ \A b \in Actors \ {t} : ~Completing(b)
    BY Zenon, <1>5, <2>1 DEF Completing
  <2>3. pc'[t] = "drain" /\ \A b \in Actors \ {t} : pc'[b] = pc[b]
    BY Zenon, <2>1, <1>0 DEF TypeInv, TypeOK, ControlOK
  <2>4. InCallbacks' = InCallbacks
    BY Zenon, <2>1, <2>3 DEF InCallbacks, InCallback
  <2>5. ContractPhase = "closing"
    BY Zenon, <2>1, <2>2, PhaseIs DEF Completing, Draining, Actors
  <2>6. CASE panic' = "none"
    <3>1. InCallbacks = {}
      BY Zenon, <2>1, <2>2, <2>6 DEF InCallbacks, InCallback, SerialInv, BusyIsCounted, Completing
    <3>2. ContractPhase' = "draining"
      BY Zenon, <2>1, <2>2, <2>3, <2>6 DEF ContractPhase, Running
    <3>. QED BY Zenon, <2>1, <2>4, <2>5, <3>1, <3>2 DEF InCallbacks, Contract!Next, Contract!Drain
  <2>7. CASE panic' # "none"
    <3>1. ContractPhase' = "closing"
      BY Zenon, <2>1, <2>2, <2>7 DEF ContractPhase, Running
    <3>. QED BY Zenon, <2>1, <2>4, <2>5, <3>1 DEF InCallbacks, Contract!vars
  <2>. QED BY Zenon, <2>6, <2>7
<1>7. ASSUME Draining(t) PROVE /\ ContractPhase = "draining" /\ state = "kShuttingDown"
                               /\ \A b \in Actors \ {t} : ~InCallback(b)
  <2>1. Completing(t) /\ pc[t] # "observer"
    BY Zenon, <1>7 DEF Draining, Completing
  <2>2. state = "kShuttingDown" /\ \A b \in Actors \ {t} : ~Completing(b)
    BY Zenon, <1>5, <2>1
  <2>3. \A b \in Actors : ~Busy(b)
    BY Zenon, <1>0, <1>7 DEF SerialInv, DrainsAlone, Draining
  <2>. QED BY Zenon, <1>7, <2>2, <2>3, PhaseIs DEF Busy, InCallback, Completing
<1>8. ASSUME NEW r \in Requests, CancelNext(t, r) PROVE Contract!Next
  <2>1. /\ pc[t] = "drain" /\ pc' = [pc EXCEPT ![t] = "cancelcb"]
        /\ r \in shutdown_queue /\ pending' = pending \ {r}
        /\ UNCHANGED <<state, panic>>
    BY Zenon, <1>8 DEF CancelNext, Goto
  <2>2. r \in pending
    BY Zenon, <2>1 DEF ReqInv, Homes, Home
  <2>3. pc'[t] = "cancelcb" /\ \A b \in Actors \ {t} : pc'[b] = pc[b]
    BY <2>1, <1>0 DEF TypeInv, TypeOK, ControlOK
  <2>4. ContractPhase = "draining" /\ InCallbacks = {} /\ InCallbacks' = {t}
    BY <1>0, <1>7, <2>1, <2>3 DEF Draining, InCallback, InCallbacks
  <2>5. ContractPhase' = ContractPhase
    BY Zenon, <2>1, <2>3, PhaseKept DEF Draining, Actors
  <2>. QED BY <1>0, <2>1, <2>2, <2>4, <2>5 DEF InCallbacks, Contract!Next, Contract!Begin
<1>9. CASE ShutdownQueueEmpty(t)
  <2>1. /\ pc[t] = "drain" /\ pc' = [pc EXCEPT ![t] = "drained"]
        /\ UNCHANGED <<state, panic, pending>>
    BY Zenon, <1>9 DEF ShutdownQueueEmpty, Goto
  <2>2. pc'[t] = "drained" /\ \A b \in Actors \ {t} : pc'[b] = pc[b]
    BY <2>1, <1>0 DEF TypeInv, TypeOK, ControlOK
  <2>3. ContractPhase' = ContractPhase /\ InCallbacks' = InCallbacks
    BY Zenon, <2>1, <2>2, PhaseKept DEF Draining, Actors, InCallbacks, InCallback
  <2>. QED BY Zenon, <2>1, <2>3 DEF InCallbacks, Contract!vars
<1>10. CASE EnterShutdown(t)
  <2>1. /\ pc[t] = "drained" /\ pc' = [pc EXCEPT ![t] = "observer"] /\ state' = "kShutdown"
        /\ UNCHANGED <<panic, pending>>
    BY Zenon, <1>10 DEF EnterShutdown, Goto
  <2>2. pending = {} /\ \A b \in Actors : ~InCallback(b)'
    BY Zenon, <2>1 DEF ShutdownIsFinal
  <2>3. ContractPhase = "draining" /\ InCallbacks = {} /\ InCallbacks' = {}
    BY Zenon, <1>7, <2>1, <2>2 DEF Draining, InCallbacks, InCallback
  <2>4. ContractPhase' = "closed"
    BY Zenon, <2>1 DEF ContractPhase, Running
  <2>. QED BY <2>1, <2>2, <2>3, <2>4 DEF InCallbacks, Contract!Next, Contract!Finish
<1>. QED BY <1>2, <1>3, <1>4, <1>6, <1>8, <1>9, <1>10, ZenonT(30) DEF HandlerStep

\* The dispatcher implements its contract: every step is one the contract
\* allows, or changes nothing the contract speaks of.
THEOREM ContractImplemented == ASSUME ~LateDelayed PROVE Spec => ImplementsContract
<1>1. Init => Contract!Init
  BY Zenon, PhaseIs DEF Init, Contract!Init, Running, InCallback
<1>2. WakeInv => OwnPcs
  BY Zenon DEF WakeInv
<1>3. TypeInv /\ [Next]_vars => TypeInv'
  BY Zenon, TypeNext, TypeStutter
<1>4. /\ TypeInv /\ SerialInv /\ OwnPcs /\ ReqInv /\ FinalInv /\ ShutdownIsFinal'
      /\ [Next]_vars
      => [Contract!Next]_(Contract!vars)
  <2>. SUFFICES ASSUME TypeInv, SerialInv, OwnPcs, ReqInv, FinalInv, ShutdownIsFinal', [Next]_vars
                PROVE  [Contract!Next]_(Contract!vars)
    BY Zenon
  <2>1. CASE UNCHANGED vars
    BY Zenon, <2>1 DEF vars, control, Contract!vars, ContractPhase, Running, InCallback
  <2>2. CASE panic = "none" /\ Tick
    BY Zenon, <2>2, UnnoticedContract DEF Tick, control, Unnoticed
  <2>. QED BY Zenon, <2>1, <2>2, ApiCallContract, CallStepContract, LoopContract DEF Next
<1>. QED BY <1>1, <1>2, <1>3, <1>4, TypeInit, SerialInvariant, WakeInvariant, ReqInvariant,
     FinalInvariant, ShutdownLeavesNothing, PTL DEF Spec, ImplementsContract, Contract!Spec
=============================================================================
