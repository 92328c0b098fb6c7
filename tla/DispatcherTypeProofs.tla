------------------------ MODULE DispatcherTypeProofs ------------------------
(* Dispatcher's variables keep their types.                                *)
EXTENDS Dispatcher, TLAPS

\* What a sequence is as a function.
LEMMA LenFacts ==
  ASSUME NEW S, NEW s \in Seq(S)
  PROVE  Len(s) \in Nat /\ DOMAIN s = 1 .. Len(s) /\ \A i \in 1 .. Len(s) : s[i] \in S
OBVIOUS

\* What SubSeq returns.
LEMMA SubSeqFacts ==
  ASSUME NEW S, NEW s, NEW m \in Nat, NEW n \in Nat, \A i \in m .. n : s[i] \in S
  PROVE  /\ SubSeq(s, m, n) \in Seq(S)
         /\ Len(SubSeq(s, m, n)) = IF m <= n THEN n - m + 1 ELSE 0
         /\ \A i \in 1 .. n - m + 1 : SubSeq(s, m, n)[i] = s[m + i - 1]
OBVIOUS

\* What Tail returns.
LEMMA TailFacts ==
  ASSUME NEW S, NEW s \in Seq(S), s # <<>>
  PROVE  /\ Tail(s) \in Seq(S) /\ Len(Tail(s)) = Len(s) - 1
         /\ \A i \in 1 .. Len(s) - 1 : Tail(s)[i] = s[i + 1]
         /\ Tail(s) = SubSeq(s, 2, Len(s))
OBVIOUS

\* What \o returns.
LEMMA ConcatFacts ==
  ASSUME NEW S, NEW s \in Seq(S), NEW t \in Seq(S)
  PROVE  /\ s \o t \in Seq(S) /\ Len(s \o t) = Len(s) + Len(t)
         /\ \A i \in 1 .. Len(s) + Len(t) :
              (s \o t)[i] = IF i <= Len(s) THEN s[i] ELSE t[i - Len(s)]
OBVIOUS

\* What Append returns.
LEMMA AppendFacts ==
  ASSUME NEW S, NEW s \in Seq(S), NEW x \in S
  PROVE  /\ Append(s, x) \in Seq(S) /\ Append(s, x) # <<>> /\ Len(Append(s, x)) = Len(s) + 1
         /\ \A i \in 1 .. Len(s) : Append(s, x)[i] = s[i]
         /\ Append(s, x)[Len(s) + 1] = x
OBVIOUS

\* A part of a sequence has the sequence's type.
LEMMA SubSeqType ==
  ASSUME NEW S, NEW s \in Seq(S), NEW m \in Nat, NEW n \in Nat, m >= 1, n <= Len(s)
  PROVE  SubSeq(s, m, n) \in Seq(S)
BY SubSeqFacts

\* CancelAsyncOperation's removal from a list leaves a list of requests.
LEMMA RemoveIndexType ==
  ASSUME NEW S, NEW s \in Seq(S), NEW i \in DOMAIN s
  PROVE  RemoveIndex(s, i) \in Seq(S)
<1>1. i \in 1 .. Len(s)
  OBVIOUS
<1>2. SubSeq(s, 1, i - 1) \in Seq(S)
  BY <1>1, SubSeqFacts
<1>3. SubSeq(s, i + 1, Len(s)) \in Seq(S)
  BY <1>1, SubSeqFacts
<1>. QED BY <1>2, <1>3 DEF RemoveIndex

\* The elements of a list of requests are requests.
LEMMA ElemsType ==
  ASSUME NEW S, NEW s \in Seq(S)
  PROVE  Elems(s) \in SUBSET S
BY DEF Elems

\* CancelCallback's removal from a list leaves a list of requests.
LEMMA ExtractType ==
  ASSUME NEW S, NEW s \in Seq(S), NEW r, NEW new, Extract(s, r, new)
  PROVE  new \in Seq(S)
BY Zenon, RemoveIndexType DEF Extract

\* Timer::Cancel leaves the timer well typed.
LEMMA TimerCancelType ==
  ASSUME TimerOK, TimerCancel
  PROVE  current_deadline' \in Times /\ timer_posted' \in BOOLEAN
<1>1. Infinite \in Times
  BY BoundsAssumption DEF Times, Infinite
<1>2. timer_posted' \in BOOLEAN
  BY ZenonT(30) DEF TimerCancel
<1>3. CASE TimerCancels
  BY Zenon, <1>1, <1>2, <1>3 DEF TimerCancel
<1>4. CASE ~TimerCancels
  BY Zenon, <1>2, <1>4 DEF TimerOK, TimerCancel
<1>. QED BY Zenon, <1>3, <1>4

\* ResetTimerLocked leaves the timer well typed.
LEMMA ResetTimerType ==
  ASSUME TimerOK, NEW q, NEW ds \in Seq(Tasks), NEW dl \in [Tasks -> Times],
         ResetTimer(q, ds, dl)
  PROVE  current_deadline' \in Times /\ timer_posted' \in BOOLEAN
<1>1. NextTimeout(q, ds, dl) \in Times
  <2>1. CASE ds = <<>>
    BY <2>1, BoundsAssumption DEF NextTimeout, Times, Infinite
  <2>2. CASE ds # <<>>
    <3>1. Head(ds) \in Tasks
      BY <2>2
    <3>. QED BY <3>1, BoundsAssumption DEF NextTimeout, Times, Infinite
  <2>. QED BY Zenon, <2>1, <2>2
<1>2. CASE NextTimeout(q, ds, dl) = Infinite
  BY Zenon, <1>2, TimerCancelType DEF ResetTimer
<1>3. CASE NextTimeout(q, ds, dl) # Infinite
  BY ZenonT(30), <1>1, <1>3 DEF ResetTimer, TimerOK
<1>. QED BY Zenon, <1>2, <1>3

\* CancelAsyncOperation keeps the types of the lists and the timer.
LEMMA CancelAsyncOperationTypes ==
  ASSUME QueuesOK, TimerOK, NEW r, CancelAsyncOperation(r)
  PROVE  /\ callback_queue' \in Seq(Requests)
         /\ shutdown_queue' \in SUBSET Requests
         /\ delayed_tasks' \in Seq(Tasks)
         /\ pending' \in SUBSET Requests
         /\ current_deadline' \in Times
         /\ timer_posted' \in BOOLEAN
<1>. USE DEF QueuesOK, TimerOK
<1>1. CASE r \in Elems(callback_queue)
  <2>1. callback_queue' \in Seq(Requests)
    BY Zenon, <1>1, ExtractType DEF CancelAsyncOperation
  <2>. QED BY Zenon, <1>1, <2>1 DEF CancelAsyncOperation
<1>2. CASE r \notin Elems(callback_queue) /\ r \in shutdown_queue
  BY Zenon, <1>2 DEF CancelAsyncOperation
<1>3. CASE r \notin Elems(callback_queue) \cup shutdown_queue /\ r \in Elems(delayed_tasks)
  <2>1. delayed_tasks' \in Seq(Tasks)
    BY Zenon, <1>3, ExtractType DEF CancelAsyncOperation
  <2>2. current_deadline' \in Times /\ timer_posted' \in BOOLEAN
    BY Zenon, <1>3, <2>1, ResetTimerType DEF CancelAsyncOperation
  <2>. QED BY Zenon, <1>3, <2>1, <2>2 DEF CancelAsyncOperation
<1>4. CASE r \notin Elems(callback_queue) \cup shutdown_queue \cup Elems(delayed_tasks)
  BY Zenon, <1>4 DEF CancelAsyncOperation
<1>. QED BY Zenon, <1>1, <1>2, <1>3, <1>4

\* InsertDelayedTaskSortedLocked leaves a list of requests.
LEMMA InsertDelayedTaskSortedType ==
  ASSUME QueuesOK, NEW r \in Tasks, NEW d, InsertDelayedTaskSorted(r, d)
  PROVE  delayed_tasks' \in Seq(Tasks)
<1>. PICK i \in 1 .. Len(delayed_tasks) + 1 :
       delayed_tasks' = SubSeq(delayed_tasks, 1, i - 1) \o <<r>>
                          \o SubSeq(delayed_tasks, i, Len(delayed_tasks))
  BY ZenonT(30) DEF InsertDelayedTaskSorted
<1>0. delayed_tasks \in Seq(Tasks) /\ Len(delayed_tasks) \in Nat
  BY DEF QueuesOK
<1>1. SubSeq(delayed_tasks, 1, i - 1) \in Seq(Tasks)
  BY <1>0, SubSeqType
<1>2. SubSeq(delayed_tasks, i, Len(delayed_tasks)) \in Seq(Tasks)
  BY <1>0, SubSeqType
<1>3. <<r>> \in Seq(Tasks)
  OBVIOUS
<1>. QED BY <1>1, <1>2, <1>3

\* The batch and the rest of callback_queue_ are lists of requests.
LEMMA PrefixTypes ==
  ASSUME NEW S, NEW s \in Seq(S), NEW n \in 0 .. Len(s)
  PROVE  SubSeq(s, 1, n) \in Seq(S) /\ SubSeq(s, n + 1, Len(s)) \in Seq(S)
BY SubSeqType

\* PostDelayedTask keeps every variable's type.
LEMMA PostDelayedTaskTypes ==
  ASSUME TypeInv, NEW a \in Actors, NEW r \in Tasks, NEW d \in 1 .. MaxTime,
         PostDelayedTask(a, r, d)
  PROVE  TypeInv'
<1>1. delayed_tasks' \in Seq(Tasks)
  BY Zenon, InsertDelayedTaskSortedType DEF PostDelayedTask, TypeInv, TypeOK
<1>2. deadline' \in [Tasks -> Times]
  BY BoundsAssumption DEF PostDelayedTask, TypeInv, TypeOK, TimerOK, Times, Infinite
<1>3. current_deadline' \in Times /\ timer_posted' \in BOOLEAN
  BY ZenonT(30), <1>1, <1>2, ResetTimerType DEF PostDelayedTask, TypeInv, TypeOK
<1>. QED
  BY Zenon, <1>1, <1>2, <1>3 DEF PostDelayedTask, TypeInv, TypeOK, QueuesOK, TimerOK, WaiterOK, LoopOK,
     ControlOK, SignalsHaveWaits, waiter, loop, control, NoIdleCheck, Requests

\* CancelTask keeps every variable's type.
LEMMA CancelTaskTypes ==
  ASSUME TypeInv, NEW a \in Actors, NEW r \in Tasks, CancelTask(a, r)
  PROVE  TypeInv'
BY Zenon, CancelAsyncOperationTypes
   DEF CancelTask, TypeInv, TypeOK, QueuesOK, TimerOK, WaiterOK, LoopOK, ControlOK,
       SignalsHaveWaits, waiter, loop, control, NoIdleCheck

\* CancelWaitOperation keeps every variable's type.
LEMMA CancelWaitOperationTypes ==
  ASSUME TypeInv, NEW a \in Actors, CancelWaitOperation(a)
  PROVE  TypeInv'
<1>1. CancelAsyncOperation(req[a]) /\ QueuesOK /\ TimerOK
  BY Zenon DEF CancelWaitOperation, TypeInv, TypeOK
<1>2. QueuesOK' /\ TimerOK'
  BY Zenon, <1>1, CancelAsyncOperationTypes
     DEF CancelWaitOperation, TypeInv, TypeOK, QueuesOK, TimerOK
<1>3. WaiterOK' /\ LoopOK'
  BY Zenon DEF CancelWaitOperation, TypeInv, TypeOK, WaiterOK, LoopOK, waiter, loop, NoIdleCheck
<1>4. ControlOK' /\ SignalsHaveWaits'
  BY Zenon DEF CancelWaitOperation, TypeInv, TypeOK, ControlOK, SignalsHaveWaits, Return, Enter,
         Calls, Actors
<1>. QED BY Zenon, <1>2, <1>3, <1>4 DEF TypeInv, TypeOK

\* CancelCallback keeps every variable's type.
LEMMA CancelCallbackTypes ==
  ASSUME TypeInv, NEW a \in Actors, NEW r \in Reads, CancelCallback(a, r)
  PROVE  TypeInv'
<1>1. callback_queue' \in Seq(Requests)
  <2>1. CASE r \in Elems(callback_queue)
    BY Zenon, <2>1, ExtractType DEF CancelCallback, TypeInv, TypeOK, QueuesOK
  <2>2. CASE r \notin Elems(callback_queue)
    BY Zenon, <2>2 DEF CancelCallback, TypeInv, TypeOK, QueuesOK
  <2>. QED BY Zenon, <2>1, <2>2
<1>2. to_call' \in [Threads -> Seq(Requests)]
  <2>1. CASE InToCall(r)
    <3>0. PICK t \in Threads : \E i \in DOMAIN to_call[t] :
            to_call' = [to_call EXCEPT ![t] = RemoveIndex(to_call[t], i)]
      BY Zenon, <2>1 DEF CancelCallback
    <3>1. PICK i \in DOMAIN to_call[t] :
            to_call' = [to_call EXCEPT ![t] = RemoveIndex(to_call[t], i)]
      BY ZenonT(30), <3>0
    <3>2. RemoveIndex(to_call[t], i) \in Seq(Requests)
      BY Zenon, RemoveIndexType DEF TypeInv, TypeOK, QueuesOK
    <3>. QED BY Zenon, <3>1, <3>2 DEF TypeInv, TypeOK, QueuesOK
  <2>2. CASE ~InToCall(r)
    BY Zenon, <2>2 DEF CancelCallback, TypeInv, TypeOK, QueuesOK
  <2>. QED BY Zenon, <2>1, <2>2
<1>. QED
  BY Zenon, <1>1, <1>2 DEF CancelCallback, TypeInv, TypeOK, QueuesOK, TimerOK, WaiterOK, LoopOK,
     ControlOK, SignalsHaveWaits, timer, waiter, loop, control, NoIdleCheck

\* CancelWait keeps every variable's type.
LEMMA CancelWaitTypes ==
  ASSUME TypeInv, NEW a \in Actors, NEW w \in Waits, CancelWait(a, w)
  PROVE  TypeInv'
<1>1. QueuesOK' /\ TimerOK' /\ WaiterOK' /\ LoopOK'
  BY Zenon DEF CancelWait, TypeInv, TypeOK, QueuesOK, TimerOK, WaiterOK, LoopOK, queues, timer, waiter,
         NoIdleCheck
<1>2. ControlOK' /\ SignalsHaveWaits'
  <2>1. PICK c \in {"remove_wait", "cancel_op"} : Enter(a, c, w)
    BY Zenon DEF CancelWait
  <2>2. ControlOK'
    BY Zenon, <2>1 DEF CancelWait, TypeInv, TypeOK, ControlOK, Enter, Calls, Requests
  <2>3. pc[a] \notin {"signal", "queue_wait"} \/ a \notin Threads
    BY Zenon, ActorsAssumption DEF CancelWait, CanCall, InCallback
  <2>. QED
    BY Zenon, <2>1, <2>2, <2>3 DEF CancelWait, TypeInv, TypeOK, ControlOK, SignalsHaveWaits, Enter, Actors
<1>. QED BY Zenon, <1>1, <1>2 DEF TypeInv, TypeOK

\* ShutdownAsync keeps every variable's type.
LEMMA ShutdownAsyncTypes ==
  ASSUME TypeInv, NEW a \in Actors, ShutdownAsync(a)
  PROVE  TypeInv'
<1>1. Elems(callback_queue) \in SUBSET Requests /\ Elems(delayed_tasks) \in SUBSET Tasks
  BY Zenon, ElemsType DEF TypeInv, TypeOK, QueuesOK
<1>2. QueuesOK'
  BY <1>1 DEF ShutdownAsync, TypeInv, TypeOK, QueuesOK, LoopOK, Requests
<1>3. TimerOK'
  BY Zenon, TimerCancelType DEF ShutdownAsync, TypeInv, TypeOK, TimerOK
<1>4. WaiterOK' /\ LoopOK'
  BY Zenon DEF ShutdownAsync, TypeInv, TypeOK, WaiterOK, LoopOK, waiter, NoIdleCheck
<1>5. ControlOK'
  BY Zenon DEF ShutdownAsync, TypeInv, TypeOK, ControlOK, Enter, States, Calls
<1>6. SignalsHaveWaits'
  BY Zenon, ActorsAssumption
     DEF ShutdownAsync, TypeInv, TypeOK, ControlOK, SignalsHaveWaits, Enter, CanCall, InCallback,
     Actors
<1>. QED BY Zenon, <1>2, <1>3, <1>4, <1>5, <1>6 DEF TypeInv, TypeOK

\* QueueRegisteredCallback keeps every variable's type.
LEMMA QueueRegisteredCallbackTypes ==
  ASSUME TypeInv, NEW a \in Actors, QueueRegisteredCallback(a)
  PROVE  TypeInv'
<1>. DEFINE r == req[a]
<1>1. r \in registered_callbacks => r \in Requests
  BY Zenon DEF TypeInv, TypeOK, QueuesOK
<1>2. QueuesOK'
  <2>1. registered_callbacks' \in SUBSET registered_callbacks
    BY Zenon DEF QueueRegisteredCallback
  <2>2. callback_queue' \in Seq(Requests)
    <3>1. CASE r \in registered_callbacks /\ callback_queue' = Append(callback_queue, r)
      BY <1>1, <3>1 DEF TypeInv, TypeOK, QueuesOK
    <3>2. CASE UNCHANGED callback_queue
      BY Zenon, <3>2 DEF TypeInv, TypeOK, QueuesOK
    <3>. QED BY Zenon, <3>1, <3>2 DEF QueueRegisteredCallback
  <2>3. pending' \in SUBSET pending /\ pending_queue' \in SUBSET pending_queue
    BY Zenon DEF QueueRegisteredCallback
  <2>4. UNCHANGED <<shutdown_queue, delayed_tasks, to_call>>
    BY Zenon DEF QueueRegisteredCallback
  <2>. QED BY Zenon, <2>1, <2>2, <2>3, <2>4 DEF TypeInv, TypeOK, QueuesOK
<1>3. TimerOK' /\ LoopOK'
  BY Zenon DEF QueueRegisteredCallback, TypeInv, TypeOK, TimerOK, LoopOK, timer, loop
<1>4. WaiterOK'
  <2>1. signaled' \in BOOLEAN
    BY Zenon DEF QueueRegisteredCallback, Signal, TypeInv, TypeOK, WaiterOK
  <2>2. dispatching_sync' \in BOOLEAN
    BY ZenonT(30) DEF QueueRegisteredCallback, TypeInv, TypeOK, WaiterOK
  <2>3. active_threads' \in SUBSET (Actors \X {"dispatch", "queue", "direct"})
    BY DEF QueueRegisteredCallback, TypeInv, TypeOK, WaiterOK
  <2>. QED
    BY Zenon, <2>1, <2>2, <2>3
       DEF QueueRegisteredCallback, TypeInv, TypeOK, WaiterOK, NoIdleCheck
<1>5. ControlOK'
  BY Zenon DEF QueueRegisteredCallback, TypeInv, TypeOK, ControlOK, Goto, Enter, Return, Calls,
         ClientPcs, Panics
<1>6. SignalsHaveWaits'
  <2>1. pc[a] \notin {"signal", "queue_wait"} \/ a \notin Threads
    BY Zenon DEF QueueRegisteredCallback, TypeInv, SignalsHaveWaits
  <2>2. PICK l, c, q : /\ pc' = [pc EXCEPT ![a] = l]
                       /\ l \in {"direct", pc[a]}
                       /\ call' = [call EXCEPT ![a] = c]
                       /\ req' = [req EXCEPT ![a] = q]
    <3>1. CASE Goto(a, "direct") /\ Return(a)
      BY Zenon, <3>1 DEF Goto, Return, Enter
    <3>2. CASE Enter(a, "queue_defer", None) /\ UNCHANGED pc
      <4>1. pc' = [pc EXCEPT ![a] = pc[a]]
        BY Zenon, <3>2 DEF TypeInv, TypeOK, ControlOK
      <4>. QED BY ZenonT(30), <3>2, <4>1 DEF Enter
    <3>. QED BY Zenon, <3>1, <3>2 DEF QueueRegisteredCallback
  <2>. QED
    BY Zenon, <2>1, <2>2 DEF TypeInv, TypeOK, ControlOK, SignalsHaveWaits, Actors
<1>. QED BY Zenon, <1>2, <1>3, <1>4, <1>5, <1>6 DEF TypeInv, TypeOK

\* DirectCallEnd keeps every variable's type.
LEMMA DirectCallEndTypes ==
  ASSUME TypeInv, NEW a \in Actors, DirectCallEnd(a)
  PROVE  TypeInv'
<1>1. QueuesOK' /\ TimerOK' /\ LoopOK'
  BY ZenonT(30) DEF DirectCallEnd, TypeInv, TypeOK, QueuesOK, TimerOK, LoopOK, queues, timer, loop
<1>2. signaled' \in BOOLEAN
  BY ZenonT(30) DEF DirectCallEnd
<1>3. WaiterOK'
  <2>1. active_threads' \in SUBSET (Actors \X {"dispatch", "queue", "direct"})
    BY DEF DirectCallEnd, TypeInv, TypeOK, WaiterOK
  <2>. QED BY Zenon, <1>2, <2>1 DEF DirectCallEnd, TypeInv, TypeOK, WaiterOK, NoIdleCheck
<1>4. ControlOK' /\ SignalsHaveWaits'
  BY Zenon DEF DirectCallEnd, TypeInv, TypeOK, ControlOK, SignalsHaveWaits, Goto, Enter, Calls,
         ClientPcs, Actors
<1>. QED BY Zenon, <1>1, <1>3, <1>4 DEF TypeInv, TypeOK

\* CancelReturns keeps every variable's type.
LEMMA CancelReturnsTypes ==
  ASSUME TypeInv, NEW a \in Actors, CancelReturns(a)
  PROVE  TypeInv'
BY Zenon DEF CancelReturns, TypeInv, TypeOK, QueuesOK, TimerOK, LoopOK, WaiterOK, queues, timer, loop,
       waiter, NoIdleCheck, ControlOK, SignalsHaveWaits, Goto, ThreadPcs, Actors

\* WaitSignaled keeps every variable's type.
LEMMA WaitSignaledTypes ==
  ASSUME TypeInv, NEW t \in Threads, NEW w \in Waits, WaitSignaled(t, w)
  PROVE  TypeInv'
BY Zenon DEF WaitSignaled, TypeInv, TypeOK, QueuesOK, TimerOK, LoopOK, WaiterOK, queues, timer, loop,
       waiter, NoIdleCheck, ControlOK, SignalsHaveWaits, Goto, ThreadPcs, Actors, Quiet, Requests

\* DispatchCallbacks keeps every variable's type.
LEMMA DispatchCallbacksTypes ==
  ASSUME TypeInv, NEW t \in Threads, DispatchCallbacks(t)
  PROVE  TypeInv'
<1>0. t \in Actors
  BY Zenon DEF Actors
<1>1. QueuesOK' /\ WaiterOK'
  <2>1. CASE (~Unsynchronized /\ dispatching_sync) \/ ~Running
    <3>1. active_threads' \in SUBSET (Actors \X {"dispatch", "queue", "direct"})
      BY <1>0 DEF DispatchCallbacks, TypeInv, TypeOK, WaiterOK
    <3>2. /\ signaled' = FALSE
          /\ UNCHANGED <<callback_queue, to_call, dispatching_sync, event_waiter, holders>>
      BY Zenon, <2>1 DEF DispatchCallbacks
    <3>. QED
      BY Zenon, <3>1, <3>2 DEF DispatchCallbacks, TypeInv, TypeOK, QueuesOK, WaiterOK, NoIdleCheck
  <2>2. CASE ~((~Unsynchronized /\ dispatching_sync) \/ ~Running)
    <3>1. PICK n \in 0 .. Len(callback_queue) :
            /\ to_call' = [to_call EXCEPT ![t] = SubSeq(callback_queue, 1, n)]
            /\ callback_queue' = SubSeq(callback_queue, n + 1, Len(callback_queue))
            /\ IF Unsynchronized /\ n < Len(callback_queue)
               THEN event_waiter' = "loop" /\ holders' = holders \ {t}
               ELSE UNCHANGED <<event_waiter, holders>>
      BY Zenon, <2>2 DEF DispatchCallbacks
    <3>2. callback_queue' \in Seq(Requests) /\ to_call' \in [Threads -> Seq(Requests)]
      BY Zenon, <3>1, PrefixTypes DEF TypeInv, TypeOK, QueuesOK
    <3>3. event_waiter' \in {"loop", "held", "null"} /\ holders' \in SUBSET Threads
      BY Zenon, <3>1 DEF TypeInv, TypeOK, WaiterOK
    <3>4. dispatching_sync' = TRUE /\ signaled' = signaled
      BY Zenon, <2>2 DEF DispatchCallbacks
    <3>5. active_threads' \in SUBSET (Actors \X {"dispatch", "queue", "direct"})
      BY <1>0 DEF DispatchCallbacks, TypeInv, TypeOK, WaiterOK
    <3>. QED
      BY Zenon, <3>2, <3>3, <3>4, <3>5
         DEF DispatchCallbacks, TypeInv, TypeOK, QueuesOK, WaiterOK, NoIdleCheck
  <2>. QED BY Zenon, <2>1, <2>2
<1>2. TimerOK' /\ LoopOK'
  BY Zenon DEF DispatchCallbacks, TypeInv, TypeOK, TimerOK, LoopOK, timer, loop
<1>3. PICK l \in {"dispatch_defer", "calling"} : Goto(t, l)
  BY Zenon DEF DispatchCallbacks
<1>4. ControlOK' /\ SignalsHaveWaits'
  BY Zenon, <1>0, <1>3
     DEF DispatchCallbacks, TypeInv, TypeOK, ControlOK, SignalsHaveWaits, Goto, ThreadPcs, Actors
<1>. QED BY Zenon, <1>1, <1>2, <1>4 DEF TypeInv, TypeOK

\* DispatchCallback keeps every variable's type.
LEMMA DispatchCallbackTypes ==
  ASSUME TypeInv, NEW t \in Threads, DispatchCallback(t)
  PROVE  TypeInv'
<1>0. t \in Actors
  BY Zenon DEF Actors
<1>1. Tail(to_call[t]) \in Seq(Requests)
  BY DEF DispatchCallback, TypeInv, TypeOK, QueuesOK
<1>2. QueuesOK'
  BY Zenon, <1>1 DEF DispatchCallback, TypeInv, TypeOK, QueuesOK
<1>3. TimerOK' /\ LoopOK'
  BY Zenon DEF DispatchCallback, TypeInv, TypeOK, TimerOK, LoopOK, timer, loop
<1>4. WaiterOK'
  BY Zenon DEF DispatchCallback, TypeInv, TypeOK, WaiterOK, waiter, NoIdleCheck
<1>5. ControlOK' /\ SignalsHaveWaits'
  BY <1>0 DEF DispatchCallback, TypeInv, TypeOK, ControlOK, SignalsHaveWaits, Goto, ThreadPcs
<1>. QED BY Zenon, <1>2, <1>3, <1>4, <1>5 DEF TypeInv, TypeOK

\* DispatchEnd keeps every variable's type.
LEMMA DispatchEndTypes ==
  ASSUME TypeInv, NEW t \in Threads, DispatchEnd(t)
  PROVE  TypeInv'
<1>1. current_deadline' \in Times /\ timer_posted' \in BOOLEAN
  <2>1. CASE t \in holders
    BY Zenon, <2>1, ResetTimerType DEF DispatchEnd, TypeInv, TypeOK, QueuesOK, TimerOK
  <2>2. CASE t \notin holders
    BY ZenonT(30), <2>2 DEF DispatchEnd, TypeInv, TypeOK, TimerOK
  <2>. QED BY Zenon, <2>1, <2>2
<1>2. QueuesOK' /\ TimerOK' /\ LoopOK'
  BY Zenon, <1>1 DEF DispatchEnd, TypeInv, TypeOK, QueuesOK, TimerOK, LoopOK, queues, loop
<1>3. WaiterOK'
  BY ZenonT(30) DEF DispatchEnd, TypeInv, TypeOK, WaiterOK, NoIdleCheck
<1>4. ControlOK' /\ SignalsHaveWaits'
  BY Zenon DEF DispatchEnd, TypeInv, TypeOK, ControlOK, SignalsHaveWaits, Goto, ThreadPcs, Actors
<1>. QED BY Zenon, <1>2, <1>3, <1>4 DEF TypeInv, TypeOK

\* CheckDelayedTasks keeps every variable's type.
LEMMA CheckDelayedTasksTypes ==
  ASSUME TypeInv, NEW t \in Threads, CheckDelayedTasks(t)
  PROVE  TypeInv'
<1>1. /\ callback_queue' \in Seq(Requests) /\ delayed_tasks' \in Seq(Tasks)
      /\ current_deadline' \in Times /\ timer_posted' \in BOOLEAN
      /\ signaled' \in BOOLEAN
  <2>1. CASE ~Running
    BY Zenon, <2>1 DEF CheckDelayedTasks, TypeInv, TypeOK, QueuesOK, TimerOK, WaiterOK
  <2>2. CASE Running
    <3>1. PICK k \in 0 .. Len(delayed_tasks) :
            /\ callback_queue' = callback_queue \o SubSeq(delayed_tasks, 1, k)
            /\ delayed_tasks' = SubSeq(delayed_tasks, k + 1, Len(delayed_tasks))
            /\ IF k > 0
               THEN Signal /\ UNCHANGED <<current_deadline, timer_posted>>
               ELSE /\ ResetTimer(callback_queue, delayed_tasks, deadline)
                    /\ UNCHANGED signaled
      BY Zenon, <2>2 DEF CheckDelayedTasks
    <3>2. SubSeq(delayed_tasks, 1, k) \in Seq(Tasks) /\ delayed_tasks' \in Seq(Tasks)
      BY Zenon, <3>1, PrefixTypes DEF TypeInv, TypeOK, QueuesOK
    <3>3. SubSeq(delayed_tasks, 1, k) \in Seq(Requests)
      BY <3>2 DEF Requests
    <3>4. callback_queue' \in Seq(Requests)
      BY <3>1, <3>3 DEF TypeInv, TypeOK, QueuesOK
    <3>5. current_deadline' \in Times /\ timer_posted' \in BOOLEAN
      BY Zenon, <3>1, ResetTimerType DEF TypeInv, TypeOK, QueuesOK, TimerOK
    <3>6. signaled' \in BOOLEAN
      BY ZenonT(30), <3>1 DEF Signal, TypeInv, TypeOK, WaiterOK
    <3>. QED BY Zenon, <3>2, <3>4, <3>5, <3>6
  <2>. QED BY Zenon, <2>1, <2>2
<1>2. idle_waiters' \in SUBSET idle_waiters /\ shutdown_event' \in {shutdown_event, "signaled"}
  BY Zenon DEF CheckDelayedTasks, IdleCheck, NoIdleCheck
<1>3. QueuesOK' /\ TimerOK' /\ LoopOK' /\ WaiterOK'
  BY Zenon, <1>1, <1>2
     DEF CheckDelayedTasks, TypeInv, TypeOK, QueuesOK, TimerOK, LoopOK, WaiterOK, loop
<1>4. ControlOK' /\ SignalsHaveWaits'
  BY Zenon DEF CheckDelayedTasks, TypeInv, TypeOK, ControlOK, SignalsHaveWaits, Goto, ThreadPcs, Actors
<1>. QED BY Zenon, <1>3, <1>4 DEF TypeInv, TypeOK

\* QueueWait keeps every variable's type.
LEMMA QueueWaitTypes ==
  ASSUME TypeInv, NEW t \in Threads, QueueWait(t)
  PROVE  TypeInv'
<1>1. req[t] \in Waits
  BY ZenonT(30) DEF QueueWait, TypeInv, SignalsHaveWaits
<1>2. QueuesOK'
  BY Zenon, <1>1 DEF QueueWait, TypeInv, TypeOK, QueuesOK, Requests
<1>3. idle_waiters' \in SUBSET idle_waiters /\ shutdown_event' \in {shutdown_event, "signaled"}
  BY ZenonT(30) DEF QueueWait, IdleCheck, NoIdleCheck
<1>4. TimerOK' /\ LoopOK' /\ WaiterOK'
  <2>1. /\ waits' = waits \ {req[t]}
        /\ UNCHANGED <<timer, now, waiter, wait_refs, loop_waits, dispatching_sync, active_threads>>
    BY ZenonT(30) DEF QueueWait
  <2>. QED
    BY Zenon, <1>3, <2>1 DEF TypeInv, TypeOK, TimerOK, LoopOK, WaiterOK, timer, waiter
<1>5. PICK l \in {"wait_queued", "idle"}, c \in {"queue", "none"}, q \in {req[t], None} :
        Goto(t, l) /\ Enter(t, c, q)
  BY ZenonT(30) DEF QueueWait, Return
<1>6. ControlOK' /\ SignalsHaveWaits'
  BY Zenon, <1>1, <1>5 DEF QueueWait, TypeInv, TypeOK, ControlOK, SignalsHaveWaits, Goto, Enter, ThreadPcs,
     Calls, Actors
<1>. QED BY Zenon, <1>2, <1>4, <1>6 DEF TypeInv, TypeOK

\* Every step of an API call, of a handler and of the loop preserves the
\* types.
LEMMA TypeNext ==
  ASSUME TypeInv, Next
  PROVE  TypeInv'
<1>1. ASSUME NEW a \in Actors, ApiCall(a) PROVE TypeInv'
  <2>1. ASSUME NEW r \in Tasks, PostTask(a, r) PROVE TypeInv'
    <3>1. QueuesOK'
      BY Zenon, <2>1
         DEF PostTask, RegisterCallbackWithoutQueueing, TypeInv, TypeOK, QueuesOK, queues, Requests
    <3>2. TimerOK' /\ LoopOK'
      BY Zenon, <2>1 DEF PostTask, TypeInv, TypeOK, TimerOK, LoopOK, timer, loop
    <3>3. WaiterOK'
      BY Zenon, <2>1 DEF PostTask, TypeInv, TypeOK, WaiterOK, waiter, NoIdleCheck
    <3>4. ControlOK' /\ SignalsHaveWaits'
      BY Zenon, <2>1, ActorsAssumption DEF PostTask, TypeInv, TypeOK, ControlOK, SignalsHaveWaits, Enter,
         Actors, Requests, Calls, CanCall, InCallback
    <3>. QED BY Zenon, <3>1, <3>2, <3>3, <3>4 DEF TypeInv, TypeOK
  <2>2. ASSUME NEW r \in Tasks, CancelTask(a, r) PROVE TypeInv'
    BY Zenon, <2>2, CancelTaskTypes
  <2>3. ASSUME NEW r \in Tasks, NEW d \in 1 .. MaxTime, PostDelayedTask(a, r, d) PROVE TypeInv'
    BY Zenon, <2>3, PostDelayedTaskTypes
  <2>4. ASSUME NEW r \in Reads, RegisterRead(a, r) PROVE TypeInv'
    <3>1. QueuesOK'
      BY Zenon, <2>4
         DEF RegisterRead, RegisterCallbackWithoutQueueing, TypeInv, TypeOK, QueuesOK, queues,
             Requests
    <3>2. TimerOK' /\ LoopOK'
      BY Zenon, <2>4 DEF RegisterRead, TypeInv, TypeOK, TimerOK, LoopOK, timer, loop
    <3>3. WaiterOK'
      BY Zenon, <2>4 DEF RegisterRead, TypeInv, TypeOK, WaiterOK, waiter, NoIdleCheck
    <3>4. ControlOK' /\ SignalsHaveWaits'
      BY Zenon, <2>4
         DEF RegisterRead, TypeInv, TypeOK, ControlOK, SignalsHaveWaits, control, Actors,
         CanCall, InCallback
    <3>. QED BY Zenon, <3>1, <3>2, <3>3, <3>4 DEF TypeInv, TypeOK
  <2>5. ASSUME NEW r \in Reads, QueueRead(a, r) PROVE TypeInv'
    <3>1. QueuesOK'
      BY Zenon, <2>5 DEF QueueRead, TypeInv, TypeOK, QueuesOK, queues
    <3>2. TimerOK' /\ LoopOK'
      BY Zenon, <2>5 DEF QueueRead, TypeInv, TypeOK, TimerOK, LoopOK, timer, loop
    <3>3. WaiterOK'
      BY Zenon, <2>5 DEF QueueRead, TypeInv, TypeOK, WaiterOK, waiter, NoIdleCheck
    <3>4. ControlOK' /\ SignalsHaveWaits'
      BY Zenon, <2>5, ActorsAssumption
         DEF QueueRead, TypeInv, TypeOK, ControlOK, SignalsHaveWaits,
         Enter, Actors, Requests, Calls, CanCall, InCallback
    <3>. QED BY <3>1, <3>2, <3>3, <3>4 DEF TypeInv, TypeOK
  <2>6. ASSUME NEW r \in Reads, CancelCallback(a, r) PROVE TypeInv'
    BY Zenon, <2>6, CancelCallbackTypes
  <2>7. ASSUME NEW w \in Waits, BeginWait(a, w) PROVE TypeInv'
    <3>1. QueuesOK'
      BY Zenon, <2>7 DEF BeginWait, TypeInv, TypeOK, QueuesOK, queues, Requests
    <3>2. TimerOK' /\ LoopOK'
      BY Zenon, <2>7 DEF BeginWait, TypeInv, TypeOK, TimerOK, LoopOK, timer, loop
    <3>3. WaiterOK'
      BY Zenon, <2>7 DEF BeginWait, TypeInv, TypeOK, WaiterOK, waiter, NoIdleCheck
    <3>4. ControlOK' /\ SignalsHaveWaits'
      BY Zenon, <2>7 DEF BeginWait, TypeInv, TypeOK, ControlOK, SignalsHaveWaits, control, Actors,
         CanCall, InCallback, Panics
    <3>. QED BY <3>1, <3>2, <3>3, <3>4 DEF TypeInv, TypeOK
  <2>8. ASSUME NEW w \in Waits, CancelWait(a, w) PROVE TypeInv'
    BY <2>8, CancelWaitTypes
  <2>9. CASE ShutdownAsync(a)
    BY Zenon, <2>9, ShutdownAsyncTypes
  <2>10. CASE WaitUntilIdle(a)
    <3>1. QueuesOK'
      BY Zenon, <2>10 DEF WaitUntilIdle, TypeInv, TypeOK, QueuesOK, queues
    <3>2. TimerOK' /\ LoopOK'
      BY Zenon, <2>10 DEF WaitUntilIdle, TypeInv, TypeOK, TimerOK, LoopOK, timer, loop
    <3>3. WaiterOK'
      BY Zenon, <2>10 DEF WaitUntilIdle, TypeInv, TypeOK, WaiterOK, waiter, NoIdleCheck
    <3>4. ControlOK' /\ SignalsHaveWaits'
      BY Zenon, <2>10, ActorsAssumption
         DEF WaitUntilIdle, TypeInv, TypeOK, ControlOK, SignalsHaveWaits,
         Enter, Actors, Requests, Calls, CanCall, InCallback
    <3>. QED BY Zenon, <3>1, <3>2, <3>3, <3>4 DEF TypeInv, TypeOK
  <2>11. CASE Destroy(a)
    <3>1. QueuesOK'
      BY ZenonT(30), <2>11 DEF Destroy, TypeInv, TypeOK, QueuesOK, queues
    <3>2. TimerOK' /\ LoopOK'
      BY ZenonT(30), <2>11 DEF Destroy, TypeInv, TypeOK, TimerOK, LoopOK, timer, loop
    <3>3. WaiterOK'
      BY Zenon, <2>11 DEF Destroy, TypeInv, TypeOK, WaiterOK, waiter, NoIdleCheck
    <3>4. ControlOK' /\ SignalsHaveWaits'
      BY Zenon, <2>11 DEF Destroy, TypeInv, TypeOK, ControlOK, SignalsHaveWaits, control, Actors, States
    <3>. QED BY <3>1, <3>2, <3>3, <3>4 DEF TypeInv, TypeOK
  <2>. QED
    BY Zenon, <1>1, <2>1, <2>2, <2>3, <2>4, <2>5, <2>6, <2>7, <2>8, <2>9, <2>10, <2>11
       DEF ApiCall
<1>2. ASSUME NEW a \in Actors, CallStep(a) PROVE TypeInv'
  <2>1. CASE QueueRegisteredCallback(a)
    BY <2>1, QueueRegisteredCallbackTypes
  <2>2. CASE QueueDefer(a)
    <3>1. QueuesOK'
      BY Zenon, <2>2 DEF QueueDefer, TypeInv, TypeOK, QueuesOK, queues
    <3>2. TimerOK' /\ LoopOK'
      BY Zenon, <2>2 DEF QueueDefer, TypeInv, TypeOK, TimerOK, LoopOK, timer, loop
    <3>3. WaiterOK'
      BY Zenon, <2>2 DEF QueueDefer, TypeInv, TypeOK, WaiterOK, waiter, NoIdleCheck, IdleCheck
    <3>4. ControlOK' /\ SignalsHaveWaits'
      BY Zenon, <2>2
         DEF QueueDefer, TypeInv, TypeOK, ControlOK, SignalsHaveWaits, Goto, Enter, Return,
         Actors, Calls, ThreadPcs, ClientPcs
    <3>. QED BY Zenon, <3>1, <3>2, <3>3, <3>4 DEF TypeInv, TypeOK
  <2>3. CASE RemoveWait(a)
    <3>1. QueuesOK'
      BY ZenonT(30), <2>3 DEF RemoveWait, TypeInv, TypeOK, QueuesOK, queues
    <3>2. TimerOK' /\ LoopOK'
      BY Zenon, <2>3 DEF RemoveWait, TypeInv, TypeOK, TimerOK, LoopOK, timer, loop
    <3>3. WaiterOK'
      BY Zenon, <2>3 DEF RemoveWait, TypeInv, TypeOK, WaiterOK, waiter, NoIdleCheck, IdleCheck
    <3>4. ControlOK' /\ SignalsHaveWaits'
      BY Zenon, <2>3
         DEF RemoveWait, TypeInv, TypeOK, ControlOK, SignalsHaveWaits, Enter, Return, Actors,
         Calls
    <3>. QED BY Zenon, <3>1, <3>2, <3>3, <3>4 DEF TypeInv, TypeOK
  <2>4. CASE CancelWaitOperation(a)
    BY Zenon, <2>4, CancelWaitOperationTypes
  <2>5. CASE RegisterForCompleteShutdownEvent(a)
    <3>1. QueuesOK'
      BY Zenon, <2>5 DEF RegisterForCompleteShutdownEvent, TypeInv, TypeOK, QueuesOK, queues
    <3>2. TimerOK' /\ LoopOK'
      BY Zenon, <2>5 DEF RegisterForCompleteShutdownEvent, TypeInv, TypeOK, TimerOK, LoopOK, timer, loop
    <3>3. WaiterOK'
      BY Zenon, <2>5
         DEF RegisterForCompleteShutdownEvent, TypeInv, TypeOK, WaiterOK, waiter, NoIdleCheck
    <3>4. ControlOK' /\ SignalsHaveWaits'
      BY Zenon, <2>5 DEF RegisterForCompleteShutdownEvent, TypeInv, TypeOK, ControlOK, SignalsHaveWaits,
         Enter, Return, Actors, Calls
    <3>. QED BY <3>1, <3>2, <3>3, <3>4 DEF TypeInv, TypeOK
  <2>6. CASE WaitUntilIdleReturn(a)
    <3>1. QueuesOK'
      BY Zenon, <2>6 DEF WaitUntilIdleReturn, TypeInv, TypeOK, QueuesOK, queues
    <3>2. TimerOK' /\ LoopOK'
      BY Zenon, <2>6 DEF WaitUntilIdleReturn, TypeInv, TypeOK, TimerOK, LoopOK, timer, loop
    <3>3. WaiterOK'
      BY Zenon, <2>6 DEF WaitUntilIdleReturn, TypeInv, TypeOK, WaiterOK, waiter, NoIdleCheck
    <3>4. ControlOK' /\ SignalsHaveWaits'
      BY Zenon, <2>6 DEF WaitUntilIdleReturn, TypeInv, TypeOK, ControlOK, SignalsHaveWaits, Enter,
         Return, Actors, Calls
    <3>. QED BY <3>1, <3>2, <3>3, <3>4 DEF TypeInv, TypeOK
  <2>. QED
    BY Zenon, <1>2, <2>1, <2>2, <2>3, <2>4, <2>5, <2>6 DEF CallStep
<1>3. ASSUME NEW a \in Actors, CallbackEnds(a) PROVE TypeInv'
  <2>1. CASE DirectCallEnd(a)
    BY <2>1, DirectCallEndTypes
  <2>2. CASE CallbackReturns(a)
    <3>1. QueuesOK'
      BY Zenon, <2>2 DEF CallbackReturns, TypeInv, TypeOK, QueuesOK, queues
    <3>2. TimerOK' /\ LoopOK'
      BY Zenon, <2>2 DEF CallbackReturns, TypeInv, TypeOK, TimerOK, LoopOK, timer, loop
    <3>3. WaiterOK'
      BY Zenon, <2>2 DEF CallbackReturns, TypeInv, TypeOK, WaiterOK, waiter, NoIdleCheck
    <3>4. ControlOK' /\ SignalsHaveWaits'
      BY Zenon, <2>2 DEF CallbackReturns, TypeInv, TypeOK, ControlOK, SignalsHaveWaits, Goto, Actors,
         ThreadPcs, ClientPcs
    <3>. QED BY <3>1, <3>2, <3>3, <3>4 DEF TypeInv, TypeOK
  <2>3. CASE CancelReturns(a)
    BY <2>3, CancelReturnsTypes
  <2>. QED
    BY Zenon, <1>3, <2>1, <2>2, <2>3 DEF CallbackEnds
<1>4. ASSUME NEW t \in Threads, LoopStep(t) PROVE TypeInv'
  <2>1. CASE HandleEvent(t)
    <3>1. QueuesOK'
      BY Zenon, <2>1 DEF HandleEvent, TypeInv, TypeOK, QueuesOK, queues
    <3>2. TimerOK' /\ LoopOK'
      BY Zenon, <2>1 DEF HandleEvent, TypeInv, TypeOK, TimerOK, LoopOK, timer, loop
    <3>3. WaiterOK'
      BY Zenon, <2>1 DEF HandleEvent, TypeInv, TypeOK, WaiterOK, waiter, NoIdleCheck
    <3>4. ControlOK' /\ SignalsHaveWaits'
      BY Zenon, <2>1 DEF HandleEvent, TypeInv, TypeOK, ControlOK, SignalsHaveWaits, Goto, Actors,
         ThreadPcs, ClientPcs, Quiet
    <3>. QED BY Zenon, <3>1, <3>2, <3>3, <3>4 DEF TypeInv, TypeOK
  <2>2. CASE TimerFires(t)
    <3>1. QueuesOK'
      BY Zenon, <2>2 DEF TimerFires, TypeInv, TypeOK, QueuesOK, queues
    <3>2. TimerOK' /\ LoopOK'
      BY ZenonT(30), <2>2 DEF TimerFires, TypeInv, TypeOK, TimerOK, LoopOK, timer, loop
    <3>3. WaiterOK'
      BY Zenon, <2>2 DEF TimerFires, TypeInv, TypeOK, WaiterOK, waiter, NoIdleCheck
    <3>4. ControlOK' /\ SignalsHaveWaits'
      BY Zenon, <2>2 DEF TimerFires, TypeInv, TypeOK, ControlOK, SignalsHaveWaits, Goto, Actors,
         ThreadPcs, ClientPcs, Quiet
    <3>. QED BY Zenon, <3>1, <3>2, <3>3, <3>4 DEF TypeInv, TypeOK
  <2>3. CASE ShutdownEventSignaled(t)
    <3>1. QueuesOK'
      BY Zenon, <2>3 DEF ShutdownEventSignaled, TypeInv, TypeOK, QueuesOK, queues
    <3>2. TimerOK' /\ LoopOK'
      BY Zenon, <2>3 DEF ShutdownEventSignaled, TypeInv, TypeOK, TimerOK, LoopOK, timer, loop
    <3>3. WaiterOK'
      BY Zenon, <2>3 DEF ShutdownEventSignaled, TypeInv, TypeOK, WaiterOK, waiter, NoIdleCheck
    <3>4. ControlOK' /\ SignalsHaveWaits'
      BY Zenon, <2>3 DEF ShutdownEventSignaled, TypeInv, TypeOK, ControlOK, SignalsHaveWaits, Goto,
         Actors, ThreadPcs, ClientPcs, Quiet
    <3>. QED BY Zenon, <3>1, <3>2, <3>3, <3>4 DEF TypeInv, TypeOK
  <2>4. ASSUME NEW w \in Waits, WaitSignaled(t, w) PROVE TypeInv'
    BY Zenon, <2>4, WaitSignaledTypes
  <2>. QED
    BY Zenon, <1>4, <2>1, <2>2, <2>3, <2>4 DEF LoopStep
<1>5. ASSUME NEW t \in Threads, HandlerStep(t) PROVE TypeInv'
  <2>1. CASE DispatchCallbacks(t)
    BY Zenon, <2>1, DispatchCallbacksTypes
  <2>2. CASE DispatchCallback(t)
    BY Zenon, <2>2, DispatchCallbackTypes
  <2>3. CASE DispatchEnd(t)
    BY <2>3, DispatchEndTypes
  <2>4. CASE DispatchDefer(t)
    <3>1. QueuesOK'
      BY Zenon, <2>4 DEF DispatchDefer, TypeInv, TypeOK, QueuesOK, queues
    <3>2. TimerOK' /\ LoopOK'
      BY Zenon, <2>4 DEF DispatchDefer, TypeInv, TypeOK, TimerOK, LoopOK, timer, loop
    <3>3. WaiterOK'
      BY Zenon, <2>4 DEF DispatchDefer, TypeInv, TypeOK, WaiterOK, waiter, NoIdleCheck, IdleCheck
    <3>4. ControlOK' /\ SignalsHaveWaits'
      BY Zenon, <2>4
         DEF DispatchDefer, TypeInv, TypeOK, ControlOK, SignalsHaveWaits, Goto, Actors,
         ThreadPcs, ClientPcs
    <3>. QED BY <3>1, <3>2, <3>3, <3>4 DEF TypeInv, TypeOK
  <2>5. CASE TimerHandler(t)
    <3>1. QueuesOK'
      BY Zenon, <2>5 DEF TimerHandler, TypeInv, TypeOK, QueuesOK, queues
    <3>2. TimerOK' /\ LoopOK'
      BY <2>5, BoundsAssumption
         DEF TimerHandler, TypeInv, TypeOK, TimerOK, LoopOK, timer, loop, Times, Infinite
    <3>3. WaiterOK'
      BY Zenon, <2>5 DEF TimerHandler, TypeInv, TypeOK, WaiterOK, waiter, NoIdleCheck
    <3>4. ControlOK' /\ SignalsHaveWaits'
      BY Zenon, <2>5
         DEF TimerHandler, TypeInv, TypeOK, ControlOK, SignalsHaveWaits, Goto, Actors,
         ThreadPcs, ClientPcs
    <3>. QED BY <3>1, <3>2, <3>3, <3>4 DEF TypeInv, TypeOK
  <2>6. CASE CheckDelayedTasks(t)
    BY <2>6, CheckDelayedTasksTypes
  <2>7. CASE OnSignal(t)
    <3>1. QueuesOK'
      BY Zenon, <2>7 DEF OnSignal, TypeInv, TypeOK, QueuesOK, queues
    <3>2. TimerOK' /\ LoopOK'
      BY Zenon, <2>7 DEF OnSignal, TypeInv, TypeOK, TimerOK, LoopOK, timer, loop
    <3>3. WaiterOK'
      BY Zenon, <2>7 DEF OnSignal, TypeInv, TypeOK, WaiterOK, waiter, NoIdleCheck
    <3>4. ControlOK' /\ SignalsHaveWaits'
      BY Zenon, <2>7
         DEF OnSignal, TypeInv, TypeOK, ControlOK, SignalsHaveWaits, Goto, Actors, ThreadPcs,
         ClientPcs
    <3>. QED BY <3>1, <3>2, <3>3, <3>4 DEF TypeInv, TypeOK
  <2>8. CASE QueueWait(t)
    BY <2>8, QueueWaitTypes
  <2>9. CASE CompleteShutdown(t)
    <3>1. QueuesOK'
      BY Zenon, <2>9 DEF CompleteShutdown, TypeInv, TypeOK, QueuesOK, queues
    <3>2. TimerOK' /\ LoopOK'
      BY Zenon, <2>9 DEF CompleteShutdown, TypeInv, TypeOK, TimerOK, LoopOK, timer, loop
    <3>3. WaiterOK'
      BY Zenon, <2>9 DEF CompleteShutdown, TypeInv, TypeOK, WaiterOK, waiter, NoIdleCheck
    <3>4. ControlOK' /\ SignalsHaveWaits'
      BY Zenon, <2>9 DEF CompleteShutdown, TypeInv, TypeOK, ControlOK, SignalsHaveWaits, Goto, Actors,
         ThreadPcs, ClientPcs, Panics
    <3>. QED BY <3>1, <3>2, <3>3, <3>4 DEF TypeInv, TypeOK
  <2>10. ASSUME NEW r \in Requests, CancelNext(t, r) PROVE TypeInv'
    <3>1. QueuesOK'
      BY Zenon, <2>10 DEF CancelNext, TypeInv, TypeOK, QueuesOK, queues
    <3>2. TimerOK' /\ LoopOK'
      BY Zenon, <2>10 DEF CancelNext, TypeInv, TypeOK, TimerOK, LoopOK, timer, loop
    <3>3. WaiterOK'
      BY Zenon, <2>10 DEF CancelNext, TypeInv, TypeOK, WaiterOK, waiter, NoIdleCheck
    <3>4. ControlOK' /\ SignalsHaveWaits'
      BY Zenon, <2>10 DEF CancelNext, TypeInv, TypeOK, ControlOK, SignalsHaveWaits, Goto, Actors,
         ThreadPcs, ClientPcs
    <3>. QED BY Zenon, <3>1, <3>2, <3>3, <3>4 DEF TypeInv, TypeOK
  <2>11. CASE ShutdownQueueEmpty(t)
    <3>1. QueuesOK'
      BY Zenon, <2>11 DEF ShutdownQueueEmpty, TypeInv, TypeOK, QueuesOK, queues
    <3>2. TimerOK' /\ LoopOK'
      BY Zenon, <2>11 DEF ShutdownQueueEmpty, TypeInv, TypeOK, TimerOK, LoopOK, timer, loop
    <3>3. WaiterOK'
      BY Zenon, <2>11 DEF ShutdownQueueEmpty, TypeInv, TypeOK, WaiterOK, waiter, NoIdleCheck
    <3>4. ControlOK' /\ SignalsHaveWaits'
      BY Zenon, <2>11
         DEF ShutdownQueueEmpty, TypeInv, TypeOK, ControlOK, SignalsHaveWaits, Goto, Actors,
         ThreadPcs, ClientPcs
    <3>. QED BY Zenon, <3>1, <3>2, <3>3, <3>4 DEF TypeInv, TypeOK
  <2>12. CASE EnterShutdown(t)
    <3>1. QueuesOK'
      BY Zenon, <2>12 DEF EnterShutdown, TypeInv, TypeOK, QueuesOK, queues
    <3>2. TimerOK' /\ LoopOK'
      BY Zenon, <2>12 DEF EnterShutdown, TypeInv, TypeOK, TimerOK, LoopOK, timer, loop
    <3>3. WaiterOK'
      BY Zenon, <2>12 DEF EnterShutdown, TypeInv, TypeOK, WaiterOK, waiter, NoIdleCheck
    <3>4. ControlOK' /\ SignalsHaveWaits'
      BY Zenon, <2>12
         DEF EnterShutdown, TypeInv, TypeOK, ControlOK, SignalsHaveWaits, Goto, Actors,
         ThreadPcs, ClientPcs, States
    <3>. QED BY <3>1, <3>2, <3>3, <3>4 DEF TypeInv, TypeOK
  <2>13. CASE ObserverReturns(t)
    <3>1. QueuesOK'
      BY Zenon, <2>13 DEF ObserverReturns, TypeInv, TypeOK, QueuesOK, queues
    <3>2. TimerOK' /\ LoopOK'
      BY Zenon, <2>13 DEF ObserverReturns, TypeInv, TypeOK, TimerOK, LoopOK, timer, loop
    <3>3. WaiterOK'
      BY Zenon, <2>13 DEF ObserverReturns, TypeInv, TypeOK, WaiterOK, waiter, NoIdleCheck
    <3>4. ControlOK' /\ SignalsHaveWaits'
      BY Zenon, <2>13 DEF ObserverReturns, TypeInv, TypeOK, ControlOK, SignalsHaveWaits, Goto, Actors,
         ThreadPcs, ClientPcs
    <3>. QED BY <3>1, <3>2, <3>3, <3>4 DEF TypeInv, TypeOK
  <2>. QED
    BY Zenon, <1>5, <2>1, <2>2, <2>3, <2>4, <2>5, <2>6, <2>7, <2>8, <2>9, <2>10, <2>11, <2>12, <2>13,
       SMTT(30)
       DEF HandlerStep
<1>6. CASE Tick
  <2>1. QueuesOK'
    BY Zenon, <1>6 DEF Tick, TypeInv, TypeOK, QueuesOK, queues
  <2>2. TimerOK' /\ LoopOK'
    BY <1>6, BoundsAssumption DEF Tick, TypeInv, TypeOK, TimerOK, LoopOK, timer, loop
  <2>3. WaiterOK'
    BY Zenon, <1>6 DEF Tick, TypeInv, TypeOK, WaiterOK, waiter, NoIdleCheck
  <2>4. ControlOK' /\ SignalsHaveWaits'
    BY Zenon, <1>6 DEF Tick, TypeInv, TypeOK, ControlOK, SignalsHaveWaits, control, Actors
  <2>. QED BY Zenon, <2>1, <2>2, <2>3, <2>4 DEF TypeInv, TypeOK
<1>. QED BY Zenon, <1>1, <1>2, <1>3, <1>4, <1>5, <1>6 DEF Next

\* The dispatcher's variables are well typed initially.
LEMMA TypeInit == Init => TypeInv
<1>. SUFFICES ASSUME Init PROVE TypeInv
  BY Zenon
<1>1. QueuesOK
  BY DEF Init, QueuesOK
<1>2. TimerOK
  <2>1. 0 \in Times /\ Infinite \in Times /\ 0 \in 0 .. MaxTime
    BY BoundsAssumption DEF Times, Infinite
  <2>2. deadline \in [Tasks -> Times]
    BY Zenon, <2>1 DEF Init
  <2>. QED BY Zenon, <2>1, <2>2 DEF Init, TimerOK
<1>3. WaiterOK /\ LoopOK
  BY Zenon DEF Init, WaiterOK, LoopOK
<1>4. ControlOK
  BY Zenon DEF Init, ControlOK, States, Panics, Calls, ThreadPcs
<1>5. SignalsHaveWaits
  BY Zenon DEF Init, SignalsHaveWaits, Actors
<1>. QED BY Zenon, <1>1, <1>2, <1>3, <1>4, <1>5 DEF TypeInv, TypeOK

\* Stuttering keeps the types.
LEMMA TypeStutter ==
  ASSUME TypeInv, UNCHANGED vars
  PROVE  TypeInv'
BY Zenon DEF vars, TypeInv, TypeOK, QueuesOK, TimerOK, WaiterOK, LoopOK, ControlOK, SignalsHaveWaits,
       queues, timer, waiter, loop, control

\* Dispatcher's variables keep their types, whatever the threads, clients,
\* requests and bounds.
THEOREM TypeCorrect == Spec => []TypeOK
<1>1. TypeInv /\ [Next]_vars => TypeInv'
  BY Zenon, TypeNext, TypeStutter
<1>2. TypeInv => TypeOK
  BY Zenon DEF TypeInv
<1>. QED BY TypeInit, <1>1, <1>2, PTL DEF Spec

=============================================================================
