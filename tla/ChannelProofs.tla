--------------------------- MODULE ChannelProofs ----------------------------
(***************************************************************************)
(* The read callbacks of a channel: no wake-up is lost, the close of the   *)
(* peer is the last thing that is reported, and the assertions on the      *)
(* callback request of an end hold because of who owns it when.  The calls *)
(* of a channel: replies find the calls they answer.                       *)
(***************************************************************************)
EXTENDS ChannelTypeProofs

-----------------------------------------------------------------------------
(* No wake-up is lost. *)

\* a's step does not touch what the others are about to do.
Only(a) == \A b \in Actors \ {a} : call'[b] = call[b] /\ todo'[b] = todo[b]
Waits(e) == registered[e] /\ pending_queue[e]

\* A step of a that begins no wait but on an open and empty end, and puts no
\* message where one is waited for.
KeepsWaits(a) ==
  /\ call[a] # "peer_closed" /\ Only(a) /\ linked' = linked
  /\ \A d \in Ends : Waits(d)' =>
       \/ Waits(d) /\ (msg_queue[d] = <<>> => msg_queue'[d] = <<>>)
       \/ msg_queue'[d] = <<>> /\ linked

\* Such a step loses no wake-up.
LEMMA WaitsKept ==
  ASSUME NoLostRead, NEW a \in Actors, KeepsWaits(a)
  PROVE  NoLostRead'
BY DEF NoLostRead, KeepsWaits, Only, Waits

\* WriteSelfLocked queues no message behind the back of a wait.
LEMMA WriteKeepsWaits ==
  ASSUME TypeOK, NoLostRead, NEW a \in Actors, call[a] = "none", linked' = linked,
         registered' = registered, NEW p \in Ends, NEW m, NEW ws, NEW w, NEW then,
         WriteSelfLocked(a, p, m, ws, w, then)
  PROVE  KeepsWaits(a)
<1>1. Only(a)
  <2>1. PICK queue \in BOOLEAN : ThenQueue(a, queue, p, "ok", FALSE, then)
    BY Zenon DEF WriteSelfLocked
  <2>. QED BY Zenon, <2>1 DEF ThenQueue, Only, TypeOK
<1>2. ASSUME NEW d \in Ends, Waits(d)' PROVE Waits(d) /\ msg_queue'[d] = msg_queue[d]
  <2>1. CASE UNCHANGED <<msg_queue, pending_queue>>
    BY Zenon, <1>2, <2>1 DEF Waits
  <2>2. CASE /\ msg_queue' = [msg_queue EXCEPT ![p] = Append(@, m)]
             /\ pending_queue' = [pending_queue EXCEPT ![p] = @ /\ ~Waits(p)]
    BY Zenon, <1>2, <2>2 DEF Waits, TypeOK
  <2>. QED BY Zenon, <2>1, <2>2 DEF WriteSelfLocked, Waits
<1>. QED BY Zenon, <1>1, <1>2 DEF KeepsWaits

\* No step loses a wake-up.
LEMMA ReadsNext ==
  ASSUME TypeOK, NoLostRead, [Next]_vars
  PROVE  NoLostRead'
<1>1. ASSUME NEW a \in Actors, NEW e \in Ends, ApiCall(a, e) PROVE NoLostRead'
  <2>1. call[a] = "none" /\ Peer(e) \in Ends
    BY Zenon, <1>1, ApiCallFree, PeerEnds DEF CanCall
  <2>2. ASSUME NEW m \in Outgoing(e), Write(a, e, m) PROVE KeepsWaits(a)
    BY Zenon, <2>1, <2>2, WriteKeepsWaits DEF Write
  <2>3. CASE Call(a, e)
    <3>1. PICK m, ws, w : WriteSelfLocked(a, Peer(e), m, ws, w, "wait")
      BY Zenon, <2>3 DEF Call
    <3>2. linked' = linked /\ registered' = registered
      BY Zenon, <2>3 DEF Call
    <3>. QED BY Zenon, <2>1, <3>1, <3>2, WriteKeepsWaits, WaitsKept
  <2>4. CASE Read(a, e)
    <3>1. UNCHANGED <<linked, registered, pending_queue, call, todo>> /\ msg_queue[e] # <<>>
      BY Zenon, <2>4 DEF Read, read_state, control
    <3>2. \A d \in Ends : d # e => msg_queue'[d] = msg_queue[d]
      BY Zenon, <2>4 DEF Read, TypeOK
    <3>. QED BY Zenon, <2>1, <3>1, <3>2 DEF NoLostRead
  <2>5. CASE WaitAsync(a, e)
    <3>1. CASE where[e] # "channel"
      BY <2>5, <3>1 DEF WaitAsync, NoLostRead, read_state, control
    <3>2. CASE where[e] = "channel"
      <4>1. Only(a)
        BY Zenon, <2>5, <3>2 DEF WaitAsync, ThenQueue, TypeOK, Only
      <4>2. UNCHANGED <<linked, msg_queue>> /\ (linked \/ msg_queue[e] # <<>>)
        BY Zenon, <2>5 DEF WaitAsync
      <4>3. ASSUME NEW d \in Ends, Waits(d)', d # e PROVE Waits(d)
        BY Zenon, <2>5, <3>2, <4>3 DEF WaitAsync, TypeOK, Waits
      <4>4. Waits(e)' => msg_queue[e] = <<>>
        BY Zenon, <2>5, <3>2 DEF WaitAsync, TypeOK, Waits, Readable
      <4>. QED BY Zenon, <2>1, <4>1, <4>2, <4>3, <4>4, WaitsKept DEF KeepsWaits
    <3>. QED BY Zenon, <3>1, <3>2
  <2>6. CASE CancelWait(a, e)
    <3>1. UNCHANGED <<linked, msg_queue, call, todo>>
      BY Zenon, <2>6 DEF CancelWait, control
    <3>2. \A d \in Ends : Waits(d)' => Waits(d)
      BY ZenonT(40), <2>6 DEF CancelWait, Waits, TypeOK, read_state
    <3>. QED BY Zenon, <3>1, <3>2 DEF NoLostRead, Waits
  <2>7. CASE CancelWaitUnsynchronized(a, e)
    <3>1. Only(a) /\ linked' = linked /\ msg_queue' = msg_queue
      BY Zenon, <2>7 DEF CancelWaitUnsynchronized, ThenQueue, TypeOK, Only
    <3>2. \A d \in Ends : Waits(d)' => Waits(d)
      BY Zenon, <2>7 DEF CancelWaitUnsynchronized, Waits, TypeOK
    <3>. QED BY Zenon, <2>1, <3>1, <3>2, WaitsKept DEF KeepsWaits
  <2>8. CASE Close(a, e)
    <3>1. UNCHANGED <<registered, pending_queue, msg_queue>> /\ ~registered[e] /\ linked' = FALSE
      BY Zenon, <2>8 DEF Close, read_state
    <3>2. Only(a) /\ (linked => call'[a] = "peer_closed" /\ todo'[a].end = Peer(e))
      BY Zenon, <2>8 DEF Close, TypeOK, Only
    <3>3. \A d \in Ends : d = e \/ d = Peer(e)
      BY DEF Ends, Peer
    <3>. QED BY <2>1, <3>1, <3>2, <3>3 DEF NoLostRead, Only
  <2>. QED BY Zenon, <1>1, <2>2, <2>3, <2>4, <2>5, <2>6, <2>7, <2>8, WaitsKept DEF ApiCall
<1>2. ASSUME NEW a \in Actors, OnPeerClosed(a) PROVE NoLostRead'
  <2>1. PICK p \in Ends : p = todo[a].end
    BY Zenon DEF TypeOK, Todos
  <2>2. UNCHANGED <<linked, registered, msg_queue>> /\ Only(a)
    BY Zenon, <1>2 DEF OnPeerClosed, ThenQueue, TypeOK, Only
  <2>3. \A d \in Ends : Waits(d)' => Waits(d)
    BY Zenon, <1>2 DEF OnPeerClosed, Waits, TypeOK
  <2>4. Waits(p)' => ~(msg_queue[p] = <<>>)
    <3>1. pending_queue'[p] = (pending_queue[p] /\ ~ReportsClose(p))
      BY Zenon, <1>2, <2>1 DEF OnPeerClosed, TypeOK
    <3>. QED BY Zenon, <2>2, <3>1 DEF ReportsClose, Waits
  <2>5. ASSUME NEW d \in Ends, Waits(d)'
        PROVE  /\ msg_queue[d] = <<>> /\ d # p
               /\ linked \/ \E b \in Actors \ {a} : call[b] = "peer_closed" /\ todo[b].end = d
    <3>1. Waits(d)
      BY Zenon, <2>3, <2>5
    <3>2. /\ msg_queue[d] = <<>>
          /\ linked \/ \E b \in Actors : call[b] = "peer_closed" /\ todo[b].end = d
      BY Zenon, <3>1 DEF NoLostRead, Waits
    <3>. QED BY Zenon, <2>1, <2>4, <2>5, <3>2
  <2>. QED BY <2>2, <2>5 DEF NoLostRead, Waits, Only
<1>3. ASSUME NEW a \in Actors, QueueRegisteredCallback(a) PROVE NoLostRead'
  <2>1. /\ UNCHANGED <<linked, msg_queue, registered, pending_queue>> /\ Only(a)
        /\ call[a] # "peer_closed"
    BY Zenon, <1>3 DEF QueueRegisteredCallback, read_state, TypeOK, Only
  <2>. QED BY Zenon, <2>1, WaitsKept DEF KeepsWaits, Waits
<1>4. ASSUME NEW a \in Actors, DispatcherCallback(a) PROVE NoLostRead'
  <2>1. UNCHANGED <<linked, msg_queue, call, todo>>
    BY Zenon, <1>4 DEF DispatcherCallback, control
  <2>2. \A d \in Ends : Waits(d)' => Waits(d)
    BY Zenon, <1>4 DEF DispatcherCallback, Waits, TypeOK
  <2>. QED BY Zenon, <2>1, <2>2 DEF NoLostRead, Waits
<1>5. ASSUME NEW a \in Actors, CallbackReturns(a) PROVE NoLostRead'
  <2>1. /\ UNCHANGED <<linked, msg_queue, registered, pending_queue>> /\ Only(a)
        /\ call[a] # "peer_closed"
    BY Zenon, <1>5 DEF CallbackReturns, read_state, TypeOK, Only
  <2>. QED BY Zenon, <2>1, WaitsKept DEF KeepsWaits, Waits
<1>6. ASSUME NEW c \in Clients, CallReturns(c) PROVE NoLostRead'
  <2>1. /\ UNCHANGED <<linked, registered, pending_queue>> /\ Only(c)
        /\ c \in Actors /\ call[c] # "peer_closed"
    BY Zenon, <1>6 DEF CallReturns, read_state, TypeOK, Only, Actors
  <2>2. ASSUME NEW d \in Ends, msg_queue[d] = <<>> PROVE msg_queue'[d] = <<>>
    BY <1>6, <2>2 DEF CallReturns
  <2>. QED BY Zenon, <2>1, <2>2, WaitsKept DEF KeepsWaits, Waits
<1>7. ASSUME UNCHANGED <<linked, msg_queue, registered, pending_queue, call, todo>> PROVE NoLostRead'
  BY Zenon, <1>7 DEF NoLostRead
<1>8. ASSUME NEW t \in Threads, NEW e \in Ends,
             \/ \E takes \in BOOLEAN : DispatchCallbacks(t, e, takes)
             \/ DispatchCallback(t, e)
             \/ CompleteShutdown(t, e)
             \/ ShutdownAsync(e)
      PROVE  NoLostRead'
  BY Zenon, <1>7, <1>8
     DEF DispatchCallbacks, DispatchCallback, CompleteShutdown, ShutdownAsync, read_state, control
<1>9. ASSUME NEW e \in Ends, ShutdownAsync(e) PROVE NoLostRead'
  BY Zenon, <1>7, <1>9 DEF ShutdownAsync, read_state, control
<1>10. CASE UNCHANGED vars
  BY Zenon, <1>7, <1>10 DEF vars, read_state, control
<1>. QED BY Zenon, <1>1, <1>2, <1>3, <1>4, <1>5, <1>6, <1>8, <1>9, <1>10 DEF Next, ActorStep

\* WaitAsync, WriteSelfLocked and OnPeerClosed lose no wake-up: where a wait has
\* not been queued there is nothing to read, and the peer is there or the thread
\* that closes it has yet to run OnPeerClosed.
THEOREM ReadsNotLost == Spec => []NoLostRead
<1>1. Init => NoLostRead
  BY Zenon DEF Init, NoLostRead
<1>2. TypeOK /\ NoLostRead /\ [Next]_vars => NoLostRead'
  BY Zenon, ReadsNext
<1>. QED BY <1>1, <1>2, ChannelTypes, PTL DEF Spec

-----------------------------------------------------------------------------
(* The close is reported last. *)

\* Whatever reports ZX_ERR_PEER_CLOSED at end e does so when both are so.
Drained(e) == ~linked /\ msg_queue[e] = <<>>
ClosedInv ==
  /\ \A a \in Actors : call[a] = "peer_closed" => ~linked
  /\ \A a \in Actors : todo[a].reason = "peer_closed" => Drained(todo[a].end)
  /\ \A e \in Ends : reason[e] = "peer_closed" => Drained(e)
  /\ PeerClosedIsLast

\* Once the channel is closed an empty end stays empty.
LEMMA DrainedKept ==
  ASSUME TypeOK, [Next]_vars
  PROVE  (~linked => ~linked') /\ \A d \in Ends : Drained(d) => Drained(d)'
<1>1. ASSUME NEW a \in Actors, NEW e \in Ends, ApiCall(a, e)
      PROVE  (~linked => ~linked') /\ \A d \in Ends : Drained(d) => Drained(d)'
  <2>1. ASSUME NEW m, Write(a, e, m) PROVE linked /\ linked' = linked
    BY Zenon, <2>1 DEF Write
  <2>2. CASE Call(a, e)
    BY Zenon, <2>2 DEF Call, Drained
  <2>3. CASE Read(a, e)
    BY Zenon, <2>3 DEF Read, Drained, TypeOK
  <2>4. CASE \/ WaitAsync(a, e) \/ CancelWait(a, e) \/ CancelWaitUnsynchronized(a, e)
    <3>1. UNCHANGED <<linked, msg_queue>>
      BY ZenonT(40), <2>4 DEF WaitAsync, CancelWait, CancelWaitUnsynchronized
    <3>. QED BY Zenon, <3>1 DEF Drained
  <2>5. CASE Close(a, e)
    BY Zenon, <2>5 DEF Close, Drained
  <2>. QED BY Zenon, <1>1, <2>1, <2>2, <2>3, <2>4, <2>5 DEF ApiCall, Drained
<1>2. ASSUME NEW c \in Clients, CallReturns(c)
      PROVE  linked' = linked /\ \A d \in Ends : msg_queue[d] = <<>> => msg_queue'[d] = <<>>
  BY <1>2 DEF CallReturns
<1>3. ASSUME NEW a \in Actors, ActorStep(a) \/ CallbackReturns(a)
      PROVE  UNCHANGED <<linked, msg_queue>>
  BY Zenon, <1>3 DEF ActorStep, OnPeerClosed, QueueRegisteredCallback, DispatcherCallback, CallbackReturns
<1>4. ASSUME NEW t \in Threads, NEW e \in Ends,
             \/ \E takes \in BOOLEAN : DispatchCallbacks(t, e, takes)
             \/ DispatchCallback(t, e)
             \/ CompleteShutdown(t, e)
      PROVE  UNCHANGED <<linked, msg_queue>>
  BY Zenon, <1>4 DEF DispatchCallbacks, DispatchCallback, CompleteShutdown
<1>5. ASSUME NEW e \in Ends, ShutdownAsync(e) PROVE UNCHANGED <<linked, msg_queue>>
  BY Zenon, <1>5 DEF ShutdownAsync
<1>6. CASE UNCHANGED vars
  BY Zenon, <1>6 DEF vars, Drained
<1>. QED BY Zenon, <1>1, <1>2, <1>3, <1>4, <1>5, <1>6 DEF Next, Drained

\* Who is about to report a close has closed the channel.
LEMMA ClosersNext ==
  ASSUME TypeOK, ClosedInv, [Next]_vars, NEW b \in Actors, call'[b] = "peer_closed"
  PROVE  ~linked'
<1>1. ASSUME NEW a \in Actors, NEW e \in Ends, ApiCall(a, e), linked' PROVE call'[b] = call[b]
  <2>1. ASSUME NEW m, NEW p, NEW ws, NEW w, NEW then \in {"none", "wait"},
               WriteSelfLocked(a, p, m, ws, w, then)
        PROVE  call'[b] = call[b]
    BY <2>1 DEF WriteSelfLocked, ThenQueue, TypeOK
  <2>2. ASSUME NEW m, Write(a, e, m) PROVE call'[b] = call[b]
    BY Zenon, <2>1, <2>2 DEF Write
  <2>3. CASE Call(a, e)
    BY ZenonT(40), <2>1, <2>3 DEF Call
  <2>4. CASE Read(a, e) \/ CancelWait(a, e)
    BY Zenon, <2>4 DEF Read, CancelWait, control
  <2>5. CASE WaitAsync(a, e)
    BY Zenon, <2>5 DEF WaitAsync, ThenQueue, TypeOK, control
  <2>6. CASE CancelWaitUnsynchronized(a, e)
    BY Zenon, <2>6 DEF CancelWaitUnsynchronized, ThenQueue, TypeOK
  <2>7. CASE Close(a, e)
    BY Zenon, <1>1, <2>7 DEF Close
  <2>. QED BY Zenon, <1>1, <2>2, <2>3, <2>4, <2>5, <2>6, <2>7 DEF ApiCall
<1>2. ASSUME NEW a \in Actors, ActorStep(a) \/ CallbackReturns(a) PROVE call'[b] = call[b]
  <2>1. CASE OnPeerClosed(a)
    BY Zenon, <2>1 DEF OnPeerClosed, ThenQueue, TypeOK
  <2>2. CASE QueueRegisteredCallback(a)
    BY Zenon, <2>2 DEF QueueRegisteredCallback, AfterQueue, TypeOK
  <2>3. CASE DispatcherCallback(a)
    BY Zenon, <2>3 DEF DispatcherCallback, control
  <2>4. CASE CallbackReturns(a)
    <3>1. Top(a) \in Frames
      BY Zenon, <2>4, PopProperties DEF CallbackReturns, Top, TypeOK
    <3>. QED BY Zenon, <2>4, <3>1 DEF CallbackReturns, TypeOK, Frames
  <2>. QED BY Zenon, <1>2, <2>1, <2>2, <2>3, <2>4 DEF ActorStep
<1>3. ASSUME NEW c \in Clients, CallReturns(c) PROVE call'[b] = call[b]
  BY Zenon, <1>3 DEF CallReturns, TypeOK
<1>4. ASSUME NEW t \in Threads, NEW e \in Ends,
             \/ \E takes \in BOOLEAN : DispatchCallbacks(t, e, takes)
             \/ DispatchCallback(t, e)
             \/ CompleteShutdown(t, e)
      PROVE  call'[b] = call[b]
  BY Zenon, <1>4 DEF DispatchCallbacks, DispatchCallback, CompleteShutdown, control
<1>5. ASSUME NEW e \in Ends, ShutdownAsync(e) PROVE call'[b] = call[b]
  BY Zenon, <1>5 DEF ShutdownAsync, control
<1>6. CASE UNCHANGED vars
  BY Zenon, <1>6 DEF vars, control, ClosedInv
<1>7. linked' => call'[b] = call[b]
  BY Zenon, <1>1, <1>2, <1>3, <1>4, <1>5, <1>6 DEF Next, vars, control
<1>. QED BY Zenon, <1>7, DrainedKept DEF ClosedInv

\* What is about to be reported as closed is drained.
LEMMA TodosNext ==
  ASSUME TypeOK, TypeOK', ClosedInv, [Next]_vars, NEW b \in Actors, todo'[b].reason = "peer_closed"
  PROVE  Drained(todo'[b].end) /\ todo'[b].end \in Ends
<1>1. ASSUME NEW a \in Actors, NEW e \in Ends, ApiCall(a, e) PROVE todo'[b] = todo[b]
  <2>1. ASSUME NEW m, NEW p, NEW ws, NEW w, NEW then, WriteSelfLocked(a, p, m, ws, w, then)
        PROVE  todo'[b] = todo[b]
    BY <2>1 DEF WriteSelfLocked, ThenQueue, TypeOK, Nothing
  <2>2. ASSUME NEW m, Write(a, e, m) PROVE todo'[b] = todo[b]
    BY Zenon, <2>1, <2>2 DEF Write
  <2>3. CASE Call(a, e)
    BY Zenon, <2>1, <2>3 DEF Call
  <2>4. CASE Read(a, e) \/ CancelWait(a, e)
    BY Zenon, <2>4 DEF Read, CancelWait, control
  <2>5. CASE WaitAsync(a, e)
    BY <2>5 DEF WaitAsync, ThenQueue, TypeOK, control, Nothing
  <2>6. CASE CancelWaitUnsynchronized(a, e)
    BY <2>6 DEF CancelWaitUnsynchronized, ThenQueue, TypeOK, Nothing
  <2>7. CASE Close(a, e)
    BY <2>7 DEF Close, TypeOK, Nothing
  <2>. QED BY Zenon, <1>1, <2>2, <2>3, <2>4, <2>5, <2>6, <2>7 DEF ApiCall
<1>2. ASSUME NEW a \in Actors, OnPeerClosed(a)
      PROVE  todo'[b] = todo[b] \/ Drained(todo'[b].end)
  <2>1. call[a] = "peer_closed" /\ ~linked
    BY Zenon, <1>2 DEF OnPeerClosed, ClosedInv
  <2>2. a # b => todo'[b] = todo[b]
    BY <1>2 DEF OnPeerClosed, ThenQueue, TypeOK
  <2>3. a = b => todo'[b].end = todo[a].end /\ ReportsClose(todo[a].end)
    BY <1>2 DEF OnPeerClosed, ThenQueue, TypeOK, Nothing
  <2>. QED BY Zenon, <2>1, <2>2, <2>3 DEF Drained, ReportsClose
<1>3. ASSUME NEW a \in Actors, QueueRegisteredCallback(a) PROVE todo'[b] = todo[b]
  BY <1>3 DEF QueueRegisteredCallback, Nothing, TypeOK
<1>4. ASSUME NEW a \in Actors, DispatcherCallback(a) \/ CallbackReturns(a) PROVE todo'[b] = todo[b]
  BY Zenon, <1>4 DEF DispatcherCallback, CallbackReturns, control
<1>5. ASSUME NEW c \in Clients, CallReturns(c) PROVE todo'[b] = todo[b]
  BY Zenon, <1>5 DEF CallReturns
<1>6. ASSUME NEW t \in Threads, NEW e \in Ends,
             \/ \E takes \in BOOLEAN : DispatchCallbacks(t, e, takes)
             \/ DispatchCallback(t, e)
             \/ CompleteShutdown(t, e)
      PROVE  todo'[b] = todo[b]
  BY ZenonT(40), <1>6 DEF DispatchCallbacks, DispatchCallback, CompleteShutdown, control
<1>7. ASSUME NEW e \in Ends, ShutdownAsync(e) PROVE todo'[b] = todo[b]
  BY ZenonT(40), <1>7 DEF ShutdownAsync, control
<1>8. todo'[b] = todo[b] \/ Drained(todo'[b].end)
  BY Zenon, <1>1, <1>2, <1>3, <1>4, <1>5, <1>6, <1>7 DEF Next, ActorStep, vars, control
<1>9. todo'[b].end \in Ends
  BY Zenon DEF TypeOK, Todos
<1>. QED BY Zenon, <1>8, <1>9 DEF ClosedInv

\* A request that holds ZX_ERR_PEER_CLOSED is of a drained end.
LEMMA ReasonsNext ==
  ASSUME TypeOK, ClosedInv, [Next]_vars, NEW d \in Ends, reason'[d] = "peer_closed"
  PROVE  Drained(d)
<1>1. ASSUME NEW a \in Actors, NEW e \in Ends, ApiCall(a, e) PROVE reason'[d] = reason[d]
  <2>1. ASSUME NEW m, Write(a, e, m) PROVE reason'[d] = reason[d]
    BY Zenon, <2>1 DEF Write, request_state
  <2>2. CASE Read(a, e) \/ Call(a, e) \/ Close(a, e)
    BY ZenonT(40), <2>2 DEF Read, Call, Close, request_state
  <2>3. CASE WaitAsync(a, e)
    BY Zenon, <2>3 DEF WaitAsync, request_state
  <2>4. CASE CancelWait(a, e)
    BY <2>4 DEF CancelWait, request_state, TypeOK
  <2>5. CASE CancelWaitUnsynchronized(a, e)
    BY Zenon, <2>5 DEF CancelWaitUnsynchronized, TypeOK
  <2>. QED BY Zenon, <1>1, <2>1, <2>2, <2>3, <2>4, <2>5 DEF ApiCall
<1>2. ASSUME NEW a \in Actors, QueueRegisteredCallback(a)
      PROVE  reason'[d] = reason[d] \/ Drained(d)
  <2>1. reason'[d] = reason[d] \/ (d = todo[a].end /\ reason'[d] = todo[a].reason)
    BY Zenon, <1>2 DEF QueueRegisteredCallback, TypeOK
  <2>. QED BY Zenon, <2>1 DEF ClosedInv
<1>3. ASSUME NEW a \in Actors, OnPeerClosed(a) \/ DispatcherCallback(a) \/ CallbackReturns(a)
      PROVE  reason'[d] = reason[d]
  BY ZenonT(40), <1>3 DEF OnPeerClosed, DispatcherCallback, CallbackReturns, request_state
<1>4. ASSUME NEW c \in Clients, CallReturns(c) PROVE reason'[d] = reason[d]
  BY Zenon, <1>4 DEF CallReturns, request_state
<1>5. ASSUME NEW t \in Threads, NEW e \in Ends, NEW takes \in BOOLEAN,
             DispatchCallbacks(t, e, takes)
      PROVE  reason'[d] = reason[d]
  BY Zenon, <1>5 DEF DispatchCallbacks
<1>6. ASSUME NEW t \in Threads, NEW e \in Ends, DispatchCallback(t, e) \/ CompleteShutdown(t, e)
      PROVE  reason'[d] = reason[d]
  BY Zenon, <1>6 DEF DispatchCallback, CompleteShutdown, TypeOK
<1>7. ASSUME NEW e \in Ends, ShutdownAsync(e) PROVE reason'[d] = reason[d]
  BY Zenon, <1>7 DEF ShutdownAsync
<1>8. reason'[d] = reason[d] \/ Drained(d)
  BY Zenon, <1>1, <1>2, <1>3, <1>4, <1>5, <1>6, <1>7 DEF Next, ActorStep, vars, request_state
<1>. QED BY Zenon, <1>8 DEF ClosedInv

\* A callback that is called with ZX_ERR_PEER_CLOSED is of a drained end.
LEMMA FramesNext ==
  ASSUME TypeOK, ClosedInv, [Next]_vars,
         NEW b \in Actors, NEW i \in DOMAIN stack'[b], stack'[b][i].status = "peer_closed"
  PROVE  Drained(stack'[b][i].end) /\ stack'[b][i].end \in Ends
<1>1. \A a \in Actors : \A j \in DOMAIN stack[a] :
        /\ stack[a][j].end \in Ends
        /\ stack[a][j].status = "peer_closed" => Drained(stack[a][j].end)
  BY Zenon, FrameTypes DEF ClosedInv, PeerClosedIsLast, Drained
<1>2. ASSUME NEW a \in Actors, NEW f \in Frames, Pushes(a, f),
             f.status = "peer_closed" => Drained(f.end)
      PROVE  Drained(stack'[b][i].end) /\ stack'[b][i].end \in Ends
  <2>1. f.end \in Ends
    BY Zenon DEF Frames
  <2>2. CASE b = a
    BY SMTT(30), <1>1, <1>2, <2>1, <2>2, PushFrame
  <2>3. CASE b # a
    BY <1>1, <1>2, <2>3, PushFrame
  <2>. QED BY Zenon, <2>2, <2>3
<1>3. ASSUME NEW a \in Actors, QueueRegisteredCallback(a)
      PROVE  Drained(stack'[b][i].end) /\ stack'[b][i].end \in Ends
  <2>1. QueuedFrame(a).status = "peer_closed" => Drained(QueuedFrame(a).end)
    BY Zenon DEF QueuedFrame, ClosedInv
  <2>2. CASE stack' = stack
    BY Zenon, <1>1, <2>2
  <2>3. CASE Pushes(a, QueuedFrame(a))
    BY Zenon, <1>2, <1>3, <2>1, <2>3, QueueFrame
  <2>. QED BY Zenon, <1>3, <2>2, <2>3, QueueFrame
<1>4. ASSUME NEW a \in Actors, DispatcherCallback(a)
      PROVE  Drained(stack'[b][i].end) /\ stack'[b][i].end \in Ends
  <2>1. stack[a] # <<>> /\ Turns(a)
    BY Zenon, <1>4 DEF DispatcherCallback, Turns
  <2>2. /\ \A c \in Actors \ {a} : stack'[c] = stack[c]
        /\ Len(stack[a]) \in Nat \ {0} /\ DOMAIN stack[a] = 1 .. Len(stack[a])
        /\ DOMAIN stack'[a] = 1 .. Len(stack[a])
        /\ \A j \in 1 .. Len(stack[a]) - 1 : stack'[a][j] = stack[a][j]
        /\ Top(a) = stack[a][Len(stack[a])] /\ Top(a) \in Frames
        /\ stack'[a][Len(stack[a])] = [Top(a) EXCEPT !.kind = "handler"]
    BY Zenon, <2>1, TurnFrame
  <2>3. /\ [Top(a) EXCEPT !.kind = "handler"].status = Top(a).status
        /\ [Top(a) EXCEPT !.kind = "handler"].end = Top(a).end
    BY Zenon, <2>2 DEF Frames
  <2>4. CASE b = a
    <3>1. i \in 1 .. Len(stack[a]) /\ i \in DOMAIN stack[a]
      BY Zenon, <2>2, <2>4
    <3>2. stack'[a][i].status = stack[a][i].status /\ stack'[a][i].end = stack[a][i].end
      <4>1. CASE i = Len(stack[a])
        BY Zenon, <2>2, <2>3, <4>1
      <4>2. CASE i \in 1 .. Len(stack[a]) - 1
        BY Zenon, <2>2, <4>2
      <4>. QED BY <2>2, <3>1, <4>1, <4>2
    <3>. QED BY Zenon, <1>1, <2>4, <3>1, <3>2
  <2>5. CASE b # a
    BY Zenon, <1>1, <2>2, <2>5
  <2>. QED BY Zenon, <2>4, <2>5
<1>5. ASSUME NEW a \in Actors, CallbackReturns(a)
      PROVE  Drained(stack'[b][i].end) /\ stack'[b][i].end \in Ends
  <2>1. stack[a] # <<>> /\ Pops(a)
    BY Zenon, <1>5 DEF CallbackReturns, Pops
  <2>2. /\ \A c \in Actors \ {a} : stack'[c] = stack[c]
        /\ Len(stack[a]) \in Nat \ {0} /\ DOMAIN stack[a] = 1 .. Len(stack[a])
        /\ DOMAIN stack'[a] = 1 .. Len(stack[a]) - 1
        /\ \A j \in 1 .. Len(stack[a]) - 1 : stack'[a][j] = stack[a][j]
    BY Zenon, <2>1, PopFrame
  <2>3. i \in DOMAIN stack[b] /\ stack'[b][i] = stack[b][i]
    BY <2>2
  <2>. QED BY Zenon, <1>1, <2>3
<1>6. ASSUME NEW t \in Threads, NEW e \in Ends,
             \/ \E takes \in BOOLEAN : DispatchCallbacks(t, e, takes)
             \/ DispatchCallback(t, e)
             \/ CompleteShutdown(t, e)
      PROVE  Drained(stack'[b][i].end) /\ stack'[b][i].end \in Ends
  <2>1. PICK f \in Frames : Pushes(t, f) /\ f.end = e /\ f.status \in {"ok", "canceled", reason[e]}
    BY <1>6, DispatchFrame
  <2>2. f.status = "peer_closed" => Drained(f.end)
    BY Zenon, <2>1 DEF ClosedInv
  <2>. QED BY Zenon, <1>2, <2>1, <2>2 DEF Actors
<1>. QED BY ZenonT(40), <1>1, <1>3, <1>4, <1>5, <1>6, SameStack

\* No step reports the close before the last message.
LEMMA ClosedNext ==
  ASSUME TypeOK, TypeOK', ClosedInv, [Next]_vars
  PROVE  ClosedInv'
<1>1. \A d \in Ends : Drained(d) => Drained(d)'
  BY Zenon, DrainedKept
<1>2. ASSUME NEW b \in Actors, todo'[b].reason = "peer_closed" PROVE Drained(todo[b].end)'
  BY Zenon, <1>1, <1>2, TodosNext DEF Drained
<1>3. ASSUME NEW d \in Ends, reason'[d] = "peer_closed" PROVE Drained(d)'
  BY Zenon, <1>1, <1>3, ReasonsNext
<1>4. ASSUME NEW b \in Actors, NEW i \in DOMAIN stack'[b], stack'[b][i].status = "peer_closed"
      PROVE  ~linked' /\ msg_queue'[stack'[b][i].end] = <<>>
  BY Zenon, <1>1, <1>4, FramesNext DEF Drained
<1>. QED BY Zenon, <1>2, <1>3, <1>4, ClosersNext DEF ClosedInv, PeerClosedIsLast

\* Whatever is to report a close does so once the channel is closed and drained.
THEOREM ClosedInvariant == Spec => []ClosedInv
<1>1. Init => ClosedInv
  BY DEF Init, ClosedInv, PeerClosedIsLast, Nothing
<1>2. TypeOK /\ TypeOK' /\ ClosedInv /\ [Next]_vars => ClosedInv'
  BY Zenon, ClosedNext
<1>. QED BY <1>1, <1>2, ChannelTypes, PTL DEF Spec

\* A read callback that gets ZX_ERR_PEER_CLOSED finds nothing left to read.
THEOREM PeerClosedComesLast == Spec => []PeerClosedIsLast
<1>1. ClosedInv => PeerClosedIsLast
  BY Zenon DEF ClosedInv
<1>. QED BY <1>1, ClosedInvariant, PTL

-----------------------------------------------------------------------------
(* Who owns a callback request: what lies between the steps of a call. *)

\* The request is the channel's exactly while no wait is registered.
RequestOwned == \A e \in Ends : where[e] = "channel" <=> ~registered[e]

\* A read callback that has not yet taken the lock is the innermost callback
\* of a thread that is in no call, and its request is in no list.
EnterOnTop ==
  \A a \in Actors : \A i \in DOMAIN stack[a] :
    stack[a][i].kind = "enter" =>
      i = Len(stack[a]) /\ call[a] = "none" /\ where[stack[a][i].end] = "called"

\* A request in no list belongs to a read callback that has not yet taken the
\* lock, and to no other.
Enters(a, e) == \E i \in DOMAIN stack[a] : stack[a][i].kind = "enter" /\ stack[a][i].end = e
CalledEnters ==
  /\ \A e \in Ends : where[e] = "called" => \E a \in Actors : Enters(a, e)
  /\ \A e \in Ends : \A a, b \in Actors : Enters(a, e) /\ Enters(b, e) => a = b

\* One thread at a time is inside of a synchronized dispatcher.
SyncAlone == \A e \in SyncEnds : \A a, b \in Inside(e) : a = b

OwnerInv == RequestOwned /\ EnterOnTop /\ CalledEnters /\ SyncAlone /\ AssertionsHold

-----------------------------------------------------------------------------
(* The request has one owner. *)

\* Where a request is changes with the registration of its wait.
LEMMA OwnedNext ==
  ASSUME TypeOK, OwnerInv, [Next]_vars
  PROVE  RequestOwned'
<1>1. ASSUME UNCHANGED <<where, registered>> PROVE RequestOwned'
  BY Zenon, <1>1 DEF OwnerInv, RequestOwned
<1>2. ASSUME registered' = registered, \A d \in Ends : where'[d] = "channel" <=> where[d] = "channel"
      PROVE  RequestOwned'
  BY Zenon, <1>2 DEF OwnerInv, RequestOwned
<1>3. ASSUME NEW a \in Actors, NEW e \in Ends, ApiCall(a, e) PROVE RequestOwned'
  <2>1. ASSUME NEW m, Write(a, e, m) PROVE UNCHANGED <<where, registered>>
    BY Zenon, <2>1 DEF Write, request_state
  <2>2. CASE Read(a, e) \/ Call(a, e) \/ Close(a, e)
    BY Zenon, <1>1, <2>2 DEF Read, Call, Close, request_state, read_state
  <2>3. CASE WaitAsync(a, e)
    <3>1. CASE where[e] # "channel"
      BY Zenon, <1>1, <2>3, <3>1 DEF WaitAsync, request_state, read_state
    <3>2. CASE where[e] = "channel"
      <4>1. /\ \A d \in Ends \ {e} : where'[d] = where[d] /\ registered'[d] = registered[d]
            /\ registered'[e] = running[e]
            /\ where'[e] = IF running[e] THEN "registered" ELSE "channel"
        BY <2>3, <3>2 DEF WaitAsync, TypeOK
      <4>. QED BY Zenon, <4>1 DEF OwnerInv, RequestOwned
    <3>. QED BY Zenon, <3>1, <3>2
  <2>4. CASE CancelWait(a, e)
    <3>1. CASE UNCHANGED <<where, registered>>
      BY Zenon, <1>1, <3>1
    <3>2. CASE /\ where' = [where EXCEPT ![e] = "channel"]
               /\ registered' = [registered EXCEPT ![e] = FALSE]
      BY Zenon, <3>2 DEF OwnerInv, RequestOwned, TypeOK
    <3>. QED BY Zenon, <2>4, <3>1, <3>2 DEF CancelWait, request_state, read_state
  <2>5. CASE CancelWaitUnsynchronized(a, e)
    BY Zenon, <1>1, <2>5 DEF CancelWaitUnsynchronized
  <2>. QED BY Zenon, <1>1, <1>3, <2>1, <2>2, <2>3, <2>4, <2>5 DEF ApiCall
<1>4. ASSUME NEW a \in Actors, QueueRegisteredCallback(a) PROVE RequestOwned'
  <2>1. registered' = registered
    BY Zenon, <1>4 DEF QueueRegisteredCallback, read_state
  <2>2. \A d \in Ends : where'[d] = "channel" <=> where[d] = "channel"
    BY ZenonT(40), <1>4, QueueFrame DEF TypeOK
  <2>. QED BY Zenon, <1>2, <2>1, <2>2
<1>5. ASSUME NEW a \in Actors, DispatcherCallback(a) PROVE RequestOwned'
  BY Zenon, <1>5 DEF DispatcherCallback, OwnerInv, RequestOwned, TypeOK
<1>6. ASSUME NEW a \in Actors, OnPeerClosed(a) \/ CallbackReturns(a) PROVE RequestOwned'
  BY Zenon, <1>1, <1>6 DEF OnPeerClosed, CallbackReturns, request_state, read_state
<1>7. ASSUME NEW c \in Clients, CallReturns(c) PROVE RequestOwned'
  BY Zenon, <1>1, <1>7 DEF CallReturns, request_state, read_state
<1>8. ASSUME NEW t \in Threads, NEW e \in Ends,
             \/ \E takes \in BOOLEAN : DispatchCallbacks(t, e, takes)
             \/ DispatchCallback(t, e)
             \/ CompleteShutdown(t, e)
      PROVE  RequestOwned'
  <2>1. registered' = registered
    BY Zenon, <1>8 DEF DispatchCallbacks, DispatchCallback, CompleteShutdown, read_state
  <2>2. \A d \in Ends : where'[d] = "channel" <=> where[d] = "channel"
    BY <1>8 DEF DispatchCallbacks, DispatchCallback, CompleteShutdown, TypeOK
  <2>. QED BY Zenon, <1>2, <2>1, <2>2
<1>9. ASSUME NEW e \in Ends, ShutdownAsync(e) PROVE RequestOwned'
  <2>1. registered' = registered
    BY Zenon, <1>9 DEF ShutdownAsync, read_state
  <2>2. \A d \in Ends : where'[d] = "channel" <=> where[d] = "channel"
    BY Zenon, <1>9 DEF ShutdownAsync, TypeOK
  <2>. QED BY Zenon, <1>2, <2>1, <2>2
<1>. QED BY Zenon, <1>1, <1>3, <1>4, <1>5, <1>6, <1>7, <1>8, <1>9
         DEF Next, ActorStep, vars, request_state, read_state

\* A wait that is cancelled on its synchronized dispatcher's thread has a
\* request in some list.
LEMMA CancelFindsRequest ==
  ASSUME TypeOK, OwnerInv, NEW a \in Actors, NEW e \in Ends, CanCall(a), stack[a] # <<>>,
         e \in SyncEnds, Top(a).end = e, registered[e]
  PROVE  where[e] \in {"registered", "queued", "batch", "shutdown"}
<1>1. where[e] # "channel"
  BY Zenon DEF OwnerInv, RequestOwned
<1>2. /\ Len(stack[a]) \in Nat \ {0} /\ DOMAIN stack[a] = 1 .. Len(stack[a])
      /\ Top(a) = stack[a][Len(stack[a])]
  BY Zenon, PopProperties DEF TypeOK, Top
<1>3. a \in Inside(e)
  BY <1>2 DEF Inside
<1>4. ASSUME where[e] = "called" PROVE FALSE
  <2>. PICK b \in Actors : Enters(b, e)
    BY Zenon, <1>4 DEF OwnerInv, CalledEnters
  <2>1. PICK i \in DOMAIN stack[b] : stack[b][i].kind = "enter" /\ stack[b][i].end = e
    BY Zenon DEF Enters
  <2>2. b \in Inside(e)
    BY Zenon, <2>1 DEF Inside
  <2>3. b = a
    BY Zenon, <1>3, <2>2 DEF OwnerInv, SyncAlone
  <2>4. i = Len(stack[a])
    BY Zenon, <2>1, <2>3 DEF OwnerInv, EnterOnTop
  <2>5. Top(a).kind # "enter"
    BY Zenon DEF CanCall
  <2>. QED BY Zenon, <1>2, <2>1, <2>3, <2>4, <2>5
<1>. QED BY Zenon, <1>1, <1>4 DEF TypeOK

\* No assertion on the owner fails.
LEMMA AssertionsNext ==
  ASSUME TypeOK, OwnerInv, [Next]_vars
  PROVE  AssertionsHold'
<1>1. ASSUME panic' = panic PROVE AssertionsHold'
  BY Zenon, <1>1 DEF OwnerInv, AssertionsHold
<1>2. ASSUME NEW a \in Actors, NEW e \in Ends, ApiCall(a, e) PROVE panic' = panic
  <2>1. ASSUME NEW m, Write(a, e, m) PROVE panic' = panic
    BY Zenon, <2>1 DEF Write
  <2>2. CASE Read(a, e) \/ Call(a, e) \/ Close(a, e) \/ CancelWaitUnsynchronized(a, e)
    BY Zenon, <2>2 DEF Read, Call, Close, CancelWaitUnsynchronized
  <2>3. CASE WaitAsync(a, e)
    <3>1. where[e] = "channel"
      BY Zenon, <2>3 DEF WaitAsync, OwnerInv, RequestOwned
    <3>. QED BY Zenon, <2>3, <3>1 DEF WaitAsync
  <2>4. CASE CancelWait(a, e)
    <3>1. where[e] \in {"registered", "queued", "batch", "shutdown"}
      BY Zenon, <2>4, CancelFindsRequest DEF CancelWait
    <3>. QED BY Zenon, <2>4, <3>1 DEF CancelWait
  <2>. QED BY Zenon, <1>2, <2>1, <2>2, <2>3, <2>4 DEF ApiCall
<1>3. ASSUME NEW a \in Actors, QueueRegisteredCallback(a) PROVE AssertionsHold'
  <2>1. panic' \in {"freed", "wrong_list", panic}
    BY Zenon, <1>3 DEF QueueRegisteredCallback
  <2>. QED BY Zenon, <2>1 DEF OwnerInv, AssertionsHold
<1>4. ASSUME NEW a \in Actors, DispatcherCallback(a) PROVE panic' = panic
  <2>1. /\ Len(stack[a]) \in DOMAIN stack[a] /\ Top(a) = stack[a][Len(stack[a])]
        /\ Top(a) \in Frames
    BY <1>4, PopProperties DEF DispatcherCallback, TypeOK, Top
  <2>2. where[Top(a).end] = "called"
    BY <1>4, <2>1 DEF DispatcherCallback, OwnerInv, EnterOnTop
  <2>3. registered[Top(a).end]
    BY Zenon, <2>1, <2>2 DEF OwnerInv, RequestOwned, Frames
  <2>. QED BY Zenon, <1>4, <2>3 DEF DispatcherCallback
<1>5. ASSUME NEW a \in Actors, OnPeerClosed(a) \/ CallbackReturns(a) PROVE panic' = panic
  BY Zenon, <1>5 DEF OnPeerClosed, CallbackReturns
<1>6. ASSUME NEW c \in Clients, CallReturns(c) PROVE panic' = panic
  BY Zenon, <1>6 DEF CallReturns
<1>7. ASSUME NEW t \in Threads, NEW e \in Ends,
             \/ \E takes \in BOOLEAN : DispatchCallbacks(t, e, takes)
             \/ DispatchCallback(t, e)
             \/ CompleteShutdown(t, e)
      PROVE  panic' = panic
  BY Zenon, <1>7 DEF DispatchCallbacks, DispatchCallback, CompleteShutdown
<1>8. ASSUME NEW e \in Ends, ShutdownAsync(e) PROVE panic' = panic
  BY Zenon, <1>8 DEF ShutdownAsync
<1>. QED BY Zenon, <1>1, <1>2, <1>3, <1>4, <1>5, <1>6, <1>7, <1>8 DEF Next, ActorStep, vars

EnterInv == EnterOnTop /\ CalledEnters
SameCalled == \A d \in Ends : where'[d] = "called" <=> where[d] = "called"
NoEnter(a) == \A i \in DOMAIN stack[a] : stack[a][i].kind # "enter"

\* A step that leaves the stacks and the called requests as they are, and
\* moves only threads that are not about to take the lock.
LEMMA StillEnter ==
  ASSUME TypeOK, EnterInv, stack' = stack, SameCalled,
         \A b \in Actors : call'[b] = call[b] \/ NoEnter(b)
  PROVE  EnterInv'
<1>1. \A b \in Actors : \A i \in DOMAIN stack[b] : stack[b][i].end \in Ends
  BY Zenon, FrameTypes
<1>2. EnterOnTop'
  BY <1>1 DEF EnterInv, EnterOnTop, SameCalled, NoEnter
<1>3. CalledEnters'
  BY DEF EnterInv, CalledEnters, SameCalled, Enters
<1>. QED BY Zenon, <1>2, <1>3 DEF EnterInv

\* A thread in a call, and one that may begin one, is not about to take the lock.
LEMMA CallersNotEntering ==
  ASSUME TypeOK, EnterInv, NEW a \in Actors, call[a] # "none" \/ CanCall(a)
  PROVE  NoEnter(a)
<1>1. ASSUME NEW i \in DOMAIN stack[a], stack[a][i].kind = "enter" PROVE FALSE
  <2>1. i = Len(stack[a]) /\ call[a] = "none"
    BY Zenon, <1>1 DEF EnterInv, EnterOnTop
  <2>2. stack[a] # <<>>
    BY <1>1
  <2>3. Top(a) = stack[a][Len(stack[a])]
    BY Zenon DEF Top
  <2>. QED BY Zenon, <1>1, <2>1, <2>2, <2>3 DEF CanCall
<1>. QED BY Zenon, <1>1 DEF NoEnter

\* Only the innermost frame can be about to take the lock.
LEMMA TopNotEntering ==
  ASSUME TypeOK, EnterInv, NEW a \in Actors, stack[a] = <<>> \/ Top(a).kind # "enter"
  PROVE  NoEnter(a)
BY DEF EnterInv, EnterOnTop, NoEnter, Top

\* A thread calls a request that is in a list: it becomes the one about to
\* take the lock.
LEMMA PushEnter ==
  ASSUME TypeOK, EnterInv, NEW a \in Actors, NEW f \in Frames, Pushes(a, f), f.kind = "enter",
         where[f.end] # "called", where' = [where EXCEPT ![f.end] = "called"],
         NoEnter(a), call'[a] = "none", \A b \in Actors \ {a} : call'[b] = call[b]
  PROVE  EnterInv'
<1>. DEFINE n == Len(stack[a])
<1>1. /\ \A b \in Actors \ {a} : stack'[b] = stack[b]
      /\ n \in Nat /\ DOMAIN stack[a] = 1 .. n
      /\ Len(stack'[a]) = n + 1 /\ DOMAIN stack'[a] = 1 .. n + 1
      /\ \A i \in 1 .. n : stack'[a][i] = stack[a][i]
      /\ stack'[a][n + 1] = f
  BY Zenon, PushFrame
<1>. HIDE DEF n
<1>2. /\ f.end \in Ends /\ where'[f.end] = "called"
      /\ \A d \in Ends \ {f.end} : where'[d] = where[d]
  BY Zenon DEF TypeOK, Frames
<1>3. \A i \in DOMAIN stack'[a] : stack'[a][i].kind = "enter" => i = n + 1
  BY <1>1 DEF NoEnter
<1>4. EnterOnTop'
  <2>. SUFFICES ASSUME NEW b \in Actors, NEW i \in DOMAIN stack'[b], stack'[b][i].kind = "enter"
                PROVE  i = Len(stack'[b]) /\ call'[b] = "none" /\ where'[stack'[b][i].end] = "called"
    BY Zenon DEF EnterOnTop
  <2>1. CASE b = a
    BY Zenon, <1>1, <1>2, <1>3, <2>1
  <2>2. CASE b # a
    <3>1. i \in DOMAIN stack[b] /\ stack'[b] = stack[b] /\ call'[b] = call[b]
      BY Zenon, <1>1, <2>2
    <3>2. i = Len(stack[b]) /\ call[b] = "none" /\ where[stack[b][i].end] = "called"
      BY <3>1 DEF EnterInv, EnterOnTop
    <3>3. stack[b][i].end \in Ends
      BY Zenon, <3>1, FrameTypes
    <3>. QED BY <1>2, <3>1, <3>2, <3>3
  <2>. QED BY Zenon, <2>1, <2>2
<1>5. ASSUME NEW d \in Ends, NEW b \in Actors
      PROVE  Enters(b, d)' <=> Enters(b, d) \/ (b = a /\ d = f.end)
  <2>1. CASE b = a
    <3>1. ~Enters(a, d)
      BY Zenon DEF NoEnter, Enters
    <3>2. (\E i \in DOMAIN stack'[a] : stack'[a][i].kind = "enter" /\ stack'[a][i].end = d)
            <=> d = f.end
      BY <1>1, <1>3
    <3>. QED BY Zenon, <2>1, <3>1, <3>2 DEF Enters
  <2>2. CASE b # a
    BY <1>1, <2>2 DEF Enters
  <2>. QED BY Zenon, <2>1, <2>2
<1>6. \A b \in Actors : ~Enters(b, f.end)
  BY <1>2 DEF EnterInv, EnterOnTop, Enters
<1>7. CalledEnters'
  <2>1. ASSUME NEW d \in Ends, where'[d] = "called" PROVE \E b \in Actors : Enters(b, d)'
    BY <1>2, <1>5, <2>1 DEF EnterInv, CalledEnters
  <2>2. ASSUME NEW d \in Ends, NEW b \in Actors, NEW c \in Actors, Enters(b, d)', Enters(c, d)'
        PROVE  b = c
    BY <1>5, <1>6, <2>2 DEF EnterInv, CalledEnters
  <2>. QED BY Zenon, <2>1, <2>2 DEF CalledEnters
<1>. QED BY Zenon, <1>4, <1>7 DEF EnterInv

\* A thread that is not about to take the lock starts or ends another callback.
LEMMA OtherCallback ==
  ASSUME TypeOK, EnterInv, NEW a \in Actors, SameCalled, NoEnter(a), NoEnter(a)',
         \A b \in Actors \ {a} : call'[b] = call[b] /\ stack'[b] = stack[b]
  PROVE  EnterInv'
<1>1. \A b \in Actors : \A i \in DOMAIN stack[b] : stack[b][i].end \in Ends
  BY Zenon, FrameTypes
<1>2. EnterOnTop'
  BY <1>1 DEF EnterInv, EnterOnTop, SameCalled, NoEnter
<1>3. ASSUME NEW d \in Ends, NEW b \in Actors PROVE Enters(b, d)' <=> Enters(b, d)
  BY Zenon DEF Enters, NoEnter
<1>4. CalledEnters'
  BY Zenon, <1>3 DEF EnterInv, CalledEnters, SameCalled
<1>. QED BY Zenon, <1>2, <1>4 DEF EnterInv

\* Every step keeps EnterInv.
LEMMA EnterNext ==
  ASSUME TypeOK, EnterInv, [Next]_vars
  PROVE  EnterInv'
<1>1. ASSUME NEW a \in Actors, NEW e \in Ends, ApiCall(a, e) PROVE EnterInv'
  <2>1. NoEnter(a)
    BY Zenon, <1>1, ApiCallFree, CallersNotEntering
  <2>2. stack' = stack
    BY Zenon, <1>1 DEF ApiCall, Write, Read, WaitAsync, CancelWait, CancelWaitUnsynchronized, Call, Close
  <2>3. SameCalled /\ \A b \in Actors \ {a} : call'[b] = call[b]
    <3>1. ASSUME NEW p, NEW m, NEW ws, NEW w, NEW then, WriteSelfLocked(a, p, m, ws, w, then)
          PROVE  \A b \in Actors \ {a} : call'[b] = call[b]
      BY <3>1 DEF WriteSelfLocked, ThenQueue, TypeOK
    <3>2. ASSUME NEW m, Write(a, e, m) PROVE where' = where
      BY Zenon, <3>2 DEF Write, request_state
    <3>3. ASSUME NEW m, Write(a, e, m) PROVE \A b \in Actors \ {a} : call'[b] = call[b]
      BY Zenon, <3>1, <3>3 DEF Write
    <3>4. CASE Call(a, e)
      BY ZenonT(40), <3>1, <3>4 DEF Call, request_state, SameCalled
    <3>5. CASE Read(a, e)
      BY ZenonT(40), <3>5 DEF Read, request_state, control, SameCalled
    <3>6. CASE WaitAsync(a, e)
      BY <3>6 DEF WaitAsync, ThenQueue, TypeOK, request_state, control, SameCalled
    <3>7. CASE CancelWait(a, e)
      BY <3>7 DEF CancelWait, TypeOK, request_state, control, SameCalled
    <3>8. CASE CancelWaitUnsynchronized(a, e)
      BY Zenon, <3>8 DEF CancelWaitUnsynchronized, ThenQueue, TypeOK, SameCalled
    <3>9. CASE Close(a, e)
      BY Zenon, <3>9 DEF Close, TypeOK, request_state, SameCalled
    <3>. QED BY Zenon, <1>1, <3>2, <3>3, <3>4, <3>5, <3>6, <3>7, <3>8, <3>9 DEF ApiCall, SameCalled
  <2>. QED BY Zenon, <2>1, <2>2, <2>3, StillEnter
<1>2. ASSUME NEW a \in Actors, OnPeerClosed(a) PROVE EnterInv'
  <2>1. NoEnter(a)
    BY ZenonT(40), <1>2, CallersNotEntering DEF OnPeerClosed
  <2>2. stack' = stack /\ where' = where /\ \A b \in Actors \ {a} : call'[b] = call[b]
    BY Zenon, <1>2 DEF OnPeerClosed, ThenQueue, TypeOK, request_state
  <2>. QED BY Zenon, <2>1, <2>2, StillEnter DEF SameCalled
<1>3. ASSUME NEW a \in Actors, QueueRegisteredCallback(a) PROVE EnterInv'
  <2>1. NoEnter(a)
    BY Zenon, <1>3, CallersNotEntering DEF QueueRegisteredCallback
  <2>2. todo[a].end \in Ends /\ QueuedFrame(a) \in Frames
    BY Zenon, <1>3, QueueFrame
  <2>3. CASE /\ stack' = stack
             /\ call' = [call EXCEPT ![a] = AfterQueue(a)]
             /\ \/ where' = where
                \/ /\ where[todo[a].end] = "registered"
                   /\ where' = [where EXCEPT ![todo[a].end] = "queued"]
    <3>1. SameCalled
      BY Zenon, <2>2, <2>3 DEF SameCalled, TypeOK
    <3>2. \A b \in Actors : call'[b] = call[b] \/ NoEnter(b)
      BY <2>1, <2>3 DEF TypeOK
    <3>. QED BY Zenon, <2>3, <3>1, <3>2, StillEnter
  <2>4. CASE /\ Pushes(a, QueuedFrame(a))
             /\ call' = [call EXCEPT ![a] = "none"]
             /\ where[todo[a].end] = "registered"
             /\ where' = [where EXCEPT ![todo[a].end] = "called"]
    <3>1. QueuedFrame(a).kind = "enter" /\ QueuedFrame(a).end = todo[a].end
      BY Zenon DEF QueuedFrame
    <3>2. call'[a] = "none" /\ \A b \in Actors \ {a} : call'[b] = call[b]
      BY Zenon, <2>4 DEF TypeOK
    <3>3. PICK f : f = QueuedFrame(a)
      BY Zenon
    <3>. QED BY Zenon, <2>1, <2>2, <2>4, <3>1, <3>2, <3>3, PushEnter
  <2>. QED BY Zenon, <1>3, <2>3, <2>4, QueueFrame
<1>4. ASSUME NEW a \in Actors, DispatcherCallback(a) PROVE EnterInv'
  <2>. DEFINE n == Len(stack[a])
  <2>1. stack[a] # <<>> /\ Turns(a) /\ call' = call /\ Top(a).kind = "enter"
    BY Zenon, <1>4 DEF DispatcherCallback, Turns, control
  <2>2. /\ \A c \in Actors \ {a} : stack'[c] = stack[c]
        /\ n \in Nat \ {0} /\ DOMAIN stack[a] = 1 .. n /\ DOMAIN stack'[a] = 1 .. n
        /\ \A j \in 1 .. n - 1 : stack'[a][j] = stack[a][j]
        /\ Top(a) = stack[a][n] /\ Top(a) \in Frames
        /\ stack'[a][n] = [Top(a) EXCEPT !.kind = "handler"]
    BY Zenon, <2>1, TurnFrame
  <2>3. PICK e \in Ends : e = Top(a).end
    BY Zenon, <2>2 DEF Frames
  <2>4. [Top(a) EXCEPT !.kind = "handler"].kind = "handler"
    BY Zenon, <2>2 DEF Frames
  <2>5. where' = [where EXCEPT ![e] = "channel"]
    BY Zenon, <1>4, <2>3 DEF DispatcherCallback
  <2>6. \A i \in 1 .. n : stack[a][i].kind = "enter" => i = n
    BY Zenon, <2>2 DEF EnterInv, EnterOnTop
  <2>. HIDE DEF n
  <2>7. NoEnter(a)'
    <3>1. ASSUME NEW i \in 1 .. n PROVE stack'[a][i].kind # "enter"
      <4>1. CASE i = n
        BY Zenon, <2>2, <2>4, <4>1
      <4>2. CASE i \in 1 .. n - 1
        BY <2>2, <2>6, <4>2
      <4>. QED BY <2>2, <4>1, <4>2
    <3>. QED BY Zenon, <2>2, <3>1 DEF NoEnter
  <2>8. \A d \in Ends : Enters(a, d) <=> d = e
    <3>1. n \in DOMAIN stack[a] /\ stack[a][n].kind = "enter" /\ stack[a][n].end = e
      BY <2>1, <2>2, <2>3
    <3>2. ASSUME NEW d \in Ends, Enters(a, d) PROVE d = e
      BY Zenon, <2>2, <2>6, <3>1, <3>2 DEF Enters
    <3>3. Enters(a, e)
      BY Zenon, <3>1 DEF Enters
    <3>. QED BY Zenon, <3>2, <3>3
  <2>9. \A b \in Actors \ {a} : ~Enters(b, e)
    BY Zenon, <2>8 DEF EnterInv, CalledEnters
  <2>10. EnterOnTop'
    <3>. SUFFICES ASSUME NEW b \in Actors, NEW i \in DOMAIN stack'[b], stack'[b][i].kind = "enter"
                  PROVE  /\ i = Len(stack'[b]) /\ call'[b] = "none"
                         /\ where'[stack'[b][i].end] = "called"
      BY Zenon DEF EnterOnTop
    <3>1. b # a
      BY Zenon, <2>7 DEF NoEnter
    <3>2. i \in DOMAIN stack[b] /\ stack'[b] = stack[b]
      BY Zenon, <2>2, <3>1
    <3>3. stack[b][i].end \in Ends /\ stack[b][i].end # e
      BY Zenon, <2>9, <3>1, <3>2, FrameTypes DEF Enters
    <3>4. i = Len(stack[b]) /\ call[b] = "none" /\ where[stack[b][i].end] = "called"
      BY <3>2 DEF EnterInv, EnterOnTop
    <3>. QED BY Zenon, <2>1, <2>5, <3>2, <3>3, <3>4 DEF TypeOK
  <2>11. ASSUME NEW d \in Ends, NEW b \in Actors PROVE Enters(b, d)' <=> b # a /\ Enters(b, d)
    BY <2>2, <2>7 DEF Enters, NoEnter
  <2>12. CalledEnters'
    <3>1. \A d \in Ends : where'[d] = "called" => d # e /\ where[d] = "called"
      BY Zenon, <2>5 DEF TypeOK
    <3>. QED BY Zenon, <2>8, <2>11, <3>1 DEF EnterInv, CalledEnters
  <2>. QED BY Zenon, <2>10, <2>12 DEF EnterInv
<1>5. ASSUME NEW a \in Actors, CallbackReturns(a) PROVE EnterInv'
  <2>1. stack[a] # <<>> /\ Pops(a) /\ where' = where
    BY Zenon, <1>5 DEF CallbackReturns, Pops, request_state
  <2>2. /\ \A c \in Actors \ {a} : stack'[c] = stack[c]
        /\ Len(stack[a]) \in Nat \ {0} /\ DOMAIN stack[a] = 1 .. Len(stack[a])
        /\ DOMAIN stack'[a] = 1 .. Len(stack[a]) - 1
        /\ \A j \in 1 .. Len(stack[a]) - 1 : stack'[a][j] = stack[a][j]
        /\ Top(a) = stack[a][Len(stack[a])]
    BY Zenon, <2>1, PopFrame
  <2>3. Top(a).kind # "enter"
    BY Zenon, <1>5 DEF CallbackReturns
  <2>4. NoEnter(a)
    BY Zenon, <2>2, <2>3 DEF NoEnter, EnterInv, EnterOnTop
  <2>5. NoEnter(a)'
    BY <2>2, <2>4 DEF NoEnter
  <2>6. \A b \in Actors \ {a} : call'[b] = call[b]
    BY Zenon, <1>5 DEF CallbackReturns, TypeOK
  <2>. QED BY Zenon, <2>1, <2>2, <2>4, <2>5, <2>6, OtherCallback DEF SameCalled
<1>6. ASSUME NEW c \in Clients, CallReturns(c) PROVE EnterInv'
  <2>1. c \in Actors
    BY Zenon DEF Actors
  <2>2. NoEnter(c)
    BY Zenon, <1>6, <2>1, CallersNotEntering DEF CallReturns
  <2>3. stack' = stack /\ where' = where /\ \A b \in Actors \ {c} : call'[b] = call[b]
    BY Zenon, <1>6 DEF CallReturns, TypeOK, request_state
  <2>. QED BY Zenon, <2>2, <2>3, StillEnter DEF SameCalled
<1>7. ASSUME NEW t \in Threads, NEW e \in Ends, NEW takes \in BOOLEAN,
             DispatchCallbacks(t, e, takes)
      PROVE  EnterInv'
  <2>1. t \in Actors /\ stack[t] = <<>> /\ call' = call
    BY Zenon, <1>7 DEF DispatchCallbacks, control, Actors
  <2>2. SameCalled
    BY Zenon, <1>7 DEF DispatchCallbacks, SameCalled, TypeOK
  <2>3. PICK f \in Frames : Pushes(t, f) /\ f.kind = "task"
    BY <1>7, DispatchFrame
  <2>4. NoEnter(t)
    BY Zenon, <2>1, TopNotEntering
  <2>5. NoEnter(t)' /\ \A b \in Actors \ {t} : stack'[b] = stack[b]
    BY <2>1, <2>3, <2>4, PushFrame DEF NoEnter
  <2>. QED BY ZenonT(40), <2>1, <2>2, <2>4, <2>5, OtherCallback
<1>8. ASSUME NEW t \in Threads, NEW e \in Ends, DispatchCallback(t, e) \/ CompleteShutdown(t, e)
      PROVE  EnterInv'
  <2>1. t \in Actors /\ call[t] = "none" /\ call' = call
    BY Zenon, <1>8 DEF DispatchCallback, CompleteShutdown, control, Actors
  <2>2. where[e] # "called" /\ where' = [where EXCEPT ![e] = "called"]
    BY Zenon, <1>8 DEF DispatchCallback, CompleteShutdown
  <2>3. PICK f \in Frames : Pushes(t, f) /\ f.kind = "enter" /\ f.end = e
    BY <1>8, DispatchFrame
  <2>4. stack[t] = <<>> \/ Top(t).kind # "enter"
    BY Zenon, <1>8 DEF DispatchCallback, CompleteShutdown
  <2>5. NoEnter(t)
    BY Zenon, <2>1, <2>4, TopNotEntering
  <2>. QED BY ZenonT(40), <2>1, <2>2, <2>3, <2>5, PushEnter
<1>9. ASSUME NEW e \in Ends, ShutdownAsync(e) PROVE EnterInv'
  <2>1. stack' = stack /\ call' = call
    BY Zenon, <1>9 DEF ShutdownAsync, control
  <2>2. SameCalled
    BY Zenon, <1>9 DEF ShutdownAsync, SameCalled, TypeOK
  <2>. QED BY Zenon, <2>1, <2>2, StillEnter
<1>10. CASE UNCHANGED vars
  <2>1. stack' = stack /\ call' = call /\ where' = where
    BY Zenon, <1>10 DEF vars, control, request_state
  <2>. QED BY Zenon, <2>1, StillEnter DEF SameCalled
<1>. QED BY Zenon, <1>1, <1>2, <1>3, <1>4, <1>5, <1>6, <1>7, <1>8, <1>9, <1>10 DEF Next, ActorStep

\* A step that brings nobody new into a synchronized dispatcher, or somebody
\* into one that is empty.
LEMMA InsideOnce ==
  ASSUME TypeOK, SyncAlone, NEW a \in Actors, NEW f \in Frames, Pushes(a, f),
         f.end \in SyncEnds => Inside(f.end) = {} \/ a \in Inside(f.end)
  PROVE  SyncAlone'
<1>1. ASSUME NEW d \in Ends, NEW b \in Inside(d)' PROVE b \in Inside(d) \/ (b = a /\ d = f.end)
  <2>1. b \in Actors
    BY Zenon DEF Inside
  <2>2. PICK i \in DOMAIN stack'[b] : stack'[b][i].end = d
    BY Zenon DEF Inside
  <2>3. CASE b # a
    BY <2>1, <2>2, <2>3, PushFrame DEF Inside
  <2>4. CASE b = a
    <3>1. /\ Len(stack[a]) \in Nat /\ DOMAIN stack[a] = 1 .. Len(stack[a])
          /\ DOMAIN stack'[a] = 1 .. Len(stack[a]) + 1
          /\ \A j \in 1 .. Len(stack[a]) : stack'[a][j] = stack[a][j]
          /\ stack'[a][Len(stack[a]) + 1] = f
      BY Zenon, PushFrame
    <3>2. CASE i = Len(stack[a]) + 1
      BY Zenon, <2>2, <2>4, <3>1, <3>2
    <3>3. CASE i \in 1 .. Len(stack[a])
      BY Zenon, <2>1, <2>2, <2>4, <3>1, <3>3 DEF Inside
    <3>. QED BY <2>2, <2>4, <3>1, <3>2, <3>3
  <2>. QED BY Zenon, <2>3, <2>4
<1>2. SyncEnds \subseteq Ends
  BY Zenon, EndsAssumption
<1>3. ASSUME NEW d \in SyncEnds, NEW b \in Inside(d)', NEW c \in Inside(d)' PROVE b = c
  BY <1>1, <1>2 DEF SyncAlone
<1>. QED BY Zenon, <1>3 DEF SyncAlone

\* No two threads are inside of a synchronized dispatcher.
LEMMA SyncNext ==
  ASSUME TypeOK, SyncAlone, [Next]_vars
  PROVE  SyncAlone'
<1>1. ASSUME \A b \in Actors : \A i \in DOMAIN stack'[b] :
               i \in DOMAIN stack[b] /\ stack'[b][i].end = stack[b][i].end
      PROVE  SyncAlone'
  BY <1>1 DEF SyncAlone, Inside
<1>2. ASSUME NEW a \in Actors, QueueRegisteredCallback(a) PROVE SyncAlone'
  <2>1. CASE stack' = stack
    BY Zenon, <1>1, <2>1
  <2>2. CASE Pushes(a, QueuedFrame(a)) /\ DirectCall(a, todo[a].end)
    <3>1. QueuedFrame(a).end = todo[a].end
      BY Zenon DEF QueuedFrame
    <3>2. PICK f \in Frames : f = QueuedFrame(a)
      BY Zenon, <1>2, QueueFrame
    <3>3. f.end \in SyncEnds => Inside(f.end) = {}
      BY Zenon, <2>2, <3>1, <3>2 DEF DirectCall
    <3>. QED BY Zenon, <2>2, <3>2, <3>3, InsideOnce
  <2>. QED BY Zenon, <1>2, <2>1, <2>2, QueueFrame
<1>3. ASSUME NEW a \in Actors, DispatcherCallback(a) PROVE SyncAlone'
  <2>. DEFINE n == Len(stack[a])
  <2>1. stack[a] # <<>> /\ Turns(a)
    BY Zenon, <1>3 DEF DispatcherCallback, Turns
  <2>2. /\ \A c \in Actors \ {a} : stack'[c] = stack[c]
        /\ n \in Nat \ {0} /\ DOMAIN stack[a] = 1 .. n /\ DOMAIN stack'[a] = 1 .. n
        /\ \A j \in 1 .. n - 1 : stack'[a][j] = stack[a][j]
        /\ Top(a) = stack[a][n] /\ Top(a) \in Frames
        /\ stack'[a][n] = [Top(a) EXCEPT !.kind = "handler"]
    BY Zenon, <2>1, TurnFrame
  <2>3. [Top(a) EXCEPT !.kind = "handler"].end = Top(a).end
    BY Zenon, <2>2 DEF Frames
  <2>. HIDE DEF n
  <2>4. \A i \in 1 .. n : stack'[a][i].end = stack[a][i].end
    <3>1. \A i \in 1 .. n : i = n \/ i \in 1 .. n - 1
      BY <2>2
    <3>. QED BY Zenon, <2>2, <2>3, <3>1
  <2>. QED BY Zenon, <1>1, <2>2, <2>4
<1>4. ASSUME NEW a \in Actors, CallbackReturns(a) PROVE SyncAlone'
  <2>1. stack[a] # <<>> /\ Pops(a)
    BY Zenon, <1>4 DEF CallbackReturns, Pops
  <2>2. /\ \A c \in Actors \ {a} : stack'[c] = stack[c]
        /\ Len(stack[a]) \in Nat \ {0} /\ DOMAIN stack[a] = 1 .. Len(stack[a])
        /\ DOMAIN stack'[a] = 1 .. Len(stack[a]) - 1
        /\ \A j \in 1 .. Len(stack[a]) - 1 : stack'[a][j] = stack[a][j]
    BY Zenon, <2>1, PopFrame
  <2>. QED BY <1>1, <2>2
<1>5. ASSUME NEW t \in Threads, NEW e \in Ends, DispatchCallback(t, e) PROVE SyncAlone'
  <2>1. PICK f \in Frames : Pushes(t, f) /\ f.end = e
    BY <1>5, DispatchFrame
  <2>2. t \in Actors /\ stack[t] # <<>> /\ Top(t).end = e
    BY Zenon, <1>5 DEF DispatchCallback, Actors
  <2>3. t \in Inside(e)
    <3>1. stack[t] \in Seq(Frames)
      BY Zenon, <2>2 DEF TypeOK
    <3>2. /\ Len(stack[t]) \in Nat \ {0} /\ DOMAIN stack[t] = 1 .. Len(stack[t])
          /\ Top(t) = stack[t][Len(stack[t])]
      BY Zenon, <2>2, <3>1, PopProperties DEF Top
    <3>3. Len(stack[t]) \in DOMAIN stack[t] /\ stack[t][Len(stack[t])].end = e
      BY <2>2, <3>2
    <3>. QED BY Zenon, <2>2, <3>3 DEF Inside
  <2>. QED BY Zenon, <2>1, <2>2, <2>3, InsideOnce
<1>6. ASSUME NEW t \in Threads, NEW e \in Ends,
             (\E takes \in BOOLEAN : DispatchCallbacks(t, e, takes)) \/ CompleteShutdown(t, e)
      PROVE  SyncAlone'
  <2>1. PICK f \in Frames : Pushes(t, f) /\ f.end = e
    BY <1>6, DispatchFrame
  <2>2. t \in Actors /\ (e \in SyncEnds => Inside(e) = {})
    BY Zenon, <1>6 DEF DispatchCallbacks, CompleteShutdown, Actors
  <2>. QED BY Zenon, <2>1, <2>2, InsideOnce
<1>. QED BY Zenon, <1>1, <1>2, <1>3, <1>4, <1>5, <1>6, SameStack

\* The request has one owner at a time.
LEMMA OwnerNext ==
  ASSUME TypeOK, OwnerInv, [Next]_vars
  PROVE  OwnerInv'
BY Zenon, OwnedNext, AssertionsNext, EnterNext, SyncNext DEF OwnerInv, EnterInv

\* No assertion of channel.cc on the owner of the callback request fails: in
\* WaitAsync, in CancelWait on a synchronized dispatcher, in DispatcherCallback.
THEOREM NoAssertionFails == Spec => []AssertionsHold
<1>1. Init => OwnerInv
  <2>. SUFFICES ASSUME Init PROVE OwnerInv
    BY Zenon
  <2>1. \A a \in Actors : stack[a] = <<>> /\ DOMAIN stack[a] = {}
    BY DEF Init
  <2>2. Inside(0) = {} /\ Inside(1) = {}
    BY Zenon, <2>1 DEF Inside
  <2>3. SyncAlone
    BY Zenon, <2>2, EndsAssumption DEF SyncAlone, Ends
  <2>4. RequestOwned /\ EnterOnTop /\ CalledEnters /\ AssertionsHold
    BY Zenon, <2>1 DEF Init, RequestOwned, EnterOnTop, CalledEnters, Enters, AssertionsHold
  <2>. QED BY Zenon, <2>3, <2>4 DEF OwnerInv
<1>2. TypeOK /\ OwnerInv /\ [Next]_vars => OwnerInv'
  BY Zenon, OwnerNext
<1>3. OwnerInv => AssertionsHold
  BY Zenon DEF OwnerInv
<1>. QED BY <1>1, <1>2, <1>3, ChannelTypes, PTL DEF Spec

-----------------------------------------------------------------------------
(* Calls get their own replies, if only one end calls. *)

\* A message that belongs to a call carries its txid and has not been answered.
Mine(m) ==
  m.of # None => waiter[m.of].status \in {"waiting", "closed"} /\ waiter[m.of].txid = m.txid
\* A message with the txid of a listed waiter of x belongs to its call.
Fits(m, x) == \A c \in waiters[x] : m.txid = waiter[c].txid => m.of = c
\* A call has one message on its way, in the queue s or among the requests R.
Unique(s, R) ==
  /\ \A i, j \in DOMAIN s : s[i].of = s[j].of => s[i].of = None \/ i = j
  /\ \A i \in DOMAIN s, q \in R : s[i].of = q.of => q.of = None
  /\ \A q, r \in R : q.of = r.of => q.of = None \/ q = r
\* Only x calls, so that only its peer gets requests.
OneCaller(x) ==
  /\ \A c \in Clients : waiter[c].status # "idle" => waiter[c].end = x /\ waiter[c].txid # 0
  /\ requests[x] = {}
  /\ \A i \in DOMAIN msg_queue[x] : msg_queue[x][i].kind # "request"
\* The messages on their way to the peer p of x.
Asked(x, p) ==
  /\ \A i \in DOMAIN msg_queue[p] : Mine(msg_queue[p][i]) /\ Fits(msg_queue[p][i], x)
  /\ \A q \in requests[p] : Mine(q) /\ Fits(q, x)
  /\ Unique(msg_queue[p], requests[p])
ClosedUnlinked == \A c \in Clients : waiter[c].status = "closed" => ~linked
MatchInv(x) == OneCaller(x) /\ Asked(x, Peer(x)) /\ ClosedUnlinked /\ CallsMatched

\* A message of a call that has none on its way may be sent.
LEMMA UniqueAppend ==
  ASSUME NEW s \in Seq(Messages), NEW R, NEW m \in Messages, Unique(s, R),
         m.of # None => /\ \A i \in DOMAIN s : s[i].of # m.of
                        /\ \A q \in R : q.of # m.of
  PROVE  Unique(Append(s, m), R)
<1>1. /\ Len(s) \in Nat /\ DOMAIN s = 1 .. Len(s) /\ DOMAIN Append(s, m) = 1 .. Len(s) + 1
      /\ \A i \in 1 .. Len(s) : Append(s, m)[i] = s[i]
      /\ Append(s, m)[Len(s) + 1] = m
  BY PushProperties
<1>2. \A i \in DOMAIN Append(s, m) : i \in DOMAIN s \/ i = Len(s) + 1
  BY <1>1
<1>. QED BY <1>1, <1>2 DEF Unique

\* What reading leaves in the queue.
LEMMA TailProperties ==
  ASSUME NEW s \in Seq(Messages), s # <<>>
  PROVE  /\ 1 \in DOMAIN s /\ Head(s) = s[1] /\ Head(s) \in Messages
         /\ \A i \in DOMAIN Tail(s) : i + 1 \in DOMAIN s /\ i + 1 # 1 /\ Tail(s)[i] = s[i + 1]
         /\ \A i, j \in DOMAIN Tail(s) : i + 1 = j + 1 => i = j
OBVIOUS

\* A message that is read moves from the queue to the requests, or is dropped.
LEMMA UniqueTail ==
  ASSUME NEW s \in Seq(Messages), s # <<>>, NEW R, Unique(s, R)
  PROVE  Unique(Tail(s), R) /\ Unique(Tail(s), R \cup {Head(s)})
<1>1. PICK t, h : t = Tail(s) /\ h = Head(s)
  BY Zenon
<1>2. /\ 1 \in DOMAIN s /\ h = s[1]
      /\ \A i \in DOMAIN t : i + 1 \in DOMAIN s /\ i + 1 # 1 /\ t[i] = s[i + 1]
      /\ \A i, j \in DOMAIN t : i + 1 = j + 1 => i = j
  BY Zenon, <1>1, TailProperties
<1>3. Unique(t, R)
  BY <1>2 DEF Unique
<1>4. /\ \A i \in DOMAIN t : t[i].of = h.of => h.of = None
      /\ \A q \in R : q.of = h.of => q.of = None
  BY <1>2 DEF Unique
<1>5. Unique(t, R \cup {h})
  BY <1>3, <1>4 DEF Unique
<1>. QED BY <1>1, <1>3, <1>5

\* Requests may be answered.
LEMMA UniqueSubset ==
  ASSUME NEW s, NEW R, NEW T \in SUBSET R, Unique(s, R)
  PROVE  Unique(s, T)
BY Zenon DEF Unique

\* What the end of a call does to a message.
LEMMA DisownProperties ==
  ASSUME NEW m \in Messages, NEW c \in Clients
  PROVE  /\ Disown(m, c).kind = m.kind /\ Disown(m, c).txid = m.txid
         /\ m.of = c => Disown(m, c).of = None
         /\ m.of # c => Disown(m, c) = m
BY Zenon DEF Disown, Messages

\* Calls may end.
LEMMA UniqueDisown ==
  ASSUME NEW s \in Seq(Messages), NEW R \in SUBSET Messages, NEW c \in Clients, Unique(s, R)
  PROVE  Unique([i \in DOMAIN s |-> Disown(s[i], c)], {Disown(q, c) : q \in R})
<1>1. \A m \in Messages : Disown(m, c).of # None => m.of # c /\ Disown(m, c) = m
  BY Zenon, DisownProperties
<1>2. \A i \in DOMAIN s : s[i] \in Messages
  OBVIOUS
<1>. DEFINE t == [i \in DOMAIN s |-> Disown(s[i], c)]
            T == {Disown(q, c) : q \in R}
<1>3. DOMAIN t = DOMAIN s /\ \A i \in DOMAIN t : t[i].of # None => t[i] = s[i]
  BY Zenon, <1>1, <1>2
<1>4. \A q \in T : q.of # None => q \in R
  BY Zenon, <1>1
<1>. HIDE DEF t, T
<1>5. Unique(t, T)
  BY Zenon, <1>3, <1>4 DEF Unique
<1>. QED BY Zenon, <1>5 DEF t, T

\* A waiter that is listed waits at x.
LEMMA ListedAtCaller ==
  ASSUME TypeOK, ListedInv, NEW x \in Ends, OneCaller(x)
  PROVE  /\ waiters[Peer(x)] = {}
         /\ \A c \in waiters[x] :
              c \in Clients /\ waiter[c].status = "waiting" /\ waiter[c].txid # 0
<1>1. \A c \in Clients, d \in Ends :
        c \in waiters[d] => waiter[c].end = d /\ waiter[c].status = "waiting"
  BY Zenon DEF ListedInv, WaitersListed
<1>2. \A d \in Ends : waiters[d] \in SUBSET Clients
  BY Zenon DEF TypeOK
<1>3. \A c \in Clients, d \in Ends :
        c \in waiters[d] => d = x /\ waiter[c].status = "waiting" /\ waiter[c].txid # 0
  BY Zenon, <1>1 DEF OneCaller
<1>4. Peer(x) \in Ends /\ Peer(x) # x
  BY Zenon, PeerEnds
<1>. QED BY Zenon, <1>2, <1>3, <1>4

\* What is written by an end's user.
LEMMA OutgoingMessages ==
  ASSUME TypeOK, NEW e \in Ends, NEW m \in Outgoing(e)
  PROVE  \/ m.kind = "plain" /\ m.txid = 0 /\ m.of = None
         \/ \E q \in requests[e] : /\ m = [q EXCEPT !.kind = "reply"]
                                   /\ m.kind = "reply" /\ m.txid = q.txid /\ m.of = q.of
<1>1. requests[e] \subseteq Messages
  BY Zenon DEF TypeOK
<1>2. CASE m = Plain
  BY Zenon, <1>2 DEF Plain
<1>3. ASSUME NEW q \in requests[e], m = [q EXCEPT !.kind = "reply"]
      PROVE  m.kind = "reply" /\ m.txid = q.txid /\ m.of = q.of
  BY Zenon, <1>1, <1>3, ReplyTypes
<1>. QED BY Zenon, <1>2, <1>3 DEF Outgoing

\* What writing leaves in the queue.
LEMMA AppendIndices ==
  ASSUME NEW s \in Seq(Messages), NEW m \in Messages
  PROVE  \A i \in DOMAIN Append(s, m) :
           (i \in DOMAIN s /\ Append(s, m)[i] = s[i]) \/ Append(s, m)[i] = m
<1>1. /\ Len(s) \in Nat /\ DOMAIN s = 1 .. Len(s) /\ DOMAIN Append(s, m) = 1 .. Len(s) + 1
      /\ \A i \in 1 .. Len(s) : Append(s, m)[i] = s[i]
      /\ Append(s, m)[Len(s) + 1] = m
  BY PushProperties
<1>2. \A i \in DOMAIN Append(s, m) : i \in DOMAIN s \/ i = Len(s) + 1
  BY <1>1
<1>. QED BY Zenon, <1>1, <1>2

\* The caller's own user writes plain messages only.
LEMMA CallerWriteMatches ==
  ASSUME TypeOK, ListedInv, NEW x \in Ends, MatchInv(x), NEW a \in Actors,
         NEW m \in Outgoing(x), Write(a, x, m)
  PROVE  MatchInv(x)'
<1>. DEFINE p == Peer(x)
<1>1. p \in Ends /\ p # x
  BY Zenon, PeerEnds
<1>2. m \in Messages /\ m.kind = "plain" /\ m.txid = 0 /\ m.of = None
  BY Zenon, OutgoingTypes, OutgoingMessages DEF MatchInv, OneCaller
<1>3. /\ WriteSelfLocked(a, p, m, waiters, waiter, "none")
      /\ requests' = [requests EXCEPT ![x] = {q \in @ : m # [q EXCEPT !.kind = "reply"]}]
      /\ linked' = linked
  BY Zenon DEF Write
<1>4. waiters \in [Ends -> SUBSET Clients] /\ waiter \in [Clients -> Waiters]
  BY Zenon DEF TypeOK
<1>5. /\ waiters[p] = {}
      /\ \A c \in waiters[x] : c \in Clients /\ waiter[c].status = "waiting" /\ waiter[c].txid # 0
  BY Zenon, ListedAtCaller DEF MatchInv
<1>. HIDE DEF p
<1>6. waiters' = waiters /\ waiter' = waiter /\ msg_queue' = [msg_queue EXCEPT ![p] = Append(@, m)]
  BY <1>1, <1>2, <1>3, <1>4, <1>5, WriteOutcome
<1>7. /\ msg_queue'[x] = msg_queue[x] /\ msg_queue'[p] = Append(msg_queue[p], m)
      /\ requests'[p] = requests[p] /\ requests'[x] \subseteq requests[x]
      /\ msg_queue[p] \in Seq(Messages)
  BY Zenon, <1>1, <1>3, <1>6 DEF TypeOK
<1>8. Asked(x, p)
  BY Zenon DEF MatchInv, p
<1>9. Mine(m) /\ Fits(m, x)
  BY Zenon, <1>2, <1>5 DEF Mine, Fits
<1>10. Asked(x, p)'
  <2>1. Unique(msg_queue[p], requests[p])'
    BY Zenon, <1>2, <1>7, <1>8, UniqueAppend DEF Asked
  <2>2. ASSUME NEW i \in DOMAIN msg_queue'[p] PROVE (Mine(msg_queue[p][i]) /\ Fits(msg_queue[p][i], x))'
    <3>1. (i \in DOMAIN msg_queue[p] /\ msg_queue'[p][i] = msg_queue[p][i]) \/ msg_queue'[p][i] = m
      BY <1>2, <1>7, <2>2, AppendIndices
    <3>2. PICK k : k = msg_queue'[p][i] /\ Mine(k) /\ Fits(k, x)
      BY Zenon, <1>8, <1>9, <3>1 DEF Asked
    <3>. QED BY Zenon, <1>6, <3>2 DEF Mine, Fits
  <2>3. ASSUME NEW q \in requests'[p] PROVE (Mine(q) /\ Fits(q, x))'
    BY Zenon, <1>6, <1>7, <1>8, <2>3 DEF Asked, Mine, Fits
  <2>. QED BY Zenon, <2>1, <2>2, <2>3 DEF Asked
<1>11. OneCaller(x)'
  BY Zenon, <1>6, <1>7 DEF MatchInv, OneCaller
<1>12. ClosedUnlinked' /\ CallsMatched'
  BY Zenon, <1>3, <1>6 DEF MatchInv, ClosedUnlinked, CallsMatched
<1>. QED BY Zenon, <1>10, <1>11, <1>12 DEF MatchInv, p, Peer

\* The peer's user answers the request of the waiter that takes the reply.
LEMMA ReplyMatches ==
  ASSUME TypeOK, ListedInv, NEW x \in Ends, MatchInv(x), NEW a \in Actors,
         NEW p \in Ends, p = Peer(x), NEW m \in Outgoing(p), Write(a, p, m)
  PROVE  MatchInv(x)'
<1>1. p # x /\ Peer(p) = x
  BY PeerEnds DEF Peer, Ends
<1>2. m \in Messages /\ m.kind # "request"
  BY Zenon, OutgoingTypes, OutgoingMessages
<1>3. /\ WriteSelfLocked(a, x, m, waiters, waiter, "none")
      /\ requests' = [requests EXCEPT ![p] = {q \in @ : m # [q EXCEPT !.kind = "reply"]}]
      /\ linked' = linked
  BY Zenon, <1>1 DEF Write
<1>4. waiters \in [Ends -> SUBSET Clients] /\ waiter \in [Clients -> Waiters]
  BY Zenon DEF TypeOK
<1>5. \A c \in waiters[x] : c \in Clients /\ waiter[c].status = "waiting" /\ waiter[c].txid # 0
  BY Zenon, ListedAtCaller DEF MatchInv
<1>6. /\ requests'[x] = requests[x] /\ requests'[p] \subseteq requests[p]
      /\ \A q \in requests'[p] : m # [q EXCEPT !.kind = "reply"]
  BY Zenon, <1>1, <1>3 DEF TypeOK
<1>7. OneCaller(x) /\ Asked(x, p) /\ ClosedUnlinked /\ CallsMatched
  BY Zenon DEF MatchInv
<1>8. CASE waiters' = waiters /\ waiter' = waiter /\ msg_queue' = [msg_queue EXCEPT ![x] = Append(@, m)]
  <2>1. /\ msg_queue'[p] = msg_queue[p] /\ msg_queue'[x] = Append(msg_queue[x], m)
        /\ msg_queue[x] \in Seq(Messages)
    BY Zenon, <1>1, <1>8 DEF TypeOK
  <2>2. \A i \in DOMAIN msg_queue'[x] : msg_queue'[x][i].kind # "request"
    <3>1. \A i \in DOMAIN msg_queue'[x] :
            (i \in DOMAIN msg_queue[x] /\ msg_queue'[x][i] = msg_queue[x][i]) \/ msg_queue'[x][i] = m
      BY <1>2, <2>1, AppendIndices
    <3>. QED BY Zenon, <1>2, <1>7, <3>1 DEF OneCaller
  <2>3. OneCaller(x)'
    BY Zenon, <1>6, <1>7, <1>8, <2>2 DEF OneCaller
  <2>4. Unique(msg_queue[p], requests[p])'
    BY Zenon, <1>6, <1>7, <2>1, UniqueSubset DEF Asked
  <2>5. Asked(x, p)'
    <3>1. ASSUME NEW i \in DOMAIN msg_queue'[p]
          PROVE  (Mine(msg_queue[p][i]) /\ Fits(msg_queue[p][i], x))'
      <4>1. PICK k : k = msg_queue[p][i] /\ k = msg_queue'[p][i] /\ Mine(k) /\ Fits(k, x)
        BY Zenon, <1>7, <2>1, <3>1 DEF Asked
      <4>. QED BY Zenon, <1>8, <4>1 DEF Mine, Fits
    <3>2. ASSUME NEW r \in requests'[p] PROVE (Mine(r) /\ Fits(r, x))'
      <4>1. Mine(r) /\ Fits(r, x)
        BY Zenon, <1>6, <1>7, <3>2 DEF Asked
      <4>. QED BY Zenon, <1>8, <4>1 DEF Mine, Fits
    <3>. QED BY Zenon, <2>4, <3>1, <3>2 DEF Asked
  <2>6. ClosedUnlinked' /\ CallsMatched'
    BY Zenon, <1>3, <1>7, <1>8 DEF ClosedUnlinked, CallsMatched
  <2>. QED BY Zenon, <2>3, <2>5, <2>6 DEF MatchInv, Peer
<1>9. ASSUME msg_queue' = msg_queue,
             NEW c \in waiters[x],
             waiter[c].txid = m.txid,
             waiters' = [waiters EXCEPT ![x] = @ \ {c}],
             \A b \in Clients \ {c} : waiter'[b] = waiter[b],
             waiter'[c].status = "ok", waiter'[c].got = m,
             waiter'[c].end = waiter[c].end, waiter'[c].txid = waiter[c].txid
      PROVE  MatchInv(x)'
  <2>1. c \in Clients /\ waiter[c].status = "waiting" /\ waiter[c].txid # 0
    BY Zenon, <1>5, <1>9
  <2>2. PICK q \in requests[p] : /\ m = [q EXCEPT !.kind = "reply"]
                                 /\ m.kind = "reply" /\ m.txid = q.txid /\ m.of = q.of
    BY Zenon, <1>9, <2>1, OutgoingMessages
  <2>3. q.of = c
    BY ZenonT(40), <1>7, <1>9, <2>2 DEF Asked, Fits
  <2>4. c # None
    BY Zenon, <2>1, ActorsAssumption DEF Actors
  <2>5. /\ \A i \in DOMAIN msg_queue[p] : msg_queue[p][i].of # c
        /\ \A r \in requests'[p] : r.of # c
    BY ZenonT(40), <1>6, <1>7, <2>2, <2>3, <2>4 DEF Asked, Unique
  <2>6. waiters'[x] \subseteq waiters[x] \ {c}
    BY Zenon, <1>4, <1>9
  <2>7. ASSUME NEW k \in Messages, k.of # c, Mine(k) /\ Fits(k, x)
        PROVE  /\ k.of # None => waiter'[k.of].status \in {"waiting", "closed"}
                                 /\ waiter'[k.of].txid = k.txid
               /\ \A b \in waiters'[x] : k.txid = waiter'[b].txid => k.of = b
    <3>1. k.of # None => k.of \in Clients
      BY Zenon DEF Messages
    <3>. QED BY Zenon, <1>5, <1>9, <2>6, <2>7, <3>1 DEF Mine, Fits
  <2>8. Unique(msg_queue[p], requests[p])'
    BY Zenon, <1>6, <1>7, <1>9, UniqueSubset DEF Asked
  <2>9. Asked(x, p)'
    <3>1. /\ \A i \in DOMAIN msg_queue[p] : msg_queue[p][i] \in Messages
          /\ requests[p] \subseteq Messages
      BY DEF TypeOK
    <3>2. ASSUME NEW i \in DOMAIN msg_queue'[p]
          PROVE  (Mine(msg_queue[p][i]) /\ Fits(msg_queue[p][i], x))'
      <4>1. PICK k \in Messages : /\ k = msg_queue[p][i] /\ k = msg_queue'[p][i]
                                  /\ k.of # c /\ Mine(k) /\ Fits(k, x)
        BY Zenon, <1>7, <1>9, <2>5, <3>1, <3>2 DEF Asked
      <4>. QED BY Zenon, <2>7, <4>1 DEF Mine, Fits
    <3>3. ASSUME NEW r \in requests'[p] PROVE (Mine(r) /\ Fits(r, x))'
      <4>1. r \in Messages /\ r.of # c /\ Mine(r) /\ Fits(r, x)
        BY Zenon, <1>6, <1>7, <2>5, <3>1, <3>3 DEF Asked
      <4>. QED BY Zenon, <2>7, <4>1 DEF Mine, Fits
    <3>. QED BY Zenon, <2>8, <3>2, <3>3 DEF Asked
  <2>10. OneCaller(x)'
    BY ZenonT(40), <1>6, <1>7, <1>9, <2>1 DEF OneCaller
  <2>11. ClosedUnlinked' /\ CallsMatched'
    <3>1. waiter'[c].got.of = c /\ waiter'[c].got.kind = "reply" /\ waiter'[c].status # "closed"
      BY Zenon, <1>9, <2>2, <2>3
    <3>2. CallsMatched'
      <4>1. ASSUME NEW b \in Clients, waiter'[b].status = "ok"
            PROVE  waiter'[b].got.of = b /\ waiter'[b].got.kind = "reply"
        <5>1. CASE b = c
          BY Zenon, <3>1, <5>1
        <5>2. CASE b # c
          BY ZenonT(40), <1>7, <1>9, <4>1, <5>2 DEF CallsMatched
        <5>. QED BY Zenon, <5>1, <5>2
      <4>. QED BY Zenon, <4>1 DEF CallsMatched
    <3>3. ClosedUnlinked'
      BY Zenon, <1>3, <1>7, <1>9, <3>1 DEF ClosedUnlinked
    <3>. QED BY Zenon, <3>2, <3>3
  <2>. QED BY Zenon, <2>9, <2>10, <2>11 DEF MatchInv, Peer
<1>. QED BY <1>2, <1>3, <1>4, <1>8, <1>9, WriteOutcome

\* Reading a message keeps it on its way if it is a request.
LEMMA ReadMatches ==
  ASSUME TypeOK, NEW x \in Ends, MatchInv(x), NEW a \in Actors, NEW e \in Ends, Read(a, e)
  PROVE  MatchInv(x)'
<1>. DEFINE p == Peer(x)
<1>1. p \in Ends /\ p # x /\ Ends = {x, p}
  BY Zenon, PeerEnds
<1>2. waiters' = waiters /\ waiter' = waiter /\ linked' = linked
  BY Zenon DEF Read, call_state
<1>3. OneCaller(x) /\ Asked(x, p) /\ ClosedUnlinked /\ CallsMatched
  BY Zenon DEF MatchInv
<1>. HIDE DEF p
<1>4. /\ msg_queue[e] \in Seq(Messages) /\ msg_queue[e] # <<>>
      /\ msg_queue'[e] = Tail(msg_queue[e])
      /\ requests'[e] = IF Head(msg_queue[e]).kind = "request" THEN requests[e] \cup {Head(msg_queue[e])}
                        ELSE requests[e]
      /\ \A d \in Ends \ {e} : msg_queue'[d] = msg_queue[d] /\ requests'[d] = requests[d]
  BY Zenon DEF Read, TypeOK
<1>5. /\ 1 \in DOMAIN msg_queue[e] /\ Head(msg_queue[e]) = msg_queue[e][1]
      /\ \A i \in DOMAIN msg_queue'[e] :
           \E j \in DOMAIN msg_queue[e] : msg_queue'[e][i] = msg_queue[e][j]
  <2>1. PICK s : s = msg_queue[e]
    BY Zenon
  <2>2. /\ 1 \in DOMAIN s /\ Head(s) = s[1]
        /\ \A i \in DOMAIN Tail(s) : i + 1 \in DOMAIN s /\ Tail(s)[i] = s[i + 1]
    BY Zenon, <1>4, <2>1, TailProperties
  <2>. QED BY ZenonT(40), <1>4, <2>1, <2>2
<1>6. ClosedUnlinked' /\ CallsMatched'
  BY Zenon, <1>2, <1>3 DEF ClosedUnlinked, CallsMatched
<1>7. OneCaller(x)'
  <2>1. CASE e = x
    <3>1. requests'[x] = {}
      BY ZenonT(40), <1>3, <1>4, <1>5, <2>1 DEF OneCaller
    <3>2. \A i \in DOMAIN msg_queue'[x] : msg_queue'[x][i].kind # "request"
      BY <1>3, <1>5, <2>1 DEF OneCaller
    <3>. QED BY Zenon, <1>2, <1>3, <3>1, <3>2 DEF OneCaller
  <2>2. CASE e # x
    BY Zenon, <1>2, <1>3, <1>4, <2>2 DEF OneCaller
  <2>. QED BY Zenon, <2>1, <2>2
<1>8. Asked(x, p)'
  <2>1. Unique(msg_queue[p], requests[p])'
    BY Zenon, <1>1, <1>3, <1>4, UniqueTail DEF Asked
  <2>2. ASSUME NEW i \in DOMAIN msg_queue'[p]
        PROVE  (Mine(msg_queue[p][i]) /\ Fits(msg_queue[p][i], x))'
    <3>1. PICK j \in DOMAIN msg_queue[p] : msg_queue'[p][i] = msg_queue[p][j]
      <4>1. CASE e = p
        BY Zenon, <1>5, <2>2, <4>1
      <4>2. CASE e # p
        <5>1. msg_queue'[p] = msg_queue[p]
          BY Zenon, <1>1, <1>4, <4>2
        <5>. QED BY Zenon, <2>2, <5>1
      <4>. QED BY Zenon, <4>1, <4>2
    <3>2. PICK k : k = msg_queue'[p][i] /\ Mine(k) /\ Fits(k, x)
      BY Zenon, <1>3, <3>1 DEF Asked
    <3>. QED BY Zenon, <1>2, <3>2 DEF Mine, Fits
  <2>3. ASSUME NEW r \in requests'[p] PROVE (Mine(r) /\ Fits(r, x))'
    <3>1. r \in requests[p] \/ \E j \in DOMAIN msg_queue[p] : r = msg_queue[p][j]
      BY <1>1, <1>4, <1>5, <2>3
    <3>2. Mine(r) /\ Fits(r, x)
      BY Zenon, <1>3, <3>1 DEF Asked
    <3>. QED BY Zenon, <1>2, <3>2 DEF Mine, Fits
  <2>. QED BY Zenon, <2>1, <2>2, <2>3 DEF Asked
<1>. QED BY Zenon, <1>6, <1>7, <1>8 DEF MatchInv, p, Peer

\* Waiters are cancelled when the channel is closed.
LEMMA CancelMatches ==
  ASSUME TypeOK, ListedInv, NEW x \in Ends, MatchInv(x), NEW e \in Ends, CancelWaiters(e),
         ~linked', UNCHANGED <<msg_queue, requests>>
  PROVE  MatchInv(x)'
<1>. DEFINE p == Peer(x)
<1>1. OneCaller(x) /\ Asked(x, p) /\ CallsMatched
  BY Zenon DEF MatchInv
<1>. HIDE DEF p
<1>2. ASSUME NEW c \in Clients
      PROVE  \/ waiter'[c] = waiter[c]
             \/ /\ waiter[c].status = "waiting" /\ waiter'[c].status = "closed"
                /\ waiter'[c].end = waiter[c].end /\ waiter'[c].txid = waiter[c].txid
  <2>1. CASE c \in waiters[e]
    <3>1. waiter[c] \in Waiters /\ waiter[c].status = "waiting"
      BY Zenon, <2>1 DEF TypeOK, ListedInv, WaitersListed
    <3>2. waiter'[c] = [waiter[c] EXCEPT !.status = "closed"]
      BY Zenon, <2>1 DEF CancelWaiters
    <3>. QED BY <3>1, <3>2, CancelTypes
  <2>2. CASE c \notin waiters[e]
    BY Zenon, <2>2 DEF CancelWaiters
  <2>. QED BY Zenon, <2>1, <2>2
<1>3. waiters'[x] \subseteq waiters[x] /\ waiters[x] \subseteq Clients
  BY Zenon DEF CancelWaiters, TypeOK
<1>4. ASSUME NEW k \in Messages, Mine(k) /\ Fits(k, x)
      PROVE  /\ k.of # None => waiter'[k.of].status \in {"waiting", "closed"}
                               /\ waiter'[k.of].txid = k.txid
             /\ \A b \in waiters'[x] : k.txid = waiter'[b].txid => k.of = b
  <2>1. k.of # None => k.of \in Clients
    BY Zenon DEF Messages
  <2>2. \A c \in Clients : waiter'[c].txid = waiter[c].txid
    BY Zenon, <1>2
  <2>3. \A c \in Clients : waiter[c].status \in {"waiting", "closed"} =>
                             waiter'[c].status \in {"waiting", "closed"}
    BY Zenon, <1>2
  <2>. QED BY Zenon, <1>3, <1>4, <2>1, <2>2, <2>3 DEF Mine, Fits
<1>5. Asked(x, p)'
  <2>1. /\ \A i \in DOMAIN msg_queue[p] : msg_queue[p][i] \in Messages
        /\ requests[p] \subseteq Messages
    <3>1. p \in Ends
      BY Zenon, PeerEnds DEF p
    <3>. QED BY <3>1 DEF TypeOK
  <2>2. ASSUME NEW i \in DOMAIN msg_queue'[p]
        PROVE  (Mine(msg_queue[p][i]) /\ Fits(msg_queue[p][i], x))'
    <3>1. PICK k \in Messages : k = msg_queue[p][i] /\ k = msg_queue'[p][i] /\ Mine(k) /\ Fits(k, x)
      BY Zenon, <1>1, <2>1, <2>2 DEF Asked
    <3>. QED BY Zenon, <1>4, <3>1 DEF Mine, Fits
  <2>3. ASSUME NEW r \in requests'[p] PROVE (Mine(r) /\ Fits(r, x))'
    BY Zenon, <1>1, <1>4, <2>1, <2>3 DEF Asked, Mine, Fits
  <2>. QED BY Zenon, <1>1, <2>2, <2>3 DEF Asked
<1>6. OneCaller(x)'
  <2>1. \A c \in Clients : waiter'[c].status # "idle" => waiter'[c].end = x /\ waiter'[c].txid # 0
    BY Zenon, <1>1, <1>2 DEF OneCaller
  <2>. QED BY Zenon, <1>1, <2>1 DEF OneCaller
<1>7. CallsMatched'
  BY Zenon, <1>1, <1>2 DEF CallsMatched
<1>8. ClosedUnlinked'
  BY Zenon DEF ClosedUnlinked
<1>. QED BY Zenon, <1>5, <1>6, <1>7, <1>8 DEF MatchInv, p, Peer

\* The txid of a new call is not that of any message on its way to the peer.
LEMMA FreshTxid ==
  ASSUME TypeOK, ListedInv, NEW x \in Ends, NEW p \in Ends, OneCaller(x), Asked(x, p), ClosedUnlinked,
         linked, NEW txid, txid \notin InUse(x), NotStale(txid)
  PROVE  /\ \A i \in DOMAIN msg_queue[p] : msg_queue[p][i].txid # txid
         /\ \A q \in requests[p] : q.txid # txid
         /\ \A c \in waiters[x] : waiter[c].txid # txid
<1>1. \A c \in waiters[x] : waiter[c].txid # txid
  BY Zenon DEF InUse
<1>2. ASSUME NEW k \in Messages, k \in InFlight, Mine(k), k.txid = txid PROVE FALSE
  <2>1. k.of # None
    BY Zenon, <1>2 DEF NotStale
  <2>2. k.of \in Clients /\ waiter[k.of].status \in {"waiting", "closed"} /\ waiter[k.of].txid = txid
    BY Zenon, <1>2, <2>1 DEF Mine, Messages
  <2>3. waiter[k.of].status = "waiting" /\ waiter[k.of].end = x
    BY Zenon, <2>2 DEF ClosedUnlinked, OneCaller
  <2>4. k.of \in waiters[x]
    BY Zenon, <2>2, <2>3 DEF ListedInv, WaitersListed
  <2>. QED BY Zenon, <1>1, <2>2, <2>4
<1>3. ASSUME NEW k, k \in requests[p] \/ \E i \in DOMAIN msg_queue[p] : k = msg_queue[p][i]
      PROVE  k \in Messages /\ k \in InFlight /\ Mine(k)
  <2>1. k \in Messages
    BY <1>3 DEF TypeOK
  <2>2. k \in InFlight
    BY <1>3 DEF InFlight
  <2>3. Mine(k)
    BY Zenon, <1>3 DEF Asked
  <2>. QED BY Zenon, <2>1, <2>2, <2>3
<1>. QED BY Zenon, <1>1, <1>2, <1>3

\* A new call sends its request with a txid of its own.
LEMMA CallMatches ==
  ASSUME TypeOK, ListedInv, NEW x \in Ends, Callers \subseteq {x}, MatchInv(x),
         NEW a \in Actors, NEW e \in Ends, Call(a, e)
  PROVE  MatchInv(x)'
<1>. DEFINE p == Peer(x)
<1>1. p \in Ends /\ p # x
  BY Zenon, PeerEnds
<1>2. /\ e = x /\ a \in Clients /\ linked /\ stack[a] = <<>> /\ call[a] = "none"
      /\ linked' = linked /\ requests' = requests
  BY Zenon DEF Call, CanCall
<1>3. OneCaller(x) /\ Asked(x, p) /\ ClosedUnlinked /\ CallsMatched
  BY Zenon DEF MatchInv
<1>4. PICK txid \in Txids :
        LET m == [kind |-> "request", txid |-> txid, of |-> a]
            new == [end |-> x, txid |-> txid, status |-> "waiting", got |-> Plain]
        IN  /\ AllocateTxid(x, txid) /\ NotStale(txid)
            /\ WriteSelfLocked(a, p, m, [waiters EXCEPT ![x] = @ \cup {a}],
                               [waiter EXCEPT ![a] = new], "wait")
  BY Zenon, <1>2 DEF Call
<1>. DEFINE m == [kind |-> "request", txid |-> txid, of |-> a]
            new == [end |-> x, txid |-> txid, status |-> "waiting", got |-> Plain]
            ws == [waiters EXCEPT ![x] = @ \cup {a}]
            w == [waiter EXCEPT ![a] = new]
<1>5. m \in Messages /\ new \in Waiters /\ m.txid = txid /\ m.of = a
  BY Zenon, <1>2, CallTypes
<1>6. new.end = x /\ new.status = "waiting" /\ new.txid = txid
  BY Zenon
<1>7. WriteSelfLocked(a, p, m, ws, w, "wait")
  BY Zenon, <1>4
<1>. HIDE DEF m, new, p
<1>8. /\ ws \in [Ends -> SUBSET Clients] /\ ws[x] = waiters[x] \cup {a} /\ ws[p] = waiters[p]
  BY Zenon, <1>1, <1>2 DEF TypeOK
<1>9. /\ w \in [Clients -> Waiters] /\ w[a] = new
      /\ \A c \in Clients \ {a} : w[c] = waiter[c]
  BY Zenon, <1>2, <1>5 DEF TypeOK
<1>. HIDE DEF ws, w
<1>10. waiters[p] = {} /\ \A c \in waiters[x] : c \in Clients
  BY Zenon, <1>3, ListedAtCaller DEF p
<1>11. waiters' = ws /\ waiter' = w /\ msg_queue' = [msg_queue EXCEPT ![p] = Append(@, m)]
  BY <1>1, <1>5, <1>7, <1>8, <1>9, <1>10, WriteOutcome
<1>12. waiter[a].status = "idle"
  BY Zenon, <1>2 DEF ListedInv, InCall
<1>13. /\ \A i \in DOMAIN msg_queue[p] : msg_queue[p][i].txid # txid
       /\ \A q \in requests[p] : q.txid # txid
       /\ \A c \in waiters[x] : waiter[c].txid # txid
  <2>1. txid \notin InUse(x) /\ NotStale(txid)
    BY Zenon, <1>4 DEF AllocateTxid
  <2>. QED BY Zenon, <1>1, <1>2, <1>3, <2>1, FreshTxid
<1>14. a # None /\ txid # 0
  <2>1. a # None
    BY Zenon, ActorsAssumption
  <2>2. txid # 0
    BY BoundsAssumption DEF Txids
  <2>. QED BY Zenon, <2>1, <2>2
<1>15. a \notin waiters[x]
  BY Zenon, <1>2, <1>12 DEF ListedInv, WaitersListed
<1>16. ASSUME NEW k \in Messages, Mine(k) /\ Fits(k, x), k.txid # txid
       PROVE  /\ k.of # a
              /\ k.of # None => w[k.of].status \in {"waiting", "closed"} /\ w[k.of].txid = k.txid
              /\ \A b \in ws[x] : k.txid = w[b].txid => k.of = b
  <2>1. k.of # None => k.of \in Clients
    BY Zenon DEF Messages
  <2>2. k.of # a
    BY Zenon, <1>12, <1>14, <1>16 DEF Mine
  <2>3. k.of # None => w[k.of] = waiter[k.of]
    BY Zenon, <1>9, <2>1, <2>2
  <2>4. ASSUME NEW b \in ws[x], k.txid = w[b].txid PROVE k.of = b
    <3>1. b # a
      BY Zenon, <1>6, <1>9, <1>16, <2>4
    <3>2. b \in waiters[x] /\ w[b] = waiter[b]
      BY Zenon, <1>8, <1>9, <1>10, <2>4, <3>1
    <3>. QED BY Zenon, <1>16, <2>4, <3>2 DEF Fits
  <2>. QED BY Zenon, <1>16, <2>2, <2>3, <2>4 DEF Mine
<1>17. /\ m.of # None => w[m.of].status \in {"waiting", "closed"} /\ w[m.of].txid = m.txid
       /\ \A b \in ws[x] : m.txid = w[b].txid => m.of = b
  BY ZenonT(40), <1>5, <1>6, <1>8, <1>9, <1>10, <1>13, <1>15
<1>18. /\ msg_queue'[x] = msg_queue[x] /\ msg_queue'[p] = Append(msg_queue[p], m)
       /\ msg_queue[p] \in Seq(Messages) /\ requests[p] \subseteq Messages
  BY Zenon, <1>1, <1>11 DEF TypeOK
<1>19. \A i \in DOMAIN msg_queue[p] : msg_queue[p][i] \in Messages
  BY <1>18
<1>20. Asked(x, p)'
  <2>1. /\ \A i \in DOMAIN msg_queue[p] : msg_queue[p][i].of # a
        /\ \A q \in requests[p] : q.of # a
    BY Zenon, <1>3, <1>13, <1>16, <1>18, <1>19 DEF Asked
  <2>2. Unique(msg_queue[p], requests[p])
    BY Zenon, <1>3 DEF Asked
  <2>3. Unique(msg_queue[p], requests[p])'
    BY Zenon, <1>2, <1>5, <1>18, <2>1, <2>2, UniqueAppend
  <2>4. ASSUME NEW i \in DOMAIN msg_queue'[p]
        PROVE  (Mine(msg_queue[p][i]) /\ Fits(msg_queue[p][i], x))'
    <3>1. (i \in DOMAIN msg_queue[p] /\ msg_queue'[p][i] = msg_queue[p][i]) \/ msg_queue'[p][i] = m
      BY <1>5, <1>18, <2>4, AppendIndices
    <3>2. PICK k : /\ k = msg_queue'[p][i]
                   /\ k.of # None => w[k.of].status \in {"waiting", "closed"} /\ w[k.of].txid = k.txid
                   /\ \A b \in ws[x] : k.txid = w[b].txid => k.of = b
      <4>1. CASE msg_queue'[p][i] = m
        BY Zenon, <1>17, <4>1
      <4>2. CASE i \in DOMAIN msg_queue[p] /\ msg_queue'[p][i] = msg_queue[p][i]
        BY Zenon, <1>3, <1>13, <1>16, <1>19, <4>2 DEF Asked
      <4>. QED BY Zenon, <3>1, <4>1, <4>2
    <3>. QED BY Zenon, <1>11, <3>2 DEF Mine, Fits
  <2>5. ASSUME NEW r \in requests'[p] PROVE (Mine(r) /\ Fits(r, x))'
    <3>1. r \in Messages /\ Mine(r) /\ Fits(r, x) /\ r.txid # txid
      BY Zenon, <1>2, <1>3, <1>13, <1>18, <2>5 DEF Asked
    <3>. QED BY Zenon, <1>11, <1>16, <3>1 DEF Mine, Fits
  <2>. QED BY Zenon, <2>3, <2>4, <2>5 DEF Asked
<1>21. OneCaller(x)'
  <2>1. \A c \in Clients : w[c].status # "idle" => w[c].end = x /\ w[c].txid # 0
    BY Zenon, <1>3, <1>6, <1>9, <1>14 DEF OneCaller
  <2>. QED BY Zenon, <1>2, <1>3, <1>11, <1>18, <2>1 DEF OneCaller
<1>22. ClosedUnlinked' /\ CallsMatched'
  <2>1. \A c \in Clients : w[c].status \in {"ok", "closed"} => w[c] = waiter[c]
    BY Zenon, <1>6, <1>9
  <2>. QED BY ZenonT(40), <1>2, <1>3, <1>11, <2>1 DEF ClosedUnlinked, CallsMatched
<1>. QED BY Zenon, <1>20, <1>21, <1>22 DEF MatchInv, p, Peer

\* A call that returns leaves no message of its own behind.
LEMMA ReturnMatches ==
  ASSUME TypeOK, ListedInv, NEW x \in Ends, MatchInv(x), NEW c \in Clients, CallReturns(c)
  PROVE  MatchInv(x)'
<1>. DEFINE p == Peer(x)
<1>1. p \in Ends
  BY Zenon, PeerEnds
<1>2. OneCaller(x) /\ Asked(x, p) /\ ClosedUnlinked /\ CallsMatched
  BY Zenon DEF MatchInv
<1>. HIDE DEF p
<1>3. /\ linked' = linked
      /\ \A d \in Ends : /\ msg_queue'[d] = [i \in DOMAIN msg_queue[d] |-> Disown(msg_queue[d][i], c)]
                         /\ requests'[d] = {Disown(q, c) : q \in requests[d]}
  BY Zenon DEF CallReturns
<1>4. waiter'[c] = NoWaiter /\ \A b \in Clients \ {c} : waiter'[b] = waiter[b]
  BY Zenon DEF CallReturns, TypeOK
<1>5. waiters'[x] \subseteq waiters[x] \ {c}
  <2>1. waiters' = [waiters EXCEPT ![waiter[c].end] = IF Erases(c) THEN @ \ {c} ELSE @]
    BY Zenon DEF CallReturns
  <2>2. waiters \in [Ends -> SUBSET Clients]
    BY Zenon DEF TypeOK
  <2>3. c \in waiters[x] => waiter[c].end = x /\ Erases(c)
    BY Zenon DEF ListedInv, WaitersListed, Erases
  <2>4. CASE waiter[c].end = x
    <3>1. waiters'[x] = IF Erases(c) THEN waiters[x] \ {c} ELSE waiters[x]
      BY Zenon, <2>1, <2>2, <2>4
    <3>. QED BY Zenon, <2>3, <3>1
  <2>5. CASE waiter[c].end # x
    <3>1. waiters'[x] = waiters[x]
      BY Zenon, <2>1, <2>2, <2>5
    <3>. QED BY Zenon, <2>3, <2>5, <3>1
  <2>. QED BY Zenon, <2>4, <2>5
<1>6. NoWaiter.status = "idle"
  BY Zenon DEF NoWaiter
<1>7. \A d \in Ends : /\ msg_queue[d] \in Seq(Messages) /\ requests[d] \subseteq Messages
                      /\ waiters[d] \subseteq Clients
  BY Zenon DEF TypeOK
<1>8. \A d \in Ends : \A i \in DOMAIN msg_queue[d] : msg_queue[d][i] \in Messages
  BY <1>7
<1>9. ASSUME NEW k \in Messages, Mine(k) /\ Fits(k, x), NEW m, m = Disown(k, c)
      PROVE  /\ m.of # None => waiter'[m.of].status \in {"waiting", "closed"}
                               /\ waiter'[m.of].txid = m.txid
             /\ \A b \in waiters'[x] : m.txid = waiter'[b].txid => m.of = b
  <2>1. k.of # None => k.of \in Clients
    BY Zenon DEF Messages
  <2>2. m.txid = k.txid /\ (m.of # None => k.of # c) /\ (k.of # c => m = k)
    BY Zenon, <1>9, DisownProperties
  <2>3. m.of # None => waiter'[m.of].status \in {"waiting", "closed"} /\ waiter'[m.of].txid = m.txid
    BY Zenon, <1>4, <1>9, <2>1, <2>2 DEF Mine
  <2>4. ASSUME NEW b \in waiters'[x], m.txid = waiter'[b].txid PROVE m.of = b
    <3>1. b \in waiters[x] /\ b # c /\ waiter'[b] = waiter[b]
      BY Zenon, <1>4, <1>5, <1>7, <2>4
    <3>2. k.of = b
      BY Zenon, <1>9, <2>2, <2>4, <3>1 DEF Fits
    <3>. QED BY Zenon, <2>2, <3>1, <3>2
  <2>. QED BY Zenon, <2>3, <2>4
<1>10. /\ msg_queue'[p] = [i \in DOMAIN msg_queue[p] |-> Disown(msg_queue[p][i], c)]
      /\ requests'[p] = {Disown(q, c) : q \in requests[p]}
  BY Zenon, <1>1, <1>3
<1>11. Asked(x, p)'
  <2>1. Unique(msg_queue[p], requests[p])'
    <3>1. PICK s \in Seq(Messages), R \in SUBSET Messages :
            s = msg_queue[p] /\ R = requests[p] /\ Unique(s, R)
      BY Zenon, <1>1, <1>2, <1>7 DEF Asked
    <3>2. Unique([i \in DOMAIN s |-> Disown(s[i], c)], {Disown(q, c) : q \in R})
      BY Zenon, <3>1, UniqueDisown
    <3>. QED BY Zenon, <1>10, <3>1, <3>2
  <2>2. ASSUME NEW i \in DOMAIN msg_queue'[p]
        PROVE  (Mine(msg_queue[p][i]) /\ Fits(msg_queue[p][i], x))'
    <3>1. i \in DOMAIN msg_queue[p] /\ msg_queue'[p][i] = Disown(msg_queue[p][i], c)
      BY Zenon, <1>10, <2>2
    <3>2. PICK k \in Messages : k = msg_queue[p][i] /\ Mine(k) /\ Fits(k, x)
      BY Zenon, <1>1, <1>2, <1>8, <3>1 DEF Asked
    <3>3. PICK m : m = msg_queue'[p][i] /\ m = Disown(k, c)
      BY Zenon, <3>1, <3>2
    <3>4. /\ m.of # None => waiter'[m.of].status \in {"waiting", "closed"}
                            /\ waiter'[m.of].txid = m.txid
          /\ \A b \in waiters'[x] : m.txid = waiter'[b].txid => m.of = b
      BY Zenon, <1>9, <3>2, <3>3
    <3>. QED BY Zenon, <3>3, <3>4 DEF Mine, Fits
  <2>3. ASSUME NEW r \in requests'[p] PROVE (Mine(r) /\ Fits(r, x))'
    <3>1. PICK k \in requests[p] : r = Disown(k, c)
      BY Zenon, <1>10, <2>3
    <3>2. k \in Messages /\ Mine(k) /\ Fits(k, x)
      BY Zenon, <1>1, <1>2, <1>7 DEF Asked
    <3>. QED BY ZenonT(40), <1>9, <3>1, <3>2 DEF Mine, Fits
  <2>. QED BY Zenon, <2>1, <2>2, <2>3 DEF Asked
<1>12. OneCaller(x)'
  <2>1. requests'[x] = {}
    BY Zenon, <1>2, <1>3 DEF OneCaller
  <2>2. ASSUME NEW i \in DOMAIN msg_queue'[x] PROVE msg_queue'[x][i].kind # "request"
    <3>1. i \in DOMAIN msg_queue[x] /\ msg_queue'[x][i] = Disown(msg_queue[x][i], c)
      BY Zenon, <1>3, <2>2
    <3>2. PICK k \in Messages : k = msg_queue[x][i] /\ k.kind # "request"
      BY Zenon, <1>2, <1>8, <3>1 DEF OneCaller
    <3>3. Disown(k, c).kind # "request"
      BY Zenon, <3>2, DisownProperties
    <3>. QED BY Zenon, <3>1, <3>2, <3>3
  <2>3. \A b \in Clients : waiter'[b].status # "idle" => waiter'[b].end = x /\ waiter'[b].txid # 0
    BY Zenon, <1>2, <1>4, <1>6 DEF OneCaller
  <2>. QED BY Zenon, <2>1, <2>2, <2>3 DEF OneCaller
<1>13. ClosedUnlinked' /\ CallsMatched'
  <2>1. \A b \in Clients : waiter'[b].status \in {"ok", "closed"} => waiter'[b] = waiter[b]
    BY Zenon, <1>4, <1>6
  <2>. QED BY Zenon, <1>2, <1>3, <2>1 DEF ClosedUnlinked, CallsMatched
<1>. QED BY Zenon, <1>11, <1>12, <1>13 DEF MatchInv, p, Peer

\* Replies find their calls in every step.
LEMMA MatchNext ==
  ASSUME NEW x \in Ends, Callers \subseteq {x},
         TypeOK, ListedInv, ClosedInv, MatchInv(x), [Next]_vars
  PROVE  MatchInv(x)'
<1>1. ASSUME UNCHANGED <<linked, msg_queue, requests, waiters, waiter>> PROVE MatchInv(x)'
  BY ZenonT(40), <1>1 DEF MatchInv, OneCaller, Asked, Mine, Fits, ClosedUnlinked, CallsMatched, Peer
<1>2. ASSUME NEW a \in Actors, NEW e \in Ends, ApiCall(a, e) PROVE MatchInv(x)'
  <2>1. ASSUME NEW m \in Outgoing(e), Write(a, e, m) PROVE MatchInv(x)'
    <3>1. e = x \/ e = Peer(x)
      BY Zenon, PeerEnds
    <3>. QED BY Zenon, <2>1, <3>1, CallerWriteMatches, ReplyMatches
  <2>2. CASE Read(a, e)
    BY Zenon, <2>2, ReadMatches
  <2>3. CASE Call(a, e)
    BY Zenon, <2>3, CallMatches
  <2>4. CASE WaitAsync(a, e) \/ CancelWait(a, e) \/ CancelWaitUnsynchronized(a, e)
    <3>1. UNCHANGED <<linked, msg_queue, requests, waiters, waiter>>
      BY ZenonT(40), <2>4 DEF WaitAsync, CancelWait, CancelWaitUnsynchronized, call_state
    <3>. QED BY Zenon, <1>1, <3>1
  <2>5. CASE Close(a, e)
    <3>1. CancelWaiters(e) /\ ~linked' /\ UNCHANGED <<msg_queue, requests>>
      BY Zenon, <2>5 DEF Close
    <3>. QED BY Zenon, <3>1, CancelMatches
  <2>. QED BY Zenon, <1>2, <2>1, <2>2, <2>3, <2>4, <2>5 DEF ApiCall
<1>3. ASSUME NEW a \in Actors, OnPeerClosed(a) PROVE MatchInv(x)'
  <2>1. PICK e \in Ends : e = todo[a].end
    BY Zenon DEF TypeOK, Todos
  <2>2. CancelWaiters(e) /\ ~linked' /\ UNCHANGED <<msg_queue, requests>>
    BY Zenon, <1>3, <2>1 DEF OnPeerClosed, ClosedInv
  <2>. QED BY Zenon, <2>2, CancelMatches
<1>4. ASSUME NEW a \in Actors,
             QueueRegisteredCallback(a) \/ DispatcherCallback(a) \/ CallbackReturns(a)
      PROVE  UNCHANGED <<linked, msg_queue, requests, waiters, waiter>>
  BY Zenon, <1>4 DEF QueueRegisteredCallback, DispatcherCallback, CallbackReturns, call_state
<1>5. ASSUME NEW t \in Threads, NEW e \in Ends,
             \/ \E takes \in BOOLEAN : DispatchCallbacks(t, e, takes)
             \/ DispatchCallback(t, e)
             \/ CompleteShutdown(t, e)
      PROVE  UNCHANGED <<linked, msg_queue, requests, waiters, waiter>>
  BY Zenon, <1>5 DEF DispatchCallbacks, DispatchCallback, CompleteShutdown, call_state
<1>6. ASSUME NEW e \in Ends, ShutdownAsync(e)
      PROVE  UNCHANGED <<linked, msg_queue, requests, waiters, waiter>>
  BY Zenon, <1>6 DEF ShutdownAsync, call_state
<1>7. UNCHANGED vars => UNCHANGED <<linked, msg_queue, requests, waiters, waiter>>
  BY Zenon DEF vars, call_state
<1>8. ASSUME NEW c \in Clients, CallReturns(c) PROVE MatchInv(x)'
  BY Zenon, <1>8, ReturnMatches
<1>. QED BY Zenon, <1>1, <1>2, <1>3, <1>4, <1>5, <1>6, <1>7, <1>8 DEF Next, ActorStep

\* A call that succeeds has got the reply to its own request, whatever the
\* number of clients, txids and messages, if calls are made on one end only
\* (Channel::Call, WriteSelfLocked).
THEOREM CallsGetTheirReplies ==
  ASSUME NEW x \in Ends, Callers \subseteq {x}
  PROVE  Spec => []CallsMatched
<1>1. Init => MatchInv(x)
  <2>. SUFFICES ASSUME Init PROVE MatchInv(x)
    BY Zenon
  <2>1. \A e \in Ends : msg_queue[e] = <<>> /\ DOMAIN msg_queue[e] = {} /\ requests[e] = {}
    BY DEF Init
  <2>2. \A c \in Clients : waiter[c].status = "idle"
    BY Zenon DEF Init, NoWaiter
  <2>3. Peer(x) \in Ends
    BY Zenon, PeerEnds
  <2>. QED BY Zenon, <2>1, <2>2, <2>3 DEF MatchInv, OneCaller, Asked, Unique, ClosedUnlinked,
                                              CallsMatched
<1>2. TypeOK /\ ListedInv /\ ClosedInv /\ MatchInv(x) /\ [Next]_vars => MatchInv(x)'
  BY Zenon, MatchNext
<1>3. MatchInv(x) => CallsMatched
  BY Zenon DEF MatchInv
<1>. QED BY <1>1, <1>2, <1>3, ChannelTypes, ListedInvariant, ClosedInvariant, PTL DEF Spec
=============================================================================
