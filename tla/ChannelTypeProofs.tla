------------------------- MODULE ChannelTypeProofs --------------------------
(***************************************************************************)
(* The types of a channel, what its steps do to the stacks of callbacks,   *)
(* and its list of waiters.                                                *)
(***************************************************************************)
EXTENDS Channel, TLAPS

-----------------------------------------------------------------------------
(* Numbers and sequences. *)

\* The indices of all but the last.
LEMMA FirstIndices == \A n \in Nat : \A i \in 1 .. n - 1 : i \in 1 .. n /\ i # n
OBVIOUS

\* Pushing a frame leaves the frames below it.
LEMMA PushProperties ==
  ASSUME NEW S, NEW s \in Seq(S), NEW x \in S
  PROVE  /\ Append(s, x) \in Seq(S)
         /\ Append(s, x) # <<>>
         /\ Len(Append(s, x)) = Len(s) + 1
         /\ DOMAIN Append(s, x) = 1 .. Len(s) + 1
         /\ \A i \in 1 .. Len(s) : Append(s, x)[i] = s[i]
         /\ Append(s, x)[Len(s) + 1] = x
OBVIOUS

\* Popping a frame leaves the frames below it.
Below(s) == SubSeq(s, 1, Len(s) - 1)
LEMMA PopProperties ==
  ASSUME NEW S, NEW s \in Seq(S), s # <<>>
  PROVE  /\ Len(s) \in Nat \ {0}
         /\ DOMAIN s = 1 .. Len(s)
         /\ s[Len(s)] \in S
         /\ Below(s) \in Seq(S)
         /\ Len(Below(s)) = Len(s) - 1
         /\ DOMAIN Below(s) = 1 .. Len(s) - 1
         /\ \A i \in 1 .. Len(s) - 1 : Below(s)[i] = s[i]
<1>1. Len(s) \in Nat \ {0} /\ DOMAIN s = 1 .. Len(s) /\ \A i \in 1 .. Len(s) : s[i] \in S
  OBVIOUS
<1>2. /\ Below(s) \in Seq(S)
      /\ Len(Below(s)) = Len(s) - 1
      /\ \A i \in 1 .. Len(s) - 1 : Below(s)[i] = s[i]
  <2>3. /\ SubSeq(s, 1, Len(s) - 1) \in Seq(S)
        /\ Len(SubSeq(s, 1, Len(s) - 1)) = IF 1 <= Len(s) - 1 THEN (Len(s) - 1) - 1 + 1 ELSE 0
        /\ \A i \in 1 .. (Len(s) - 1) - 1 + 1 : SubSeq(s, 1, Len(s) - 1)[i] = s[1 + i - 1]
    BY <1>1
  <2>. QED BY <1>1, <2>3 DEF Below
<1>3. DOMAIN Below(s) = 1 .. Len(s) - 1
  BY <1>2
<1>. QED BY <1>1, <1>2, <1>3

\* Changing the last frame leaves the frames below it.
LEMMA TurnProperties ==
  ASSUME NEW S, NEW s \in Seq(S), s # <<>>, NEW x \in S
  PROVE  LET t == [s EXCEPT ![Len(s)] = x] IN
         /\ t \in Seq(S) /\ t # <<>> /\ Len(t) = Len(s) /\ DOMAIN t = 1 .. Len(s)
         /\ \A i \in 1 .. Len(s) - 1 : t[i] = s[i]
         /\ t[Len(s)] = x
<1>. DEFINE t == [s EXCEPT ![Len(s)] = x]
<1>1. Len(s) \in Nat \ {0} /\ DOMAIN s = 1 .. Len(s) /\ Len(s) \in 1 .. Len(s)
  OBVIOUS
<1>2. t \in Seq(S) /\ Len(t) = Len(s)
  BY <1>1
<1>3. DOMAIN t = 1 .. Len(s) /\ t[Len(s)] = x /\ \A i \in 1 .. Len(s) - 1 : t[i] = s[i]
  <2>1. \A j \in 1 .. Len(s) : t[j] = IF j = Len(s) THEN x ELSE s[j]
    BY Zenon, <1>1
  <2>2. \A i \in 1 .. Len(s) - 1 : i \in 1 .. Len(s) /\ i # Len(s)
    BY Zenon, <1>1, FirstIndices
  <2>3. DOMAIN t = 1 .. Len(s)
    BY Zenon, <1>1
  <2>. HIDE DEF t
  <2>. QED BY Zenon, <1>1, <2>1, <2>2, <2>3
<1>4. t # <<>>
  BY Zenon, <1>1, <1>2
<1>. QED BY Zenon, <1>2, <1>3, <1>4

-----------------------------------------------------------------------------
(* Types. *)

\* A reply becomes the outcome of a waiter and leaves the rest of it.
LEMMA DeliverTypes ==
  ASSUME NEW w \in Waiters, NEW m \in Messages
  PROVE  LET d == [w EXCEPT !.status = "ok", !.got = m]
         IN  /\ d \in Waiters
             /\ d.status = "ok" /\ d.got = m /\ d.end = w.end /\ d.txid = w.txid
BY ZenonT(40) DEF Waiters

\* So does the closing of the channel.
LEMMA CancelTypes ==
  ASSUME NEW w \in Waiters
  PROVE  LET d == [w EXCEPT !.status = "closed"]
         IN  /\ d \in Waiters
             /\ d.status = "closed" /\ d.got = w.got /\ d.end = w.end /\ d.txid = w.txid
BY Zenon DEF Waiters

\* A reply differs from its request in its kind.
LEMMA ReplyTypes ==
  ASSUME NEW q \in Messages
  PROVE  LET m == [q EXCEPT !.kind = "reply"]
         IN  m \in Messages /\ m.kind = "reply" /\ m.txid = q.txid /\ m.of = q.of
BY Zenon DEF Messages

\* WriteSelfLocked hands over or queues a message.
LEMMA WriteTypes ==
  ASSUME TypeOK, NEW a \in Actors, NEW p \in Ends, NEW m \in Messages,
         NEW ws \in [Ends -> SUBSET Clients], NEW w \in [Clients -> Waiters],
         NEW then \in {"none", "wait"}, WriteSelfLocked(a, p, m, ws, w, then)
  PROVE  /\ msg_queue' \in [Ends -> Seq(Messages)]
         /\ pending_queue' \in [Ends -> BOOLEAN]
         /\ waiters' \in [Ends -> SUBSET Clients]
         /\ waiter' \in [Clients -> Waiters]
         /\ call' \in [Actors -> {"none", "queue", "peer_closed", "wait"}]
         /\ todo' \in [Actors -> Todos]
<1>. DEFINE hits == {c \in ws[p] : w[c].txid = m.txid}
            queue == registered[p] /\ pending_queue[p]
<1>. USE DEF TypeOK
<1>1. CASE hits # {}
  <2>1. PICK c \in hits :
          /\ waiters' = [ws EXCEPT ![p] = @ \ {c}]
          /\ waiter' = [w EXCEPT ![c] = [@ EXCEPT !.status = "ok", !.got = m]]
          /\ ThenQueue(a, FALSE, p, "ok", FALSE, then)
          /\ UNCHANGED <<msg_queue, pending_queue>>
    BY Zenon, <1>1 DEF WriteSelfLocked
  <2>2. waiters' \in [Ends -> SUBSET Clients]
    BY Zenon, <2>1
  <2>3. waiter' \in [Clients -> Waiters]
    <3>1. c \in Clients
      BY Zenon
    <3>2. [w[c] EXCEPT !.status = "ok", !.got = m] \in Waiters
      BY Zenon, <3>1, DeliverTypes
    <3>. QED BY Zenon, <2>1, <3>1, <3>2
  <2>. QED BY Zenon, <2>1, <2>2, <2>3 DEF ThenQueue, Nothing, Todos, Ends, Reasons
<1>2. CASE hits = {}
  <2>1. /\ msg_queue' = [msg_queue EXCEPT ![p] = Append(@, m)]
        /\ waiters' = ws /\ waiter' = w
        /\ pending_queue' = [pending_queue EXCEPT ![p] = @ /\ ~queue]
        /\ ThenQueue(a, queue, p, "ok", FALSE, then)
    BY Zenon, <1>2 DEF WriteSelfLocked
  <2>2. msg_queue' \in [Ends -> Seq(Messages)]
    BY <2>1, PushProperties
  <2>. QED BY Zenon, <2>1, <2>2 DEF ThenQueue, Nothing, Todos, Ends, Reasons
<1>. QED BY Zenon, <1>1, <1>2

\* The types hold initially.
LEMMA TypeInit == Init => TypeOK
BY BoundsAssumption
   DEF Init, TypeOK, Ends, NoWaiter, Plain, Nothing, Waiters, Messages, Todos, Reasons

\* What a user writes are messages.
LEMMA OutgoingTypes ==
  ASSUME TypeOK, NEW e \in Ends, NEW m \in Outgoing(e)
  PROVE  m \in Messages
<1>1. Plain \in Messages
  BY BoundsAssumption DEF Plain, Messages
<1>2. requests[e] \subseteq Messages
  BY Zenon DEF TypeOK
<1>. QED BY Zenon, <1>1, <1>2, ReplyTypes DEF Outgoing

\* The end of a call keeps the messages' type.
LEMMA DisownTypes ==
  ASSUME NEW m \in Messages, NEW c
  PROVE  Disown(m, c) \in Messages
BY Zenon DEF Disown, Messages

\* What Call writes and waits with.
LEMMA CallTypes ==
  ASSUME NEW c \in Clients, NEW e \in Ends, NEW txid \in Txids
  PROVE  /\ [kind |-> "request", txid |-> txid, of |-> c] \in Messages
         /\ [end |-> e, txid |-> txid, status |-> "waiting", got |-> Plain] \in Waiters
<1>1. txid \in 0 .. NumTxids
  BY BoundsAssumption DEF Txids
<1>2. Plain \in Messages
  BY BoundsAssumption DEF Plain, Messages
<1>. QED BY Zenon, <1>1, <1>2 DEF Messages, Waiters

\* Every call of the channel's operations keeps the types.
LEMMA ApiCallTypes ==
  ASSUME TypeOK, NEW a \in Actors, NEW e \in Ends, ApiCall(a, e)
  PROVE  TypeOK'
<1>. USE DEF TypeOK
<1>1. Peer(e) \in Ends
  BY DEF Ends, Peer
<1>2. ASSUME NEW m \in Outgoing(e), Write(a, e, m) PROVE TypeOK'
  <2>1. m \in Messages
    BY Zenon, OutgoingTypes
  <2>2. WriteSelfLocked(a, Peer(e), m, waiters, waiter, "none")
    BY Zenon, <1>2 DEF Write
  <2>. HIDE DEF TypeOK
  <2>3. /\ msg_queue' \in [Ends -> Seq(Messages)]
        /\ pending_queue' \in [Ends -> BOOLEAN]
        /\ waiters' \in [Ends -> SUBSET Clients]
        /\ waiter' \in [Clients -> Waiters]
        /\ call' \in [Actors -> {"none", "queue", "peer_closed", "wait"}]
        /\ todo' \in [Actors -> Todos]
    BY Zenon, <1>1, <2>1, <2>2, WriteTypes DEF TypeOK
  <2>4. requests' \in [Ends -> SUBSET Messages]
    BY Zenon, <1>2 DEF Write, TypeOK
  <2>. QED BY Zenon, <1>2, <2>3, <2>4 DEF Write, TypeOK, request_state
<1>3. CASE Read(a, e)
  <2>1. Head(msg_queue[e]) \in Messages /\ Tail(msg_queue[e]) \in Seq(Messages)
    BY <1>3 DEF Read
  <2>. QED BY Zenon, <1>3, <2>1 DEF Read, read_state, request_state, call_state, control
<1>4. CASE WaitAsync(a, e)
  <2>1. CASE where[e] # "channel"
    BY Zenon, <1>4, <2>1 DEF WaitAsync, read_state, request_state, call_state, control
  <2>2. CASE where[e] = "channel"
    <3>1. /\ registered' \in [Ends -> BOOLEAN]
          /\ pending_queue' \in [Ends -> BOOLEAN]
          /\ UNCHANGED <<linked, closed, msg_queue, running, call_state, requests, stack, batch,
                         reason>>
      BY Zenon, <1>4, <2>2 DEF WaitAsync
    <3>2. where' \in [Ends -> {"channel", "registered", "queued", "shutdown", "batch", "called"}]
      BY Zenon, <1>4, <2>2 DEF WaitAsync
    <3>3. /\ call' \in [Actors -> {"none", "queue", "peer_closed", "wait"}]
          /\ todo' \in [Actors -> Todos]
      <4>1. PICK queue \in BOOLEAN : ThenQueue(a, queue, e, "ok", TRUE, "none")
        BY Zenon, <1>4, <2>2 DEF WaitAsync
      <4>. QED BY Zenon, <4>1 DEF ThenQueue, Nothing, Todos, Ends, Reasons
    <3>. QED BY Zenon, <3>1, <3>2, <3>3 DEF call_state
  <2>. QED BY Zenon, <2>1, <2>2
<1>5. CASE CancelWait(a, e)
  <2>1. UNCHANGED <<linked, closed, msg_queue, running, call_state, requests, stack, control>>
    BY Zenon, <1>5 DEF CancelWait
  <2>2. CASE UNCHANGED <<read_state, request_state>>
    BY Zenon, <2>1, <2>2 DEF read_state, request_state, call_state, control
  <2>3. CASE /\ where' = [where EXCEPT ![e] = "channel"]
             /\ batch' = [batch EXCEPT ![e] = None]
             /\ reason' = [reason EXCEPT ![e] = "none"]
             /\ pending_queue' = [pending_queue EXCEPT ![e] = FALSE]
             /\ registered' = [registered EXCEPT ![e] = FALSE]
    BY Zenon, <2>1, <2>3 DEF call_state, control, Reasons
  <2>. QED BY Zenon, <1>5, <2>2, <2>3 DEF CancelWait
<1>6. CASE CancelWaitUnsynchronized(a, e)
  BY Zenon, <1>6 DEF CancelWaitUnsynchronized, call_state, ThenQueue, Nothing, Todos, Ends, Reasons
<1>7. CASE Call(a, e)
  <2>1. a \in Clients
    BY Zenon, <1>7 DEF Call
  <2>. PICK txid \in Txids :
         LET m == [kind |-> "request", txid |-> txid, of |-> a]
             w == [end |-> e, txid |-> txid, status |-> "waiting", got |-> Plain]
         IN  /\ WriteSelfLocked(a, Peer(e), m, [waiters EXCEPT ![e] = @ \cup {a}],
                                [waiter EXCEPT ![a] = w], "wait")
             /\ next_id' = [next_id EXCEPT ![e] = txid % NumTxids]
             /\ UNCHANGED <<linked, closed, registered, request_state, running, requests, stack,
                            panic>>
    BY Zenon, <1>7 DEF Call
  <2>. DEFINE m == [kind |-> "request", txid |-> txid, of |-> a]
              w == [end |-> e, txid |-> txid, status |-> "waiting", got |-> Plain]
              ws == [waiters EXCEPT ![e] = @ \cup {a}]
              wr == [waiter EXCEPT ![a] = w]
  <2>2. m \in Messages /\ w \in Waiters
    BY Zenon, <2>1, CallTypes
  <2>3. /\ WriteSelfLocked(a, Peer(e), m, ws, wr, "wait")
        /\ next_id' = [next_id EXCEPT ![e] = txid % NumTxids]
        /\ UNCHANGED <<linked, closed, registered, request_state, running, requests, stack, panic>>
    BY Zenon
  <2>. HIDE DEF m, w
  <2>4. ws \in [Ends -> SUBSET Clients] /\ wr \in [Clients -> Waiters]
    BY Zenon, <2>1, <2>2
  <2>. HIDE DEF ws, wr, TypeOK
  <2>5. /\ msg_queue' \in [Ends -> Seq(Messages)]
        /\ pending_queue' \in [Ends -> BOOLEAN]
        /\ waiters' \in [Ends -> SUBSET Clients]
        /\ waiter' \in [Clients -> Waiters]
        /\ call' \in [Actors -> {"none", "queue", "peer_closed", "wait"}]
        /\ todo' \in [Actors -> Todos]
    BY Zenon, <1>1, <2>2, <2>3, <2>4, WriteTypes
  <2>6. next_id' \in [Ends -> 0 .. NumTxids - 1]
    <3>1. txid % NumTxids \in 0 .. NumTxids - 1
      BY <2>2, BoundsAssumption DEF Txids
    <3>. QED BY <2>3, <3>1 DEF TypeOK
  <2>. QED BY Zenon, <2>3, <2>5, <2>6 DEF TypeOK, request_state
<1>8. CASE Close(a, e)
  <2>1. waiter' \in [Clients -> Waiters] /\ waiters' \in [Ends -> SUBSET Clients]
    BY Zenon, <1>8, CancelTypes DEF Close, CancelWaiters
  <2>. QED BY Zenon, <1>1, <1>8, <2>1
           DEF Close, read_state, request_state, Nothing, Todos, Ends, Reasons
<1>. QED BY Zenon, <1>2, <1>3, <1>4, <1>5, <1>6, <1>7, <1>8 DEF ApiCall

\* The steps of the callers and of the dispatchers keep the types.
LEMMA StepTypes ==
  ASSUME TypeOK, NEW a \in Actors, ActorStep(a) \/ CallbackReturns(a)
  PROVE  TypeOK'
<1>. USE DEF TypeOK
<1>1. CASE OnPeerClosed(a)
  <2>1. todo[a].end \in Ends
    BY Zenon DEF Todos
  <2>2. waiter' \in [Clients -> Waiters] /\ waiters' \in [Ends -> SUBSET Clients]
    BY Zenon, <1>1, <2>1, CancelTypes DEF OnPeerClosed, CancelWaiters
  <2>. QED BY Zenon, <1>1, <2>1, <2>2
           DEF OnPeerClosed, request_state, ThenQueue, Nothing, Todos, Ends, Reasons
<1>2. CASE QueueRegisteredCallback(a)
  <2>. DEFINE e == todo[a].end
              frame == [kind |-> "enter", end |-> e, status |-> todo[a].reason, managed |-> TRUE,
                        ret |-> AfterQueue(a)]
  <2>1. e \in Ends /\ todo[a].reason \in Reasons
    BY Zenon DEF Todos
  <2>2. AfterQueue(a) \in {"none", "wait"}
    BY Zenon DEF AfterQueue
  <2>3. frame \in Frames
    BY Zenon, <2>1, <2>2 DEF Frames
  <2>4. stack' = stack \/ stack' = [stack EXCEPT ![a] = Append(@, frame)]
    BY Zenon, <1>2 DEF QueueRegisteredCallback
  <2>5. stack' \in [Actors -> Seq(Frames)]
    <3>. HIDE DEF frame
    <3>1. Append(stack[a], frame) \in Seq(Frames)
      BY Zenon, <2>3, PushProperties
    <3>. QED BY Zenon, <2>4, <3>1
  <2>6. where' \in [Ends -> {"channel", "registered", "queued", "shutdown", "batch", "called"}]
    BY Zenon, <1>2, <2>1 DEF QueueRegisteredCallback
  <2>7. reason' \in [Ends -> Reasons] /\ todo' \in [Actors -> Todos]
    BY Zenon, <1>2, <2>1 DEF QueueRegisteredCallback, Nothing, Todos, Ends, Reasons
  <2>8. call' \in [Actors -> {"none", "queue", "peer_closed", "wait"}]
    BY Zenon, <1>2, <2>2 DEF QueueRegisteredCallback
  <2>. QED BY Zenon, <1>2, <2>5, <2>6, <2>7, <2>8 DEF QueueRegisteredCallback, read_state, call_state
<1>3. CASE DispatcherCallback(a)
  <2>. DEFINE s == stack[a]
              h == [Top(a) EXCEPT !.kind = "handler"]
  <2>1. s \in Seq(Frames) /\ s # <<>>
    BY Zenon, <1>3 DEF DispatcherCallback
  <2>2. Top(a) \in Frames
    BY Zenon, <2>1, PopProperties DEF Top
  <2>3. h \in Frames /\ Top(a).end \in Ends
    BY ZenonT(40), <2>2 DEF Frames
  <2>4. [s EXCEPT ![Len(s)] = h] \in Seq(Frames)
    <3>. HIDE DEF h, s
    <3>. QED BY Zenon, <2>1, <2>3, TurnProperties
  <2>5. stack' = [stack EXCEPT ![a] = [s EXCEPT ![Len(s)] = h]]
    BY Zenon, <1>3 DEF DispatcherCallback, Top
  <2>6. stack' \in [Actors -> Seq(Frames)]
    <3>. HIDE DEF h, s
    <3>. QED BY Zenon, <2>4, <2>5
  <2>. QED BY Zenon, <1>3, <2>3, <2>6 DEF DispatcherCallback, call_state, control
<1>4. CASE CallbackReturns(a)
  <2>1. Top(a) \in Frames /\ Below(stack[a]) \in Seq(Frames)
    BY Zenon, <1>4, PopProperties DEF CallbackReturns, Top
  <2>2. Top(a).ret \in {"none", "wait"}
    BY Zenon, <2>1 DEF Frames
  <2>3. stack' = [stack EXCEPT ![a] = Below(stack[a])]
    BY Zenon, <1>4 DEF CallbackReturns, Below
  <2>4. stack' \in [Actors -> Seq(Frames)]
    BY Zenon, <2>1, <2>3
  <2>. QED BY Zenon, <1>4, <2>2, <2>4 DEF CallbackReturns, read_state, request_state, call_state
<1>. QED BY Zenon, <1>1, <1>2, <1>3, <1>4 DEF ActorStep

\* The end of a call keeps the types.
LEMMA CallReturnsTypes ==
  ASSUME TypeOK, NEW c \in Clients, CallReturns(c)
  PROVE  TypeOK'
<1>. USE DEF TypeOK
<1>1. NoWaiter \in Waiters
  BY BoundsAssumption DEF NoWaiter, Waiters, Plain, Messages, Ends
<1>2. msg_queue' \in [Ends -> Seq(Messages)]
  <2>1. ASSUME NEW p \in Ends
        PROVE  [i \in DOMAIN msg_queue[p] |-> Disown(msg_queue[p][i], c)] \in Seq(Messages)
    <3>. DEFINE q == msg_queue[p]
    <3>0. q \in Seq(Messages)
      BY Zenon
    <3>. HIDE DEF TypeOK, Disown, q
    <3>2. /\ Len(q) \in Nat /\ DOMAIN q = 1 .. Len(q)
          /\ \A i \in 1 .. Len(q) : q[i] \in Messages
      BY <3>0
    <3>3. [i \in DOMAIN q |-> Disown(q[i], c)] \in Seq(Messages)
      <4>1. \A i \in 1 .. Len(q) : Disown(q[i], c) \in Messages
        BY Zenon, <3>2, DisownTypes
      <4>. QED BY <3>2, <4>1
    <3>. QED BY Zenon, <3>3 DEF q
  <2>. QED BY Zenon, <2>1 DEF CallReturns
<1>3. requests' \in [Ends -> SUBSET Messages]
  BY DisownTypes DEF CallReturns
<1>4. waiters' \in [Ends -> SUBSET Clients] /\ waiter' \in [Clients -> Waiters]
  BY Zenon, <1>1 DEF CallReturns
<1>5. call' \in [Actors -> {"none", "queue", "peer_closed", "wait"}]
  BY Zenon DEF CallReturns
<1>. QED BY Zenon, <1>2, <1>3, <1>4, <1>5 DEF CallReturns, read_state, request_state

\* A loop thread's dispatching keeps the types.
LEMMA DispatchTypes ==
  ASSUME TypeOK, NEW t \in Threads, NEW e \in Ends,
         \/ \E takes \in BOOLEAN : DispatchCallbacks(t, e, takes)
         \/ DispatchCallback(t, e)
         \/ CompleteShutdown(t, e)
  PROVE  TypeOK'
<1>. USE DEF TypeOK
<1>1. t \in Actors
  BY Zenon DEF Actors
<1>2. ASSUME NEW takes \in BOOLEAN, DispatchCallbacks(t, e, takes) PROVE TypeOK'
  <2>. DEFINE f == [kind |-> "task", end |-> e, status |-> "ok", managed |-> TRUE, ret |-> "none"]
  <2>1. <<f>> \in Seq(Frames)
    BY DEF Frames, Reasons
  <2>2. stack' = [stack EXCEPT ![t] = <<f>>]
    BY Zenon, <1>2 DEF DispatchCallbacks
  <2>3. stack' \in [Actors -> Seq(Frames)]
    <3>. HIDE DEF f
    <3>. QED BY Zenon, <1>1, <2>1, <2>2
  <2>. QED BY Zenon, <1>2, <2>3 DEF DispatchCallbacks, read_state, call_state, control
<1>3. CASE DispatchCallback(t, e)
  <2>. DEFINE f == [kind |-> "enter", end |-> e, status |-> reason[e], managed |-> TRUE,
                    ret |-> "none"]
  <2>1. f \in Frames
    BY Zenon DEF Frames
  <2>2. stack' = [stack EXCEPT ![t] = Append(@, f)]
    BY Zenon, <1>3 DEF DispatchCallback
  <2>3. stack' \in [Actors -> Seq(Frames)]
    <3>. HIDE DEF f
    <3>. QED BY Zenon, <1>1, <2>1, <2>2, PushProperties
  <2>. QED BY Zenon, <1>3, <2>3 DEF DispatchCallback, read_state, call_state, control, Reasons
<1>4. CASE CompleteShutdown(t, e)
  <2>. DEFINE f == [kind |-> "enter", end |-> e,
                    status |-> IF reason[e] \in {"none", "ok"} THEN "canceled" ELSE reason[e],
                    managed |-> FALSE, ret |-> "none"]
  <2>1. <<f>> \in Seq(Frames)
    BY DEF Frames, Reasons
  <2>2. stack' = [stack EXCEPT ![t] = <<f>>]
    BY Zenon, <1>4 DEF CompleteShutdown
  <2>3. stack' \in [Actors -> Seq(Frames)]
    <3>. HIDE DEF f
    <3>. QED BY Zenon, <1>1, <2>1, <2>2
  <2>. QED BY Zenon, <1>4, <2>3 DEF CompleteShutdown, read_state, call_state, control, Reasons
<1>. QED BY Zenon, <1>2, <1>3, <1>4

\* Every step keeps the types.
LEMMA TypeNext ==
  ASSUME TypeOK, [Next]_vars
  PROVE  TypeOK'
<1>1. ASSUME NEW a \in Actors, NEW e \in Ends, ApiCall(a, e) PROVE TypeOK'
  BY Zenon, <1>1, ApiCallTypes
<1>2. ASSUME NEW a \in Actors, ActorStep(a) \/ CallbackReturns(a) PROVE TypeOK'
  BY Zenon, <1>2, StepTypes
<1>3. ASSUME NEW c \in Clients, CallReturns(c) PROVE TypeOK'
  BY Zenon, <1>3, CallReturnsTypes
<1>4. ASSUME NEW t \in Threads, NEW e \in Ends,
             \/ \E takes \in BOOLEAN : DispatchCallbacks(t, e, takes)
             \/ DispatchCallback(t, e)
             \/ CompleteShutdown(t, e)
      PROVE  TypeOK'
  BY Zenon, <1>4, DispatchTypes
<1>5. ASSUME NEW e \in Ends, ShutdownAsync(e) PROVE TypeOK'
  BY Zenon, <1>5 DEF TypeOK, ShutdownAsync, read_state, call_state, control
<1>6. CASE UNCHANGED vars
  BY Zenon, <1>6 DEF TypeOK, vars, read_state, request_state, call_state, control
<1>. QED BY Zenon, <1>1, <1>2, <1>3, <1>4, <1>5, <1>6 DEF Next

\* In every state of every channel, whatever the clients, the threads and the
\* synchronized ends, every variable has its type.
THEOREM ChannelTypes == Spec => []TypeOK
<1>1. TypeOK /\ [Next]_vars => TypeOK'
  BY Zenon, TypeNext
<1>. QED BY <1>1, TypeInit, PTL DEF Spec

-----------------------------------------------------------------------------
(* Who calls what. *)

\* The peer of an end is the other end.
LEMMA PeerEnds == \A e \in Ends : Peer(e) \in Ends /\ Peer(e) # e /\ Ends = {e, Peer(e)}
BY DEF Ends, Peer

\* Only threads that are in no call begin one.
LEMMA ApiCallFree ==
  ASSUME NEW a, NEW e, ApiCall(a, e)
  PROVE  CanCall(a)
BY Zenon DEF ApiCall, Write, Read, WaitAsync, CancelWait, CancelWaitUnsynchronized, Call, Close

-----------------------------------------------------------------------------
(* What happens to the stacks. *)

Pushes(a, f) == stack' = [stack EXCEPT ![a] = Append(@, f)]
Pops(a) == stack' = [stack EXCEPT ![a] = SubSeq(@, 1, Len(@) - 1)]
Turns(a) == stack' = [stack EXCEPT ![a][Len(stack[a])].kind = "handler"]

\* The frames are of one of the ends.
LEMMA FrameTypes ==
  ASSUME TypeOK, NEW a \in Actors, NEW i \in DOMAIN stack[a]
  PROVE  stack[a][i] \in Frames /\ stack[a][i].end \in Ends
<1>1. stack[a] \in Seq(Frames)
  BY Zenon DEF TypeOK
<1>2. stack[a][i] \in Frames
  BY <1>1
<1>. QED BY Zenon, <1>2 DEF Frames

\* A push leaves the frames that are there.
LEMMA PushFrame ==
  ASSUME TypeOK, NEW a \in Actors, NEW f \in Frames, Pushes(a, f)
  PROVE  /\ \A b \in Actors \ {a} : stack'[b] = stack[b]
         /\ Len(stack[a]) \in Nat /\ DOMAIN stack[a] = 1 .. Len(stack[a])
         /\ stack'[a] # <<>> /\ Len(stack'[a]) = Len(stack[a]) + 1
         /\ DOMAIN stack'[a] = 1 .. Len(stack[a]) + 1
         /\ \A i \in 1 .. Len(stack[a]) : stack'[a][i] = stack[a][i]
         /\ stack'[a][Len(stack[a]) + 1] = f
<1>1. stack[a] \in Seq(Frames) /\ a \in DOMAIN stack /\ DOMAIN stack = Actors
  BY Zenon DEF TypeOK
<1>2. stack'[a] = Append(stack[a], f) /\ \A b \in Actors \ {a} : stack'[b] = stack[b]
  BY Zenon, <1>1 DEF Pushes
<1>3. Len(stack[a]) \in Nat /\ DOMAIN stack[a] = 1 .. Len(stack[a])
  BY <1>1
<1>. QED BY <1>1, <1>2, <1>3, PushProperties

\* A pop leaves all frames but the innermost.
LEMMA PopFrame ==
  ASSUME TypeOK, NEW a \in Actors, stack[a] # <<>>, Pops(a)
  PROVE  /\ \A b \in Actors \ {a} : stack'[b] = stack[b]
         /\ Len(stack[a]) \in Nat \ {0} /\ DOMAIN stack[a] = 1 .. Len(stack[a])
         /\ Len(stack'[a]) = Len(stack[a]) - 1
         /\ DOMAIN stack'[a] = 1 .. Len(stack[a]) - 1
         /\ \A i \in 1 .. Len(stack[a]) - 1 : stack'[a][i] = stack[a][i]
         /\ Top(a) = stack[a][Len(stack[a])] /\ Top(a) \in Frames
<1>1. stack[a] \in Seq(Frames) /\ a \in DOMAIN stack /\ DOMAIN stack = Actors
  BY Zenon DEF TypeOK
<1>2. stack'[a] = Below(stack[a]) /\ \A b \in Actors \ {a} : stack'[b] = stack[b]
  BY Zenon, <1>1 DEF Pops, Below
<1>3. /\ Len(stack[a]) \in Nat \ {0} /\ DOMAIN stack[a] = 1 .. Len(stack[a])
      /\ stack[a][Len(stack[a])] \in Frames
      /\ Len(Below(stack[a])) = Len(stack[a]) - 1
      /\ DOMAIN Below(stack[a]) = 1 .. Len(stack[a]) - 1
      /\ \A i \in 1 .. Len(stack[a]) - 1 : Below(stack[a])[i] = stack[a][i]
  BY Zenon, <1>1, PopProperties
<1>. QED BY Zenon, <1>2, <1>3 DEF Top

\* DispatcherCallback turns the innermost frame, and only that.
LEMMA TurnFrame ==
  ASSUME TypeOK, NEW a \in Actors, stack[a] # <<>>, Turns(a)
  PROVE  /\ \A b \in Actors \ {a} : stack'[b] = stack[b]
         /\ Len(stack[a]) \in Nat \ {0} /\ DOMAIN stack[a] = 1 .. Len(stack[a])
         /\ stack'[a] # <<>> /\ Len(stack'[a]) = Len(stack[a])
         /\ DOMAIN stack'[a] = 1 .. Len(stack[a])
         /\ \A i \in 1 .. Len(stack[a]) - 1 : stack'[a][i] = stack[a][i]
         /\ Top(a) = stack[a][Len(stack[a])] /\ Top(a) \in Frames
         /\ stack'[a][Len(stack[a])] = [Top(a) EXCEPT !.kind = "handler"]
<1>. DEFINE h == [Top(a) EXCEPT !.kind = "handler"]
<1>1. stack[a] \in Seq(Frames) /\ a \in DOMAIN stack /\ DOMAIN stack = Actors
  BY DEF TypeOK
<1>2. /\ stack'[a] = [stack[a] EXCEPT ![Len(stack[a])] = h]
      /\ \A b \in Actors \ {a} : stack'[b] = stack[b]
  BY Zenon, <1>1 DEF Turns, Top
<1>3. /\ Len(stack[a]) \in Nat \ {0} /\ DOMAIN stack[a] = 1 .. Len(stack[a])
      /\ Top(a) = stack[a][Len(stack[a])] /\ Top(a) \in Frames
  BY Zenon, <1>1, PopProperties DEF Top
<1>4. h \in Frames
  BY Zenon, <1>3 DEF Frames
<1>. HIDE DEF h
<1>5. /\ stack'[a] # <<>> /\ Len(stack'[a]) = Len(stack[a])
      /\ DOMAIN stack'[a] = 1 .. Len(stack[a])
      /\ \A i \in 1 .. Len(stack[a]) - 1 : stack'[a][i] = stack[a][i]
      /\ stack'[a][Len(stack[a])] = h
  BY <1>1, <1>2, <1>4, TurnProperties
<1>. QED BY Zenon, <1>2, <1>3, <1>5 DEF h

\* Most steps neither begin nor end a callback.
LEMMA SameStack ==
  ASSUME [Next]_vars
  PROVE  \/ stack' = stack
         \/ \E a \in Actors :
              QueueRegisteredCallback(a) \/ DispatcherCallback(a) \/ CallbackReturns(a)
         \/ \E t \in Threads, e \in Ends :
              \/ \E takes \in BOOLEAN : DispatchCallbacks(t, e, takes)
              \/ DispatchCallback(t, e)
              \/ CompleteShutdown(t, e)
<1>1. ASSUME NEW a \in Actors, NEW e \in Ends, ApiCall(a, e) PROVE stack' = stack
  BY ZenonT(40), <1>1 DEF ApiCall, Write, Read, WaitAsync, CancelWait, CancelWaitUnsynchronized, Call, Close
<1>2. ASSUME NEW a \in Actors, OnPeerClosed(a) PROVE stack' = stack
  BY Zenon, <1>2 DEF OnPeerClosed
<1>3. ASSUME NEW c \in Clients, CallReturns(c) PROVE stack' = stack
  BY Zenon, <1>3 DEF CallReturns
<1>4. ASSUME NEW e \in Ends, ShutdownAsync(e) PROVE stack' = stack
  BY Zenon, <1>4 DEF ShutdownAsync
<1>. QED BY Zenon, <1>1, <1>2, <1>3, <1>4 DEF Next, ActorStep, vars

\* QueueRegisteredCallback calls the request or leaves the stack alone.
QueuedFrame(a) ==
  [kind |-> "enter", end |-> todo[a].end, status |-> todo[a].reason, managed |-> TRUE,
   ret |-> AfterQueue(a)]
LEMMA QueueFrame ==
  ASSUME TypeOK, NEW a \in Actors, QueueRegisteredCallback(a)
  PROVE  /\ todo[a].end \in Ends /\ QueuedFrame(a) \in Frames
         /\ \/ /\ stack' = stack
               /\ call' = [call EXCEPT ![a] = AfterQueue(a)]
               /\ \/ where' = where
                  \/ /\ where[todo[a].end] = "registered"
                     /\ where' = [where EXCEPT ![todo[a].end] = "queued"]
            \/ /\ Pushes(a, QueuedFrame(a))
               /\ call' = [call EXCEPT ![a] = "none"]
               /\ where[todo[a].end] = "registered"
               /\ where' = [where EXCEPT ![todo[a].end] = "called"]
               /\ DirectCall(a, todo[a].end)
<1>1. todo[a].end \in Ends /\ todo[a].reason \in Reasons
  BY Zenon DEF TypeOK, Todos
<1>2. AfterQueue(a) \in {"none", "wait"}
  BY Zenon DEF AfterQueue
<1>3. QueuedFrame(a) \in Frames
  BY Zenon, <1>1, <1>2 DEF QueuedFrame, Frames
<1>. DEFINE queues == running[todo[a].end] /\ where[todo[a].end] = "registered"
            direct == queues /\ DirectCall(a, todo[a].end)
<1>4. CASE direct
  BY Zenon, <1>1, <1>3, <1>4 DEF QueueRegisteredCallback, Pushes, QueuedFrame
<1>5. CASE ~direct
  <2>1. stack' = stack /\ call' = [call EXCEPT ![a] = AfterQueue(a)]
    BY Zenon, <1>5 DEF QueueRegisteredCallback, TypeOK
  <2>2. \/ where' = where
        \/ where[todo[a].end] = "registered" /\ where' = [where EXCEPT ![todo[a].end] = "queued"]
    BY Zenon, <1>5 DEF QueueRegisteredCallback, TypeOK
  <2>. QED BY Zenon, <1>1, <1>3, <2>1, <2>2
<1>. QED BY Zenon, <1>4, <1>5

\* A loop thread's dispatching pushes a frame of the dispatcher's end.
LEMMA DispatchFrame ==
  ASSUME TypeOK, NEW t \in Threads, NEW e \in Ends
  PROVE  /\ \A takes \in BOOLEAN : DispatchCallbacks(t, e, takes) =>
              \E f \in Frames :
                Pushes(t, f) /\ f.kind = "task" /\ f.end = e /\ f.status = "ok"
         /\ DispatchCallback(t, e) =>
              \E f \in Frames :
                Pushes(t, f) /\ f.kind = "enter" /\ f.end = e /\ f.status = reason[e]
         /\ CompleteShutdown(t, e) =>
              \E f \in Frames :
                /\ Pushes(t, f) /\ f.kind = "enter" /\ f.end = e
                /\ f.status \in {"canceled", reason[e]}
<1>1. \A f : Append(<<>>, f) = <<f>>
  OBVIOUS
<1>2. t \in Actors
  BY Zenon DEF Actors
<1>3. ASSUME NEW takes \in BOOLEAN, DispatchCallbacks(t, e, takes)
      PROVE  \E f \in Frames : Pushes(t, f) /\ f.kind = "task" /\ f.end = e /\ f.status = "ok"
  <2>. DEFINE f == [kind |-> "task", end |-> e, status |-> "ok", managed |-> TRUE, ret |-> "none"]
  <2>1. f \in Frames /\ f.kind = "task" /\ f.end = e /\ f.status = "ok"
    BY Zenon DEF Frames, Reasons
  <2>2. stack[t] = <<>> /\ stack' = [stack EXCEPT ![t] = <<f>>]
    BY Zenon, <1>3 DEF DispatchCallbacks
  <2>. HIDE DEF f
  <2>3. Pushes(t, f)
    BY Zenon, <1>1, <2>2 DEF Pushes
  <2>. QED BY Zenon, <2>1, <2>3
<1>4. ASSUME DispatchCallback(t, e)
      PROVE  \E f \in Frames :
               Pushes(t, f) /\ f.kind = "enter" /\ f.end = e /\ f.status = reason[e]
  <2>. DEFINE f == [kind |-> "enter", end |-> e, status |-> reason[e], managed |-> TRUE,
                    ret |-> "none"]
  <2>1. f \in Frames /\ f.kind = "enter" /\ f.end = e /\ f.status = reason[e]
    BY Zenon DEF Frames, TypeOK
  <2>2. Pushes(t, f)
    BY Zenon, <1>4 DEF DispatchCallback, Pushes
  <2>. QED BY Zenon, <2>1, <2>2
<1>5. ASSUME CompleteShutdown(t, e)
      PROVE  \E f \in Frames :
               /\ Pushes(t, f) /\ f.kind = "enter" /\ f.end = e
               /\ f.status \in {"canceled", reason[e]}
  <2>. DEFINE f == [kind |-> "enter", end |-> e,
                    status |-> IF reason[e] \in {"none", "ok"} THEN "canceled" ELSE reason[e],
                    managed |-> FALSE, ret |-> "none"]
  <2>1. /\ f \in Frames /\ f.kind = "enter" /\ f.end = e
        /\ f.status \in {"canceled", reason[e]}
    BY Zenon DEF Frames, TypeOK, Reasons
  <2>2. stack[t] = <<>> /\ stack' = [stack EXCEPT ![t] = <<f>>]
    BY Zenon, <1>5 DEF CompleteShutdown
  <2>. HIDE DEF f
  <2>3. Pushes(t, f)
    BY Zenon, <1>1, <2>2 DEF Pushes
  <2>. QED BY Zenon, <2>1, <2>3
<1>. QED BY Zenon, <1>3, <1>4, <1>5

-----------------------------------------------------------------------------
(* The list of waiters. *)

\* A client whose call has a waiter is in that call, or in callbacks that the
\* call's QueueRegisteredCallback has called and that return to it.
InCall ==
  \A c \in Clients : waiter[c].status # "idle" =>
    IF stack[c] = <<>> THEN call[c] \in {"queue", "wait"} ELSE stack[c][1].ret = "wait"

ListedInv == InCall /\ WaitersListed

\* What WriteSelfLocked does: the message is the outcome of a waiter with its
\* txid, or is queued.
LEMMA WriteOutcome ==
  ASSUME TypeOK, NEW a \in Actors, NEW p \in Ends, NEW m \in Messages,
         NEW ws \in [Ends -> SUBSET Clients], NEW w \in [Clients -> Waiters],
         NEW then, WriteSelfLocked(a, p, m, ws, w, then)
  PROVE  \/ /\ \A c \in ws[p] : w[c].txid # m.txid
            /\ waiters' = ws /\ waiter' = w
            /\ msg_queue' = [msg_queue EXCEPT ![p] = Append(@, m)]
         \/ /\ msg_queue' = msg_queue
            /\ \E c \in ws[p] :
                 /\ w[c].txid = m.txid
                 /\ waiters' = [ws EXCEPT ![p] = @ \ {c}]
                 /\ \A b \in Clients \ {c} : waiter'[b] = w[b]
                 /\ waiter'[c].status = "ok" /\ waiter'[c].got = m
                 /\ waiter'[c].end = w[c].end /\ waiter'[c].txid = w[c].txid
<1>. DEFINE hits == {c \in ws[p] : w[c].txid = m.txid}
<1>1. CASE hits # {}
  <2>1. PICK c \in hits :
          /\ waiters' = [ws EXCEPT ![p] = @ \ {c}]
          /\ waiter' = [w EXCEPT ![c] = [@ EXCEPT !.status = "ok", !.got = m]]
          /\ msg_queue' = msg_queue
    BY Zenon, <1>1 DEF WriteSelfLocked
  <2>2. c \in Clients /\ w[c] \in Waiters /\ w[c].txid = m.txid
    <3>1. c \in ws[p] /\ w[c].txid = m.txid /\ ws[p] \in SUBSET Clients
      BY Zenon
    <3>. QED BY Zenon, <3>1
  <2>3. waiter'[c] = [w[c] EXCEPT !.status = "ok", !.got = m]
    BY Zenon, <2>1, <2>2
  <2>4. /\ waiter'[c].status = "ok" /\ waiter'[c].got = m
        /\ waiter'[c].end = w[c].end /\ waiter'[c].txid = w[c].txid
    BY Zenon, <2>2, <2>3 DEF Waiters
  <2>5. \A b \in Clients \ {c} : waiter'[b] = w[b]
    BY Zenon, <2>1, <2>2
  <2>. QED BY Zenon, <2>1, <2>2, <2>4, <2>5
<1>2. CASE hits = {}
  BY Zenon, <1>2 DEF WriteSelfLocked
<1>. QED BY Zenon, <1>1, <1>2

\* The waiters that are listed are those that wait.
Listed(ws, w) ==
  \A c \in Clients, e \in Ends : c \in ws[e] <=> w[c].end = e /\ w[c].status = "waiting"

\* WriteSelfLocked takes a waiter off the list when it has its outcome.
LEMMA WriteListed ==
  ASSUME TypeOK, NEW a \in Actors, NEW p \in Ends, NEW m \in Messages,
         NEW ws \in [Ends -> SUBSET Clients], NEW w \in [Clients -> Waiters],
         NEW then, WriteSelfLocked(a, p, m, ws, w, then), Listed(ws, w)
  PROVE  /\ WaitersListed'
         /\ \A c \in Clients : waiter'[c].status # "idle" => w[c].status # "idle"
<1>1. CASE waiters' = ws /\ waiter' = w
  BY Zenon, <1>1 DEF Listed, WaitersListed
<1>2. ASSUME NEW c \in ws[p],
             waiters' = [ws EXCEPT ![p] = @ \ {c}],
             \A b \in Clients \ {c} : waiter'[b] = w[b],
             waiter'[c].status = "ok", waiter'[c].end = w[c].end, waiter'[c].txid = w[c].txid
      PROVE  /\ WaitersListed'
             /\ \A b \in Clients : waiter'[b].status # "idle" => w[b].status # "idle"
  <2>1. c \in Clients /\ w[c].end = p /\ w[c].status = "waiting"
    BY Zenon DEF Listed
  <2>2. WaitersListed'
    BY <1>2, <2>1 DEF Listed, WaitersListed
  <2>3. \A b \in Clients : waiter'[b].status # "idle" => w[b].status # "idle"
    BY Zenon, <1>2, <2>1
  <2>. QED BY Zenon, <2>2, <2>3
<1>. QED BY <1>1, <1>2, WriteOutcome

\* Cancelling the waiters of an end takes them off the list.
LEMMA CancelListed ==
  ASSUME TypeOK, ListedInv, NEW e \in Ends, CancelWaiters(e)
  PROVE  /\ WaitersListed'
         /\ \A c \in Clients : waiter'[c].status # "idle" => waiter[c].status # "idle"
<1>1. ASSUME NEW c \in waiters[e]
      PROVE  /\ c \in Clients /\ waiter'[c].status = "closed" /\ waiter'[c].end = waiter[c].end
             /\ waiter'[c].txid = waiter[c].txid
             /\ waiter[c].end = e /\ waiter[c].status = "waiting"
  <2>1. c \in Clients /\ waiter[c] \in Waiters
    BY Zenon DEF TypeOK
  <2>2. waiter'[c] = [waiter[c] EXCEPT !.status = "closed"]
    BY Zenon, <2>1 DEF CancelWaiters
  <2>3. waiter[c].end = e /\ waiter[c].status = "waiting"
    BY Zenon, <2>1 DEF ListedInv, WaitersListed
  <2>. QED BY <2>1, <2>2, <2>3, CancelTypes
<1>2. \A c \in Clients : c \notin waiters[e] => waiter'[c] = waiter[c]
  BY Zenon DEF CancelWaiters
<1>3. waiters'[e] = {} /\ \A d \in Ends \ {e} : waiters'[d] = waiters[d]
  BY Zenon DEF CancelWaiters, TypeOK
<1>4. WaitersListed'
  <2>1. ASSUME NEW c \in Clients, NEW d \in Ends
        PROVE  c \in waiters'[d] <=> waiter'[c].end = d /\ waiter'[c].status = "waiting"
    <3>1. CASE c \in waiters[e]
      BY <1>1, <1>3, <3>1 DEF ListedInv, WaitersListed
    <3>2. CASE c \notin waiters[e]
      BY <1>2, <1>3, <3>2 DEF ListedInv, WaitersListed
    <3>. QED BY Zenon, <3>1, <3>2
  <2>. QED BY Zenon, <2>1 DEF WaitersListed
<1>5. \A c \in Clients : waiter'[c].status # "idle" => waiter[c].status # "idle"
  BY Zenon, <1>1, <1>2
<1>. QED BY Zenon, <1>4, <1>5

\* A client whose stack is as it was stays in its call.
LEMMA StillInCall ==
  ASSUME InCall, NEW a \in Actors, call[a] \notin {"queue", "wait"}, stack' = stack,
         \A b \in Actors \ {a} : call'[b] = call[b],
         \A c \in Clients : waiter'[c].status # "idle" => waiter[c].status # "idle"
  PROVE  InCall'
BY Zenon DEF InCall, Actors

\* The first of several callbacks is not the last.
LEMMA FirstBelow == ASSUME NEW n \in Nat \ {0}, n # 1 PROVE 1 \in 1 .. n - 1
OBVIOUS

\* Every step keeps the list.
LEMMA ListedNext ==
  ASSUME TypeOK, ListedInv, [Next]_vars
  PROVE  ListedInv'
<1>1. Listed(waiters, waiter) /\ InCall
  BY Zenon DEF ListedInv, WaitersListed, Listed
<1>2. ASSUME NEW a \in Actors, NEW e \in Ends, ApiCall(a, e) PROVE ListedInv'
  <2>1. CanCall(a) /\ call[a] = "none" /\ Peer(e) \in Ends
    BY Zenon, <1>2, ApiCallFree, PeerEnds DEF CanCall
  <2>2. ASSUME NEW p, NEW m, NEW ws, NEW w, NEW then, WriteSelfLocked(a, p, m, ws, w, then)
        PROVE  \A b \in Actors \ {a} : call'[b] = call[b]
    BY <2>2 DEF WriteSelfLocked, ThenQueue, TypeOK
  <2>3. ASSUME NEW m \in Outgoing(e), Write(a, e, m) PROVE ListedInv'
    <3>1. WriteSelfLocked(a, Peer(e), m, waiters, waiter, "none") /\ stack' = stack
      BY Zenon, <2>3 DEF Write
    <3>2. m \in Messages
      BY Zenon, OutgoingTypes
    <3>3. waiters \in [Ends -> SUBSET Clients] /\ waiter \in [Clients -> Waiters]
      BY Zenon DEF TypeOK
    <3>4. /\ WaitersListed'
          /\ \A c \in Clients : waiter'[c].status # "idle" => waiter[c].status # "idle"
      BY Zenon, <1>1, <2>1, <3>1, <3>2, <3>3, WriteListed
    <3>5. InCall'
      BY Zenon, <1>1, <2>1, <2>2, <3>1, <3>4, StillInCall
    <3>. QED BY Zenon, <3>4, <3>5 DEF ListedInv
  <2>4. CASE Call(a, e)
    <3>0. a \in Clients /\ stack[a] = <<>> /\ stack' = stack
      BY Zenon, <2>4 DEF Call
    <3>. PICK txid \in Txids :
           LET m == [kind |-> "request", txid |-> txid, of |-> a]
               new == [end |-> e, txid |-> txid, status |-> "waiting", got |-> Plain]
           IN  WriteSelfLocked(a, Peer(e), m, [waiters EXCEPT ![e] = @ \cup {a}],
                               [waiter EXCEPT ![a] = new], "wait")
      BY Zenon, <2>4 DEF Call
    <3>. DEFINE m == [kind |-> "request", txid |-> txid, of |-> a]
                new == [end |-> e, txid |-> txid, status |-> "waiting", got |-> Plain]
                ws == [waiters EXCEPT ![e] = @ \cup {a}]
                w == [waiter EXCEPT ![a] = new]
    <3>1. /\ a \in Clients /\ stack[a] = <<>> /\ stack' = stack
          /\ WriteSelfLocked(a, Peer(e), m, ws, w, "wait")
      BY Zenon, <3>0
    <3>2. m \in Messages /\ new \in Waiters
      BY Zenon, <3>1, CallTypes
    <3>3. new.end = e /\ new.status = "waiting"
      BY Zenon
    <3>. HIDE DEF m, new
    <3>4. /\ ws \in [Ends -> SUBSET Clients] /\ ws[e] = waiters[e] \cup {a}
          /\ \A d \in Ends \ {e} : ws[d] = waiters[d]
      BY Zenon, <3>1 DEF TypeOK
    <3>5. /\ w \in [Clients -> Waiters] /\ w[a] = new
          /\ \A c \in Clients \ {a} : w[c] = waiter[c]
      BY Zenon, <3>1, <3>2 DEF TypeOK
    <3>. HIDE DEF ws, w
    <3>6. waiter[a].status = "idle"
      BY Zenon, <1>1, <2>1, <3>1 DEF InCall
    <3>7. Listed(ws, w)
      <4>1. ASSUME NEW c \in Clients, NEW d \in Ends
            PROVE  c \in ws[d] <=> w[c].end = d /\ w[c].status = "waiting"
        <5>1. c \in waiters[d] <=> waiter[c].end = d /\ waiter[c].status = "waiting"
          BY Zenon, <1>1 DEF Listed
        <5>2. CASE c = a
          BY Zenon, <3>3, <3>4, <3>5, <3>6, <5>1, <5>2
        <5>3. CASE c # a
          BY Zenon, <3>4, <3>5, <5>1, <5>3
        <5>. QED BY Zenon, <5>2, <5>3
      <4>. QED BY Zenon, <4>1 DEF Listed
    <3>9. /\ WaitersListed'
          /\ \A c \in Clients : waiter'[c].status # "idle" => w[c].status # "idle"
      BY <2>1, <3>1, <3>2, <3>4, <3>5, <3>7, WriteListed
    <3>10. call'[a] \in {"queue", "wait"}
      BY <3>1 DEF WriteSelfLocked, ThenQueue, TypeOK
    <3>11. InCall'
      BY ZenonT(40), <1>1, <2>2, <3>1, <3>5, <3>9, <3>10 DEF InCall, Actors
    <3>. QED BY Zenon, <3>9, <3>11 DEF ListedInv
  <2>5. ASSUME UNCHANGED <<waiters, waiter, stack>>, \A b \in Actors \ {a} : call'[b] = call[b]
        PROVE  ListedInv'
    <3>1. InCall'
      BY Zenon, <1>1, <2>1, <2>5, StillInCall
    <3>. QED BY Zenon, <2>5, <3>1 DEF ListedInv, WaitersListed
  <2>6. CASE Read(a, e) \/ CancelWait(a, e)
    <3>1. UNCHANGED <<waiters, waiter, stack, call>>
      BY Zenon, <2>6 DEF Read, CancelWait, call_state, control
    <3>. QED BY Zenon, <2>5, <3>1
  <2>7. CASE WaitAsync(a, e)
    BY Zenon, <2>5, <2>7 DEF WaitAsync, ThenQueue, TypeOK, call_state, control
  <2>8. CASE CancelWaitUnsynchronized(a, e)
    BY Zenon, <2>5, <2>8 DEF CancelWaitUnsynchronized, ThenQueue, TypeOK, call_state
  <2>9. CASE Close(a, e)
    <3>1. CancelWaiters(e) /\ stack' = stack /\ \A b \in Actors \ {a} : call'[b] = call[b]
      BY Zenon, <2>9 DEF Close, TypeOK
    <3>2. /\ WaitersListed'
          /\ \A c \in Clients : waiter'[c].status # "idle" => waiter[c].status # "idle"
      BY Zenon, <3>1, CancelListed
    <3>3. InCall'
      BY Zenon, <1>1, <2>1, <3>1, <3>2, StillInCall
    <3>. QED BY Zenon, <3>2, <3>3 DEF ListedInv
  <2>. QED BY Zenon, <1>2, <2>3, <2>4, <2>6, <2>7, <2>8, <2>9 DEF ApiCall
<1>3. ASSUME NEW a \in Actors, OnPeerClosed(a) PROVE ListedInv'
  <2>1. PICK p \in Ends : p = todo[a].end
    BY Zenon DEF TypeOK, Todos
  <2>2. /\ CancelWaiters(p) /\ stack' = stack /\ call[a] = "peer_closed"
        /\ \A b \in Actors \ {a} : call'[b] = call[b]
    BY Zenon, <1>3, <2>1 DEF OnPeerClosed, ThenQueue, TypeOK
  <2>3. /\ WaitersListed'
        /\ \A c \in Clients : waiter'[c].status # "idle" => waiter[c].status # "idle"
    BY Zenon, <2>2, CancelListed
  <2>4. InCall'
    BY Zenon, <1>1, <2>2, <2>3, StillInCall
  <2>. QED BY Zenon, <2>3, <2>4 DEF ListedInv
<1>4. ASSUME UNCHANGED <<waiters, waiter>>, InCall' PROVE ListedInv'
  BY Zenon, <1>4 DEF ListedInv, WaitersListed
<1>5. ASSUME NEW a \in Actors, QueueRegisteredCallback(a) PROVE ListedInv'
  <2>1. UNCHANGED <<waiters, waiter>> /\ call[a] = "queue"
    BY Zenon, <1>5 DEF QueueRegisteredCallback, call_state
  <2>2. CASE stack' = stack /\ call' = [call EXCEPT ![a] = AfterQueue(a)]
    <3>1. call'[a] = AfterQueue(a) /\ \A b \in Actors \ {a} : call'[b] = call[b]
      BY Zenon, <2>2 DEF TypeOK
    <3>2. InCall'
      BY Zenon, <1>1, <2>1, <2>2, <3>1 DEF InCall, AfterQueue, Actors
    <3>. QED BY Zenon, <1>4, <2>1, <3>2
  <2>3. CASE Pushes(a, QueuedFrame(a)) /\ call' = [call EXCEPT ![a] = "none"]
    <3>1. QueuedFrame(a).ret = AfterQueue(a) /\ QueuedFrame(a) \in Frames
      BY Zenon, <1>5, QueueFrame DEF QueuedFrame
    <3>2. /\ \A b \in Actors \ {a} : stack'[b] = stack[b] /\ call'[b] = call[b]
          /\ Len(stack[a]) \in Nat /\ stack'[a] # <<>>
          /\ \A i \in 1 .. Len(stack[a]) : stack'[a][i] = stack[a][i]
          /\ stack'[a][Len(stack[a]) + 1] = QueuedFrame(a)
      BY ZenonT(40), <2>3, <3>1, PushFrame DEF TypeOK
    <3>3. /\ stack[a] = <<>> => stack'[a][1] = QueuedFrame(a)
          /\ stack[a] # <<>> => stack'[a][1] = stack[a][1]
      <4>1. stack[a] = <<>> => Len(stack[a]) = 0
        OBVIOUS
      <4>2. stack[a] # <<>> => 1 \in 1 .. Len(stack[a])
        BY DEF TypeOK
      <4>. QED BY <3>2, <4>1, <4>2
    <3>4. InCall'
      <4>1. ASSUME NEW c \in Clients, waiter'[c].status # "idle"
            PROVE  IF stack'[c] = <<>> THEN call'[c] \in {"queue", "wait"}
                                       ELSE stack'[c][1].ret = "wait"
        <5>1. waiter[c].status # "idle" /\ c \in Actors
          BY Zenon, <2>1, <4>1 DEF Actors
        <5>2. CASE c = a
          BY Zenon, <1>1, <3>1, <3>2, <3>3, <5>1, <5>2 DEF InCall, AfterQueue
        <5>3. CASE c # a
          BY Zenon, <1>1, <3>2, <5>1, <5>3 DEF InCall
        <5>. QED BY Zenon, <5>2, <5>3
      <4>. QED BY Zenon, <4>1 DEF InCall
    <3>. QED BY <1>4, <2>1, <3>4
  <2>. QED BY Zenon, <1>5, <2>2, <2>3, QueueFrame
<1>6. ASSUME NEW a \in Actors, DispatcherCallback(a) PROVE ListedInv'
  <2>1. stack[a] # <<>> /\ Turns(a) /\ call' = call /\ UNCHANGED <<waiters, waiter>>
    BY Zenon, <1>6 DEF DispatcherCallback, Turns, control, call_state
  <2>2. /\ \A b \in Actors \ {a} : stack'[b] = stack[b]
        /\ Len(stack[a]) \in Nat \ {0} /\ stack'[a] # <<>>
        /\ \A i \in 1 .. Len(stack[a]) - 1 : stack'[a][i] = stack[a][i]
        /\ Top(a) = stack[a][Len(stack[a])] /\ Top(a) \in Frames
        /\ stack'[a][Len(stack[a])] = [Top(a) EXCEPT !.kind = "handler"]
    BY Zenon, <2>1, TurnFrame
  <2>3. stack'[a][1].ret = stack[a][1].ret
    <3>1. CASE Len(stack[a]) = 1
      BY Zenon, <2>2, <3>1 DEF Frames
    <3>2. CASE Len(stack[a]) # 1
      <4>1. PICK n \in Nat \ {0} : n = Len(stack[a])
        BY Zenon, <2>2
      <4>2. 1 \in 1 .. n - 1
        BY Zenon, <3>2, <4>1, FirstBelow
      <4>. QED BY Zenon, <2>2, <4>1, <4>2
    <3>. QED BY Zenon, <3>1, <3>2
  <2>4. InCall'
    BY <1>1, <2>1, <2>2, <2>3 DEF InCall, Actors
  <2>. QED BY Zenon, <1>4, <2>1, <2>4
<1>7. ASSUME NEW a \in Actors, CallbackReturns(a) PROVE ListedInv'
  <2>1. /\ stack[a] # <<>> /\ Pops(a) /\ call'[a] = Top(a).ret
        /\ \A b \in Actors \ {a} : call'[b] = call[b]
        /\ UNCHANGED <<waiters, waiter>>
    BY Zenon, <1>7 DEF CallbackReturns, Pops, call_state, TypeOK
  <2>2. /\ \A b \in Actors \ {a} : stack'[b] = stack[b]
        /\ Len(stack[a]) \in Nat \ {0} /\ Len(stack'[a]) = Len(stack[a]) - 1
        /\ \A i \in 1 .. Len(stack[a]) - 1 : stack'[a][i] = stack[a][i]
        /\ Top(a) = stack[a][Len(stack[a])]
    BY Zenon, <2>1, PopFrame
  <2>3. IF stack'[a] = <<>> THEN call'[a] = stack[a][1].ret
                            ELSE stack'[a][1] = stack[a][1]
    <3>1. CASE stack'[a] = <<>>
      <4>1. Len(stack[a]) = 1
        BY <2>2, <3>1
      <4>. QED BY Zenon, <2>1, <2>2, <3>1, <4>1
    <3>2. CASE stack'[a] # <<>>
      <4>1. stack'[a] \in Seq(Frames)
        BY Zenon, <1>7, StepTypes DEF TypeOK
      <4>2. Len(stack'[a]) # 0 /\ Len(stack'[a]) \in Nat
        BY <3>2, <4>1
      <4>3. PICK n \in Nat \ {0} : n = Len(stack[a]) /\ Len(stack'[a]) = n - 1
        BY Zenon, <2>2
      <4>4. n # 1
        BY <4>2, <4>3
      <4>5. 1 \in 1 .. n - 1
        BY Zenon, <4>4, FirstBelow
      <4>. QED BY Zenon, <2>2, <3>2, <4>3, <4>5
    <3>. QED BY Zenon, <3>1, <3>2
  <2>4. InCall'
    <3>. SUFFICES ASSUME NEW c \in Clients, waiter'[c].status # "idle"
                  PROVE  IF stack'[c] = <<>> THEN call'[c] \in {"queue", "wait"} ELSE stack'[c][1].ret = "wait"
      BY Zenon DEF InCall
    <3>1. IF stack[c] = <<>> THEN call[c] \in {"queue", "wait"} ELSE stack[c][1].ret = "wait"
      BY Zenon, <1>1, <2>1 DEF InCall
    <3>2. CASE c # a
      BY Zenon, <2>1, <2>2, <3>1, <3>2 DEF Actors
    <3>3. CASE c = a
      BY Zenon, <2>1, <2>3, <3>1, <3>3
    <3>. QED BY Zenon, <3>2, <3>3
  <2>. QED BY Zenon, <1>4, <2>1, <2>4
<1>8. ASSUME NEW c \in Clients, CallReturns(c) PROVE ListedInv'
  <2>1. PICK e \in Ends : e = waiter[c].end
    BY Zenon DEF TypeOK, Waiters
  <2>2. /\ waiters' = [waiters EXCEPT ![e] = IF Erases(c) THEN @ \ {c} ELSE @]
        /\ waiter' = [waiter EXCEPT ![c] = NoWaiter]
        /\ call' = [call EXCEPT ![c] = "none"] /\ stack' = stack
    BY Zenon, <1>8, <2>1 DEF CallReturns
  <2>3. /\ waiter'[c].status = "idle"
        /\ \A d \in Clients \ {c} : waiter'[d] = waiter[d]
        /\ \A b \in Actors \ {c} : call'[b] = call[b]
    BY Zenon, <2>2 DEF TypeOK, NoWaiter
  <2>4. ASSUME NEW d \in Clients, NEW p \in Ends
        PROVE  d \in waiters'[p] <=> waiter'[d].end = p /\ waiter'[d].status = "waiting"
    <3>1. d \in waiters[p] <=> waiter[d].end = p /\ waiter[d].status = "waiting"
      BY Zenon, <1>1 DEF Listed
    <3>2. CASE d = c
      <4>1. c \notin waiters'[p]
        BY Zenon, <2>1, <2>2, <3>1, <3>2 DEF Erases, TypeOK
      <4>. QED BY Zenon, <2>3, <3>2, <4>1
    <3>3. CASE d # c
      <4>1. d \in waiters'[p] <=> d \in waiters[p]
        BY Zenon, <2>2, <3>3 DEF TypeOK
      <4>. QED BY Zenon, <2>3, <3>1, <3>3, <4>1
    <3>. QED BY Zenon, <3>2, <3>3
  <2>5. WaitersListed'
    BY Zenon, <2>4 DEF WaitersListed
  <2>6. InCall'
    BY Zenon, <1>1, <2>2, <2>3 DEF InCall, Actors
  <2>. QED BY Zenon, <2>5, <2>6 DEF ListedInv
<1>9. ASSUME NEW t \in Threads, NEW e \in Ends,
             \/ \E takes \in BOOLEAN : DispatchCallbacks(t, e, takes)
             \/ DispatchCallback(t, e)
             \/ CompleteShutdown(t, e)
      PROVE  ListedInv'
  <2>1. call' = call /\ UNCHANGED <<waiters, waiter>>
    BY ZenonT(40), <1>9 DEF DispatchCallbacks, DispatchCallback, CompleteShutdown, control, call_state
  <2>2. PICK f \in Frames : Pushes(t, f)
    BY <1>9, DispatchFrame
  <2>3. \A c \in Clients : stack'[c] = stack[c]
    BY <2>2, ActorsAssumption, PushFrame DEF Actors
  <2>4. InCall'
    BY Zenon, <1>1, <2>1, <2>3 DEF InCall
  <2>. QED BY Zenon, <1>4, <2>1, <2>4
<1>10. CASE (\E e \in Ends : ShutdownAsync(e)) \/ UNCHANGED vars
  <2>1. UNCHANGED <<waiters, waiter, stack, call>>
    BY Zenon, <1>10 DEF ShutdownAsync, vars, call_state, control
  <2>2. InCall'
    BY Zenon, <1>1, <2>1 DEF InCall
  <2>. QED BY Zenon, <1>4, <2>1, <2>2
<1>. QED BY Zenon, <1>2, <1>3, <1>5, <1>6, <1>7, <1>8, <1>9, <1>10 DEF Next, ActorStep

\* Clients whose calls wait are inside Call, and exactly they are listed.
THEOREM ListedInvariant == Spec => []ListedInv
<1>1. Init => ListedInv
  <2>1. Init => \A c \in Clients : waiter[c].status = "idle" /\ \A e \in Ends : c \notin waiters[e]
    BY DEF Init, NoWaiter
  <2>. QED BY Zenon, <2>1 DEF ListedInv, InCall, WaitersListed
<1>2. TypeOK /\ ListedInv /\ [Next]_vars => ListedInv'
  BY Zenon, ListedNext
<1>. QED BY <1>1, <1>2, ChannelTypes, PTL DEF Spec

\* The waiters_ list of an end holds the stack-allocated waiters of the calls
\* that still wait at that end, and no others.
THEOREM WaitersAreListed == Spec => []WaitersListed
<1>1. ListedInv => WaitersListed
  BY Zenon DEF ListedInv
<1>. QED BY <1>1, ListedInvariant, PTL
=============================================================================
