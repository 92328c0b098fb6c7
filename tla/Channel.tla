------------------------------ MODULE Channel ------------------------------
(***************************************************************************)
(* A driver_runtime::Channel: its two ends (bin/driver_runtime/channel.cc),*)
(* the threads that use them and, of the dispatchers that run their read   *)
(* callbacks, what the channel relies on (register, queue, cancel, call;   *)
(* module Dispatcher has the rest).  The ends share one lock; every        *)
(* critical section is one action, so other threads run between the moment *)
(* a callback is decided on and the moment it is queued.                   *)
(***************************************************************************)
EXTENDS Naturals, Sequences

CONSTANTS
  Threads,    \* threads of the shared loop
  Clients,    \* other threads
  Runtime,    \* the clients inside a callback of a third driver
  SyncEnds,   \* the ends that are waited on with a synchronized dispatcher
  WaitEnds,   \* the ends on which WaitAsync is used
  Callers,    \* the ends on which Call is used
  NumTxids,   \* kNumTxids
  MaxMsgs,    \* bound: messages queued at an end
  None        \* no thread

Ends == {0, 1}
Peer(e) == 1 - e
Actors == Threads \cup Clients
Txids == 1 .. NumTxids    \* kMinTxid .. UINT32_MAX; 0 is any other value

ASSUME ActorsAssumption ==
  /\ Threads \cap Clients = {}
  /\ Runtime \subseteq Clients
  /\ None \notin Actors
ASSUME EndsAssumption ==
  SyncEnds \subseteq Ends /\ WaitEnds \subseteq Ends /\ Callers \subseteq Ends
ASSUME BoundsAssumption == NumTxids \in Nat \ {0} /\ MaxMsgs \in Nat \ {0}

VARIABLES
  linked,         \* peer_ of both ends is set
  closed,         \* the handle of the end is closed
  msg_queue,      \* msg_queue_
  registered,     \* dispatcher_ and channel_read_ are set
  pending_queue,  \* callback_request_pending_queue_
  where,          \* the container of the end's CallbackRequest: its "channel", the
                  \* dispatcher's lists ("registered", "queued", "shutdown"), a
                  \* thread's "batch", or none while it is "called"
  batch,          \* the thread in whose batch it is
  reason,         \* CallbackRequest::reason_
  running,        \* the end's dispatcher is kRunning
  next_id,        \* next_id_
  waiters,        \* waiters_ (txids are distinct: order is never observed)
  waiter,         \* the MessageWaiter of each client's Call
  requests,       \* call requests an end's user has read and not answered
  stack,          \* the callbacks each actor is inside of, innermost last
  call,           \* where it is in the API call it makes
  todo,           \* the end that call is about to queue or notify
  panic           \* the ZX_ASSERT that failed, if any

read_state == <<registered, pending_queue>>
request_state == <<where, batch, reason>>
call_state == <<next_id, waiters, waiter>>
control == <<call, todo>>
vars == <<linked, closed, msg_queue, read_state, request_state, running, call_state, requests,
          stack, control, panic>>

-----------------------------------------------------------------------------
\* A message is "plain", a "request" or a "reply"; "of" is a ghost, the client
\* whose present call it belongs to.
Plain == [kind |-> "plain", txid |-> 0, of |-> None]
NoWaiter == [end |-> 0, txid |-> 0, status |-> "idle", got |-> Plain]
\* ref: the call holds a reference to the Channel of that end.
Nothing == [end |-> 0, reason |-> "none", ref |-> FALSE]
\* A frame is a callback of an end's dispatcher: some other callback ("task"),
\* or the end's read callback before ("enter") or after ("handler") it has
\* taken the lock.  ret is the call that a direct call interrupted, managed tells
\* the frames that driver_context knows.

Reasons == {"none", "ok", "canceled", "peer_closed"}
Messages ==
  [kind : {"plain", "request", "reply"}, txid : 0 .. NumTxids, of : Clients \cup {None}]
Waiters ==
  [end : Ends, txid : 0 .. NumTxids, status : {"idle", "waiting", "ok", "closed"}, got : Messages]
Todos == [end : Ends, reason : Reasons, ref : BOOLEAN]
Frames == [kind : {"task", "enter", "handler"}, end : Ends, status : Reasons, managed : BOOLEAN,
           ret : {"none", "wait"}]

TypeOK ==
  /\ linked \in BOOLEAN
  /\ closed \in [Ends -> BOOLEAN]
  /\ msg_queue \in [Ends -> Seq(Messages)]
  /\ registered \in [Ends -> BOOLEAN]
  /\ pending_queue \in [Ends -> BOOLEAN]
  /\ where \in [Ends -> {"channel", "registered", "queued", "shutdown", "batch", "called"}]
  /\ batch \in [Ends -> Threads \cup {None}]
  /\ reason \in [Ends -> Reasons]
  /\ running \in [Ends -> BOOLEAN]
  /\ next_id \in [Ends -> 0 .. NumTxids - 1]
  /\ waiters \in [Ends -> SUBSET Clients]
  /\ waiter \in [Clients -> Waiters]
  /\ requests \in [Ends -> SUBSET Messages]
  /\ stack \in [Actors -> Seq(Frames)]
  /\ call \in [Actors -> {"none", "queue", "peer_closed", "wait"}]
  /\ todo \in [Actors -> Todos]

Alive == panic = "none"
Top(a) == stack[a][Len(stack[a])]
Inside(e) == {a \in Actors : \E i \in DOMAIN stack[a] : stack[a][i].end = e}
CanCall(a) ==
  /\ Alive
  /\ call[a] = "none"
  /\ IF stack[a] = <<>> THEN a \in Clients ELSE Top(a).kind # "enter"

\* driver_context: only frames below CompleteShutdown are not pushed.
IsCallStackEmpty(a) == a \notin Runtime /\ \A i \in DOMAIN stack[a] : ~stack[a][i].managed
IsDriverInCallStack(a, e) == \E i \in DOMAIN stack[a] : stack[a][i].managed /\ stack[a][i].end = e

\* Nobody but a is in any call or callback, so that the last reference to the
\* closed end, and with it the request the end owns, is gone.
Freed(e, a) ==
  /\ closed[e]
  /\ where[e] = "channel"
  /\ a \notin Inside(e)
  /\ \A b \in Actors \ {a} : call[b] = "none" /\ stack[b] = <<>>

Init ==
  /\ linked = TRUE
  /\ closed = [e \in Ends |-> FALSE]
  /\ msg_queue = [e \in Ends |-> <<>>]
  /\ registered = [e \in Ends |-> FALSE]
  /\ pending_queue = [e \in Ends |-> FALSE]
  /\ where = [e \in Ends |-> "channel"]
  /\ batch = [e \in Ends |-> None]
  /\ reason = [e \in Ends |-> "none"]
  /\ running = [e \in Ends |-> TRUE]
  /\ next_id = [e \in Ends |-> 0]
  /\ waiters = [e \in Ends |-> {}]
  /\ waiter = [c \in Clients |-> NoWaiter]
  /\ requests = [e \in Ends |-> {}]
  /\ stack = [a \in Actors |-> <<>>]
  /\ call = [a \in Actors |-> "none"]
  /\ todo = [a \in Actors |-> Nothing]
  /\ panic = "none"

-----------------------------------------------------------------------------
(* What a call does after it gives up the lock. *)

\* a goes on to QueueRegisteredCallback(e's request, r), or to then.
ThenQueue(a, queue, e, r, ref, then) ==
  /\ call' = [call EXCEPT ![a] = IF queue THEN "queue" ELSE then]
  /\ todo' = [todo EXCEPT ![a] = IF queue THEN [end |-> e, reason |-> r, ref |-> ref]
                                 ELSE Nothing]

-----------------------------------------------------------------------------
(* Writing and reading. *)

\* WriteSelfLocked on end p, called by a; ws and w are waiters_ and the
\* waiters as the caller has left them.
WriteSelfLocked(a, p, m, ws, w, then) ==
  LET hits == {c \in ws[p] : w[c].txid = m.txid}
      queue == registered[p] /\ pending_queue[p]
  IN  IF hits # {}
      THEN LET c == CHOOSE x \in hits : TRUE IN
           /\ waiters' = [ws EXCEPT ![p] = @ \ {c}]
           /\ waiter' = [w EXCEPT ![c] = [@ EXCEPT !.status = "ok", !.got = m]]
           /\ ThenQueue(a, FALSE, p, "ok", FALSE, then)
           /\ UNCHANGED <<msg_queue, pending_queue>>
      ELSE /\ msg_queue' = [msg_queue EXCEPT ![p] = Append(@, m)]
           /\ waiters' = ws /\ waiter' = w
           /\ pending_queue' = [pending_queue EXCEPT ![p] = @ /\ ~queue]
           /\ ThenQueue(a, queue, p, "ok", FALSE, then)

\* What an end's user writes: a plain message or the reply to a request.
Outgoing(e) == {Plain} \cup {[q EXCEPT !.kind = "reply"] : q \in requests[e]}

Write(a, e, m) ==
  /\ CanCall(a) /\ ~closed[e]
  /\ Len(msg_queue[Peer(e)]) < MaxMsgs
  /\ linked
  /\ WriteSelfLocked(a, Peer(e), m, waiters, waiter, "none")
  /\ requests' = [requests EXCEPT ![e] = {q \in @ : m # [q EXCEPT !.kind = "reply"]}]
  /\ UNCHANGED <<linked, closed, registered, request_state, running, next_id, stack, panic>>

Read(a, e) ==
  /\ CanCall(a) /\ ~closed[e]
  /\ msg_queue[e] # <<>>
  /\ msg_queue' = [msg_queue EXCEPT ![e] = Tail(@)]
  /\ requests' = [requests EXCEPT ![e] =
                    IF Head(msg_queue[e]).kind = "request" THEN @ \cup {Head(msg_queue[e])} ELSE @]
  /\ UNCHANGED <<linked, closed, read_state, request_state, running, call_state, stack, control,
                 panic>>

-----------------------------------------------------------------------------
(* Waiting for messages. *)

\* Mutant: messages that are already there are not looked at.
ReadableUnseen(e) == FALSE
\* The wait is over as soon as it is registered.
Readable(e) == msg_queue[e] # <<>>

\* WaitAsync; a dispatcher that is shutting down refuses the registration.
WaitAsync(a, e) ==
  /\ CanCall(a) /\ ~closed[e]
  /\ e \in WaitEnds
  /\ linked \/ msg_queue[e] # <<>>
  /\ ~registered[e]
  /\ IF where[e] # "channel"
     THEN panic' = "request_busy" /\ UNCHANGED <<read_state, request_state, control>>
     ELSE /\ registered' = [registered EXCEPT ![e] = running[e]]
          /\ pending_queue' = [pending_queue EXCEPT ![e] = running[e] /\ ~Readable(e)]
          /\ where' = [where EXCEPT ![e] = IF running[e] THEN "registered" ELSE @]
          /\ ThenQueue(a, running[e] /\ Readable(e), e, "ok", TRUE, "none")
          /\ UNCHANGED <<batch, reason, panic>>
  /\ UNCHANGED <<linked, closed, msg_queue, running, call_state, requests, stack>>

\* CancelWait on a synchronized dispatcher, on its thread: CancelCallback
\* takes the request out of whatever list it is in.
CancelWait(a, e) ==
  /\ CanCall(a) /\ ~closed[e]
  /\ e \in SyncEnds /\ stack[a] # <<>> /\ Top(a).end = e
  /\ registered[e]
  /\ IF where[e] \in {"registered", "queued", "batch", "shutdown"}
     THEN /\ where' = [where EXCEPT ![e] = "channel"]
          /\ batch' = [batch EXCEPT ![e] = None]
          /\ reason' = [reason EXCEPT ![e] = "none"]
          /\ pending_queue' = [pending_queue EXCEPT ![e] = FALSE]
          /\ registered' = [registered EXCEPT ![e] = FALSE]
          /\ UNCHANGED panic
     ELSE panic' = "not_cancelled" /\ UNCHANGED <<read_state, request_state>>
  /\ UNCHANGED <<linked, closed, msg_queue, running, call_state, requests, stack, control>>

\* Nobody else has decided to queue the callback.
QueuesCancel(e) == pending_queue[e]

\* CancelWait on an unsynchronized dispatcher: the callback is queued, or is
\* told why if it still is in callback_queue_.
CancelWaitUnsynchronized(a, e) ==
  /\ CanCall(a) /\ ~closed[e]
  /\ e \notin SyncEnds
  /\ registered[e]
  /\ pending_queue' = [pending_queue EXCEPT ![e] = FALSE]
  /\ ThenQueue(a, QueuesCancel(e), e, "canceled", TRUE, "none")
  /\ reason' = [reason EXCEPT ![e] =
                  IF ~QueuesCancel(e) /\ where[e] = "queued" THEN "canceled" ELSE @]
  /\ UNCHANGED <<linked, closed, msg_queue, registered, where, batch, running, call_state,
                 requests, stack, panic>>

-----------------------------------------------------------------------------
(* Calls. *)

InUse(e) == {waiter[c].txid : c \in waiters[e]}
NthTxid(e, k) == ((next_id[e] + k) % NumTxids) + 1
\* Mutant: txids in use are not skipped.
AllocateTxidUnchecked(e, txid) == txid = NthTxid(e, 0)
\* AllocateTxidLocked: the first txid from next_id_ on that is not in use.
AllocateTxid(e, txid) ==
  \E k \in 0 .. NumTxids - 1 :
    /\ txid = NthTxid(e, k) /\ txid \notin InUse(e)
    /\ \A j \in 0 .. k - 1 : NthTxid(e, j) \in InUse(e)

InFlight ==
  UNION {{msg_queue[e][i] : i \in DOMAIN msg_queue[e]} \cup requests[e] : e \in Ends}
\* The 2^31 txids are not used up while a message of an ended call is around.
NotStale(txid) == \A m \in InFlight : m.txid = txid => m.of # None

\* Call up to the wait.  Only threads that may block get here.
Call(c, e) ==
  \E txid \in Txids :
  LET m == [kind |-> "request", txid |-> txid, of |-> c]
      w == [end |-> e, txid |-> txid, status |-> "waiting", got |-> Plain]
  IN
  /\ CanCall(c) /\ stack[c] = <<>> /\ c \in Clients /\ ~closed[e]
  /\ e \in Callers
  /\ Len(msg_queue[Peer(e)]) < MaxMsgs
  /\ linked
  /\ AllocateTxid(e, txid) /\ NotStale(txid)
  /\ next_id' = [next_id EXCEPT ![e] = txid % NumTxids]
  /\ WriteSelfLocked(c, Peer(e), m, [waiters EXCEPT ![e] = @ \cup {c}],
                     [waiter EXCEPT ![c] = w], "wait")
  /\ UNCHANGED <<linked, closed, registered, request_state, running, requests, stack, panic>>

\* Messages of c's call become stale when it ends.
Disown(m, c) == IF m.of = c THEN [m EXCEPT !.of = None] ELSE m

\* Mutant: a call that timed out leaves its waiter behind.
ErasesNever(c) == FALSE
\* A call without an outcome has timed out and erases its waiter.
Erases(c) == waiter[c].status = "waiting"

\* The wait ends, by Signal or by its deadline; TakeLocked and the rest of
\* Call.
CallReturns(c) ==
  LET e == waiter[c].end IN
  /\ Alive
  /\ call[c] = "wait"
  /\ waiters' = [waiters EXCEPT ![e] = IF Erases(c) THEN @ \ {c} ELSE @]
  /\ waiter' = [waiter EXCEPT ![c] = NoWaiter]
  /\ msg_queue' = [p \in Ends |-> [i \in DOMAIN msg_queue[p] |-> Disown(msg_queue[p][i], c)]]
  /\ requests' = [p \in Ends |-> {Disown(q, c) : q \in requests[p]}]
  /\ call' = [call EXCEPT ![c] = "none"]
  /\ UNCHANGED <<linked, closed, read_state, request_state, running, next_id, stack, todo, panic>>

-----------------------------------------------------------------------------
(* Closing. *)

\* The waiters of end e are cancelled with ZX_ERR_PEER_CLOSED.
CancelWaiters(e) ==
  /\ waiter' = [c \in Clients |->
                  IF c \in waiters[e] THEN [waiter[c] EXCEPT !.status = "closed"] ELSE waiter[c]]
  /\ waiters' = [waiters EXCEPT ![e] = {}]

\* Close; its caller has made sure that no wait is registered.
Close(a, e) ==
  /\ CanCall(a) /\ ~closed[e]
  /\ ~registered[e]
  /\ closed' = [closed EXCEPT ![e] = TRUE]
  /\ linked' = FALSE
  /\ CancelWaiters(e)
  /\ call' = [call EXCEPT ![a] = IF linked THEN "peer_closed" ELSE "none"]
  /\ todo' = [todo EXCEPT ![a] = IF linked THEN [end |-> Peer(e), reason |-> "none", ref |-> TRUE]
                                 ELSE Nothing]
  /\ UNCHANGED <<msg_queue, read_state, request_state, running, next_id, requests, stack, panic>>

\* Mutant: the close is reported whether or not messages are.
ReportsCloseAlways(p) == registered[p]
\* There is nothing left to read that would be reported first.
ReportsClose(p) == msg_queue[p] = <<>> /\ registered[p] /\ pending_queue[p]

OnPeerClosed(a) ==
  LET p == todo[a].end IN
  /\ Alive
  /\ call[a] = "peer_closed"
  /\ CancelWaiters(p)
  /\ pending_queue' = [pending_queue EXCEPT ![p] = @ /\ ~ReportsClose(p)]
  /\ ThenQueue(a, ReportsClose(p), p, "peer_closed", TRUE, "none")
  /\ UNCHANGED <<linked, closed, msg_queue, registered, request_state, running, next_id, requests,
                 stack, panic>>

-----------------------------------------------------------------------------
(* The dispatchers. *)

\* What follows a's QueueRegisteredCallback: the rest of Call, or nothing (a
\* callback that runs inside Call makes calls of its own).
AfterQueue(a) ==
  IF stack[a] = <<>> /\ a \in Clients /\ waiter[a].status # "idle" THEN "wait" ELSE "none"

\* Mutant: a synchronized dispatcher that is dispatching is called as well.
DirectCallInParallel(a, e) == ~IsCallStackEmpty(a) /\ ~IsDriverInCallStack(a, e)

\* Whether the callback is called at once on a's own thread.
DirectCall(a, e) ==
  /\ e \in SyncEnds => Inside(e) = {}
  /\ ~IsCallStackEmpty(a) /\ ~IsDriverInCallStack(a, e)

\* Dispatcher::QueueRegisteredCallback.
QueueRegisteredCallback(a) ==
  LET e == todo[a].end
      queues == running[e] /\ where[e] = "registered"
      direct == queues /\ DirectCall(a, e)
      frame == [kind |-> "enter", end |-> e, status |-> todo[a].reason, managed |-> TRUE,
                ret |-> AfterQueue(a)]
  IN
  /\ Alive
  /\ call[a] = "queue"
  /\ panic' = CASE running[e] /\ ~todo[a].ref /\ Freed(e, a) -> "freed"
                [] running[e] /\ where[e] \in {"queued", "batch"} -> "wrong_list"
                [] OTHER -> panic
  /\ call' = [call EXCEPT ![a] = IF direct THEN "none" ELSE AfterQueue(a)]
  /\ todo' = [todo EXCEPT ![a] = Nothing]
  /\ stack' = [stack EXCEPT ![a] = IF direct THEN Append(@, frame) ELSE @]
  /\ where' = [where EXCEPT ![e] = IF direct THEN "called" ELSE IF queues THEN "queued" ELSE @]
  /\ reason' = [reason EXCEPT ![e] = IF queues /\ ~direct THEN todo[a].reason ELSE @]
  /\ UNCHANGED <<linked, closed, msg_queue, read_state, batch, running, call_state, requests>>

\* A loop thread dispatches for e: other callbacks, and e's if it is queued
\* and in the batch.
DispatchCallbacks(t, e, takes) ==
  /\ Alive
  /\ stack[t] = <<>> /\ call[t] = "none"
  /\ running[e]
  /\ e \in SyncEnds => Inside(e) = {}
  /\ takes => where[e] = "queued"
  /\ where' = [where EXCEPT ![e] = IF takes THEN "batch" ELSE @]
  /\ batch' = [batch EXCEPT ![e] = IF takes THEN t ELSE @]
  /\ stack' = [stack EXCEPT ![t] = <<[kind |-> "task", end |-> e, status |-> "ok",
                                     managed |-> TRUE, ret |-> "none"]>>]
  /\ UNCHANGED <<linked, closed, msg_queue, read_state, reason, running, call_state, requests,
                 control, panic>>

\* CallbackRequest::Call out of t's batch.
DispatchCallback(t, e) ==
  /\ Alive
  /\ call[t] = "none" /\ where[e] = "batch" /\ batch[e] = t
  /\ stack[t] # <<>> /\ Top(t).kind = "task" /\ Top(t).end = e
  /\ where' = [where EXCEPT ![e] = "called"]
  /\ batch' = [batch EXCEPT ![e] = None]
  /\ reason' = [reason EXCEPT ![e] = "none"]
  /\ stack' = [stack EXCEPT ![t] = Append(@, [kind |-> "enter", end |-> e, status |-> reason[e],
                                              managed |-> TRUE, ret |-> "none"])]
  /\ UNCHANGED <<linked, closed, msg_queue, read_state, running, call_state, requests, control,
                 panic>>

\* ShutdownAsync of e's dispatcher.
ShutdownAsync(e) ==
  /\ Alive
  /\ running[e]
  /\ running' = [running EXCEPT ![e] = FALSE]
  /\ where' = [where EXCEPT ![e] = IF @ \in {"registered", "queued"} THEN "shutdown" ELSE @]
  /\ UNCHANGED <<linked, closed, msg_queue, read_state, batch, reason, call_state, requests, stack,
                 control, panic>>

\* CompleteShutdown calls e's request, once nobody is inside the dispatcher.
CompleteShutdown(t, e) ==
  /\ Alive
  /\ stack[t] = <<>> /\ call[t] = "none"
  /\ ~running[e] /\ Inside(e) = {}
  /\ where[e] = "shutdown"
  /\ where' = [where EXCEPT ![e] = "called"]
  /\ reason' = [reason EXCEPT ![e] = "none"]
  /\ stack' = [stack EXCEPT ![t] = <<[kind |-> "enter", end |-> e,
                                     status |-> IF reason[e] \in {"none", "ok"} THEN "canceled"
                                                ELSE reason[e],
                                     managed |-> FALSE, ret |-> "none"]>>]
  /\ UNCHANGED <<linked, closed, msg_queue, read_state, batch, running, call_state, requests,
                 control, panic>>

\* Channel::DispatcherCallback up to the user's handler.
DispatcherCallback(a) ==
  LET e == Top(a).end IN
  /\ Alive
  /\ call[a] = "none" /\ stack[a] # <<>> /\ Top(a).kind = "enter"
  /\ panic' = IF registered[e] THEN panic ELSE "not_registered"
  /\ registered' = [registered EXCEPT ![e] = FALSE]
  /\ where' = [where EXCEPT ![e] = "channel"]
  /\ stack' = [stack EXCEPT ![a][Len(stack[a])].kind = "handler"]
  /\ UNCHANGED <<linked, closed, msg_queue, pending_queue, batch, reason, running, call_state,
                 requests, control>>

\* The user's handler, or the other callbacks of the batch, have returned.
CallbackReturns(a) ==
  /\ Alive
  /\ call[a] = "none" /\ stack[a] # <<>>
  /\ \/ Top(a).kind = "handler"
     \/ Top(a).kind = "task" /\ \A e \in Ends : batch[e] # a
  /\ stack' = [stack EXCEPT ![a] = SubSeq(@, 1, Len(@) - 1)]
  /\ call' = [call EXCEPT ![a] = Top(a).ret]
  /\ UNCHANGED <<linked, closed, msg_queue, read_state, request_state, running, call_state,
                 requests, todo, panic>>

-----------------------------------------------------------------------------
ApiCall(a, e) ==
  \/ \E m \in Outgoing(e) : Write(a, e, m)
  \/ Read(a, e) \/ WaitAsync(a, e)
  \/ CancelWait(a, e) \/ CancelWaitUnsynchronized(a, e)
  \/ Call(a, e) \/ Close(a, e)

ActorStep(a) == OnPeerClosed(a) \/ QueueRegisteredCallback(a) \/ DispatcherCallback(a)

Next ==
  \/ \E a \in Actors, e \in Ends : ApiCall(a, e)
  \/ \E a \in Actors : ActorStep(a) \/ CallbackReturns(a)
  \/ \E c \in Clients : CallReturns(c)
  \/ \E t \in Threads, e \in Ends :
       \/ \E takes \in BOOLEAN : DispatchCallbacks(t, e, takes)
       \/ DispatchCallback(t, e)
       \/ CompleteShutdown(t, e)
  \/ \E e \in Ends : ShutdownAsync(e)

Spec == Init /\ [][Next]_vars

-----------------------------------------------------------------------------
(* Properties. *)

\* No wake-up is lost between the channel's lock and the dispatcher's: a wait
\* that nobody has yet decided to queue has no message to report, and the
\* peer is open or its closing is about to be reported
\* (callback_request_pending_queue_).
NoLostRead ==
  \A e \in Ends : registered[e] /\ pending_queue[e] =>
    /\ msg_queue[e] = <<>>
    /\ linked \/ \E a \in Actors : call[a] = "peer_closed" /\ todo[a].end = e

\* The assertions on the request's owner hold: WaitAsync finds the request in
\* the channel, CancelWait on a synchronized dispatcher always gets it back
\* and DispatcherCallback finds the wait it is for (channel.cc 390, 457, 489).
AssertionsHold == panic \notin {"request_busy", "not_cancelled", "not_registered"}

\* A waiter is listed exactly while its call has no outcome, so the erase of
\* a call that timed out finds it listed and ~MessageWaiter finds it gone.
WaitersListed ==
  \A c \in Clients, e \in Ends :
    c \in waiters[e] <=> waiter[c].end = e /\ waiter[c].status = "waiting"

\* A call that succeeds has got the reply to its own request, although replies
\* race deadlines and txids are used again.
CallsMatched ==
  \A c \in Clients :
    waiter[c].status = "ok" => waiter[c].got.of = c /\ waiter[c].got.kind = "reply"

\* A read callback that reports ZX_ERR_PEER_CLOSED leaves no message unread.
PeerClosedIsLast ==
  \A a \in Actors : \A i \in DOMAIN stack[a] :
    stack[a][i].status = "peer_closed" => ~linked /\ msg_queue[stack[a][i].end] = <<>>
=============================================================================
