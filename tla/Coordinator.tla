---------------------------- MODULE Coordinator ----------------------------
(***************************************************************************)
(* The DispatcherCoordinator of a driver host (dispatcher.{h,cc} of        *)
(* bin/driver_runtime): which dispatchers each driver has, how a driver's  *)
(* dispatchers are shut down together, when the shutdown is reported, when *)
(* a driver's state is dropped, and how many threads the shared loop has.  *)
(* Every critical section of lock_ is one action.  Of a dispatcher only    *)
(* the part that talks to the coordinator is here: its creation, the end   *)
(* of CompleteShutdown and Destroy.  Module Dispatcher has the rest.       *)
(***************************************************************************)
EXTENDS Integers, FiniteSets

CONSTANTS
  Drivers,        \* driver objects: the owners of dispatchers
  Dispatchers,    \* dispatcher objects; an identity is reused once free
  Owner,          \* Owner[d]: Dispatcher::owner()
  SyncCalls,      \* the dispatchers with allow_sync_calls()
  Clients,        \* threads of the driver host that call the coordinator
  ThreadLimit,    \* the 10 that number_threads_ is clamped to
  ThreadsCanFail, \* may loop_.StartThread fail?
  MaxNeeded,      \* bound: dispatcher_threads_needed_
  MaxRequests,    \* bound: shutdown requests of a driver not yet answered
  None            \* no driver

ASSUME OwnerAssumption ==
  /\ Owner \in [Dispatchers -> Drivers]
  /\ SyncCalls \subseteq Dispatchers /\ IsFiniteSet(SyncCalls)
  /\ None \notin Drivers
ASSUME LimitsAssumption ==
  /\ ThreadLimit \in Nat \ {0}
  /\ MaxNeeded \in Nat \ {0}
  /\ MaxRequests \in Nat \ {0}
  /\ ThreadsCanFail \in BOOLEAN

VARIABLES
  drivers,                    \* the keys of drivers_
  dispatchers,                \* DriverState::dispatchers_
  shutdown_dispatchers,       \* DriverState::shutdown_dispatchers_
  shutdown_observer,          \* DriverState::shutdown_observer_ is set
  number_threads,             \* number_threads_
  dispatcher_threads_needed,  \* dispatcher_threads_needed_
  state,                      \* Dispatcher::state_, before and after its life
  pc,                         \* the loop thread inside d's CompleteShutdown
  request,                    \* the driver whose shutdown a client requests
  to_shutdown,                \* dispatchers a client has yet to post to
  to_destroy,                 \* dispatchers DestroyAllDispatchers goes through
  tasks,                      \* dispatchers with a posted ShutdownAsync task
  posted,                     \* observer calls posted to the loop, by driver
  waiting,                    \* clients blocked on drivers_destroyed_event_
  unanswered,                 \* history: accepted requests minus reports
  panic                       \* the ZX_ASSERT that failed, if any

driver_states == <<drivers, dispatchers, shutdown_dispatchers, shutdown_observer>>
threads == <<number_threads, dispatcher_threads_needed>>
clients == <<request, to_shutdown, to_destroy>>
vars == <<driver_states, threads, clients, state, pc, tasks, posted, waiting, unanswered, panic>>

-----------------------------------------------------------------------------
States == {"none", "creating", "kRunning", "kShuttingDown", "kShutdown", "kDestroyed", "removed"}
\* Where CompleteShutdown is: before SetShutdown, inside the dispatcher's own
\* observer, before NotifyShutdown, inside the driver's observer.
Pcs == {"idle", "set_shutdown", "observer", "notify", "handler"}
Panics == {"none", "no_state", "state_removed", "not_shutdown", "threads_needed"}

CompletedShutdown(o) == dispatchers[o] = {}
IsShuttingDown(o) == shutdown_observer[o]
HasDispatchers(o) == dispatchers[o] # {} \/ shutdown_dispatchers[o] # {}

Busy == {d \in Dispatchers : pc[d] # "idle"}
\* A failed assertion stops the process.
Alive == panic = "none"
FreeThread == Cardinality(Busy) < number_threads

\* The observer's handler is called; -1 stands for any number of calls that
\* answer no request.
Report(o) == unanswered' = [unanswered EXCEPT ![o] = IF @ < 0 THEN @ ELSE @ - 1]

Init ==
  /\ drivers = {}
  /\ dispatchers = [o \in Drivers |-> {}]
  /\ shutdown_dispatchers = [o \in Drivers |-> {}]
  /\ shutdown_observer = [o \in Drivers |-> FALSE]
  /\ number_threads = 1
  /\ dispatcher_threads_needed = 1
  /\ state = [d \in Dispatchers |-> "none"]
  /\ pc = [d \in Dispatchers |-> "idle"]
  /\ request = [c \in Clients |-> None]
  /\ to_shutdown = [c \in Clients |-> {}]
  /\ to_destroy = {}
  /\ tasks = {}
  /\ posted = [o \in Drivers |-> 0]
  /\ waiting = {}
  /\ unanswered = [o \in Drivers |-> 0]
  /\ panic = "none"

-----------------------------------------------------------------------------
(* Creating a dispatcher. *)

\* Mutant of AddThread's test: the count is the old one.
NeedsThreadLate ==
  ~(number_threads >= dispatcher_threads_needed \/ number_threads = ThreadLimit)

\* AddThread: one thread per blocking dispatcher and one for all the others.
NeedsThread ==
  ~(number_threads >= dispatcher_threads_needed + 1 \/ number_threads = ThreadLimit)
AddThread ==
  /\ dispatcher_threads_needed < MaxNeeded
  /\ dispatcher_threads_needed' = dispatcher_threads_needed + 1
  /\ number_threads' = IF NeedsThread THEN number_threads + 1 ELSE number_threads

\* CreateWithAdder up to AddDispatcher.
Create(d) ==
  /\ Alive
  /\ state[d] = "none"
  /\ IF d \in SyncCalls THEN AddThread ELSE UNCHANGED threads
  /\ state' = [state EXCEPT ![d] = "creating"]
  /\ UNCHANGED <<driver_states, clients, pc, tasks, posted, waiting, unanswered, panic>>

\* AddThread could not start a thread: CreateWithAdder returns its status.
CreateFails(d) ==
  /\ Alive
  /\ ThreadsCanFail
  /\ state[d] = "none" /\ d \in SyncCalls
  /\ dispatcher_threads_needed < MaxNeeded
  /\ NeedsThread
  /\ dispatcher_threads_needed' = dispatcher_threads_needed + 1
  /\ UNCHANGED <<number_threads, driver_states, clients, state, pc, tasks, posted, waiting,
                 unanswered, panic>>

\* AddDispatcher; CreateWithAdder gives up when it fails.
AddDispatcher(d) ==
  LET o == Owner[d] IN
  /\ Alive
  /\ state[d] = "creating"
  /\ IF o \in drivers /\ IsShuttingDown(o)
     THEN /\ state' = [state EXCEPT ![d] = "none"]
          /\ UNCHANGED <<drivers, dispatchers>>
     ELSE /\ state' = [state EXCEPT ![d] = "kRunning"]
          /\ drivers' = drivers \cup {o}
          /\ dispatchers' = [dispatchers EXCEPT ![o] = @ \cup {d}]
  /\ UNCHANGED <<shutdown_dispatchers, shutdown_observer, threads, clients, pc, tasks, posted,
                 waiting, unanswered, panic>>

-----------------------------------------------------------------------------
(* Shutting down. *)

\* ShutdownDispatchersAsync under the lock: the dispatchers are copied.
ShutdownDispatchersAsync(c, o) ==
  /\ Alive
  /\ request[c] = None /\ c \notin waiting
  /\ unanswered[o] < MaxRequests /\ posted[o] < MaxRequests
  /\ o \in drivers
  /\ CompletedShutdown(o) \/ ~IsShuttingDown(o)
  /\ shutdown_observer' = [shutdown_observer EXCEPT ![o] = @ \/ ~CompletedShutdown(o)]
  /\ request' = [request EXCEPT ![c] = o]
  /\ to_shutdown' = [to_shutdown EXCEPT ![c] = dispatchers[o]]
  /\ unanswered' = [unanswered EXCEPT ![o] = @ + 1]
  /\ UNCHANGED <<drivers, dispatchers, shutdown_dispatchers, threads, to_destroy, state, pc, tasks,
                 posted, waiting, panic>>

\* One PostTask of ShutdownDispatchersAsync, refused unless kRunning.
PostShutdown(c, d) ==
  /\ Alive
  /\ d \in to_shutdown[c]
  /\ tasks' = IF state[d] = "kRunning" THEN tasks \cup {d} ELSE tasks
  /\ to_shutdown' = [to_shutdown EXCEPT ![c] = @ \ {d}]
  /\ request' = [request EXCEPT ![c] = IF to_shutdown'[c] = {} THEN None ELSE @]
  /\ UNCHANGED <<driver_states, threads, to_destroy, state, pc, posted, waiting, unanswered, panic>>

\* There was nothing to shut down: the observer's call is posted to the loop.
PostObserver(c) ==
  /\ Alive
  /\ request[c] # None
  /\ to_shutdown[c] = {}
  /\ posted' = [posted EXCEPT ![request[c]] = @ + 1]
  /\ request' = [request EXCEPT ![c] = None]
  /\ UNCHANGED <<driver_states, threads, to_shutdown, to_destroy, state, pc, tasks, waiting,
                 unanswered, panic>>

RunObserver(o) ==
  /\ Alive
  /\ posted[o] > 0
  /\ FreeThread
  /\ posted' = [posted EXCEPT ![o] = @ - 1]
  /\ Report(o)
  /\ UNCHANGED <<driver_states, threads, clients, state, pc, tasks, waiting, panic>>

\* Dispatcher::ShutdownAsync, called by the driver.
ShutdownAsync(d) ==
  /\ Alive
  /\ state[d] = "kRunning"
  /\ state' = [state EXCEPT ![d] = "kShuttingDown"]
  /\ UNCHANGED <<driver_states, threads, clients, pc, tasks, posted, waiting, unanswered, panic>>

\* The posted task calls ShutdownAsync, unless CompleteShutdown cancels it.
RunShutdownTask(d) ==
  /\ Alive
  /\ d \in tasks
  /\ state[d] = "kRunning"
  /\ FreeThread
  /\ tasks' = tasks \ {d}
  /\ state' = [state EXCEPT ![d] = "kShuttingDown"]
  /\ UNCHANGED <<driver_states, threads, clients, pc, posted, waiting, unanswered, panic>>

\* CompleteShutdown on a loop thread, up to state_ = kShutdown.  All tasks of
\* the dispatcher have been run or cancelled.
CompleteShutdown(d) ==
  /\ Alive
  /\ state[d] = "kShuttingDown"
  /\ FreeThread
  /\ tasks' = tasks \ {d}
  /\ state' = [state EXCEPT ![d] = "kShutdown"]
  /\ pc' = [pc EXCEPT ![d] = "set_shutdown"]
  /\ UNCHANGED <<driver_states, threads, clients, posted, waiting, unanswered, panic>>

SetShutdown(d) ==
  LET o == Owner[d] IN
  /\ Alive
  /\ pc[d] = "set_shutdown"
  /\ pc' = [pc EXCEPT ![d] = "observer"]
  /\ dispatchers' = [dispatchers EXCEPT ![o] = @ \ {d}]
  /\ shutdown_dispatchers' = [shutdown_dispatchers EXCEPT ![o] = @ \cup {d}]
  /\ panic' = IF o \in drivers THEN panic ELSE "no_state"
  /\ UNCHANGED <<drivers, shutdown_observer, threads, clients, state, tasks, posted, waiting,
                 unanswered>>

\* The dispatcher's own shutdown observer has returned.
ObserverReturns(d) ==
  /\ Alive
  /\ pc[d] = "observer"
  /\ pc' = [pc EXCEPT ![d] = "notify"]
  /\ UNCHANGED <<driver_states, threads, clients, state, tasks, posted, waiting, unanswered, panic>>

\* Mutants of NotifyShutdown's test: it waits for the dispatchers to be
\* destroyed, or does not wait for the driver's other dispatchers.
ReportsWhenDestroyed(o) == o \in drivers /\ ~HasDispatchers(o) /\ IsShuttingDown(o)
ReportsAtOnce(o) == o \in drivers /\ IsShuttingDown(o)
\* NotifyShutdown's early returns.
Reports(o) == o \in drivers /\ CompletedShutdown(o) /\ IsShuttingDown(o)

\* NotifyShutdown, first critical section: whether to call the observer.
NotifyShutdown(d) ==
  LET o == Owner[d] IN
  /\ Alive
  /\ pc[d] = "notify"
  /\ IF Reports(o)
     THEN /\ pc' = [pc EXCEPT ![d] = "handler"]
          /\ Report(o)
     ELSE /\ pc' = [pc EXCEPT ![d] = "idle"]
          /\ UNCHANGED unanswered
  /\ UNCHANGED <<driver_states, threads, clients, state, tasks, posted, waiting, panic>>

\* Mutant of the end of NotifyShutdown and of RemoveDispatcher: without the test
\* of the dispatchers.
DropStateEarly(o) ==
  /\ drivers' = IF IsShuttingDown(o)' THEN drivers ELSE drivers \ {o}
  /\ waiting' = IF drivers' = {} THEN {} ELSE waiting

\* The end of NotifyShutdown and of RemoveDispatcher, on the new lists.
DropState(o) ==
  /\ drivers' = IF HasDispatchers(o)' \/ IsShuttingDown(o)' THEN drivers ELSE drivers \ {o}
  /\ waiting' = IF drivers' = {} THEN {} ELSE waiting

\* NotifyShutdown, second critical section.
HandlerReturns(d) ==
  LET o == Owner[d] IN
  /\ Alive
  /\ pc[d] = "handler"
  /\ pc' = [pc EXCEPT ![d] = "idle"]
  /\ IF o \in drivers
     THEN /\ shutdown_observer' = [shutdown_observer EXCEPT ![o] = FALSE]
          /\ UNCHANGED <<dispatchers, shutdown_dispatchers, panic>>
          /\ DropState(o)
     ELSE /\ panic' = "state_removed"
          /\ UNCHANGED <<driver_states, waiting>>
  /\ UNCHANGED <<threads, clients, state, tasks, posted, unanswered>>

-----------------------------------------------------------------------------
(* Destroying. *)

\* Destroy sets kDestroyed under the dispatcher's lock.  A driver learns from
\* the dispatcher's observer that it may call Destroy.
Destroy(d) ==
  /\ Alive
  /\ state[d] = "kShutdown"
  /\ pc[d] # "set_shutdown"
  /\ d \notin to_destroy
  /\ state' = [state EXCEPT ![d] = "kDestroyed"]
  /\ UNCHANGED <<driver_states, threads, clients, pc, tasks, posted, waiting, unanswered, panic>>

RemoveDispatcher(d) ==
  LET o == Owner[d] IN
  /\ Alive
  /\ state[d] = "kDestroyed"
  /\ state' = [state EXCEPT ![d] = "removed"]
  /\ IF o \in drivers
     THEN /\ dispatcher_threads_needed' =
               IF d \in SyncCalls THEN dispatcher_threads_needed - 1 ELSE dispatcher_threads_needed
          /\ shutdown_dispatchers' = [shutdown_dispatchers EXCEPT ![o] = @ \ {d}]
          /\ UNCHANGED <<dispatchers, shutdown_observer, number_threads, panic>>
          /\ DropState(o)
     ELSE /\ panic' = "no_state"
          /\ UNCHANGED <<driver_states, threads, waiting>>
  /\ UNCHANGED <<clients, pc, tasks, posted, unanswered>>

\* The last reference is dropped; the identity can stand for a new object.
Free(d) ==
  /\ Alive
  /\ state[d] = "removed"
  /\ pc[d] = "idle"
  /\ \A c \in Clients : d \notin to_shutdown[c]
  /\ state' = [state EXCEPT ![d] = "none"]
  /\ UNCHANGED <<driver_states, threads, clients, pc, tasks, posted, waiting, unanswered, panic>>

\* DestroyAllDispatchers under the lock.  The driver host calls it once all
\* dispatchers are shut down, in place of the drivers.
DestroyAllDispatchers ==
  /\ Alive
  /\ to_destroy = {}
  /\ \A o \in Drivers : CompletedShutdown(o)
  /\ \A d \in Dispatchers : state[d] # "kDestroyed"
  /\ to_destroy' = UNION {shutdown_dispatchers[o] : o \in Drivers}
  /\ to_destroy' # {}
  /\ UNCHANGED <<driver_states, threads, request, to_shutdown, state, pc, tasks, posted, waiting,
                 unanswered, panic>>

DestroyNext(d) ==
  /\ Alive
  /\ d \in to_destroy
  /\ to_destroy' = to_destroy \ {d}
  /\ IF state[d] = "kShutdown"
     THEN state' = [state EXCEPT ![d] = "kDestroyed"] /\ UNCHANGED panic
     ELSE panic' = "not_shutdown" /\ UNCHANGED state
  /\ UNCHANGED <<driver_states, threads, request, to_shutdown, pc, tasks, posted, waiting,
                 unanswered>>

WaitUntilDispatchersDestroyed(c) ==
  /\ Alive
  /\ request[c] = None
  /\ drivers # {}
  /\ waiting' = waiting \cup {c}
  /\ UNCHANGED <<driver_states, threads, clients, state, pc, tasks, posted, unanswered, panic>>

\* Reset, called with no outstanding dispatchers; JoinThreads and
\* RunUntilIdle leave nothing on the loop.
Reset ==
  /\ Alive
  /\ drivers = {}
  /\ \A d \in Dispatchers : state[d] \in {"none", "removed"}
  /\ Busy = {} /\ tasks = {} /\ \A o \in Drivers : posted[o] = 0
  /\ IF dispatcher_threads_needed = 1
     THEN number_threads' = 1 /\ UNCHANGED panic
     ELSE panic' = "threads_needed" /\ UNCHANGED number_threads
  /\ UNCHANGED <<dispatcher_threads_needed, driver_states, clients, state, pc, tasks, posted,
                 waiting, unanswered>>

-----------------------------------------------------------------------------
DispatcherStep(d) ==
  \/ Create(d) \/ CreateFails(d) \/ AddDispatcher(d)
  \/ ShutdownAsync(d) \/ RunShutdownTask(d)
  \/ CompleteShutdown(d) \/ SetShutdown(d) \/ ObserverReturns(d)
  \/ NotifyShutdown(d) \/ HandlerReturns(d)
  \/ Destroy(d) \/ RemoveDispatcher(d) \/ Free(d) \/ DestroyNext(d)

ClientStep(c) ==
  \/ \E o \in Drivers : ShutdownDispatchersAsync(c, o)
  \/ \E d \in Dispatchers : PostShutdown(c, d)
  \/ PostObserver(c)
  \/ WaitUntilDispatchersDestroyed(c)

Next ==
  \/ \E d \in Dispatchers : DispatcherStep(d)
  \/ \E c \in Clients : ClientStep(c)
  \/ \E o \in Drivers : RunObserver(o)
  \/ DestroyAllDispatchers
  \/ Reset

Spec == Init /\ [][Next]_vars

\* A thread inside a call or a handler goes on.  The loop takes its packets in
\* order, so one that waits for a free thread again and again is taken.
Fairness ==
  /\ \A d \in Dispatchers :
       /\ SF_vars(RunShutdownTask(d))
       /\ SF_vars(CompleteShutdown(d))
       /\ WF_vars(SetShutdown(d))
       /\ WF_vars(ObserverReturns(d))
       /\ WF_vars(NotifyShutdown(d))
       /\ WF_vars(HandlerReturns(d))
  /\ \A c \in Clients, d \in Dispatchers : WF_vars(PostShutdown(c, d))
FairSpec == Spec /\ Fairness

-----------------------------------------------------------------------------
(* Properties. *)

\* Every variable has its type.
TypeOK ==
  /\ drivers \subseteq Drivers
  /\ dispatchers \in [Drivers -> SUBSET Dispatchers]
  /\ shutdown_dispatchers \in [Drivers -> SUBSET Dispatchers]
  /\ shutdown_observer \in [Drivers -> BOOLEAN]
  /\ number_threads \in 1 .. ThreadLimit
  /\ dispatcher_threads_needed \in Int
  /\ state \in [Dispatchers -> States]
  /\ pc \in [Dispatchers -> Pcs]
  /\ request \in [Clients -> Drivers \cup {None}]
  /\ to_shutdown \in [Clients -> SUBSET Dispatchers]
  /\ to_destroy \subseteq Dispatchers
  /\ tasks \subseteq Dispatchers
  /\ posted \in [Drivers -> Nat]
  /\ waiting \subseteq Clients
  /\ unanswered \in [Drivers -> Int]
  /\ panic \in Panics

\* A driver has a DriverState exactly as long as one of its dispatchers is not
\* destroyed or its shutdown is not yet reported: NotifyShutdown and
\* RemoveDispatcher drop it in either order, neither early nor never.
StatesKept ==
  \A o \in Drivers : o \in drivers <=> HasDispatchers(o) \/ IsShuttingDown(o)

\* A dispatcher is in its driver's dispatchers_ until SetShutdown and in
\* shutdown_dispatchers_ from then until RemoveDispatcher, whatever its own
\* state_ (guarded by another lock) says meanwhile, and in no other driver's.
ListsMatchStates ==
  \A d \in Dispatchers, o \in Drivers :
    /\ d \in dispatchers[o] <=>
         /\ o = Owner[d]
         /\ \/ state[d] \in {"kRunning", "kShuttingDown"}
            \/ state[d] = "kShutdown" /\ pc[d] = "set_shutdown"
    /\ d \in shutdown_dispatchers[o] <=>
         /\ o = Owner[d]
         /\ state[d] \in {"kShutdown", "kDestroyed"} /\ pc[d] # "set_shutdown"

\* SetShutdown, RemoveDispatcher and Destroy find the driver's state and the
\* dispatcher's state_ as their assertions expect.
AssertionsHold == panic \notin {"no_state", "not_shutdown"}

\* Nobody stays blocked in WaitUntilDispatchersDestroyed when the last
\* DriverState is gone: each place that drops one broadcasts.
DestroyedIsBroadcast == waiting # {} => drivers # {}

Blocking == {d \in SyncCalls : state[d] \notin {"none", "removed"}}
\* There is a loop thread for every blocking dispatcher and one for the rest,
\* until AddThread's limit is reached, however many creations failed.
ThreadsEnough == number_threads = ThreadLimit \/ number_threads > Cardinality(Blocking)

\* A driver's observer is called only when the observers of its dispatchers
\* have returned ("We need to call the dispatcher shutdown handler before
\* notifying the dispatcher coordinator"), and by NotifyShutdown only when all
\* of them are shut down.
ObserverIsLast ==
  [][\A d \in Dispatchers : unanswered'[Owner[d]] < unanswered[Owner[d]] =>
       /\ pc[d] \notin {"set_shutdown", "observer"}
       /\ posted' = posted => state[d] \notin {"kRunning", "kShuttingDown"}]_vars

\* A driver whose shutdown was accepted gets its report, however its
\* dispatchers race with the posted shutdown tasks, unless an assertion fails.
ShutdownReported ==
  \A o \in Drivers : shutdown_observer[o] ~> ~shutdown_observer[o] \/ panic # "none"
=============================================================================
