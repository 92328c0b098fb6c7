------------------------- MODULE CoordinatorProofs -------------------------
(***************************************************************************)
(* Proofs about the dispatcher coordinator, for any drivers, dispatchers,  *)
(* clients and limits.                                                     *)
(***************************************************************************)
EXTENDS Coordinator, FiniteSetTheorems, TLAPS

\* The coordinator's variables are well typed initially.
LEMMA TypeInit == Init => TypeOK
BY OwnerAssumption, LimitsAssumption, SMTT(30) DEF Init, TypeOK, States, Pcs, Panics

\* Every step of the coordinator keeps the types.
LEMMA TypeNext == TypeOK /\ [Next]_vars => TypeOK'
<1> SUFFICES ASSUME TypeOK, [Next]_vars PROVE TypeOK'
  BY Zenon
<1> USE OwnerAssumption, LimitsAssumption DEF TypeOK
<1>1. ASSUME NEW d \in Dispatchers, Create(d) PROVE TypeOK'
  BY <1>1 DEF Create, AddThread, NeedsThread, driver_states, threads, clients, States, Pcs,
              Panics
<1>2. ASSUME NEW d \in Dispatchers, CreateFails(d) PROVE TypeOK'
  BY <1>2 DEF CreateFails, NeedsThread, driver_states, threads, clients, States, Pcs, Panics
<1>3. ASSUME NEW d \in Dispatchers, AddDispatcher(d) PROVE TypeOK'
  BY <1>3 DEF AddDispatcher, IsShuttingDown, driver_states, threads, clients, States, Pcs,
              Panics
<1>4. ASSUME NEW d \in Dispatchers, ShutdownAsync(d) PROVE TypeOK'
  BY Zenon, <1>4 DEF ShutdownAsync, driver_states, threads, clients, States, Pcs, Panics
<1>5. ASSUME NEW d \in Dispatchers, RunShutdownTask(d) PROVE TypeOK'
  BY Zenon, <1>5 DEF RunShutdownTask, driver_states, threads, clients, States, Pcs, Panics
<1>6. ASSUME NEW d \in Dispatchers, CompleteShutdown(d) PROVE TypeOK'
  BY Zenon, <1>6 DEF CompleteShutdown, driver_states, threads, clients, States, Pcs, Panics
<1>7. ASSUME NEW d \in Dispatchers, SetShutdown(d) PROVE TypeOK'
  BY <1>7 DEF SetShutdown, driver_states, threads, clients, States, Pcs, Panics
<1>8. ASSUME NEW d \in Dispatchers, ObserverReturns(d) PROVE TypeOK'
  BY Zenon, <1>8 DEF ObserverReturns, driver_states, threads, clients, States, Pcs, Panics
<1>9. ASSUME NEW d \in Dispatchers, NotifyShutdown(d) PROVE TypeOK'
  BY <1>9 DEF NotifyShutdown, Reports, CompletedShutdown, IsShuttingDown, Report, driver_states,
              threads, clients, States, Pcs, Panics
<1>10. ASSUME NEW d \in Dispatchers, HandlerReturns(d) PROVE TypeOK'
  BY <1>10, ZenonT(30) DEF HandlerReturns, DropState, HasDispatchers, IsShuttingDown, driver_states,
               threads, clients, States, Pcs, Panics
<1>11. ASSUME NEW d \in Dispatchers, Destroy(d) PROVE TypeOK'
  BY Zenon, <1>11 DEF Destroy, driver_states, threads, clients, States, Pcs, Panics
<1>12. ASSUME NEW d \in Dispatchers, RemoveDispatcher(d) PROVE TypeOK'
  BY <1>12 DEF RemoveDispatcher, DropState, HasDispatchers, IsShuttingDown, driver_states,
               threads, clients, States, Pcs, Panics
<1>13. ASSUME NEW d \in Dispatchers, Free(d) PROVE TypeOK'
  BY Zenon, <1>13 DEF Free, driver_states, threads, clients, States, Pcs, Panics
<1>14. ASSUME NEW d \in Dispatchers, DestroyNext(d) PROVE TypeOK'
  BY Zenon, <1>14 DEF DestroyNext, driver_states, threads, clients, States, Pcs, Panics
<1>15. ASSUME NEW c \in Clients, NEW o \in Drivers, ShutdownDispatchersAsync(c, o) PROVE TypeOK'
  BY <1>15 DEF ShutdownDispatchersAsync, CompletedShutdown, IsShuttingDown, driver_states,
               threads, clients, States, Pcs, Panics
<1>16. ASSUME NEW c \in Clients, NEW d \in Dispatchers, PostShutdown(c, d) PROVE TypeOK'
  BY Zenon, <1>16 DEF PostShutdown, driver_states, threads, clients, States, Pcs, Panics
<1>17. ASSUME NEW c \in Clients, PostObserver(c) PROVE TypeOK'
  BY <1>17 DEF PostObserver, driver_states, threads, clients, States, Pcs, Panics
<1>18. ASSUME NEW c \in Clients, WaitUntilDispatchersDestroyed(c) PROVE TypeOK'
  BY Zenon, <1>18 DEF WaitUntilDispatchersDestroyed, driver_states, threads, clients, States, Pcs,
               Panics
<1>19. ASSUME NEW o \in Drivers, RunObserver(o) PROVE TypeOK'
  BY <1>19 DEF RunObserver, Report, driver_states, threads, clients, States, Pcs, Panics
<1>20. ASSUME DestroyAllDispatchers PROVE TypeOK'
  BY <1>20 DEF DestroyAllDispatchers, CompletedShutdown, driver_states, threads, clients,
               States, Pcs, Panics
<1>21. ASSUME Reset PROVE TypeOK'
  BY <1>21 DEF Reset, driver_states, threads, clients, States, Pcs, Panics
<1>22. CASE UNCHANGED vars
  BY Zenon, <1>22 DEF vars, driver_states, threads, clients, States, Pcs, Panics
<1> QED
  BY Zenon, <1>1, <1>2, <1>3, <1>4, <1>5, <1>6, <1>7, <1>8, <1>9, <1>10, <1>11, <1>12, <1>13, <1>14,
     ZenonT(30),
     <1>15, <1>16, <1>17, <1>18, <1>19, <1>20, <1>21, <1>22 DEF Next, DispatcherStep, ClientStep

\* TypeOK holds in every reachable state, for any drivers and dispatchers.
THEOREM TypeCorrect == Spec => []TypeOK
BY TypeInit, TypeNext, PTL DEF Spec

-----------------------------------------------------------------------------
\* The end of a dispatcher's life follows its state_: a loop thread inside
\* CompleteShutdown keeps the object from being reused, and what
\* DestroyAllDispatchers has collected nobody else destroys.
LifeInv ==
  \A d \in Dispatchers :
    /\ pc[d] = "set_shutdown" => state[d] = "kShutdown"
    /\ pc[d] # "idle" => state[d] \in {"kShutdown", "kDestroyed", "removed"}
    /\ d \in to_destroy => state[d] = "kShutdown" /\ pc[d] # "set_shutdown"

\* The inductive invariant of the coordinator's book-keeping.
BooksInv ==
  TypeOK /\ LifeInv /\ ListsMatchStates /\ StatesKept /\ AssertionsHold /\ DestroyedIsBroadcast

\* The books are in order initially.
LEMMA BooksInit == Init => BooksInv
<1> SUFFICES ASSUME Init PROVE BooksInv
  BY Zenon
<1>1. TypeOK
  BY Zenon, TypeInit
<1>2. LifeInv /\ AssertionsHold /\ DestroyedIsBroadcast
  BY Zenon DEF Init, LifeInv, AssertionsHold, DestroyedIsBroadcast
<1>3. ListsMatchStates
  BY Zenon DEF Init, ListsMatchStates
<1>4. StatesKept
  BY Zenon DEF Init, StatesKept, HasDispatchers, IsShuttingDown
<1> QED
  BY Zenon, <1>1, <1>2, <1>3, <1>4 DEF BooksInv

\* Every step keeps LifeInv.
LEMMA LifeNext == BooksInv /\ [Next]_vars => LifeInv'
<1> SUFFICES ASSUME TypeOK, LifeInv, ListsMatchStates, [Next]_vars PROVE LifeInv'
  BY Zenon DEF BooksInv
<1> USE OwnerAssumption DEF LifeInv, TypeOK
<1>1. ASSUME NEW d \in Dispatchers, Create(d) PROVE LifeInv'
  BY <1>1 DEF Create, AddThread, NeedsThread, driver_states, threads, clients, ListsMatchStates
<1>2. ASSUME NEW d \in Dispatchers, CreateFails(d) PROVE LifeInv'
  BY Zenon, <1>2 DEF CreateFails, NeedsThread, driver_states, threads, clients, ListsMatchStates
<1>3. ASSUME NEW d \in Dispatchers, AddDispatcher(d) PROVE LifeInv'
  BY <1>3 DEF AddDispatcher, IsShuttingDown, driver_states, threads, clients, ListsMatchStates
<1>4. ASSUME NEW d \in Dispatchers, ShutdownAsync(d) PROVE LifeInv'
  BY <1>4 DEF ShutdownAsync, driver_states, threads, clients, ListsMatchStates
<1>5. ASSUME NEW d \in Dispatchers, RunShutdownTask(d) PROVE LifeInv'
  BY <1>5 DEF RunShutdownTask, driver_states, threads, clients, ListsMatchStates
<1>6. ASSUME NEW d \in Dispatchers, CompleteShutdown(d) PROVE LifeInv'
  BY <1>6 DEF CompleteShutdown, driver_states, threads, clients, ListsMatchStates
<1>7. ASSUME NEW d \in Dispatchers, SetShutdown(d) PROVE LifeInv'
  BY <1>7 DEF SetShutdown, driver_states, threads, clients, ListsMatchStates
<1>8. ASSUME NEW d \in Dispatchers, ObserverReturns(d) PROVE LifeInv'
  BY Zenon, <1>8 DEF ObserverReturns, driver_states, threads, clients, ListsMatchStates
<1>9. ASSUME NEW d \in Dispatchers, NotifyShutdown(d) PROVE LifeInv'
  BY <1>9 DEF NotifyShutdown, Reports, CompletedShutdown, IsShuttingDown, Report, driver_states,
              threads, clients, ListsMatchStates
<1>10. ASSUME NEW d \in Dispatchers, HandlerReturns(d) PROVE LifeInv'
  BY Zenon, <1>10 DEF HandlerReturns, DropState, HasDispatchers, IsShuttingDown, driver_states,
               threads, clients, ListsMatchStates
<1>11. ASSUME NEW d \in Dispatchers, Destroy(d) PROVE LifeInv'
  BY <1>11 DEF Destroy, driver_states, threads, clients, ListsMatchStates
<1>12. ASSUME NEW d \in Dispatchers, RemoveDispatcher(d) PROVE LifeInv'
  BY <1>12 DEF RemoveDispatcher, DropState, HasDispatchers, IsShuttingDown, driver_states,
               threads, clients, ListsMatchStates
<1>13. ASSUME NEW d \in Dispatchers, Free(d) PROVE LifeInv'
  BY <1>13 DEF Free, driver_states, threads, clients, ListsMatchStates
<1>14. ASSUME NEW d \in Dispatchers, DestroyNext(d) PROVE LifeInv'
  BY <1>14 DEF DestroyNext, driver_states, threads, clients, ListsMatchStates
<1>15. ASSUME NEW c \in Clients, NEW o \in Drivers, ShutdownDispatchersAsync(c, o) PROVE LifeInv'
  BY Zenon, <1>15 DEF ShutdownDispatchersAsync, CompletedShutdown, IsShuttingDown, driver_states,
               threads, clients, ListsMatchStates
<1>16. ASSUME NEW c \in Clients, NEW d \in Dispatchers, PostShutdown(c, d) PROVE LifeInv'
  BY Zenon, <1>16 DEF PostShutdown, driver_states, threads, clients, ListsMatchStates
<1>17. ASSUME NEW c \in Clients, PostObserver(c) PROVE LifeInv'
  BY Zenon, <1>17 DEF PostObserver, driver_states, threads, clients, ListsMatchStates
<1>18. ASSUME NEW c \in Clients, WaitUntilDispatchersDestroyed(c) PROVE LifeInv'
  BY Zenon, <1>18 DEF WaitUntilDispatchersDestroyed, driver_states, threads, clients, ListsMatchStates
<1>19. ASSUME NEW o \in Drivers, RunObserver(o) PROVE LifeInv'
  BY Zenon, <1>19 DEF RunObserver, Report, driver_states, threads, clients, ListsMatchStates
<1>20. ASSUME DestroyAllDispatchers PROVE LifeInv'
  BY <1>20 DEF DestroyAllDispatchers, CompletedShutdown, driver_states, threads, clients,
               ListsMatchStates
<1>21. ASSUME Reset PROVE LifeInv'
  BY Zenon, <1>21 DEF Reset, driver_states, threads, clients, ListsMatchStates
<1>22. CASE UNCHANGED vars
  BY Zenon, <1>22, SMTT(30) DEF vars, driver_states, threads, clients, ListsMatchStates
<1> QED
  BY <1>1, <1>2, <1>3, <1>4, <1>5, <1>6, <1>7, <1>8, <1>9, <1>10, <1>11, <1>12, <1>13, <1>14,
     ZenonT(30),
     <1>15, <1>16, <1>17, <1>18, <1>19, <1>20, <1>21, <1>22 DEF Next, DispatcherStep, ClientStep

\* Every step keeps each dispatcher in the list its state_ calls for.
LEMMA ListsNext == BooksInv /\ [Next]_vars => ListsMatchStates'
<1> SUFFICES ASSUME TypeOK, LifeInv, ListsMatchStates, StatesKept, [Next]_vars
             PROVE  ListsMatchStates'
  BY Zenon DEF BooksInv
<1> USE OwnerAssumption DEF ListsMatchStates, TypeOK
<1>1. ASSUME NEW d \in Dispatchers, Create(d) PROVE ListsMatchStates'
  BY <1>1 DEF Create, AddThread, NeedsThread, driver_states, threads, clients, LifeInv
<1>2. ASSUME NEW d \in Dispatchers, CreateFails(d) PROVE ListsMatchStates'
  BY Zenon, <1>2 DEF CreateFails, NeedsThread, driver_states, threads, clients, LifeInv
<1>3. ASSUME NEW d \in Dispatchers, AddDispatcher(d) PROVE ListsMatchStates'
  BY <1>3 DEF AddDispatcher, IsShuttingDown, driver_states, threads, clients, LifeInv
<1>4. ASSUME NEW d \in Dispatchers, ShutdownAsync(d) PROVE ListsMatchStates'
  BY <1>4 DEF ShutdownAsync, driver_states, threads, clients, LifeInv
<1>5. ASSUME NEW d \in Dispatchers, RunShutdownTask(d) PROVE ListsMatchStates'
  BY <1>5 DEF RunShutdownTask, driver_states, threads, clients, LifeInv
<1>6. ASSUME NEW d \in Dispatchers, CompleteShutdown(d) PROVE ListsMatchStates'
  BY <1>6 DEF CompleteShutdown, driver_states, threads, clients, LifeInv
<1>7. ASSUME NEW d \in Dispatchers, SetShutdown(d) PROVE ListsMatchStates'
  BY <1>7 DEF SetShutdown, driver_states, threads, clients, LifeInv
<1>8. ASSUME NEW d \in Dispatchers, ObserverReturns(d) PROVE ListsMatchStates'
  BY <1>8 DEF ObserverReturns, driver_states, threads, clients, LifeInv
<1>9. ASSUME NEW d \in Dispatchers, NotifyShutdown(d) PROVE ListsMatchStates'
  BY <1>9 DEF NotifyShutdown, Reports, CompletedShutdown, IsShuttingDown, Report, driver_states,
              threads, clients, LifeInv
<1>10. ASSUME NEW d \in Dispatchers, HandlerReturns(d) PROVE ListsMatchStates'
  BY <1>10 DEF HandlerReturns, DropState, HasDispatchers, IsShuttingDown, driver_states,
               threads, clients, LifeInv
<1>11. ASSUME NEW d \in Dispatchers, Destroy(d) PROVE ListsMatchStates'
  BY <1>11 DEF Destroy, driver_states, threads, clients, LifeInv
<1>12. ASSUME NEW d \in Dispatchers, RemoveDispatcher(d) PROVE ListsMatchStates'
  <2>1. d \in shutdown_dispatchers[Owner[d]]
    BY Zenon, <1>12 DEF RemoveDispatcher, LifeInv
  <2>2. Owner[d] \in drivers
    BY Zenon, <2>1 DEF StatesKept, HasDispatchers
  <2>3. /\ state[d] = "kDestroyed"
        /\ state' = [state EXCEPT ![d] = "removed"]
        /\ shutdown_dispatchers' = [shutdown_dispatchers EXCEPT ![Owner[d]] = @ \ {d}]
        /\ UNCHANGED <<dispatchers, pc>>
    BY Zenon, <1>12, <2>2 DEF RemoveDispatcher
  <2> QED
    BY <2>3
<1>13. ASSUME NEW d \in Dispatchers, Free(d) PROVE ListsMatchStates'
  BY <1>13 DEF Free, driver_states, threads, clients, LifeInv
<1>14. ASSUME NEW d \in Dispatchers, DestroyNext(d) PROVE ListsMatchStates'
  BY <1>14 DEF DestroyNext, driver_states, threads, clients, LifeInv
<1>15. ASSUME NEW c \in Clients, NEW o \in Drivers, ShutdownDispatchersAsync(c, o)
      PROVE  ListsMatchStates'
  BY Zenon, <1>15 DEF ShutdownDispatchersAsync, CompletedShutdown, IsShuttingDown, driver_states,
               threads, clients, LifeInv
<1>16. ASSUME NEW c \in Clients, NEW d \in Dispatchers, PostShutdown(c, d) PROVE ListsMatchStates'
  BY Zenon, <1>16 DEF PostShutdown, driver_states, threads, clients, LifeInv
<1>17. ASSUME NEW c \in Clients, PostObserver(c) PROVE ListsMatchStates'
  BY Zenon, <1>17 DEF PostObserver, driver_states, threads, clients, LifeInv
<1>18. ASSUME NEW c \in Clients, WaitUntilDispatchersDestroyed(c) PROVE ListsMatchStates'
  BY Zenon, <1>18 DEF WaitUntilDispatchersDestroyed, driver_states, threads, clients, LifeInv
<1>19. ASSUME NEW o \in Drivers, RunObserver(o) PROVE ListsMatchStates'
  BY Zenon, <1>19 DEF RunObserver, Report, driver_states, threads, clients, LifeInv
<1>20. ASSUME DestroyAllDispatchers PROVE ListsMatchStates'
  BY Zenon, <1>20 DEF DestroyAllDispatchers, CompletedShutdown, driver_states, threads, clients,
               LifeInv
<1>21. ASSUME Reset PROVE ListsMatchStates'
  BY Zenon, <1>21 DEF Reset, driver_states, threads, clients, LifeInv
<1>22. CASE UNCHANGED vars
  BY Zenon, <1>22, SMTT(30) DEF vars, driver_states, threads, clients, LifeInv
<1> QED
  BY <1>1, <1>2, <1>3, <1>4, <1>5, <1>6, <1>7, <1>8, <1>9, <1>10, <1>11, <1>12, <1>13, <1>14,
     ZenonT(30),
     <1>15, <1>16, <1>17, <1>18, <1>19, <1>20, <1>21, <1>22 DEF Next, DispatcherStep, ClientStep

\* Every step keeps a driver's state as long as it is needed.
LEMMA KeptNext == BooksInv /\ [Next]_vars => StatesKept'
<1> SUFFICES ASSUME TypeOK, LifeInv, ListsMatchStates, StatesKept, [Next]_vars PROVE StatesKept'
  BY Zenon DEF BooksInv
<1> USE OwnerAssumption DEF StatesKept, TypeOK
<1>1. ASSUME NEW d \in Dispatchers, Create(d) PROVE StatesKept'
  BY Zenon, <1>1 DEF Create, AddThread, NeedsThread, driver_states, threads, clients, HasDispatchers,
              IsShuttingDown, ListsMatchStates
<1>2. ASSUME NEW d \in Dispatchers, CreateFails(d) PROVE StatesKept'
  BY Zenon, <1>2 DEF CreateFails, NeedsThread, driver_states, threads, clients, HasDispatchers,
              IsShuttingDown, ListsMatchStates
<1>3. ASSUME NEW d \in Dispatchers, AddDispatcher(d) PROVE StatesKept'
  BY <1>3 DEF AddDispatcher, driver_states, threads, clients, HasDispatchers, IsShuttingDown,
              ListsMatchStates
<1>4. ASSUME NEW d \in Dispatchers, ShutdownAsync(d) PROVE StatesKept'
  BY Zenon, <1>4 DEF ShutdownAsync, driver_states, threads, clients, HasDispatchers, IsShuttingDown,
              ListsMatchStates
<1>5. ASSUME NEW d \in Dispatchers, RunShutdownTask(d) PROVE StatesKept'
  BY Zenon, <1>5 DEF RunShutdownTask, driver_states, threads, clients, HasDispatchers, IsShuttingDown,
              ListsMatchStates
<1>6. ASSUME NEW d \in Dispatchers, CompleteShutdown(d) PROVE StatesKept'
  BY Zenon, <1>6 DEF CompleteShutdown, driver_states, threads, clients, HasDispatchers, IsShuttingDown,
              ListsMatchStates
<1>7. ASSUME NEW d \in Dispatchers, SetShutdown(d) PROVE StatesKept'
  <2>1. d \in dispatchers[Owner[d]]
    BY Zenon, <1>7 DEF SetShutdown, LifeInv, ListsMatchStates
  <2>2. Owner[d] \in drivers
    BY Zenon, <2>1 DEF HasDispatchers
  <2>3. d \in shutdown_dispatchers'[Owner[d]]
    BY Zenon, <1>7 DEF SetShutdown
  <2>4. \A o \in Drivers : o # Owner[d] =>
          dispatchers'[o] = dispatchers[o] /\ shutdown_dispatchers'[o] = shutdown_dispatchers[o]
    BY Zenon, <1>7 DEF SetShutdown
  <2>5. UNCHANGED <<drivers, shutdown_observer>>
    BY Zenon, <1>7 DEF SetShutdown
  <2> QED
    BY Zenon, <2>2, <2>3, <2>4, <2>5 DEF HasDispatchers, IsShuttingDown
<1>8. ASSUME NEW d \in Dispatchers, ObserverReturns(d) PROVE StatesKept'
  BY Zenon, <1>8 DEF ObserverReturns, driver_states, threads, clients, HasDispatchers, IsShuttingDown,
              ListsMatchStates
<1>9. ASSUME NEW d \in Dispatchers, NotifyShutdown(d) PROVE StatesKept'
  BY Zenon, <1>9 DEF NotifyShutdown, Reports, CompletedShutdown, Report, driver_states, threads,
              clients, HasDispatchers, IsShuttingDown, ListsMatchStates
<1>10. ASSUME NEW d \in Dispatchers, HandlerReturns(d) PROVE StatesKept'
  BY <1>10 DEF HandlerReturns, DropState, driver_states, threads, clients, HasDispatchers,
               IsShuttingDown, ListsMatchStates
<1>11. ASSUME NEW d \in Dispatchers, Destroy(d) PROVE StatesKept'
  BY Zenon, <1>11 DEF Destroy, driver_states, threads, clients, HasDispatchers, IsShuttingDown,
               ListsMatchStates
<1>12. ASSUME NEW d \in Dispatchers, RemoveDispatcher(d) PROVE StatesKept'
  BY <1>12 DEF RemoveDispatcher, DropState, driver_states, threads, clients, HasDispatchers,
               IsShuttingDown, ListsMatchStates
<1>13. ASSUME NEW d \in Dispatchers, Free(d) PROVE StatesKept'
  BY Zenon, <1>13 DEF Free, driver_states, threads, clients, HasDispatchers, IsShuttingDown,
               ListsMatchStates
<1>14. ASSUME NEW d \in Dispatchers, DestroyNext(d) PROVE StatesKept'
  BY Zenon, <1>14 DEF DestroyNext, driver_states, threads, clients, HasDispatchers, IsShuttingDown,
               ListsMatchStates
<1>15. ASSUME NEW c \in Clients, NEW o \in Drivers, ShutdownDispatchersAsync(c, o)
      PROVE  StatesKept'
  BY <1>15 DEF ShutdownDispatchersAsync, CompletedShutdown, driver_states, threads, clients,
               HasDispatchers, IsShuttingDown, ListsMatchStates
<1>16. ASSUME NEW c \in Clients, NEW d \in Dispatchers, PostShutdown(c, d) PROVE StatesKept'
  BY Zenon, <1>16 DEF PostShutdown, driver_states, threads, clients, HasDispatchers, IsShuttingDown,
               ListsMatchStates
<1>17. ASSUME NEW c \in Clients, PostObserver(c) PROVE StatesKept'
  BY Zenon, <1>17 DEF PostObserver, driver_states, threads, clients, HasDispatchers, IsShuttingDown,
               ListsMatchStates
<1>18. ASSUME NEW c \in Clients, WaitUntilDispatchersDestroyed(c) PROVE StatesKept'
  BY Zenon, <1>18 DEF WaitUntilDispatchersDestroyed, driver_states, threads, clients, HasDispatchers,
               IsShuttingDown, ListsMatchStates
<1>19. ASSUME NEW o \in Drivers, RunObserver(o) PROVE StatesKept'
  BY Zenon, <1>19 DEF RunObserver, Report, driver_states, threads, clients, HasDispatchers,
               IsShuttingDown, ListsMatchStates
<1>20. ASSUME DestroyAllDispatchers PROVE StatesKept'
  BY Zenon, <1>20 DEF DestroyAllDispatchers, CompletedShutdown, driver_states, threads, clients,
               HasDispatchers, IsShuttingDown, ListsMatchStates
<1>21. ASSUME Reset PROVE StatesKept'
  BY Zenon, <1>21 DEF Reset, driver_states, threads, clients, HasDispatchers, IsShuttingDown,
               ListsMatchStates
<1>22. CASE UNCHANGED vars
  BY Zenon, <1>22, SMTT(30) DEF vars, driver_states, threads, clients, HasDispatchers, IsShuttingDown,
               ListsMatchStates
<1> QED
  BY <1>1, <1>2, <1>3, <1>4, <1>5, <1>6, <1>7, <1>8, <1>9, <1>10, <1>11, <1>12, <1>13, <1>14,
     SMTT(30),
     <1>15, <1>16, <1>17, <1>18, <1>19, <1>20, <1>21, <1>22 DEF Next, DispatcherStep, ClientStep

\* No step fails an assertion about driver states or dispatcher states, and
\* none drops the last driver state without a broadcast.
LEMMA AssertionsNext == BooksInv /\ [Next]_vars => (AssertionsHold /\ DestroyedIsBroadcast)'
<1> SUFFICES ASSUME BooksInv, [Next]_vars PROVE (AssertionsHold /\ DestroyedIsBroadcast)'
  BY Zenon
<1> USE OwnerAssumption DEF BooksInv, AssertionsHold, DestroyedIsBroadcast, TypeOK
<1>1. ASSUME NEW d \in Dispatchers, Create(d) PROVE (AssertionsHold /\ DestroyedIsBroadcast)'
  BY Zenon, <1>1 DEF Create, AddThread, NeedsThread, driver_states, threads, clients, LifeInv,
              ListsMatchStates, StatesKept, HasDispatchers, IsShuttingDown
<1>2. ASSUME NEW d \in Dispatchers, CreateFails(d) PROVE (AssertionsHold /\ DestroyedIsBroadcast)'
  BY Zenon, <1>2 DEF CreateFails, NeedsThread, driver_states, threads, clients, LifeInv,
              ListsMatchStates, StatesKept, HasDispatchers, IsShuttingDown
<1>3. ASSUME NEW d \in Dispatchers, AddDispatcher(d)
      PROVE  (AssertionsHold /\ DestroyedIsBroadcast)'
  BY <1>3 DEF AddDispatcher, driver_states, threads, clients, LifeInv, ListsMatchStates,
              StatesKept, HasDispatchers, IsShuttingDown
<1>4. ASSUME NEW d \in Dispatchers, ShutdownAsync(d)
      PROVE  (AssertionsHold /\ DestroyedIsBroadcast)'
  BY Zenon, <1>4 DEF ShutdownAsync, driver_states, threads, clients, LifeInv, ListsMatchStates,
              StatesKept, HasDispatchers, IsShuttingDown
<1>5. ASSUME NEW d \in Dispatchers, RunShutdownTask(d)
      PROVE  (AssertionsHold /\ DestroyedIsBroadcast)'
  BY Zenon, <1>5 DEF RunShutdownTask, driver_states, threads, clients, LifeInv, ListsMatchStates,
              StatesKept, HasDispatchers, IsShuttingDown
<1>6. ASSUME NEW d \in Dispatchers, CompleteShutdown(d)
      PROVE  (AssertionsHold /\ DestroyedIsBroadcast)'
  BY Zenon, <1>6 DEF CompleteShutdown, driver_states, threads, clients, LifeInv, ListsMatchStates,
              StatesKept, HasDispatchers, IsShuttingDown
<1>7. ASSUME NEW d \in Dispatchers, SetShutdown(d) PROVE (AssertionsHold /\ DestroyedIsBroadcast)'
  BY <1>7 DEF SetShutdown, driver_states, threads, clients, LifeInv, ListsMatchStates,
              StatesKept, HasDispatchers, IsShuttingDown
<1>8. ASSUME NEW d \in Dispatchers, ObserverReturns(d)
      PROVE  (AssertionsHold /\ DestroyedIsBroadcast)'
  BY Zenon, <1>8 DEF ObserverReturns, driver_states, threads, clients, LifeInv, ListsMatchStates,
              StatesKept, HasDispatchers, IsShuttingDown
<1>9. ASSUME NEW d \in Dispatchers, NotifyShutdown(d)
      PROVE  (AssertionsHold /\ DestroyedIsBroadcast)'
  BY Zenon, <1>9 DEF NotifyShutdown, Reports, CompletedShutdown, Report, driver_states, threads,
              clients, LifeInv, ListsMatchStates, StatesKept, HasDispatchers, IsShuttingDown
<1>10. ASSUME NEW d \in Dispatchers, HandlerReturns(d)
      PROVE  (AssertionsHold /\ DestroyedIsBroadcast)'
  BY Zenon, <1>10 DEF HandlerReturns, DropState, driver_states, threads, clients, LifeInv,
               ListsMatchStates, StatesKept, HasDispatchers, IsShuttingDown
<1>11. ASSUME NEW d \in Dispatchers, Destroy(d) PROVE (AssertionsHold /\ DestroyedIsBroadcast)'
  BY Zenon, <1>11 DEF Destroy, driver_states, threads, clients, LifeInv, ListsMatchStates, StatesKept,
               HasDispatchers, IsShuttingDown
<1>12. ASSUME NEW d \in Dispatchers, RemoveDispatcher(d)
      PROVE  (AssertionsHold /\ DestroyedIsBroadcast)'
  BY <1>12 DEF RemoveDispatcher, DropState, driver_states, threads, clients, LifeInv,
               ListsMatchStates, StatesKept, HasDispatchers, IsShuttingDown
<1>13. ASSUME NEW d \in Dispatchers, Free(d) PROVE (AssertionsHold /\ DestroyedIsBroadcast)'
  BY Zenon, <1>13 DEF Free, driver_states, threads, clients, LifeInv, ListsMatchStates, StatesKept,
               HasDispatchers, IsShuttingDown
<1>14. ASSUME NEW d \in Dispatchers, DestroyNext(d)
      PROVE  (AssertionsHold /\ DestroyedIsBroadcast)'
  BY Zenon, <1>14 DEF DestroyNext, driver_states, threads, clients, LifeInv, ListsMatchStates,
               StatesKept, HasDispatchers, IsShuttingDown
<1>15. ASSUME NEW c \in Clients, NEW o \in Drivers, ShutdownDispatchersAsync(c, o)
      PROVE  (AssertionsHold /\ DestroyedIsBroadcast)'
  BY Zenon, <1>15 DEF ShutdownDispatchersAsync, CompletedShutdown, driver_states, threads, clients,
               LifeInv, ListsMatchStates, StatesKept, HasDispatchers, IsShuttingDown
<1>16. ASSUME NEW c \in Clients, NEW d \in Dispatchers, PostShutdown(c, d)
      PROVE  (AssertionsHold /\ DestroyedIsBroadcast)'
  BY Zenon, <1>16 DEF PostShutdown, driver_states, threads, clients, LifeInv, ListsMatchStates,
               StatesKept, HasDispatchers, IsShuttingDown
<1>17. ASSUME NEW c \in Clients, PostObserver(c) PROVE (AssertionsHold /\ DestroyedIsBroadcast)'
  BY Zenon, <1>17 DEF PostObserver, driver_states, threads, clients, LifeInv, ListsMatchStates,
               StatesKept, HasDispatchers, IsShuttingDown
<1>18. ASSUME NEW c \in Clients, WaitUntilDispatchersDestroyed(c)
      PROVE  (AssertionsHold /\ DestroyedIsBroadcast)'
  BY Zenon, <1>18 DEF WaitUntilDispatchersDestroyed, driver_states, threads, clients, LifeInv,
               ListsMatchStates, StatesKept, HasDispatchers, IsShuttingDown
<1>19. ASSUME NEW o \in Drivers, RunObserver(o) PROVE (AssertionsHold /\ DestroyedIsBroadcast)'
  BY Zenon, <1>19 DEF RunObserver, Report, driver_states, threads, clients, LifeInv, ListsMatchStates,
               StatesKept, HasDispatchers, IsShuttingDown
<1>20. ASSUME DestroyAllDispatchers PROVE (AssertionsHold /\ DestroyedIsBroadcast)'
  BY Zenon, <1>20 DEF DestroyAllDispatchers, CompletedShutdown, driver_states, threads, clients,
               LifeInv, ListsMatchStates, StatesKept, HasDispatchers, IsShuttingDown
<1>21. ASSUME Reset PROVE (AssertionsHold /\ DestroyedIsBroadcast)'
  BY Zenon, <1>21 DEF Reset, driver_states, threads, clients, LifeInv, ListsMatchStates, StatesKept,
               HasDispatchers, IsShuttingDown
<1>22. CASE UNCHANGED vars
  BY Zenon, <1>22 DEF vars, driver_states, threads, clients, LifeInv, ListsMatchStates, StatesKept,
               HasDispatchers, IsShuttingDown
<1> QED
  BY <1>1, <1>2, <1>3, <1>4, <1>5, <1>6, <1>7, <1>8, <1>9, <1>10, <1>11, <1>12, <1>13, <1>14,
     <1>15, <1>16, <1>17, <1>18, <1>19, <1>20, <1>21, <1>22 DEF Next, DispatcherStep, ClientStep

\* The books are always in order.
THEOREM BooksInvariant == Spec => []BooksInv
<1>1. Init => BooksInv
  BY Zenon, BooksInit
<1>2. BooksInv /\ [Next]_vars => BooksInv'
  <2> SUFFICES ASSUME BooksInv, [Next]_vars PROVE BooksInv'
    BY Zenon
  <2>1. TypeOK'
    BY Zenon, TypeNext DEF BooksInv
  <2>2. LifeInv' /\ ListsMatchStates' /\ StatesKept'
    BY Zenon, LifeNext, ListsNext, KeptNext
  <2>3. AssertionsHold' /\ DestroyedIsBroadcast'
    BY Zenon, AssertionsNext
  <2> QED
    BY Zenon, <2>1, <2>2, <2>3 DEF BooksInv
<1> QED
  BY <1>1, <1>2, PTL DEF Spec

\* A driver's state is kept exactly as long as NotifyShutdown and
\* RemoveDispatcher may need it.
THEOREM DriverStatesKept == Spec => []StatesKept
<1>1. BooksInv => StatesKept
  BY Zenon DEF BooksInv
<1> QED
  BY <1>1, BooksInvariant, PTL

\* The assertions of SetShutdown, RemoveDispatcher and Destroy never fail.
THEOREM NoAssertionFails == Spec => []AssertionsHold
<1>1. BooksInv => AssertionsHold
  BY Zenon DEF BooksInv
<1> QED
  BY <1>1, BooksInvariant, PTL

\* No client misses the broadcast of drivers_destroyed_event_.
THEOREM DestroyedNotMissed == Spec => []DestroyedIsBroadcast
<1>1. BooksInv => DestroyedIsBroadcast
  BY Zenon DEF BooksInv
<1> QED
  BY <1>1, BooksInvariant, PTL

-----------------------------------------------------------------------------
\* The count of needed threads covers every blocking dispatcher, also those
\* whose creation failed after AddThread.
NeededInv == dispatcher_threads_needed > Cardinality(Blocking)

\* The blocking dispatchers are finitely many.
LEMMA BlockingFinite == IsFiniteSet(Blocking) /\ Cardinality(Blocking) \in Nat
BY Zenon, OwnerAssumption, FS_Subset, FS_CardinalityType DEF Blocking

\* The same in the next state.
LEMMA BlockingFiniteNext == IsFiniteSet(Blocking') /\ Cardinality(Blocking') \in Nat
BY Zenon, OwnerAssumption, FS_Subset, FS_CardinalityType DEF Blocking

\* A step that starts no blocking dispatcher and leaves the threads alone
\* keeps the thread invariants.
LEMMA ThreadsSame ==
  ASSUME TypeOK, NeededInv, ThreadsEnough, Blocking' \subseteq Blocking,
         number_threads' = number_threads, dispatcher_threads_needed' >= dispatcher_threads_needed,
         dispatcher_threads_needed' \in Int
  PROVE  NeededInv' /\ ThreadsEnough'
<1>1. Cardinality(Blocking') <= Cardinality(Blocking)
  BY Zenon, BlockingFinite, FS_Subset, SMTT(30)
<1> QED
  BY <1>1, BlockingFinite, BlockingFiniteNext DEF NeededInv, ThreadsEnough, TypeOK

\* Every step keeps enough threads.
LEMMA ThreadsNext ==
  BooksInv /\ NeededInv /\ ThreadsEnough /\ [Next]_vars => (NeededInv /\ ThreadsEnough)'
<1> SUFFICES ASSUME TypeOK, LifeInv, ListsMatchStates, StatesKept, NeededInv, ThreadsEnough,
                    [Next]_vars
             PROVE  (NeededInv /\ ThreadsEnough)'
  BY Zenon DEF BooksInv
<1> USE OwnerAssumption, LimitsAssumption
<1>1. ASSUME NEW d \in Dispatchers, Create(d) PROVE (NeededInv /\ ThreadsEnough)'
  <2>1. CASE d \notin SyncCalls
    <3>1. Blocking' \subseteq Blocking
      BY Zenon, <1>1, <2>1 DEF Create, Blocking, TypeOK
    <3> QED
      BY <1>1, <2>1, <3>1, ThreadsSame DEF Create, threads, TypeOK
  <2>2. CASE d \in SyncCalls
    <3>1. Blocking' = Blocking \cup {d} /\ d \notin Blocking
      BY <1>1, <2>2 DEF Create, Blocking, TypeOK
    <3>2. Cardinality(Blocking') = Cardinality(Blocking) + 1
      BY ZenonT(30), <3>1, BlockingFinite, FS_AddElement
    <3> QED
      BY <1>1, <2>2, <3>2, BlockingFinite
      DEF Create, AddThread, NeedsThread, NeededInv, ThreadsEnough, TypeOK
  <2> QED
    BY Zenon, <2>1, <2>2
<1>2. ASSUME NEW d \in Dispatchers, RemoveDispatcher(d) PROVE (NeededInv /\ ThreadsEnough)'
  <2>1. Owner[d] \in drivers
    BY Zenon, <1>2 DEF RemoveDispatcher, LifeInv, ListsMatchStates, StatesKept, HasDispatchers, TypeOK
  <2>2. number_threads' = number_threads
    BY ZenonT(30), <1>2, <2>1 DEF RemoveDispatcher
  <2>3. CASE d \notin SyncCalls
    <3>1. Blocking' \subseteq Blocking /\ dispatcher_threads_needed' = dispatcher_threads_needed
      BY Zenon, <1>2, <2>1, <2>3 DEF RemoveDispatcher, Blocking, TypeOK
    <3> QED
      BY <2>2, <3>1, ThreadsSame DEF TypeOK
  <2>4. CASE d \in SyncCalls
    <3>1. Blocking' = Blocking \ {d} /\ d \in Blocking
      BY Zenon, <1>2, <2>4 DEF RemoveDispatcher, Blocking, TypeOK
    <3>2. Cardinality(Blocking') = Cardinality(Blocking) - 1
      BY ZenonT(30), <3>1, BlockingFinite, FS_RemoveElement
    <3>3. dispatcher_threads_needed' = dispatcher_threads_needed - 1
      BY Zenon, <1>2, <2>1, <2>4 DEF RemoveDispatcher
    <3> QED
      BY <2>2, <3>2, <3>3, BlockingFinite DEF NeededInv, ThreadsEnough, TypeOK
  <2> QED
    BY Zenon, <2>3, <2>4
<1>3. CASE Reset
  <2>1. Blocking' = Blocking /\ dispatcher_threads_needed' = dispatcher_threads_needed
    BY Zenon, <1>3 DEF Reset, Blocking
  <2> QED
    BY <1>3, <2>1, BlockingFinite DEF Reset, NeededInv, ThreadsEnough, TypeOK
<1>4. ASSUME NEW d \in Dispatchers, CreateFails(d)
      PROVE  (NeededInv /\ ThreadsEnough)'
  <2>1. Blocking' \subseteq Blocking
    BY Zenon, <1>4 DEF CreateFails, Blocking, TypeOK
  <2> QED
    BY <1>4, <2>1, ThreadsSame DEF CreateFails, threads, TypeOK
<1>5. ASSUME NEW d \in Dispatchers, AddDispatcher(d)
      PROVE  (NeededInv /\ ThreadsEnough)'
  <2>1. Blocking' \subseteq Blocking
    BY Zenon, <1>5 DEF AddDispatcher, Blocking, TypeOK
  <2> QED
    BY <1>5, <2>1, ThreadsSame DEF AddDispatcher, threads, TypeOK
<1>6. ASSUME NEW d \in Dispatchers, ShutdownAsync(d)
      PROVE  (NeededInv /\ ThreadsEnough)'
  <2>1. Blocking' \subseteq Blocking
    BY Zenon, <1>6 DEF ShutdownAsync, Blocking, TypeOK
  <2> QED
    BY <1>6, <2>1, ThreadsSame DEF ShutdownAsync, threads, TypeOK
<1>7. ASSUME NEW d \in Dispatchers, RunShutdownTask(d)
      PROVE  (NeededInv /\ ThreadsEnough)'
  <2>1. Blocking' \subseteq Blocking
    BY Zenon, <1>7 DEF RunShutdownTask, Blocking, TypeOK
  <2> QED
    BY <1>7, <2>1, ThreadsSame DEF RunShutdownTask, threads, TypeOK
<1>8. ASSUME NEW d \in Dispatchers, CompleteShutdown(d)
      PROVE  (NeededInv /\ ThreadsEnough)'
  <2>1. Blocking' \subseteq Blocking
    BY Zenon, <1>8 DEF CompleteShutdown, Blocking, TypeOK
  <2> QED
    BY <1>8, <2>1, ThreadsSame DEF CompleteShutdown, threads, TypeOK
<1>9. ASSUME NEW d \in Dispatchers, SetShutdown(d)
      PROVE  (NeededInv /\ ThreadsEnough)'
  <2>1. Blocking' \subseteq Blocking
    BY Zenon, <1>9 DEF SetShutdown, Blocking, TypeOK
  <2> QED
    BY <1>9, <2>1, ThreadsSame DEF SetShutdown, threads, TypeOK
<1>10. ASSUME NEW d \in Dispatchers, ObserverReturns(d)
      PROVE  (NeededInv /\ ThreadsEnough)'
  <2>1. Blocking' \subseteq Blocking
    BY Zenon, <1>10 DEF ObserverReturns, Blocking, TypeOK
  <2> QED
    BY <1>10, <2>1, ThreadsSame DEF ObserverReturns, threads, TypeOK
<1>11. ASSUME NEW d \in Dispatchers, NotifyShutdown(d)
      PROVE  (NeededInv /\ ThreadsEnough)'
  <2>1. Blocking' \subseteq Blocking
    BY Zenon, <1>11 DEF NotifyShutdown, Blocking, TypeOK
  <2> QED
    BY <1>11, <2>1, ThreadsSame DEF NotifyShutdown, threads, TypeOK
<1>12. ASSUME NEW d \in Dispatchers, HandlerReturns(d)
      PROVE  (NeededInv /\ ThreadsEnough)'
  <2>1. Blocking' \subseteq Blocking
    BY Zenon, <1>12 DEF HandlerReturns, Blocking, TypeOK
  <2> QED
    BY <1>12, <2>1, ThreadsSame DEF HandlerReturns, threads, TypeOK
<1>13. ASSUME NEW d \in Dispatchers, Destroy(d)
      PROVE  (NeededInv /\ ThreadsEnough)'
  <2>1. Blocking' \subseteq Blocking
    BY Zenon, <1>13 DEF Destroy, Blocking, TypeOK
  <2> QED
    BY <1>13, <2>1, ThreadsSame DEF Destroy, threads, TypeOK
<1>14. ASSUME NEW d \in Dispatchers, Free(d)
      PROVE  (NeededInv /\ ThreadsEnough)'
  <2>1. Blocking' \subseteq Blocking
    BY Zenon, <1>14 DEF Free, Blocking, TypeOK
  <2> QED
    BY <1>14, <2>1, ThreadsSame DEF Free, threads, TypeOK
<1>15. ASSUME NEW d \in Dispatchers, DestroyNext(d)
      PROVE  (NeededInv /\ ThreadsEnough)'
  <2>1. Blocking' \subseteq Blocking
    BY Zenon, <1>15, SMTT(30) DEF DestroyNext, Blocking, TypeOK
  <2> QED
    BY <1>15, <2>1, ThreadsSame DEF DestroyNext, threads, TypeOK
<1>16. ASSUME NEW c \in Clients, NEW o \in Drivers, ShutdownDispatchersAsync(c, o)
      PROVE  (NeededInv /\ ThreadsEnough)'
  <2>1. Blocking' \subseteq Blocking
    BY Zenon, <1>16 DEF ShutdownDispatchersAsync, Blocking, TypeOK
  <2> QED
    BY <1>16, <2>1, ThreadsSame DEF ShutdownDispatchersAsync, threads, TypeOK
<1>17. ASSUME NEW c \in Clients, NEW d \in Dispatchers, PostShutdown(c, d)
      PROVE  (NeededInv /\ ThreadsEnough)'
  <2>1. Blocking' \subseteq Blocking
    BY Zenon, <1>17 DEF PostShutdown, Blocking, TypeOK
  <2> QED
    BY <1>17, <2>1, ThreadsSame DEF PostShutdown, threads, TypeOK
<1>18. ASSUME NEW c \in Clients, PostObserver(c)
      PROVE  (NeededInv /\ ThreadsEnough)'
  <2>1. Blocking' \subseteq Blocking
    BY Zenon, <1>18, SMTT(30) DEF PostObserver, Blocking, TypeOK
  <2> QED
    BY <1>18, <2>1, ThreadsSame DEF PostObserver, threads, TypeOK
<1>19. ASSUME NEW c \in Clients, WaitUntilDispatchersDestroyed(c)
      PROVE  (NeededInv /\ ThreadsEnough)'
  <2>1. Blocking' \subseteq Blocking
    BY Zenon, <1>19 DEF WaitUntilDispatchersDestroyed, Blocking, TypeOK
  <2> QED
    BY <1>19, <2>1, ThreadsSame DEF WaitUntilDispatchersDestroyed, threads, TypeOK
<1>20. ASSUME NEW o \in Drivers, RunObserver(o)
      PROVE  (NeededInv /\ ThreadsEnough)'
  <2>1. Blocking' \subseteq Blocking
    BY Zenon, <1>20 DEF RunObserver, Blocking, TypeOK
  <2> QED
    BY <1>20, <2>1, ThreadsSame DEF RunObserver, threads, TypeOK
<1>21. ASSUME DestroyAllDispatchers
      PROVE  (NeededInv /\ ThreadsEnough)'
  <2>1. Blocking' \subseteq Blocking
    BY Zenon, <1>21 DEF DestroyAllDispatchers, Blocking, TypeOK
  <2> QED
    BY <1>21, <2>1, ThreadsSame DEF DestroyAllDispatchers, threads, TypeOK
<1>22. ASSUME UNCHANGED vars
      PROVE  (NeededInv /\ ThreadsEnough)'
  <2>1. Blocking' \subseteq Blocking
    BY Zenon, <1>22 DEF vars, Blocking, TypeOK
  <2> QED
    BY <1>22, <2>1, ThreadsSame DEF vars, threads, TypeOK
<1> QED
  BY <1>1, <1>2, <1>3, <1>4, <1>5, <1>6, <1>7, <1>8, <1>9, <1>10, <1>11, SMTT(30),
     <1>12, <1>13, <1>14, <1>15, <1>16, <1>17, <1>18, <1>19, <1>20, <1>21, <1>22
  DEF Next, DispatcherStep, ClientStep

\* There is always a thread for every blocking dispatcher and one for the
\* others, up to AddThread's limit.
THEOREM EnoughThreads == Spec => []ThreadsEnough
<1>1. Init => NeededInv /\ ThreadsEnough
  <2> SUFFICES ASSUME Init PROVE NeededInv /\ ThreadsEnough
    BY Zenon
  <2>1. Blocking = {}
    BY Zenon, OwnerAssumption DEF Init, Blocking
  <2> QED
    BY <2>1, FS_EmptySet DEF Init, NeededInv, ThreadsEnough
<1> QED
  BY <1>1, ThreadsNext, BooksInvariant, PTL DEF Spec

-----------------------------------------------------------------------------
\* With one loop thread no two dispatchers are inside CompleteShutdown.
OneBusy == \A d, e \in Busy : d = e

\* A free thread, when there is one only, is inside no dispatcher's
\* CompleteShutdown.
LEMMA FreeMeansIdle ==
  ASSUME ThreadLimit = 1, TypeOK, OneBusy, FreeThread
  PROVE  Busy = {}
<1> SUFFICES ASSUME NEW d \in Busy PROVE FALSE
  BY Zenon
<1>1. Busy = {d}
  BY Zenon DEF OneBusy
<1>2. Cardinality(Busy) = 1
  BY Zenon, <1>1, FS_Singleton
<1>3. number_threads = 1
  BY DEF TypeOK
<1> QED
  BY <1>2, <1>3 DEF FreeThread

\* Only CompleteShutdown takes a thread into a dispatcher, and needs a free one.
LEMMA BusyNext ==
  ASSUME TypeOK, [Next]_vars
  PROVE  \/ Busy' \subseteq Busy
         \/ \E d \in Dispatchers : FreeThread /\ Busy' = Busy \cup {d}
<1>1. ASSUME NEW d \in Dispatchers, CompleteShutdown(d)
      PROVE  FreeThread /\ Busy' = Busy \cup {d}
  BY <1>1 DEF CompleteShutdown, Busy, TypeOK
<1>2. ASSUME NEW d \in Dispatchers,
             SetShutdown(d) \/ ObserverReturns(d) \/ NotifyShutdown(d) \/ HandlerReturns(d)
      PROVE  Busy' \subseteq Busy
  BY <1>2 DEF SetShutdown, ObserverReturns, NotifyShutdown, HandlerReturns, Busy, TypeOK
<1>3. ASSUME pc' = pc PROVE Busy' \subseteq Busy
  BY Zenon, <1>3 DEF Busy
<1>4. ASSUME NEW d \in Dispatchers,
             \/ Create(d) \/ CreateFails(d) \/ AddDispatcher(d) \/ ShutdownAsync(d)
             \/ RunShutdownTask(d) \/ Destroy(d) \/ RemoveDispatcher(d) \/ Free(d)
             \/ DestroyNext(d)
      PROVE  pc' = pc
  BY Zenon, <1>4 DEF Create, CreateFails, AddDispatcher, ShutdownAsync, RunShutdownTask, Destroy,
                     RemoveDispatcher, Free, DestroyNext
<1>5. ASSUME NEW c \in Clients, ClientStep(c) PROVE pc' = pc
  BY Zenon, <1>5 DEF ClientStep, ShutdownDispatchersAsync, PostShutdown, PostObserver,
                     WaitUntilDispatchersDestroyed
<1>6. ASSUME (\E o \in Drivers : RunObserver(o)) \/ DestroyAllDispatchers \/ Reset
             \/ UNCHANGED vars
      PROVE  pc' = pc
  BY Zenon, <1>6 DEF RunObserver, DestroyAllDispatchers, Reset, vars
<1> QED
  BY Zenon, <1>1, <1>2, <1>3, <1>4, <1>5, <1>6 DEF Next, DispatcherStep

\* Reports are counted off by NotifyShutdown and by the posted calls only.
LEMMA WhoReports ==
  ASSUME TypeOK, [Next]_vars,
         NEW o \in Drivers, unanswered'[o] < unanswered[o]
  PROVE  \/ \E e \in Dispatchers : NotifyShutdown(e) /\ Reports(o) /\ o = Owner[e]
         \/ RunObserver(o)
<1>1. ASSUME NEW e \in Dispatchers, NotifyShutdown(e) PROVE Reports(o) /\ o = Owner[e]
  BY <1>1, OwnerAssumption DEF NotifyShutdown, Report, TypeOK
<1>2. ASSUME NEW p \in Drivers, RunObserver(p) PROVE o = p
  BY <1>2 DEF RunObserver, Report, TypeOK
<1>3. ASSUME NEW c \in Clients, NEW p \in Drivers, ShutdownDispatchersAsync(c, p) PROVE FALSE
  BY <1>3 DEF ShutdownDispatchersAsync, TypeOK
<1>4. unanswered' # unanswered
  BY DEF TypeOK
<1>5. ASSUME NEW d \in Dispatchers, DispatcherStep(d) PROVE NotifyShutdown(d)
  BY Zenon, <1>4, <1>5 DEF DispatcherStep, Create, CreateFails, AddDispatcher, ShutdownAsync,
     RunShutdownTask, CompleteShutdown, SetShutdown, ObserverReturns, HandlerReturns, Destroy,
     RemoveDispatcher, Free, DestroyNext
<1>6. ASSUME NEW c \in Clients, ClientStep(c)
      PROVE  \E p \in Drivers : ShutdownDispatchersAsync(c, p)
  BY Zenon, <1>4, <1>6 DEF ClientStep, PostShutdown, PostObserver, WaitUntilDispatchersDestroyed
<1>7. ~DestroyAllDispatchers /\ ~Reset /\ ~UNCHANGED vars
  BY Zenon, <1>4 DEF DestroyAllDispatchers, Reset, vars
<1> QED
  BY Zenon, <1>1, <1>2, <1>3, <1>5, <1>6, <1>7 DEF Next

\* What NotifyShutdown requires of a dispatcher before it reports its driver.
NotifiedWhenShutDown ==
  [][\A d \in Dispatchers :
       unanswered'[Owner[d]] < unanswered[Owner[d]] /\ posted' = posted =>
         state[d] \notin {"kRunning", "kShuttingDown"}]_vars

\* A report by a posted call is seen in posted.
LEMMA PostedCounts ==
  ASSUME TypeOK, NEW o \in Drivers, RunObserver(o) PROVE posted' # posted
BY DEF RunObserver, TypeOK

\* A driver is reported only when none of its dispatchers can still be in
\* dispatchers_.
LEMMA ReportedWhenDown ==
  ASSUME BooksInv, [Next]_vars, NEW d \in Dispatchers,
         unanswered'[Owner[d]] < unanswered[Owner[d]], posted' = posted
  PROVE  state[d] \notin {"kRunning", "kShuttingDown"}
<1>0. TypeOK /\ ListsMatchStates /\ Owner[d] \in Drivers
  BY Zenon, OwnerAssumption DEF BooksInv
<1>1. ~RunObserver(Owner[d])
  BY Zenon, <1>0, PostedCounts
<1>2. Reports(Owner[d])
  BY Zenon, <1>0, <1>1, WhoReports
<1>3. d \notin dispatchers[Owner[d]]
  BY Zenon, <1>2 DEF Reports, CompletedShutdown
<1> QED
  BY Zenon, <1>0, <1>3 DEF ListsMatchStates

\* For any number of loop threads, NotifyShutdown calls a driver's observer
\* only when all its dispatchers are shut down.
THEOREM NotifiedLast == Spec => NotifiedWhenShutDown
<1>1. BooksInv /\ [Next]_vars => [\A d \in Dispatchers :
       unanswered'[Owner[d]] < unanswered[Owner[d]] /\ posted' = posted =>
         state[d] \notin {"kRunning", "kShuttingDown"}]_vars
  BY Zenon, ReportedWhenDown
<1> QED
  BY <1>1, BooksInvariant, PTL DEF Spec, NotifiedWhenShutDown

\* With one loop thread a driver's observer is called, by NotifyShutdown or by
\* a posted call, only when the observers of its dispatchers have returned.
THEOREM ObserverComesLast == ThreadLimit = 1 => (Spec => ObserverIsLast)
<1> SUFFICES ASSUME ThreadLimit = 1 PROVE Spec => ObserverIsLast
  BY Zenon
<1> DEFINE Last ==
      \A d \in Dispatchers : unanswered'[Owner[d]] < unanswered[Owner[d]] =>
        /\ pc[d] \notin {"set_shutdown", "observer"}
        /\ posted' = posted => state[d] \notin {"kRunning", "kShuttingDown"}
<1>1. Init => OneBusy
  BY Zenon DEF Init, OneBusy, Busy
<1>2. BooksInv /\ OneBusy /\ [Next]_vars => OneBusy'
  <2> SUFFICES ASSUME TypeOK, OneBusy, [Next]_vars PROVE OneBusy'
    BY Zenon DEF BooksInv
  <2>1. CASE Busy' \subseteq Busy
    BY Zenon, <2>1 DEF OneBusy
  <2>2. ASSUME NEW d \in Dispatchers, FreeThread, Busy' = Busy \cup {d} PROVE OneBusy'
    <3>1. Busy = {}
      BY Zenon, <2>2, FreeMeansIdle
    <3> QED
      BY Zenon, <2>2, <3>1 DEF OneBusy
  <2> QED
    BY Zenon, <2>1, <2>2, BusyNext
<1>3. BooksInv /\ OneBusy /\ [Next]_vars => Last
  <2> SUFFICES ASSUME BooksInv, OneBusy, [Next]_vars, NEW d \in Dispatchers,
                      unanswered'[Owner[d]] < unanswered[Owner[d]]
               PROVE  /\ pc[d] \notin {"set_shutdown", "observer"}
                      /\ posted' = posted => state[d] \notin {"kRunning", "kShuttingDown"}
    BY Zenon
  <2>0. TypeOK /\ Owner[d] \in Drivers
    BY Zenon, OwnerAssumption DEF BooksInv
  <2>1. ASSUME RunObserver(Owner[d]) PROVE pc[d] \notin {"set_shutdown", "observer"}
    <3>1. Busy = {}
      BY Zenon, <2>0, <2>1, FreeMeansIdle DEF RunObserver
    <3> QED
      BY <3>1 DEF Busy
  <2>2. ASSUME NEW e \in Dispatchers, NotifyShutdown(e)
        PROVE  pc[d] \notin {"set_shutdown", "observer"}
    <3>1. pc[e] = "notify"
      BY Zenon, <2>2 DEF NotifyShutdown
    <3>2. pc[d] # "idle" => d = e
      BY <3>1 DEF OneBusy, Busy
    <3> QED
      BY <3>1, <3>2
  <2>3. pc[d] \notin {"set_shutdown", "observer"}
    BY Zenon, <2>0, <2>1, <2>2, WhoReports
  <2>4. posted' = posted => state[d] \notin {"kRunning", "kShuttingDown"}
    BY Zenon, ReportedWhenDown
  <2> QED
    BY Zenon, <2>3, <2>4
<1>4. BooksInv /\ OneBusy /\ [Next]_vars => [Last]_vars
  BY Zenon, <1>3
<1> QED
  BY <1>1, <1>2, <1>4, BooksInvariant, PTL DEF Spec, ObserverIsLast
=============================================================================
