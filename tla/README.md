# A TLA+ model of the Fuchsia driver framework (`src/src/devices`)

The repository holds the driver framework of Fuchsia and the drivers built on
it. This directory is a formal model of the concurrent core of that framework, and
of two drivers whose protocols are hard to test, sysmem and xHCI:
TLA+ modules translated from the C++ sources, TLC configurations that
model-check them on small instances, and TLAPS proofs that hold for every value
of the constants. `PROJECT.json` maps every definition to the source lines it
models and lists the runs, mutants, findings, hazards and theorems.

Paths below are relative to `src/src/devices/`.

## 1. Inventory

### The driver runtime: `bin/driver_runtime` (modelled first)

Drivers live in driver hosts. Inside a host all of their code runs as callbacks
of *dispatchers*, and they talk to each other over in-process *channels*.

| part | state | operations | who runs them |
|---|---|---|---|
| `Dispatcher` | `state_`, `registered_callbacks_`, `callback_queue_`, `shutdown_queue_`, `waits_`, `delayed_tasks_`, `dispatching_sync_`, `num_active_threads_`, `event_waiter_`, all under `callback_lock_` | `PostTask`, `CancelTask`, `BeginWait`, `CancelWait`, `RegisterCallbackWithoutQueueing`, `QueueRegisteredCallback`, `CancelCallback`, `DispatchCallbacks`, `ShutdownAsync`, `CompleteShutdown`, `Destroy`, `WaitUntilIdle` | any thread; loop threads |
| `Dispatcher::Timer` | `current_deadline_`, the loop task `task_` | `BeginWait`, `Cancel`, `Handler` | under the lock, except `Handler` |
| `Dispatcher::AsyncWait` | `dispatcher_ref_` (atomic), membership in `waits_` | `BeginWait`, `Cancel`, `OnSignal` | callers; loop threads, partly without the lock |
| `Dispatcher::EventWaiter` | `signaled_`, owned by the loop or by the dispatching thread | `signal`, `designal`, `HandleEvent`, `Cancel` | loop threads |
| `CompleteShutdownEventManager` | `event_` | `GetEvent`, `Signal` | under the lock |
| `DispatcherCoordinator` | per driver: `dispatchers_`, `shutdown_dispatchers_`, `shutdown_observer_`; thread counts | `AddDispatcher`, `ShutdownDispatchersAsync`, `SetShutdown`, `NotifyShutdown`, `RemoveDispatcher`, `DestroyAllDispatchers`, `AddThread`, `Reset` | any thread |
| `Channel` | `peer_`, `msg_queue_`, `dispatcher_`, `channel_read_`, `callback_request_`, `callback_request_pending_queue_`, `num_pending_callbacks_`, `waiters_`, `next_id_`, under a lock both ends share | `Write`, `Read`, `WaitAsync`, `CancelWait`, `Call`, `Close`, `DispatcherCallback` | any thread; dispatcher callbacks |
| `driver_context` | a per-thread stack of drivers | `PushDriver`, `PopDriver`, `IsDriverInCallStack` | callbacks |
| `Handle`, `Arena`, `MessagePacket` | handle table, bump allocator, message | create, get, destroy | any thread |

Interactions: a channel registers its read request with the dispatcher, and a
write from the other end queues it *after* releasing the channel's lock. A
dispatcher runs queued requests in batches on the shared loop's threads; a
synchronized dispatcher may also be called *directly* on the writer's thread. A
dispatcher reports its shutdown to the coordinator, which notifies the driver
host when a driver's last dispatcher is down.

What makes it hard: each method is several critical sections; `fit::defer`
blocks run after the lock was given up; the timer's handler and the waits'
handlers write state before taking the lock; the event waiter is owned by the
loop, then by a thread, then by the loop again; shutdown waits for an idle state
that other threads may leave again. What makes it correct: callbacks of a
synchronized dispatcher never overlap, no request is lost or run twice, nobody
sleeps through a wake-up, and shutdown terminates having called everything.

### The driver manager: `bin/driver_manager`

* `v1/task.{h,cc}`: a task graph. `Task` keeps dependencies, dependents,
  `status_`, `self_`; `AddDependency`, `ExecuteTask`, `DependencyComplete`,
  `DependencyFailed`, `Complete`. Hard: a task completes while others are still
  being added; failures travel along the graph; no cycles.
* `v1/unbind_task.cc`, `v1/init_task.cc`, `v1/suspend_task.cc`,
  `v1/resume_task.cc`: the orders in which devices are initialised, unbound,
  removed, suspended and resumed. Hard: removal of a device during its init,
  suspend during removal, a driver host that dies with tasks outstanding.
* `device.{h,cc}`, `v1/device_manager.cc`: device state machine, the device tree
  with proxies, `AddDevice`, `ScheduleRemove`, `RemoveDevice`.
* `v1/suspend_handler.cc`, `v1/suspend_resume_manager.cc`: system suspend and
  its watchdog.
* `composite_device.cc`, `coordinator.cc`, `devfs.cc`, `driver_loader.cc`, `v2/*`
  (node tree and driver runner), `binding*`, `inspect*`, `system_instance*`.

Everything runs as callbacks of one loop thread. What is concurrent are the
driver hosts, which call in, answer late or never, and die.

### sysmem: `sysmem/drivers/sysmem`

Participants share a `LogicalBufferCollection` through a tree of nodes: a
`BufferCollectionToken` is duplicated and bound to a `BufferCollection`, and a
closed one leaves an `OrphanedNode`. `MaybeAllocate` waits for the constraints of
all, allocates, and later serves sub-trees attached with `AttachToken`.
Hard: participants come, constrain, fail and leave in any order; a failure has to
take its failure domain and nothing else; counts kept in every ancestor decide
when a domain is abandoned; VMOs outlive the collection.

### xHCI: `usb/drivers/xhci`

`TransferRing` is memory that driver and controller share: TRBs change hands by
one bit, segments are inserted while the controller reads, requests are rolled
back, and events arrive for what was queued long ago. Hard: no lock covers the
controller.

### Other parts

* `bin/driver_host`, `bin/driver_host2`, `bin/driver-index`, `bin/driver_tools`,
  `lib/bind` (bind compiler and interpreter), `lib/dev-operation`,
  `lib/compat`;
* storage: `block/drivers` (core block server, FTL, zxcrypt, block-verity,
  sdmmc, ramdisk, nvme, partition drivers), `nand/*`;
* the rest of `sysmem` and `usb` (enumeration, bus, hub, peripheral, virtual
  bus), `pci` and `bus/drivers`, `tee`, `securemem`;
* peripherals and boards: `board`, `clock`, `cpu`, `gpio`, `i2c`, `spi`, `pwm`,
  `power`, `thermal`, `serial`, `rtc`, `light-sensor`, `mcu`, `ram`, `registers`,
  `tpm`, `misc`, `acpi`, `internal`;
* `tools/fidlgen_banjo`, `testing`, `tests`.

`PROJECT.json` lists each with its status and the reason when it is not
modelled.

## 2. Plan

Done: `Dispatcher` with `DispatcherContract`, `Coordinator`, and `Channel` but for
the transfer of channels inside messages, each with proofs of all safety
properties that its passing runs check; `DeviceTasks` and
`DeviceManager`; `LogicalBufferCollection`; `TransferRing` with `TransferQueue`.

What would add most next:

1. `Channel`: transfer of channels (`num_pending_callbacks_`,
   `HasIncompleteWaitAsync`), that a registered wait is eventually called, and an
   abstract channel that it implements.
2. Resume and composite devices in `DeviceManager`; cancellation of all requests
   and isochronous requests in `TransferRing`.
3. Handles and their reuse; the DFv2 node tree; the block server.
4. Proofs: `Isolated` and `OneRing` once the walks over nodes and TRBs are
   restated without recursion; `CallsMatched` with calls from both ends, once a
   request can be told from a reply.

Modules to be proved about use no recursion, one action per critical section,
and invariants that are conjunctions of named parts. `DeviceTasks`,
`LogicalBufferCollection` and `TransferRing` translate recursive calls and walks
and are for TLC.

## 3. Modules

| module | models |
|---|---|
| `Dispatcher` | `dispatcher.{h,cc}`: one dispatcher, its timer, waits, event waiter and shutdown |
| `DispatcherContract` | what a dispatcher promises to its driver (abstract) |
| `DispatcherTypeProofs` | TLAPS proof that the variables of `Dispatcher` keep their types |
| `DispatcherProofs` | TLAPS proofs that callbacks are serialized, cancellations run alone and no wake-up is lost |
| `DispatcherRequestProofs` | TLAPS proofs that requests are neither lost nor duplicated and that tasks can be cancelled |
| `DispatcherTimerProofs` | TLAPS proofs about the timer and delayed tasks |
| `DispatcherContractProofs` | TLAPS proofs about shutdown, and that `Dispatcher` implements `DispatcherContract` |
| `Coordinator` | `DispatcherCoordinator` of `dispatcher.{h,cc}`: all drivers and dispatchers of a host |
| `CoordinatorProofs` | TLAPS proofs about `Coordinator`: its books, its threads and the order of observers |
| `Channel` | `channel.{h,cc}`: both ends of a channel and the dispatchers they are waited on with |
| `ChannelTypeProofs` | TLAPS proofs that the steps of `Channel` keep its types, what they do to the callbacks an actor is inside of, and about the list of waiters |
| `ChannelProofs` | TLAPS proofs that waits are reported, closes last, that the assertions on the read callback's request hold, and that calls get their own replies |
| `DeviceTasks` | `v1/task.cc`, the init, unbind, remove and suspend tasks, `device.cc`, `RemoveDevice`: what one callback of the driver manager does |
| `DeviceManager` | the device tree, driver hosts and the system's stop: which callbacks there are |
| `LogicalBufferCollection` | `logical_buffer_collection.cc` and the nodes of sysmem |
| `TransferRing` | `xhci-transfer-ring.cc`, its users in `usb-xhci.cc` and `xhci-event-ring.cc`, and the controller |
| `TransferQueue` | what a transfer ring promises (abstract) |
| `MCDispatcher`, `MCCoordinator`, `MCChannel`, `MCDeviceManager`, `MCLogicalBufferCollection`, `MCTransferRing` | model values, scenarios and symmetry for TLC |

### `Dispatcher`

*Actors.* `Threads` are the threads of the shared async loop; they run the
handlers. `Clients` call the dispatcher from elsewhere; a client in `Runtime`
executes another driver's callback on a managed thread (non-empty call stack,
our owner not in it), which is what makes a direct call possible. Whoever is
inside a callback may call the API, and `pc`, `call` and `req` say where each
actor is: `pc` is the handler it runs, `call` the API call it is in the middle
of, `req` the request that call is about.

*Requests.* `Tasks` are `async_task_t`, `Waits` are `async_wait_t`, `Reads` are a
channel's read callback. They are identities only: payloads and statuses never
influence the dispatcher. The five containers are `registered_callbacks`,
`callback_queue`, `shutdown_queue`, `waits` and `delayed_tasks`; `to_call` is the
local list of `DispatchCallbacks`. Lists whose order is never observed are sets.
`pending` is a history variable: accepted, neither run nor cancelled.

*Counting.* `active_threads` stands for `num_active_threads_` as the set of the
increments not yet undone, so "the count is 0" is "the set is empty" and the
assertions `num_active_threads_ > 0` hold by construction of the tokens.

*Assertions.* A `ZX_ASSERT` that fails sets `panic` and stops the model;
`ShutdownFindsIdle` says that one particular assertion cannot fail.

*Correspondence.* One action is one critical section, or one access that the
code makes outside the lock:

| code | actions |
|---|---|
| `PostTask` | `PostTask` (register) then `QueueRegisteredCallback`; `PostDelayedTask` |
| `QueueRegisteredCallback` | `QueueRegisteredCallback`, `DirectCallEnd`, `QueueDefer` |
| `CancelTask`, `CancelAsyncOperation` | `CancelTask` |
| `BeginWait`; `CancelWait` | `BeginWait`; `CancelWait`, then `RemoveWait` or `CancelWaitOperation` |
| `AsyncWait::Handler` | `WaitSignaled`, `OnSignal`, `QueueWait` |
| `Channel::WaitAsync`, `Write`, `OnPeerClosed`, `CancelWait` as the dispatcher sees them | `RegisterRead`, `QueueRead`, `CancelCallback` |
| `EventWaiter::HandleEvent`, `DispatchCallbacks` | `HandleEvent`, `DispatchCallbacks`, `DispatchCallback`, `CallbackReturns`, `DispatchEnd`, `DispatchDefer` |
| `Timer::Handler`, `CheckDelayedTasks` | `TimerFires`, `TimerHandler`, `CheckDelayedTasks` |
| `ShutdownAsync` | `ShutdownAsync`, `RegisterForCompleteShutdownEvent` |
| `CompleteShutdown` | `ShutdownEventSignaled`, `CompleteShutdown`, `CancelNext`, `CancelReturns`, `ShutdownQueueEmpty`, `EnterShutdown`, `ObserverReturns` |
| `Destroy`, `WaitUntilIdle` | `Destroy`, `WaitUntilIdle`, `WaitUntilIdleReturn` |

Calls that fail their first test and change nothing (`PostTask` on a dispatcher
that is shutting down, a second `ShutdownAsync`) are stuttering steps.
`QueuePacket`, `BindIrq` and `UnbindIrq` pass their argument on to the loop and
touch no state; `HasQueuedTasks` is a query; `SetCallbackReason` changes only the
status a callback is called with. Two options of the environment are constants:
`LateDelayed` lets clients post delayed tasks after `ShutdownAsync`, and
`WaitsCanFail` lets the loop refuse a wait.

### `DispatcherContract`

A dispatcher as its driver sees it: `Accept` while open, `Begin` a request once
or `Withdraw` it, `End` a callback, `Close`, `Drain`, `Finish`. Callbacks of a
serial dispatcher exclude each other; while draining those of every dispatcher
do; it finishes when nothing is pending or running. `Dispatcher` maps its state
and the position of `CompleteShutdown` to the contract's phase
(`ContractPhase`), and the actors inside callbacks to `running`.

### `Coordinator`

*State.* `drivers` are the keys of `drivers_`; `dispatchers`,
`shutdown_dispatchers` and `shutdown_observer` are the fields of each
`DriverState`. `state` is the dispatcher's own `state_`, guarded by another lock,
extended by the time before (`none`, `creating`) and after (`removed`) its life.
`pc` says where a loop thread is in the dispatcher's `CompleteShutdown`, which
ends in the coordinator. `unanswered` is a history variable: accepted shutdown
requests minus calls of the observer. Identities are reused once free, so
creation and destruction never end.

| code | actions |
|---|---|
| `CreateWithAdder`, `AddThread`, `AddDispatcher` | `Create`, `CreateFails`, `AddDispatcher` |
| `ShutdownDispatchersAsync` | `ShutdownDispatchersAsync` under the lock, then one `PostShutdown` per dispatcher or `PostObserver`; the posted work is `RunShutdownTask`, `RunObserver` |
| `Dispatcher::ShutdownAsync`, `CompleteShutdown` | `ShutdownAsync`, `CompleteShutdown`, `SetShutdown`, `ObserverReturns` |
| `NotifyShutdown` | `NotifyShutdown` (to the handler's call), `HandlerReturns` |
| `Destroy`, `RemoveDispatcher` | `Destroy`, `RemoveDispatcher`, `Free` (last reference) |
| `DestroyAllDispatchers` | `DestroyAllDispatchers`, `DestroyNext` |
| `WaitUntilDispatchersDestroyed`, `Reset` | the actions of these names |

What the callers promise is in guards: a driver destroys a dispatcher after
`SetShutdown`, `DestroyAllDispatchers` is used in place of the drivers and once
everything is shut down, and `Reset` when nothing is left on the loop.

### `Channel`

*State.* Ends are 0 and 1. `linked` stands for both `peer_` pointers, which
change together; `registered` for `dispatcher_` and `channel_read_`;
`pending_queue` for `callback_request_pending_queue_`. `where` is the container
that holds the end's one `CallbackRequest`: the channel, one of the dispatcher's
lists, a thread's batch, or a running callback. `stack` holds the callbacks an
actor is inside of, since direct calls nest; `call` and `todo` say what it does
after it has released the channel's lock. `of` in a message is a ghost that
names the call the message belongs to.

| code | actions |
|---|---|
| `Write`, `Read` | `Write` (with `WriteSelfLocked`), `Read` |
| `WaitAsync`, `CancelWait` | `WaitAsync`; `CancelWait`, `CancelWaitUnsynchronized` |
| `Call` | `Call` to the wait, `CallReturns` |
| `Close` | `Close`, `OnPeerClosed` |
| `Dispatcher::QueueRegisteredCallback` after any of these | `QueueRegisteredCallback` |
| `Channel::DispatcherCallback` | `DispatcherCallback` (the locked part), `CallbackReturns` |
| the dispatcher | `DispatchCallbacks`, `DispatchCallback`, `ShutdownAsync`, `CompleteShutdown`, cut down to the request of the end |

The ends' dispatchers belong to different drivers and do not allow sync calls;
`SyncEnds` says which are synchronized. Two assumptions on the environment are
explicit: `Close` is called when no wait is registered (the code asserts it),
and the 2^31 txids are not used up while a message of an ended call is still
around (`NotStale`); without the second a late reply could be taken for the
reply to a newer call. `Freed` is conservative: an end counts as gone only when
it is closed, owns its request, and no other actor is in any call or callback.

### `DeviceTasks` and `DeviceManager`

*State.* `dev[d]` is a `Device`: `state_`, its driver host, the tasks it points to
(`active`) and the completions it stores for hooks under way (`completion`).
`task[<<k, d>>]` is its task of kind `k` with dependencies, dependents and status;
an object that nothing refers to is reaped, as the reference counts would.
`devices` is `devices_`, whose order is that of every `children()` list, `posted`
the loop's queue, `calls` the hooks that driver hosts have not answered,
`handler` the `SuspendHandler`. The loop has one thread, so one callback is one
step however many calls it makes; `DeviceTasks` has those calls as operators from
state to state, named like the functions.

| code | actions |
|---|---|
| `Task::ExecuteTask` and the `Run` of each task | `RunPosted` |
| `AddDevice`, `HandleNewDevice` | `AddDevice`, `HandleNewDevice` |
| `Device::ScheduleRemove`, `ScheduleUnbindChildren`, `RestartDriverHosts` | `ScheduleRemove`, `RequestUnbindChildren`, `RestartDriverHosts` |
| replies to `Init`, `Unbind`, `CompleteRemoval`, `Suspend` | `Reply`; `CallFails` when the host is gone |
| a driver host that dies, `RemoveDevice(forced)` | `HostCrash`, `Disconnected` |
| `SuspendHandler` | `Suspend`, `FilesystemsDown`, `UnregisterSystemStorageForShutdown`, `Watchdog` |

Assumptions on the environment: a driver host calls `ScheduleRemove` with
`unbind_self` (as `api.cc` does) and answers unbind and remove with success; the
crash policy is to restart driver hosts; children of a bus device are added
through its proxy while the bus has a driver; a driver adds no child to a device
it has been told to let go (`lateAdds`); the channel of a removed device closes
after its reply; `Suspend` is called once, by the component's stop.

### `LogicalBufferCollection`

*State.* `node[n]` is a `NodeProperties` with the `Node` it owns: a token, a
collection or an orphan, its error propagation mode, constraints, and the two
counts as `AdjustRelevantNodeCounts` keeps them. `info` and `buffers` are the
allocation's result, `vmos` the parent VMOs, `held` the client's handles,
`tracker` a lifetime tracker. Constraints are reduced to the buffers a
participant holds at once and the least number there has to be: enough to agree,
to disagree, and to be joined later. `MaybeAllocate` yields a set of states where
the order of an unordered map decides.

| code | actions |
|---|---|
| `Duplicate`, `DuplicateSync`; `SetDispensable`; `AttachToken` | `Duplicate`; `SetDispensable`; `AttachToken` |
| `BindSharedCollection` | `BindSharedCollection` |
| `SetConstraints`, `WaitForBuffersAllocated`, `AttachLifetimeTracking`, `Close` | the actions of these names |
| refused calls | `FailSync`, for every reason alike |
| the error handlers of tokens and collections | `Unbound` |
| `TrackedParentVmo::OnZeroChildren` | `OnZeroChildren`, after `CloseVmo` of the clients |

Sysmem has one dispatcher thread, so a callback is one step. A participant waits
once and tracks once; calls without effect (`Sync`, debug names) are stuttering.

### `TransferRing` and `TransferQueue`

*State.* `trb` is the memory, a TRB being its segment and index; `enq`, `pcs`, `deq`
and `pending` are the ring's `trbs_`, `pcs_`, `dequeue_trb_` and `pending_trbs_`; `txn`
is a request between its preparation and its commit; `hw` is the controller and
`events` what it has reported. The driver's calls are serialized by
`transaction_lock` or the command ring's `mutex_`, and the controller moves
between any two; a command is visible to it before its context is queued, so
adding one is two steps.

| code | actions |
|---|---|
| `UsbHciControlRequestQueue` and its phases | `UsbHciControlRequestQueue`, `Commit` |
| `UsbHciNormalRequestQueue`, `StartNormalTransaction`, `ContinueNormalTransaction`, `CommitNormalTransaction` | `UsbHciNormalRequestQueue`, `Commit` |
| `SubmitCommand`, `AddTRB` | `SubmitCommand`, `AddTRB` |
| `EventRing::HandleIRQ`, transfer and command completion events | `HandleEvent` |
| `UsbHciResetEndpointAsync` | `UsbHciResetEndpoint`, `ResetDone` |
| the controller (external) | `FollowLink`, `Execute`, `Stall` |

`TransferQueue` is the promise: transfers are offered, published whole, taken in
order, and given up by a reset. The mapping takes as queue what the controller
would read if the driver wrote nothing more. Memory is coherent; lengths are
numbers of TRBs; memory that runs out does so for a whole request.

## 4. Runs

Passing runs:

| run | instance | shows |
|---|---|---|
| `dispatcher_sync` | 2 loop threads, 1 driver thread, 1 foreign thread, one task, wait and read, one clock tick | `CallbacksSerialized`, `RequestsConserved`, `NoLostWakeup`, `IdleIsBroadcast`, `ShutdownIsFinal` |
| `dispatcher_unsync` | unsynchronized, batches of one, 2 loop threads, 1 driver thread | `CancellationsRunAlone`, `ImplementsContract` |
| `dispatcher_timer` | 2 tasks, 1 read, batches of two, two clock ticks, late delayed tasks, no direct calls | `TasksCancellable`, `DelayedTasksWatched` |
| `dispatcher_live` | 1 loop thread, 1 driver thread, fairness | `ShutdownCompletes`, `QueuedCallbacksRun` |
| `coordinator_single` | 2 drivers, 3 dispatchers, 2 clients, 1 loop thread | `StatesKept`, `ObserverIsLast` |
| `coordinator_threads` | 1 driver, 2 dispatchers of which one blocks, at most 2 loop threads, threads that fail to start, fairness | `ThreadsEnough`, `ShutdownReported` |
| `channel_reads` | a synchronized and an unsynchronized end, 1 loop thread, 1 driver thread, 1 foreign thread | `NoLostRead`, `AssertionsHold`, `PeerClosedIsLast` |
| `channel_calls` | 3 clients, one of them inside another driver's callback, calling over one end, the other end waited on, 2 txids | `WaitersListed`, `CallsMatched` |
| `device_tree` | 6 devices in 2 driver hosts, eight scenarios, fairness | `AssertionsHold`, `NoChildLeftBehind`, `OneHookAtATime`, `SuspendAfterChildren`, `EverythingSettles`, `AllSuspended`, `StopAnswered` |
| `buffer_collection` | up to 3 participants and 2 buffers, six scenarios, fairness | `AssertionsHold`, `NoneOverlooked`, `BuffersSuffice`, `TrackersExact`, `Isolated`, `WaitsAnswered`, `Reclaimed` |
| `transfer_ring` | segments of 5 TRBs, up to 3 of them, seven scenarios, fairness | `OneRing`, `ContextsInStep`, `ShortsNoted`, `NothingOverwritten`, `IsQueue`, `TransfersComplete` |

`ObserverIsLast` is checked with one loop thread because it needs it: with two,
TLC finds it violated. The default host has one thread until a blocking
dispatcher is created. Type correctness and the inductive invariants of
`Dispatcher`, `Coordinator` and `Channel` are proved (section 5) and not repeated
as runs.

Each property has a mutant: an operator that changes one mapped definition the
way a plausible bug would, under which TLC finds the property violated.

One run shows a disagreement between the code and what an assertion says
(details in `PROJECT.json`, "findings"): in `late_queue`, `QueueRegisteredCallback`
counts itself active before it sees that the dispatcher is shutting down, and the
assertion `ShutdownFindsIdle` of `CompleteShutdown` fails.

The models show more of this kind, which no run states; `PROJECT.json` describes
most of them as hazards, with what the passing runs leave out because of them.

* Driver runtime: a delayed task accepted after `ShutdownAsync` and never called
  (`dispatcher.cc` 547); a driver's observer called by two loop threads, the
  second of which finds its state erased (1077); a writer that uses the request
  of a peer that has cancelled its wait and closed (`channel.cc` 130); a request
  erased from a list it is not in (`dispatcher.cc` 617); a timer handler
  overtaken by shutdown (515); a delayed task that loses its timer to a direct
  call (779); a refused wait destroyed with its reference (128); delayed tasks
  starved by tasks that post tasks (444); a late delayed task whose cancellation
  blocks the shutdown (733); a thread count that is not taken back (237); a
  request taken for a reply when both ends make calls (`channel.cc` 141).
* Device tree: a removal by request that meets a stop of the system and an
  assertion (`v1/task.cc` 29); `Suspend` going on after it has refused
  (`v1/suspend_handler.cc` 116); a bus device that stays `kUnbinding` when the
  host of its children crashes during its removal (`device.cc` 579); devices left
  with a dead parent when the parent's host crashes after a removal began
  (`v1/device_manager.cc` 242); a failed suspend that fails the unbind waiting for
  it, for good; `RestartDriverHosts` letting a parent go before its children
  (`v1/unbind_task.cc` 62).
* sysmem: a failed allocation reported to an attached token, which panics
  (`buffer_collection_token.cc` 300); `ZX_ERR_BAD_STATE` taken for a dispatcher
  shutting down, so that it fails the root from inside an isolated sub-tree
  (`logical_buffer_collection.cc` 344); a failure domain without clients that
  stays (`node_properties.cc` 80).
* xHCI: a rollback after the first TRB grew the ring leaves `trbs_` on a link TRB
  (`usb-xhci.cc` 916), and every later request is refused.

A state in which an assertion has failed has no successors, so the passing runs
say nothing of what follows one.

### Bounds

Two loop threads and two clients are enough for every pairwise race between a
handler, a direct call and a caller, and for a third actor to be late; the
properties relate at most two callbacks or two lists. One request of each kind
suffices for conservation, since a request is treated without regard to the
others except for order in the queue, which `dispatcher_timer` exercises with
two tasks and a read and batches of two. `MaxTime` bounds the clock: two ticks
distinguish earlier, equal and later deadlines. Requests are reused for ever
once free, so behaviours are unbounded in length.

Two drivers show that their states do not mix, and two dispatchers of one driver
are what it takes for one to finish last; `MaxNeeded` leaves room for creations
that fail and are not taken back, and a `ThreadLimit` of two is reached.
`MaxRequests` lets a second shutdown request meet an unanswered one. One message
per end (`MaxMsgs`) separates empty from non-empty, all that the code asks of the
queue; two txids wrap around at once, and with three clients all are in use while
one more calls. The reads and the calls are separate runs because together they exceed
what TLC explores in minutes.

`device_tree` has a bus device with its proxy in a host of its own and two
generations below it: the least tree with a parent, a proxy and a child in both
relations that `ScheduleUnbindChildren` distinguishes, across a host boundary.
Three requests let two removals meet a third, two crashes lose both hosts, three
additions rebuild what was lost. The scenarios separate what the list above says
does not go together: removals by request from stops, suspend failures from
unbinds that wait for a suspend.

Three participants are a root, a child and either a sibling or a grandchild; two
buffers are enough for two participants and not for three. Misuse ends with
`bad_state` only where nobody is isolated, and `AttachToken` comes before the
allocation only from the root and where the allocation cannot fail.

Segments of five TRBs leave room for a request and the reserve in one, force the
next to wrap, and let a ring grow at its end, one before it and in the middle;
three segments are grown behind each of these. The same
properties passed in longer runs with segments of five TRBs and every fault in
three segments (2.7 million states) and with six TRBs in two segments. `Room` bounds
memory: a request is made when it fits, if need be in one more segment.

Deadlock is not checked: a dispatcher, a device tree, a collection or a ring
nobody calls has nothing to do, and what is destroyed never has.

### Fairness

`FairSpec` assumes what the loop and the kernel give: a thread inside a call or
a handler keeps running (weak fairness of `CallStep` and `HandlerStep`); callbacks
return, however many calls they make first (strong fairness of `CallbackEnds`);
the port delivers packets in order, so a packet that keeps being there is taken
(strong fairness of `HandleEvent`, `TimerFires`, `ShutdownEventSignaled`); time
passes. Nothing is assumed of clients or of the objects that waits are for.
For the coordinator, a thread inside `CompleteShutdown` or
`ShutdownDispatchersAsync` goes on (weak), and a posted task or a completed
shutdown is taken although other work may take the free thread first (strong).
In `DeviceManager` the loop runs what is posted, a driver that lives answers its
hooks, the kernel reports the channels of a dead process, and fshost answers or
goes away; the watchdog need not fire. In `LogicalBufferCollection` participants
do not sit on a token, on missing constraints or on buffers for ever
(`Participants`: without this sysmem waits, as it should), and the dispatcher
gets to closed channels and to VMOs without children. In `TransferRing` a started
request is finished, events are handled, and the controller reads on (weak).
`QueuedCallbacksRun` has the premise that direct calls cease: a writer that
always arrives between two dispatches starves the queue, because
`DispatchCallbacks` gives up when `dispatching_sync_` is set.

## 5. Proofs

Every safety property that the passing runs check of `Dispatcher`, `Coordinator`
and `Channel` is proved for all values of the constants. Some have a
hypothesis, which the property needs: TLC finds it violated without.

| theorem | hypothesis | why |
|---|---|---|
| `ShutdownLeavesNothing`, `ContractImplemented` | `~LateDelayed` | a delayed task posted after `ShutdownAsync` is never called (`dispatcher.cc` 547) |
| `DelayedWatched` | `Unsynchronized \/ Runtime = {}` | a dispatch that meets a direct call leaves without looking at the timer (779) |
| `ObserverComesLast` | `ThreadLimit = 1` | a posted observer overtakes one that is still running on another thread (995) |
| `CallsGetTheirReplies` | `Callers \subseteq {x}` | a request is taken for a reply when both ends call (`channel.cc` 141) |

### `Dispatcher`

From `ActorsAssumption` (loop threads and clients are disjoint) and
`BoundsAssumption` (the batch size is positive and the clock bound a natural
number), for any sets of threads, clients and requests:

* `TypeCorrect`. The inductive invariant `TypeInv` adds that a thread handling a
  signal is handling a wait, without which `QueueWait` could put anything into a
  list.
* `Serialized` and `CancellationsAlone`, from `SerialInvariant`.
  `CallbacksSerialized` says nothing of a thread that has taken a batch and is
  between callbacks, of why `dispatching_sync_` is set, or of why
  `CompleteShutdown` cannot overlap. `SerialInv` adds these: whoever is between
  taking a batch and finishing it, or inside a direct call, is counted in
  `num_active_threads_` (`BusyIsCounted`) and, on a synchronized dispatcher, is
  the only one and has `dispatching_sync_` set (`SyncIsALock`); the shutdown event
  is created, signalled and taken at most once, so one thread at most is inside
  `CompleteShutdown` (`ShutdownRunsOnce`); past its assertion nobody is
  dispatching (`DrainsAlone`), because a new dispatch needs `kRunning`. Steps that
  neither start a callback nor advance `CompleteShutdown` are covered by one lemma
  (`HarmlessSteps`); the others are proved one by one.
* `WakeupsNotLost` and `IdleBroadcast`, from `WakeInvariant`. `WakeInv` adds who
  owns the event waiter: one thread holds it, and on a synchronized dispatcher
  nobody dispatches without it (`OneHolder`); `dispatching_sync_` is set only while
  somebody will reset it, who then signals if anything is queued (`SyncIsHeld`);
  the event stays unsignalled once `CompleteShutdown` is due
  (`QuietAfterShutdown`).
* `RequestsKept`, from `ReqInvariant`. `Homes` says that a request is pending
  exactly if one of the lists or batches has it, and never two; `Injective` that
  it is there once. What makes this inductive are the requests between two
  critical sections: a wait that has left the loop and is not yet removed from
  `waits_` is still there and in the hands of one actor (`WaitTokens`); only a
  thread that dispatches has a batch (`BatchOwned`); the lists of a running
  dispatcher and the shutdown queue are never used together (`ListsClosed`).
* `TasksAreCancellable`, from `CancelInvariant`: on a synchronized dispatcher an
  async operation is alone in its batch (`OneOpPerBatch`), and a registered task
  is about to be queued by its `PostTask` (`TasksQueued`).
* `DelayedWatched`, from `TimerInvariant`. `Timer::Handler` resets
  `current_deadline_` without the lock; `TimerOwned` says that it and the task on
  the loop disagree only while the one thread that took the task has not yet
  reset it.
* `ShutdownLeavesNothing`, from `FinalInvariant`: what `CompleteShutdown` finds
  and leaves at each of its steps, and that nothing starts afterwards.
* `ContractImplemented`: the initial states of `Dispatcher` map to those of
  `DispatcherContract`, and every action maps to a step or a stutter. One lemma
  covers the steps the contract does not notice (`Unnoticed`); accepting, calling,
  cancelling, returning and the phases of shutdown are proved one by one, with
  `SerialInv`, `ReqInv` and `FinalInv`. The contract has no fairness; what eventually
  happens is left to `dispatcher_live`.

### `Coordinator`

From `OwnerAssumption` (each dispatcher has an owner; finitely many can block)
and `LimitsAssumption` (the bounds are positive), for any drivers, dispatchers,
clients and limits:

* `TypeCorrect`.
* `DriverStatesKept`, `NoAssertionFails` and `DestroyedNotMissed` (the properties
  `StatesKept`, `AssertionsHold`, `DestroyedIsBroadcast`), from `BooksInvariant`.
  `StatesKept` alone is not inductive: whether `RemoveDispatcher` leaves a driver
  without dispatchers depends on which list the dispatcher is in. `BooksInv` adds
  `ListsMatchStates`, which ties the lists to the dispatchers' own states, and
  `LifeInv`: a loop thread inside `CompleteShutdown` keeps its dispatcher from
  being reused, and what `DestroyAllDispatchers` has collected nobody else
  destroys.
* `EnoughThreads`, from `NeededInv`: `dispatcher_threads_needed_` exceeds the
  number of blocking dispatchers, counts that are never taken back included.
* `NotifiedLast`, with any number of threads: `NotifyShutdown` calls the driver's
  observer only when all its dispatchers are shut down. `ObserverComesLast`, with
  one: also a posted call comes after the dispatchers' own observers, because no
  two dispatchers are inside `CompleteShutdown` (`OneBusy`) and a free thread means
  that none is.

### `Channel`

From `ActorsAssumption`, `EndsAssumption` and `BoundsAssumption` (there are txids
and room for messages), for any clients, threads, txids and bounds:

* `ChannelTypes`.
* `WaitersAreListed`, from `ListedInvariant`: a client that has a waiter is inside
  its call, or inside callbacks that return to it (`InCall`), so a waiter is not
  made twice.
* `ReadsNotLost`: `NoLostRead` is inductive as it stands, given the types.
* `PeerClosedComesLast`, from `ClosedInvariant`: whoever is about to queue or call
  with `ZX_ERR_PEER_CLOSED` does so for a closed channel and an empty queue, which
  stays empty (`Drained`).
* `NoAssertionFails`, from `OwnerInv`: the request is the channel's exactly while
  no wait is registered; a read callback that has not yet taken the lock is the
  innermost of its thread, and the only one of its end; one thread is inside a
  synchronized dispatcher.
* `CallsGetTheirReplies`, from `MatchInv`: a message of a call carries its txid, and
  the call has no outcome yet (`Mine`); a message with the txid of a listed waiter
  is of that waiter's call (`Fits`); a call has one message on its way (`Unique`);
  the peer makes no calls (`OneCaller`). A new txid is in nobody's message
  (`FreshTxid`): one that belongs to a call would be in use, and that the 2^31 txids
  are not used up while a message of an ended call is around is the model's
  `NotStale`.

### Only model-checked

The liveness properties, since the prover has no fairness; and `DeviceManager`,
`LogicalBufferCollection`, `TransferRing` and its refinement of `TransferQueue`.
These translate recursive calls and walks over trees and rings with recursive
operators, and what such an operator computes takes induction over data; the
prover has neither.

## 6. Not modelled

Driver runtime: statuses and payloads; transfer of channels inside messages and
the checks of arguments; `WaitUntilDispatchersIdle`, a loop over `WaitUntilIdle`;
failures of `zx::event::create`, of `BeginWaitWithRef` and of the loop itself (the
loop is never shut down while dispatchers exist); test-only entry points.

Driver manager: resume; composite devices and fragments; `new_proxy`; devfs,
metadata and the loading of drivers; a crash policy other than restarting hosts.

sysmem: pixel formats, heaps, rights and auxiliary buffers, which decide whether
constraints agree but not what follows; external heaps that disappear; the
creation timer.

xHCI: isochronous requests and resynchronization, cancellation of all requests,
removal of a device, the workaround for defective hubs, the event ring's own
segments and the contexts of slots.

The other parts of section 1 are large and for the most part outside what a
model of this kind can say: register programming and board tables (most of the
drivers), parsers, encoders and generators (bind, banjo, tools), sequential
bookkeeping over large data (driver index, devfs, inspect), or protocols whose
other side is not in the repository (secure monitor, OP-TEE). `PROJECT.json` gives
the reason for each. Those that would repay a model are in section 2.
