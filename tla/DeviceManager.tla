--------------------------- MODULE DeviceManager ---------------------------
(***************************************************************************)
(* The device tree of driver_manager (v1/): devices come from drivers,     *)
(* initialise, are unbound and removed, on request or because their driver *)
(* host died, are bound again, and are suspended when the system stops.    *)
(* Every action is one callback of the single-threaded event loop, or a    *)
(* driver host that crashes.  Module DeviceTasks has what a callback does. *)
(***************************************************************************)
EXTENDS DeviceTasks

CONSTANT
  Scenarios     \* what the loop's clients do in a behaviour: records with
                \*   booted    the devices added before it, in the order of devices_
                \*   requests  which of "remove", "rebind" and "restart" are made
                \*   asks      how many of those
                \*   adds      how many devices drivers add
                \*   inits     the devices among them that have an init hook
                \*   lateAdds  whether a driver adds a child to a device it is losing
                \*   fails     the hooks ("init", "suspend") that may fail
                \*   crashes   how many driver hosts crash
                \*   retries   what Device::retries starts with
                \*   stops     the reasons the system may be stopped for
                \*   unregisters  whether fshost unregisters the system storage

VARIABLES
  dev,      \* dev[d]: the Device object
  task,     \* task[<<k, d>>]: d's task of kind k
  host,     \* host[h]: the DriverHost object and its process
  devices,  \* devices_, which orders every children() list
  posted,   \* the tasks the loop has yet to execute, in order
  calls,    \* hooks a driver host was asked to run and has not answered
  publish,  \* bus devices with publish_task_ posted
  handler,  \* SuspendHandler
  panic,    \* the assertion that failed, if any
  left      \* what is left of the scenario

vars == <<dev, task, host, devices, posted, calls, publish, handler, panic, left>>

Now == [dev |-> dev, task |-> task, host |-> host, devices |-> devices, posted |-> posted,
        calls |-> calls, publish |-> publish, handler |-> handler, panic |-> panic]

\* The loop ran a callback that leaves g.
Callback(g) ==
  LET r == Reap(g)
  IN  IF r.panic # "none"
        THEN panic' = r.panic /\ UNCHANGED <<dev, task, host, devices, posted, calls, publish, handler>>
        ELSE /\ dev' = r.dev /\ task' = r.task /\ host' = r.host /\ devices' = r.devices
             /\ posted' = r.posted /\ calls' = r.calls /\ publish' = r.publish \cap Buses
             /\ handler' = r.handler /\ UNCHANGED panic

Spend(what) == left[what] > 0 /\ left' = [left EXCEPT ![what] = @ - 1]

-----------------------------------------------------------------------------
\* The driver host of a device is that of the device it is added to.
RECURSIVE Home(_)
Home(d) ==
  CASE d \in Proxies -> HostOf[d]
    [] d \notin Proxies /\ Parent[d] \in Buses -> HostOf[Proxy[Parent[d]]]
    [] OTHER -> Home(Parent[d])

Boots == LET added == Range(left.booted) IN added \cup {Proxy[b] : b \in Buses \cap added}
Init ==
  /\ left \in Scenarios
  /\ dev = [d \in Device |->
              IF d \notin Boots THEN NoDevice
              ELSE [NewDevice EXCEPT !.host = IF d = Sys THEN NoHost ELSE Home(d),
                                     !.attached = d # Sys, !.bound = d \in Buses, !.retries = left.retries]]
  /\ task = [t \in Task |-> NoTask]
  /\ host = [h \in Host |->
              [DriverHost EXCEPT !.devices = SetToSeq({p \in Proxies \cap Boots : HostOf[p] = h})
                                  \o SelectSeq(left.booted, LAMBDA d : d # Sys /\ Home(d) = h)]]
  /\ devices = left.booted
  /\ posted = <<>> /\ calls = {} /\ publish = {} /\ panic = "none"
  /\ handler = [flags |-> "kRunning", sflags |-> "none", callback |-> "none", told |-> "none",
                filesystems |-> FALSE, watchdog |-> FALSE, fallback |-> FALSE, unregister |-> "none"]

-----------------------------------------------------------------------------
(* The loop's own callbacks.                                               *)

RunPosted ==
  /\ posted # <<>>
  /\ Callback(ExecuteTask([Now EXCEPT !.posted = Tail(@)], Head(posted)))
  /\ UNCHANGED left

\* An object nothing refers to any more; its identity may be used again.
Free(d) ==
  /\ IsDead(Now, d) /\ ~dev[d].attached /\ \A k \in Kinds : task[<<k, d>>] = NoTask
  /\ \A c \in Device : dev[c].attached => Parent[c] # d

\* publish_task_ of a bus device: PrepareProxy gives it a proxy in a new
\* driver host unless it still has one, and the driver is bound to the proxy.
HandleNewDevice(b) ==
  LET p == Proxy[b]
      h == HostOf[p]
      bindable == dev[b].visible /\ ~dev[b].bound /\ ~IsDead(Now, b)
      taken == [Now EXCEPT !.publish = @ \ {b}]
      fresh == [taken EXCEPT !.dev[p] = NewDevice, !.host[h] = DriverHost]
      bound(g) == [g EXCEPT !.dev[b].bound = TRUE]
  IN  /\ b \in publish
      /\ bindable /\ ~dev[p].attached => Free(p) /\ host[h].devices = <<>>
      /\ Callback(IF ~bindable THEN taken
                  ELSE IF dev[p].attached THEN bound(taken)
                  ELSE bound(SetHost(fresh, p, h)))
      /\ UNCHANGED left

-----------------------------------------------------------------------------
(* Calls from driver hosts.                                                *)

Connected(d) == ~IsDead(Now, d) /\ dev[d].host # NoHost /\ ~host[dev[d].host].crashed
\* Mutant: only the suspension of the system storage counts.
InSuspendStorage == handler.flags = "kStorageSuspend"

InSuspend == handler.flags # "kRunning"

\* A driver adds d to its parent, through the proxy if the parent has one.
AddDevice(d) ==
  LET via == IF Parent[d] \in Buses THEN Proxy[Parent[d]] ELSE Parent[d]
      new == [NewDevice EXCEPT !.visible = d \notin left.inits, !.retries = left.retries]
      added == SetHost([Now EXCEPT !.dev[d] = new, !.devices = Append(@, d)], d, dev[via].host)
      init == Create(SetState(added, d, "kInitializing"), <<"init", d>>, Options, TRUE)
  IN  /\ Spend("adds")
      /\ Free(d) /\ d \notin Range(devices) /\ Connected(via) /\ (via \in Proxies => dev[Parent[d]].bound)
      /\ ~InSuspend /\ dev[via].state # "kUnbinding"
      /\ left.lateAdds \/ ~IsActive(Now, "remove", via)
      /\ Callback(IF d \in left.inits THEN init ELSE [added EXCEPT !.publish = @ \cup {d}])

\* Device::ScheduleRemove: device_async_remove, or the end of a failed bind.
\* Driver hosts pass unbind_self = true.
ScheduleRemove(d) ==
  /\ "remove" \in left.requests /\ Spend("asks")
  /\ Connected(d) /\ d \notin Proxies
  /\ Callback(CreateUnbindRemoveTasks(Now, d, Unbinding(TRUE, TRUE), TRUE))

\* Device::ScheduleUnbindChildren: the driver host rebinds a device.
RequestUnbindChildren(d) ==
  /\ "rebind" \in left.requests /\ Spend("asks")
  /\ Connected(d) /\ d \notin Proxies \cup Buses /\ Children(Now, d) # <<>>
  /\ Callback(FoldLeft(LAMBDA g, c : CreateUnbindRemoveTasks(g, c, Unbinding(TRUE, TRUE), TRUE),
                       Now, Children(Now, d)))

\* Coordinator::RestartDriverHosts for the driver of d.
RestartDriverHosts(d) ==
  /\ "restart" \in left.requests /\ Spend("asks")
  /\ d \in Range(devices) \ {Sys}
  /\ Callback(IF dev[d].host = NoHost THEN Panic(Now, "restart_without_host")
              ELSE FoldLeft(LAMBDA g, c : CreateUnbindRemoveTasks(g, c, Unbinding(TRUE, FALSE), TRUE),
                            Now, host[dev[d].host].devices))

\* A driver answers the hook it was asked to run.
Answer(g, k, d, status) ==
  CASE k = "init" -> CompleteInit(g, d, status)
    [] k = "suspend" -> CompleteSuspend(g, d, status)
    [] k = "unbind" -> CompleteUnbind(g, d, status)
    [] k = "remove" -> CompleteRemove(g, d, status)
Answers(k) == IF k \in left.fails THEN {"ok", "failed"} ELSE {"ok"}
Reply(k, d) ==
  /\ <<k, d>> \in calls /\ Connected(d)
  /\ \E status \in Answers(k) : Callback(Answer([Now EXCEPT !.calls = @ \ {<<k, d>>}], k, d, status))
  /\ UNCHANGED left

-----------------------------------------------------------------------------
(* A driver host crashes; the loop sees every channel to it closed, in any *)
(* order.                                                                  *)

HostCrash(h) ==
  /\ Spend("crashes")
  /\ host[h].devices # <<>> /\ ~host[h].crashed
  /\ host' = [host EXCEPT ![h].crashed = TRUE]
  /\ UNCHANGED <<dev, task, devices, posted, calls, publish, handler, panic>>

Crashed(d) == ~IsDead(Now, d) /\ dev[d].host # NoHost /\ host[dev[d].host].crashed

Disconnected(d) ==
  /\ Crashed(d)
  /\ Callback(RemoveDevice(Now, d, TRUE))
  /\ UNCHANGED left

\* An unanswered call fails.  An unbind or remove hook that was not answered
\* has failed, the others are over.
Fails(g, k, d) ==
  IF k \in {"init", "suspend"} THEN Answer(g, k, d, "failed")
  ELSE IF Stored(g, k, d) THEN HookFailed(Take(g, k, d), k, d) ELSE Drop(g, k, d)
CallFails(k, d) ==
  /\ <<k, d>> \in calls /\ Crashed(d)
  /\ Callback(Fails([Now EXCEPT !.calls = @ \ {<<k, d>>}], k, d))
  /\ UNCHANGED left

-----------------------------------------------------------------------------
(* SuspendHandler.                                                         *)

AnyTasksInProgress(g) == Incomplete(g, <<"suspend", Sys>>) \/ Incomplete(g, <<"match", Sys>>)

SuspendAfterFilesystemShutdown(g) ==
  Create([g EXCEPT !.handler.watchdog = TRUE], <<"suspend", Sys>>,
         [Options EXCEPT !.flags = g.handler.sflags], TRUE)

\* The component framework stops driver_manager, once.
Suspend(flags) ==
  LET asked == [handler EXCEPT !.callback = "set"]
      told == IF AnyTasksInProgress(Now) THEN Told(asked, "unavailable") ELSE asked
      begun == [told EXCEPT !.flags = "kSuspend", !.sflags = flags, !.filesystems = flags # "ram"]
      next == [Now EXCEPT !.handler = begun]
  IN  /\ handler.callback = "none"
      /\ Callback(IF ~HasProxy(Now, Sys) THEN [Now EXCEPT !.handler = Told(asked, "unavailable")]
                  ELSE IF flags # "ram" THEN next ELSE SuspendAfterFilesystemShutdown(next))
      /\ UNCHANGED left

\* fshost answers Shutdown, or is not there to.
FilesystemsDown ==
  /\ handler.filesystems
  /\ Callback(SuspendAfterFilesystemShutdown([Now EXCEPT !.handler.filesystems = FALSE]))
  /\ UNCHANGED left

UnregisterSystemStorageForShutdown ==
  LET told == [handler EXCEPT !.unregister = IF AnyTasksInProgress(Now) THEN "called" ELSE "set",
                              !.flags = IF @ = "kRunning" THEN "kStorageSuspend" ELSE @]
      created == Create([Now EXCEPT !.handler = told], <<"match", Sys>>, [Options EXCEPT !.flags = "reboot"], TRUE)
  IN  /\ left.unregisters /\ handler.unregister = "none"
      /\ Callback(MatchDeviceChildren(created, Sys))
      /\ UNCHANGED left

\* The watchdog of a suspend: the kernel is told to go down regardless.
Watchdog ==
  LET off == [handler EXCEPT !.watchdog = FALSE]
  IN  /\ handler.watchdog
      /\ Callback([Now EXCEPT !.handler = IF InSuspend THEN Told([off EXCEPT !.fallback = TRUE], "timed_out")
                                          ELSE off])
      /\ UNCHANGED left

-----------------------------------------------------------------------------
Live == Device \ {Sys}
Hooks == {"init", "unbind", "remove", "suspend"}
Added == Live \ Proxies

Next ==
  /\ panic = "none"
  /\ \/ RunPosted
     \/ \E b \in Buses : HandleNewDevice(b)
     \/ \E d \in Added : \/ AddDevice(d) \/ ScheduleRemove(d)
                         \/ RequestUnbindChildren(d) \/ RestartDriverHosts(d)
     \/ \E k \in Hooks, d \in Live : Reply(k, d) \/ CallFails(k, d)
     \/ \E h \in Host : HostCrash(h)
     \/ \E d \in Live : Disconnected(d)
     \/ \E flags \in left.stops : Suspend(flags)
     \/ FilesystemsDown \/ UnregisterSystemStorageForShutdown \/ Watchdog

Spec == Init /\ [][Next]_vars

-----------------------------------------------------------------------------
(* Fairness: the loop runs what is posted to it, a driver that lives answers *)
(* its hooks, the kernel reports the channels of a process that died and    *)
(* fshost answers or goes away.  These are weak fairness of RunPosted,      *)
(* Reply, Disconnected and FilesystemsDown with the conditions under which  *)
(* they can happen written out.  The watchdog need not fire.                *)

Loop == []<>(posted = <<>>) \/ []<><<RunPosted>>_vars
Drivers == []<>(\A c \in calls : ~Connected(c[2])) \/ []<><<\E c \in calls : Reply(c[1], c[2])>>_vars
Kernel == []<>(\A d \in Live : ~Crashed(d)) \/ []<><<\E d \in Live : Disconnected(d)>>_vars
Fshost == []<>~handler.filesystems \/ []<><<FilesystemsDown>>_vars
FairSpec == Spec /\ Loop /\ Drivers /\ Kernel /\ Fshost

-----------------------------------------------------------------------------
(* Properties.                                                             *)

\* None of the assertions that the callbacks meet fails: a task is never made
\* to wait for a completed one (task.cc), a task completes once, an init task
\* runs before every other task of its device (init_task.cc), a device is not
\* removed while its unbind task runs (device_manager.cc), a child that is
\* being unbound has a remove task (unbind_task.cc), a suspend is not asked
\* for with other flags (device.cc), and no callback is called twice.
AssertionsHold == panic = "none"

\* The devices below d: a bus device has its proxy, and the proxy has the
\* children that the bus device lists.
Below(d) ==
  IF d \in Proxies THEN Range(Children(Now, Parent[d]))
  ELSE IF HasProxy(Now, d) THEN {Proxy[d]} ELSE Range(Children(Now, d))
Leaving(d) == IsDead(Now, d) \/ IsActive(Now, "remove", d)
\* When a driver host is told to let a device go, and when the device is gone,
\* everything below it is gone or on its way out: ScheduleUnbindChildren misses
\* none, in whichever order removals, restarts, additions and crashes meet.
NoChildLeftBehind ==
  \A d \in Live : \A c \in Below(d) : <<"remove", d>> \in calls \/ IsDead(Now, d) => Leaving(c)

\* A device has at most one of its init, unbind, remove and suspend hooks
\* running: the tasks of UnbindTask::Run and SuspendTask::Run wait for the
\* hook under way, and one answer cannot be taken for another's.
OneHookAtATime == \A d \in Device, k, l \in Kinds : {k, l} \subseteq dev[d].completion => k = l

Pending(k, d) == ~IsDead(Now, d) /\ IsActive(Now, k, d) /\ Incomplete(Now, <<k, d>>)
\* Every task ends: no cycle of dependencies, no dependency that forgets its
\* dependents, no completion lost with a driver host.
EverythingSettles == <>[](\A k \in Kinds, d \in Device : ~Pending(k, d))

Quiet(d) == dev[d].state = "kSuspended" \/ Leaving(d)
\* A driver is told to suspend a device only when all that depends on it has
\* been suspended or is being removed.
SuspendAfterChildren ==
  \A d \in Device : <<"suspend", d>> \in calls =>
    \A c \in Below(d) \cup Range(Children(Now, d)) : Quiet(c)

RECURSIVE Rooted(_)
Rooted(d) == d = Sys \/ (~Leaving(d) /\ Rooted(Parent[d]))
AllQuiet == \A d \in Device : Rooted(d) => dev[d].state = "kSuspended"
\* The system goes down reporting success only when every device that is not
\* being removed, with or below another one, is suspended.
AllSuspended == [][handler.told' = "ok" /\ handler.told # "ok" => AllQuiet']_vars

\* Whoever stops the system gets an answer although drivers fail to suspend
\* or still initialise, even if the watchdog never fires.
StopAnswered == handler.callback = "set" ~> handler.callback = "called"
=============================================================================
