---------------------------- MODULE DeviceTasks ----------------------------
(***************************************************************************)
(* What driver_manager's event loop does in one callback: the tasks of     *)
(* v1/task.cc and the init, unbind, remove and suspend tasks built on      *)
(* them, the Device calls they make, and DeviceManager::RemoveDevice.      *)
(* The loop has one thread, so a callback is one step; a callback is a     *)
(* chain of calls, each an operator here from a state g of the manager to  *)
(* the state the call leaves.  Module DeviceManager declares the state as  *)
(* variables and says which callbacks the loop runs.                       *)
(***************************************************************************)
EXTENDS Integers, Sequences, SequencesExt

CONSTANTS
  Device,       \* device objects; an identity is reused once it is free
  Sys,          \* the immortal sys device, the root of the tree
  Parent,       \* Parent[d]: parent_, for a proxy the device it stands for
  Proxy,        \* Proxy[b]: the proxy of a MUST_ISOLATE device b
  InStorage,    \* DriverLivesInSystemStorage
  Host,         \* driver hosts
  HostOf,       \* HostOf[p]: the driver host a proxy is created in
  NoHost        \* host_ == nullptr

Kinds == {"init", "unbind", "remove", "suspend", "match"}
Task == Kinds \X Device
Buses == DOMAIN Proxy
Proxies == {Proxy[b] : b \in Buses}
DriverHost == [devices |-> <<>>, dying |-> FALSE, crashed |-> FALSE]
Options == [doUnbind |-> FALSE, requested |-> FALSE, flags |-> "none"]
NoTask == [status |-> "none", deps |-> <<>>, dependents |-> <<>>, waiting |-> 0, opts |-> Options]

NewDevice == [state |-> "kActive", host |-> NoHost, attached |-> TRUE, visible |-> TRUE,
              active |-> {}, completion |-> {}, bound |-> FALSE, retries |-> 0]
NoDevice == [NewDevice EXCEPT !.state = "none", !.attached = FALSE]

-----------------------------------------------------------------------------
(* The parts of a state.                                                   *)

\* A failed ZX_ASSERT, a ZX_PANIC or a null dereference ends the process:
\* the first one is kept and nothing after it counts.
Panic(g, why) == IF g.panic = "none" THEN [g EXCEPT !.panic = why] ELSE g
SetState(g, d, state) == [g EXCEPT !.dev[d].state = state]
IsDead(g, d) == g.dev[d].state \in {"kDead", "none"}
IsActive(g, k, d) == k \in g.dev[d].active
HasProxy(g, d) == d \in Buses /\ g.dev[Proxy[d]].attached
Children(g, d) == SelectSeq(g.devices, LAMBDA c : g.dev[c].attached /\ Parent[c] = d)
Incomplete(g, t) == g.task[t].status = "incomplete"
IsPending(g, t) == Contains(g.posted, t)
Post(g, t) == [g EXCEPT !.posted = Append(@, t)]
Unpost(s, t) == SelectSeq(s, LAMBDA u : u # t)
Drop(g, k, d) == [g EXCEPT !.dev[d].active = @ \ {k}]

\* Task's constructor, and the pointer the device keeps.
Create(g, t, opts, post) ==
  [g EXCEPT !.task[t] = [NoTask EXCEPT !.status = "incomplete", !.opts = opts],
            !.dev[t[2]].active = @ \cup {t[1]},
            !.posted = LET s == Unpost(@, t) IN IF post THEN Append(s, t) ELSE s]

\* A task lives while its device points to it, a stored completion captures
\* it, another task waits for it or it waits for another task.  The destructor
\* of one that is pending takes it off the loop.
Lives(g, t) ==
  \/ t[1] \in g.dev[t[2]].active \cup g.dev[t[2]].completion
  \/ Incomplete(g, t) /\ (g.task[t].dependents # <<>> \/ g.task[t].deps # <<>>)
Reap(g) ==
  LET gone == {t \in Task : g.task[t].status # "none" /\ ~Lives(g, t)}
  IN  [g EXCEPT !.task = [t \in Task |-> IF t \in gone THEN NoTask ELSE g.task[t]],
                !.posted = SelectSeq(@, LAMBDA t : t \notin gone)]

-----------------------------------------------------------------------------
(* v1/task.cc                                                              *)

RECURSIVE Complete(_, _, _)

AddDependency(g, t, dependency) ==
  IF ~Incomplete(g, dependency) THEN Panic(g, "dependency_completed")
  ELSE [g EXCEPT !.task[t].deps = Append(@, dependency),
                 !.task[t].waiting = @ + 1,
                 !.task[dependency].dependents = Append(@, t)]

ForgetDependency(g, t, dependency) ==
  IF Contains(g.task[t].deps, dependency) THEN [g EXCEPT !.task[t].deps = RemoveFirst(@, dependency)]
  ELSE IF Incomplete(g, t) THEN Panic(g, "dependency_not_found") ELSE g

\* Mutant: the counters are compared before the finished one is counted.
DependencyCompleteTestedEarly(g, t, dependency, status) ==
  LET counted == [g EXCEPT !.task[t].waiting = @ - 1]
      posted == IF ~IsPending(g, t) /\ g.task[t].waiting = 0 THEN Post(counted, t) ELSE counted
  IN  [posted EXCEPT !.task[t].deps = RemoveFirst(@, dependency)]

DependencyComplete(g, t, dependency, status) ==
  LET counted == [g EXCEPT !.task[t].waiting = @ - 1]
      ready == ~IsPending(g, t) /\ counted.task[t].waiting = 0
      posted == IF ready THEN Post(counted, t) ELSE counted
  IN  ForgetDependency(IF status # "ok" /\ Incomplete(g, t) THEN Complete(posted, t, status) ELSE posted,
                       t, dependency)

\* The completions of the two tasks that SuspendHandler creates: see
\* SuspendAfterFilesystemShutdown and UnregisterSystemStorageForShutdown.
Told(h, status) == IF h.callback = "set" THEN [h EXCEPT !.callback = "called", !.told = status] ELSE h
\* Mutant: the caller is not told of a failure.
SuspendDoneUntold(g, status) ==
  [g EXCEPT !.handler.watchdog = FALSE, !.handler.flags = "kRunning", !.handler.fallback = @ \/ status = "ok"]

SuspendDone(g, status) ==
  [g EXCEPT !.handler = Told([@ EXCEPT !.watchdog = FALSE, !.flags = "kRunning",
                                       !.fallback = @ \/ status = "ok"], status)]
UnregisterDone(g, status) ==
  LET cleared == Drop(g, "match", Sys)
  IN  IF g.handler.unregister = "set"
        THEN [cleared EXCEPT !.handler.unregister = "called"]
        ELSE Panic(cleared, "callback_called_twice")

Finished(g, t, status) ==
  CASE t = <<"suspend", Sys>> -> SuspendDone(g, status)
    [] t = <<"match", Sys>> -> UnregisterDone(g, status)
    [] OTHER -> g

Complete(g, t, status) ==
  LET told == FoldLeft(LAMBDA h, u : DependencyComplete(h, u, t, status),
                       [g EXCEPT !.task[t].status = status], g.task[t].dependents)
  IN  IF ~Incomplete(g, t) THEN Panic(g, "completed_twice")
      ELSE Finished([told EXCEPT !.task[t].dependents = <<>>, !.task[t].deps = <<>>], t, status)

-----------------------------------------------------------------------------
(* Device: the tasks of a device and the hooks it asks its driver host to  *)
(* run.  A call is answered in a later callback: module DeviceManager.     *)

RECURSIVE RemoveDevice(_, _, _)

Unbinding(do_unbind, requested) == [Options EXCEPT !.doUnbind = do_unbind, !.requested = requested]

\* Take the stored completion of kind k, as fit::callback does when called.
Take(g, k, d) == [g EXCEPT !.dev[d].completion = @ \ {k}]
Stored(g, k, d) == k \in g.dev[d].completion

\* The completions that UnbindTask::Run and RemoveTask::Run store.  If the hook
\* failed, all devices of the driver host are removed first.
HookCompletion(g, k, d, status) == Drop(Complete(g, <<k, d>>, status), k, d)
HookFailed(g, k, d) ==
  HookCompletion(IF IsDead(g, d) THEN g ELSE RemoveDevice(g, d, TRUE), k, d, "unavailable")

CompleteUnbind(g, d, status) ==
  IF Stored(g, "unbind", d) THEN HookCompletion(Take(g, "unbind", d), "unbind", d, status)
  ELSE IF status = "ok" THEN g ELSE Drop(g, "unbind", d)

CreateUnbindRemoveTasks(g, d, opts, post) ==
  LET override == opts.requested /\ ~g.task[<<"unbind", d>>].opts.requested
  IN  CASE IsDead(g, d) -> g
        [] ~IsDead(g, d) /\ g.dev[d].active \cap {"unbind", "remove"} = {} ->
             Create(Create(g, <<"remove", d>>, Options, FALSE), <<"unbind", d>>, opts, post)
        [] ~IsDead(g, d) /\ IsActive(g, "unbind", d) /\ override ->
             IF g.dev[d].state # "kUnbinding"
               THEN [g EXCEPT !.task[<<"unbind", d>>].opts.doUnbind = opts.doUnbind]
               ELSE IF Stored(g, "unbind", d) THEN CompleteUnbind(g, d, "ok") ELSE g
        [] OTHER -> g

TellRemoved(g, d) == IF Stored(g, "remove", d) THEN HookCompletion(Take(g, "remove", d), "remove", d, "ok") ELSE g
CompleteRemove(g, d, status) ==
  IF ~Stored(g, "remove", d) /\ status = "ok" THEN g
  ELSE Drop(TellRemoved(IF status = "ok" THEN RemoveDevice(g, d, FALSE) ELSE g, d), "remove", d)

\* Coordinator::MakeVisible: SignalReadyForBind posts publish_task_.
MakeVisible(g, d) ==
  IF g.dev[d].state \in {"kDead", "kInitializing"} \/ g.dev[d].visible THEN g
  ELSE [g EXCEPT !.dev[d].visible = TRUE, !.publish = @ \cup {d}]

InitCompletion(g, d, status) ==
  LET active == IF IsDead(g, d) THEN g ELSE SetState(g, d, "kActive")
      next == IF status = "ok" THEN MakeVisible(active, d)
              ELSE IF IsDead(g, d) THEN active
              ELSE CreateUnbindRemoveTasks(active, d, Unbinding(TRUE, TRUE), TRUE)
  IN  Drop(Complete(next, <<"init", d>>, "ok"), "init", d)
CompleteInit(g, d, status) ==
  IF Stored(g, "init", d) THEN Drop(InitCompletion(Take(g, "init", d), d, status), "init", d)
  ELSE IF status = "ok" THEN g ELSE Drop(g, "init", d)

CompleteSuspend(g, d, status) ==
  LET state == IF IsDead(g, d) THEN g
               ELSE SetState(g, d, IF status = "ok" THEN "kSuspended" ELSE "kActive")
      told == IF Stored(g, "suspend", d)
                THEN Complete(Take(state, "suspend", d), <<"suspend", d>>, status) ELSE state
  IN  Drop(told, "suspend", d)

RequestSuspendTask(g, d, flags) ==
  IF IsActive(g, "suspend", d)
    THEN IF g.task[<<"suspend", d>>].opts.flags = flags THEN g ELSE Panic(g, "suspend_flags")
    ELSE Create(g, <<"suspend", d>>, [Options EXCEPT !.flags = flags], TRUE)

\* Send a call to the driver host and keep its completion.
Send(g, k, d) == [g EXCEPT !.calls = @ \cup {<<k, d>>}, !.dev[d].completion = @ \cup {k}]

-----------------------------------------------------------------------------
(* v1/device_manager.cc                                                    *)

SetHost(g, d, h) ==
  LET old == g.dev[d].host
      left == IF old = NoHost THEN g ELSE [g EXCEPT !.host[old].devices = Unpost(@, d)]
      moved == [left EXCEPT !.dev[d].host = h]
  IN  IF h = NoHost THEN moved ELSE [moved EXCEPT !.host[h].devices = Append(@, d)]

\* The last child of a bus device is gone: bind the bus device again, after a
\* delay.  publish_task_ cannot be posted twice, and RemoveDevice returns what
\* posting it returns, before it takes d off devices_.
Rebind(g, b) ==
  LET unbound == [g EXCEPT !.dev[b].bound = FALSE]
      h == g.dev[b].host
      wanted == /\ ~IsDead(g, b) /\ b \in Buses /\ g.dev[b].retries > 0
                /\ h = NoHost \/ ~g.host[h].dying
  IN  [g |-> IF wanted /\ b \notin g.publish
               THEN [unbound EXCEPT !.publish = @ \cup {b}, !.dev[b].retries = @ - 1]
               ELSE unbound,
       ok |-> ~wanted \/ b \notin g.publish]

Detach(g, d) ==
  LET detached == [g EXCEPT !.dev[d].attached = FALSE]
      erased(h) == [h EXCEPT !.devices = Unpost(@, d)]
      rebound == Rebind(detached, Parent[d])
  IN  CASE d \in Proxies -> detached
        [] d \notin Proxies /\ Children(detached, Parent[d]) # <<>> -> erased(detached)
        [] OTHER -> IF rebound.ok THEN erased(rebound.g) ELSE rebound.g

RECURSIVE RemoveAll(_, _)
RemoveRest(g, h, d) ==
  IF Contains(g.host[h].devices, d) THEN Panic(g, "not_removed") ELSE RemoveAll(g, h)
RemoveAll(g, h) ==
  LET next == Head(g.host[h].devices)
  IN  IF g.host[h].devices = <<>> THEN g ELSE RemoveRest(RemoveDevice(g, next, FALSE), h, next)

\* d was removed by force: its proxy lives in another driver host.
RemoveProxy(g, d) ==
  IF HasProxy(g, d) THEN CreateUnbindRemoveTasks(g, Proxy[d], Unbinding(FALSE, FALSE), TRUE) ELSE g

\* The tasks of a device that is dead by now.
FinishTasks(g, d, forced) ==
  IF forced THEN RemoveProxy(CompleteRemove(CompleteUnbind(g, d, "unavailable"), d, "unavailable"), d)
  ELSE IF IsActive(g, "unbind", d) THEN Panic(g, "removed_while_unbinding") ELSE g

RemoveDevice(g, d, forced) ==
  LET dead == CompleteInit(CompleteSuspend(SetState(g, d, "kDead"), d, "ok"), d, "unavailable")
      h == g.dev[d].host
      finished == FinishTasks(dead, d, forced \/ (h # NoHost /\ g.host[h].dying))
      hostGone == IF forced /\ h # NoHost
                    THEN RemoveAll([SetHost(finished, d, NoHost) EXCEPT !.host[h].dying = TRUE], h)
                    ELSE SetHost(finished, d, NoHost)
  IN  IF IsDead(g, d) \/ d = Sys THEN g ELSE Detach([hostGone EXCEPT !.calls = {c \in @ : c[2] # d}], d)

-----------------------------------------------------------------------------
(* The Run of each kind of task.                                           *)

RunInit(g, d) ==
  CASE g.dev[d].state # "kInitializing" -> Panic(g, "init_not_first")
    [] g.dev[d].state = "kInitializing" /\ g.dev[Parent[d]].state = "kInitializing" ->
         AddDependency(g, <<"init", d>>, <<"init", Parent[d]>>)
    [] OTHER -> IF g.dev[d].host # NoHost THEN Send(g, "init", d) ELSE InitCompletion(g, d, "ok")

\* Mutant: a device that has begun to unbind is scheduled again.
SettlingDead == {"kDead", "none"}

\* The states of a device that is not scheduled any more.
Settling == {"kUnbinding", "kDead", "none"}
\* Task t waits for dependency if there is one.
OrderAfter(g, t, dependency) ==
  IF IsActive(g, dependency[1], dependency[2]) /\ IsActive(g, t[1], t[2]) THEN AddDependency(g, t, dependency) ELSE g
\* Device p is removed after d, which has its tasks by now.
RemoveAfter(g, p, d) ==
  IF ~IsActive(g, "remove", d) THEN Panic(g, "no_remove_task") ELSE OrderAfter(g, <<"remove", p>>, <<"remove", d>>)
\* Make d's tasks and order them after those of its parent p, whose task is
\* the one the loop runs.
ScheduleUnbindChild(g, p, d) ==
  LET parent == IF HasProxy(g, p) THEN Proxy[p] ELSE p
      created == CreateUnbindRemoveTasks(g, d, Unbinding(TRUE, FALSE), FALSE)
  IN  IF g.dev[d].state \in Settling THEN g
      ELSE RemoveAfter(OrderAfter(created, <<"unbind", d>>, <<"unbind", parent>>), parent, d)

ScheduleUnbindProxy(g, d) ==
  LET p == Proxy[d]
      created == CreateUnbindRemoveTasks(g, p, Unbinding(FALSE, FALSE), FALSE)
  IN  IF ~HasProxy(g, d) \/ g.dev[p].state \in Settling THEN g
      ELSE RemoveAfter(OrderAfter(created, <<"unbind", p>>, <<"unbind", d>>), d, p)

\* Mutant: a proxy has no children.
FamilyOfDevice(g, d) == Children(g, d)

\* The children to unbind with d: a proxy has those of the device it stands for.
Family(g, d) == IF d \in Proxies /\ g.dev[d].attached THEN Children(g, Parent[d]) ELSE Children(g, d)

ScheduleUnbindChildren(g, d) ==
  LET waits == AddDependency(g, <<"remove", d>>, <<"unbind", d>>)
  IN  IF ~IsActive(g, "remove", d) THEN g
      ELSE FoldLeft(LAMBDA h, c : ScheduleUnbindChild(h, d, c), ScheduleUnbindProxy(waits, d), Family(g, d))

\* Mutant: the hook under way is forgotten.
HookUnderWayNone(g, d) == "none"

\* The hook that is under way in d's driver, which unbinding waits for.
HookUnderWay(g, d) ==
  CASE g.dev[d].state = "kInitializing" -> "init"
    [] g.dev[d].state = "kSuspending" -> "suspend"
    [] OTHER -> "none"

\* Ask for d's unbind hook, or the end of its task if it needs none.
UnbindScheduled(g, d) ==
  IF g.dev[d].host = NoHost \/ ~g.task[<<"unbind", d>>].opts.doUnbind THEN HookCompletion(g, "unbind", d, "ok")
  ELSE IF Stored(g, "unbind", d) THEN HookCompletion(g, "unbind", d, "unavailable")
  ELSE Send(SetState(g, d, "kUnbinding"), "unbind", d)
RunUnbind(g, d) ==
  LET hook == HookUnderWay(g, d)
  IN  IF hook = "none" THEN UnbindScheduled(ScheduleUnbindChildren(g, d), d)
      ELSE IF IsActive(g, hook, d) THEN AddDependency(g, <<"unbind", d>>, <<hook, d>>)
      ELSE Panic(g, "no_task_to_wait_for")

RunRemove(g, d) ==
  IF g.dev[d].host = NoHost THEN HookCompletion(g, "remove", d, "ok")
  ELSE IF Stored(g, "remove", d) THEN HookCompletion(g, "remove", d, "unavailable")
  ELSE Send(SetState(g, d, "kUnbinding"), "remove", d)

IsDeviceBeingRemoved(g, d) == g.dev[d].state \in Settling \/ IsActive(g, "remove", d)

\* Mutant: a device that initialises is taken for one that cannot suspend.
AwakeInitialized(g, d) ==
  SelectSeq(Children(g, d), LAMBDA c : /\ g.dev[c].state \notin {"kSuspended", "kInitializing"}
                                       /\ ~IsDeviceBeingRemoved(g, c))

\* The children of d that have to suspend before it.
Awake(g, d) ==
  SelectSeq(Children(g, d), LAMBDA c : g.dev[c].state # "kSuspended" /\ ~IsDeviceBeingRemoved(g, c))

RunSuspend(g, d) ==
  LET t == <<"suspend", d>>
      flags == g.task[t].opts.flags
      after(h, c) == AddDependency(RequestSuspendTask(h, c, flags), t, <<"suspend", c>>)
      completed(h) == Complete(h, t, "ok")
  IN  CASE Awake(g, d) # <<>> -> FoldLeft(after, g, Awake(g, d))
        [] Awake(g, d) = <<>> /\ HasProxy(g, d) /\ g.dev[Proxy[d]].state \notin {"kDead", "kSuspended"} -> after(g, Proxy[d])
        [] OTHER ->
           IF g.dev[d].state = "kInitializing"
             THEN IF IsActive(g, "init", d) THEN AddDependency(g, t, <<"init", d>>)
                  ELSE Panic(g, "no_task_to_wait_for")
           ELSE IF IsDeviceBeingRemoved(g, d) THEN completed(g)
           ELSE IF g.dev[d].host = NoHost THEN completed(SetState(g, d, "kSuspended"))
           ELSE IF Stored(g, "suspend", d) THEN Drop(Complete(g, t, "unavailable"), "suspend", d)
           ELSE Send(SetState(g, d, "kSuspending"), "suspend", d)

\* SuspendMatchingTask::MatchDeviceChildren: the topmost devices below d whose
\* drivers live in system storage.
RECURSIVE MatchDeviceChildren(_, _)
MatchDeviceChildren(g, d) ==
  FoldLeft(LAMBDA h, c :
             IF c \notin InStorage THEN MatchDeviceChildren(h, c)
             ELSE IF IsActive(h, "suspend", c) THEN h
             ELSE AddDependency(RequestSuspendTask(h, c, "reboot"), <<"match", Sys>>, <<"suspend", c>>),
           g, Children(g, d))

\* Task::ExecuteTask, on the task at the head of the loop's queue.
ExecuteTask(g, t) ==
  IF ~Incomplete(g, t) \/ g.task[t].waiting # 0 THEN g
  ELSE CASE t[1] = "init" -> RunInit(g, t[2])
         [] t[1] = "unbind" -> RunUnbind(g, t[2])
         [] t[1] = "remove" -> RunRemove(g, t[2])
         [] t[1] = "suspend" -> RunSuspend(g, t[2])
         [] t[1] = "match" -> Complete(g, t, "ok")
=============================================================================
