# A verification project for the resource schedule service

TLA+ modules for the resource schedule service (RSS) of OpenHarmony, TLC
configurations that check them on small instances, and TLAPS proofs of the
results that matter most for every instance. File names below are relative to
`src/`. `PROJECT.json` lists every run, mutant, hazard, finding and theorem, and
maps every definition to the lines it stands for.

## 1. The system

RSS is a system ability. Other services and applications report events to it
(`ReportData`); it forwards them to plugins, which change scheduling groups,
frequencies and so on, and it tells applications about the load of the system.

| Part | State | Operations | Talks to |
|---|---|---|---|
| `NotifierMgr` and the load part of `ResSchedService` (`ressched/services`) | registered notifiers by pid, load level, debugging override, level file, statistics | register, unregister, death, foreground/background, level reported, hidumper set/reset, restart | clients over IPC, one serial queue, a file |
| `PluginMgr` (`resschedfwk/src/plugin_mgr.cpp`) | loaded plugins, subscriptions by type and by type and value, dispatcher queue, timeouts of each plugin | load, subscribe, unsubscribe, dispatch, deliver, repair, disable forever, stop | plugins, by function pointers; reporters on IPC threads |
| cgroup plugin (`plugins/cgroup_sched_plugin`) | one `Application` per uid, one `ProcessRecord` per process, focus, hosts, timers | about forty event handlers, adjust, apply | `PluginMgr` (events), kernel and executor (writes) |
| request limiter of `ResSchedService` | counters per uid and in total, next reset | check, reset, big data report | IPC threads |
| `EventListenerMgr`, `ResSchedMgr` | listeners by type, group and pid; foreground pids | register, send event, application states | clients, application manager |
| `ResSchedClient` and the kits | proxy, registered flag, callback lists | connect, register, service died, service added | RSS |
| executor (`ressched_executor`) | its own plugin manager, init fragments | init, execute, kill | RSS over IPC |
| suspend manager base | observers | register, died, notify | clients |
| scene recognizers, observers, common events | scene state, delayed tasks | callbacks of other services | `PluginMgr` |
| SocPerf, frame aware, device standby plugins | requests that are on | dispatch | SocPerf service |

What is hard in it:

* **Locks are short.** `NotifierMgr` and `PluginMgr` hold each mutex for one map
  access; lists and arrays are read under a lock and used after it.
* **Everything can die.** Clients die between making a call and its handling, pids
  are taken over, the service crashes between a change in memory and on disk.
* **Events have no common order.** The cgroup plugin gets creation, focus, window
  and audio events from different observers; only creation before death of one
  process is guaranteed, and late events follow a death.
* **Slow plugins are repaired while they are used**: disabled and initialised again
  on the dispatcher thread while reporters read the same subscription lists.
* **Writes fail silently**, and the executor's answer replaces the local one.
* **Time is cast to 32 bits.**

What makes each part correct: clients that may hear a level hear the current one
last, and dead ones are forgotten (load service); each report reaches each
subscribed plugin once and in order, plugins are disabled for good exactly on a
burst of timeouts, and stopping is final (plugin manager); records hang together,
the group asked for is the one the record justifies, one process of an application
is on top, and attached processes follow their host (cgroup plugin); a listener that
a client has is known to the service, and no other (client library); what observers
and recognizers reported last is the truth once their callbacks are handled; a
request that is switched on is switched off when its reason ends (SocPerf).

## 2. Modules

### `Systemload` (with `MCSystemload`, `SystemloadProofs`, `SystemloadForeground`)

State: the three fields of `ResSchedService` (`actual`, `debugLevel`, `debugOn`),
`level`, `file`, `map` (`notifierMap_`), `queue` (`DeviceNotifyQueue`), `stat` (bundle
names and periodic task), and one program counter with locals per caller thread. Each
function that is under one lock is one action: `RegisterNotifier`, `UnRegisterNotifier`,
`OnRemoteNotifierDied`, `OnForeground`, `OnBackground`. `OnDeviceLevelChanged` and
`DumpSetSystemLoad` hold no lock throughout, so each of their reads and writes of shared
state is a step of the caller (`StoreActual`, `CheckDebug`, `Override`, `SetLevel`,
`MatchLevel`, `SaveLevel`, `Collect`, `SubmitArray`, `DumpSet` ... `DumpResetRead`). The
history variables `crossed` and `misled` record that calls of two threads overlapped
(see "Two caller threads"). Clients are external: they start, die, and make a call that
is handled later (`Start`, `Die`, `Call`). `Restart` is a crash of the service at any
point followed by `NotifierMgr::Init`.

Abstractions: a process and its notifier object are one value; the name of a bundle
is the pid; the type argument of `OnDeviceLevelChanged` is the system load type, the
only one there is. A client does not register by itself after a restart of the
service (that is the client library, see `ClientLink`), but may call again.

`SystemloadForeground` adds a history variable, the level in force when the
application left the foreground, for one property that needs it.

### `CgroupSched` (with `MCCgroupSched`, `CgroupSchedProofs`)

State: `apps` and `recs` (`uidsMap_`, `pidsMap_`), `focused`, `hosts`, `hidden`,
`timers`, and the group the kernel really has (`kernel`, external). All handlers run
on one serial queue, so one handler is one action, its calls of the adjuster
included: `Adjusted` is `AdjustProcessGroup` for a set of processes, with
`ComputeProcessGroup`, `ApplyProcessGroup` and the loop over attached processes.
`Results` and `Moves` make what the write returns and what it does independent for
processes in `MayFail`, because `CgroupMap::SetThreadSchedPolicy` returns true in
any case and the executor's answer replaces it.

Abstractions: the fields of a record the group does not depend on are left out (they are
in `CgroupStates`), and the handlers that only set such a field and adjust become
`HandleReport`, `HandleContinuousTaskUpdate`, `HandleRenderReport`. A process keeps its
uid, type and host, and pids are not reused. `phase` orders creation before death; every
other event may come at any time after the start of the process, also after its death.

### `PluginMgr` (with `MCPluginMgr`, `PluginMgrProofs`)

State: `libs` (`pluginLibMap_`), `subs` (both subscription maps; a list is a count
per plugin, since its order has no effect), `queue`, `timeOut`, `isInit`, `handler`,
one program counter with locals per reporter, one for the dispatcher thread, and
`stopper` for `Stop`. A critical section is one action; a reporter in
`DispatchResource` takes four (`DispatchResource`, `GetPluginListByResType`,
`GetPluginListByResTypeAndValue`, `PostTask`), a repair takes one per subscription
(`OnPluginDisable`, `OnPluginInit`) because the plugin changes the maps call by call.
The dispatcher thread copies the entry of a plugin under `pluginMutex_` (`NextPlugin`) and
calls it after the unlock (`CallPlugin`), so Stop, a ban or an unsubscription may come in
between.
`active` is the plugin's own view (external): initialised and not disabled.

Abstractions: the default build (one `EventHandler`). `SortPluginList` may order the
plugins in any way. `Wants` is what a plugin subscribes in `OnPluginInit` and
unsubscribes in `OnPluginDisable`; `Ext` what it only ever subscribes, as
`SubscribeResourceExt` of the cgroup plugin does. `Wrap` stands for 2^31 and `Window`
for `DISABLE_PLUGIN_TIME`.

### `ClientLink` and `ListenerRegistry` (run `progress`, with `ClientLinkProofs`)

`ListenerRegistry` is the promise: the keys a process wants (`want`) and the keys the
service serves it (`serve`); `serve` never holds a key that is not wanted. `ClientLink`
is `ResSchedClient` (proxy, death recipient, status listener, registered flags, list of
resource types) together with `EventListenerMgr` and the notifier of the load service,
with deaths of both processes, late notices of deaths and additions, and the reuse of a
pid. `Registry == INSTANCE ListenerRegistry WITH ...` maps the listener sets of the
client and the entries of the service to `want` and `serve`; `RegistryKept` is the
refinement, checked by TLC and proved (`LinkKeepsRegistry`).

### `SocPerfScreen`, `SocPerfFocus`, `SocPerfEvents`, `SocPerfBattery` (with `SocPerfProofs`)

The SocPerf plugin in four modules that share no state. Everything runs on the
dispatcher thread but for the delayed tasks of `SocPerfScreen`, which run on ffrt
workers (`ssFfrt` tells the ffrt build from the default one, where the wake-up hold does
not exist). The state is the set of requests that are on, with the fields the handlers
decide by. `SocPerfEvents` is `functionMap` and the subscriptions as tables; a table
entry says which requests a type turns on or off at which value.

### Observers: `Observers`, `DeviceObservers`, `AudioObserver`, `AppState`, `CommonEvents` (with `ObserverProofs`)

`Observers` has the registration of all observers of `ObserverManager` and
`EventController` while the ability they observe dies and comes back and may refuse any
call; the Init and Disable functions are written with six patterns (`Register`,
`RegisterNew`, `RegisterOrDrop`, `Unregister`, `UnregisterIfOk`, `Fetch`). Registration,
the fetch of a value and its report are three steps (`FetchValue`, `ReportValue`), so a
callback may come between any two. The other four have what the observers report: window
and fold modes read at setup against callbacks, audio sessions of several processes,
application states against the list that is fetched, common events against restarts of
their service.

### Processes: `CgroupStates` (with `ObserverProofs`), `KillReasons` (with `PartsProofs`)

`CgroupStates` is the dispatch of `SchedController` and the handlers that keep what a
process does (locks, camera, codec, tasks, capture, video, input, drawing). One resource
type is followed in each behaviour; the plugin's queue is FIFO, so what matters is the
order in which reporters post. `KillReasons` is `KillEventListener`: five locks taken one
after the other by several threads, pushes of a newer configuration, and a listener that
the client library only stores until the service is back (`killLink`).

### Requests: `RequestLimit`, `SyncDelivery`, `JsSystemload` (with `PartsProofs`), `SuspendObservers` (with `ObserverProofs`)

The request limit with its windows; synchronous events from the permission check (with
its LRU cache) to the plugin, each lock a step; the way of a level through three threads
to a JavaScript callback; the observers of suspend states with their two locks.

### Start: `ConfigLoad`, `ExecutorInit`, `SocPerfExecutor`, `OobeManager` (with `SocPerfProofs`)

The configuration and switch files and what the SocPerf plugin makes of them; how the
executor gets its plugins, in fragments and over restarts; the resource nodes the
executor writes; the tasks that wait for the user's agreement.

### Scenes: `SlideScene`, `SceneRecognizers`, `StartupScene`, `FrameAware` (with `SceneProofs`)

The recognizers with their timers, where cancelling a task that already runs has no
effect; the low latency requests with theirs, and the numbers given to the frame
scheduler. The exit task of an install and the handling of a START are steps of two
threads (`ExitInstallBegins`, `ExitInstallReports`, `ExitInstallClears` beside
`AppInstallStart`, `AppInstallLoads`, `AppInstallReports`, `AppInstallStores`). A number
of an event is a text that fits an int, that fits a long only (its low 32 bits are
passed on), that is beyond long, or that is none.

### How many parts are checked in one run

The modules of the last five groups share no variable. `MCParts` (and `MCProgress` for
the two parts with liveness) extends them all and has one more variable, `part`, chosen
at the start: only that part takes steps, and only it chooses how it starts, the others
have one fixed initial state. The state graph is therefore the disjoint union of the
graphs of the parts. `PartView` leaves out the variables of the parts that do not run:
they never change, so states with the same view are equal. Where a property joins
several parts (`ObserversRight`, for example), each conjunct has its own mutant
definition beside the code it changes; one of them is listed in `PROJECT.json`.

### Excuses

Some properties hold except after a race that the code really has. The model then has a
history variable that records that very race (`crossed` and `misled` of `Systemload`,
`staleConnect` of `ClientLink`, `overlapped` and `unserved` of `SuspendObservers`,
`jsUnsure`, `configOvertaken` and `configUnpushed` of `KillReasons`, `listCrossed` of
`AppState`, `crossed` of `CommonEvents`, `outdated` of `Observers`, `silent` and
`backward` of `DeviceObservers`, `lostPids` of `AudioObserver`, `mixed` of
`ExecutorInit`, `overtaken` and `framesLost` of `SlideScene`, `startMet` and `cutShort`
of `SceneRecognizers`, `overrun`, `untimed` and `switchFailed` of `FrameAware`, `lost`
of `SocPerfEvents`, `excuse` of `OobeManager`), and the property and its comment name
it. TLC finds each of them violated without its excuse. The variables are only read by
the property. The hazards in `PROJECT.json` say which race is exempt; one that is exempt as
a whole has no property and a note instead.

## 3. Runs

Every property of a passing run has a mutant in `PROJECT.json`: a plausible bug in
one mapped definition that TLC finds with the same configuration.

| Run | Result | What it shows |
|---|---|---|
| `systemload` | pass | a device and a hidumper thread: `SentIsCurrent`, `DeliveredInOrder`, `FileIsLevel`, `OverrideRespected`, with crashes of the service at any point; after calls that overlapped, from the end of the next call that met no other |
| `systemload_registry` | pass | three clients, two of them with the same pid: `EntriesReclaimed`, `OneReportChain`, and, with fairness, `DeadForgotten` |
| `systemload_foreground` | violation | an application registered above LOW that returns at LOW is not told |
| `cgroup` | pass | two main processes, abilities and windows: `TopAppIsFocused`, `GroupIsCurrent`, `SubWinTaskIsTimed` |
| `cgroup_attached` | pass | host with failing writes and a render process: `FocusedIsTracked`, `RenderFollowsHost` |
| `cgroup_follow` | violation | a child process created while its host is elsewhere does not follow it |
| `cgroup_write` | violation | the current group of a record is updated by a write that failed |
| `plugin` | pass | repairs, bans and Stop against a reporter: `BannedIsOff`, `BanIsBurst`, `RepairRestores`, `CalledInOrder`, `StopIsQuiet`; the clock passes the wrap of `crash_time`, and Stop may come between the copy of an entry and its call |
| `plugin_reach` | pass | `ReportReaches`: a posted report reaches each plugin that stays loaded |
| `plugin_unsubscribe` | violation | `UnSubscribeAllResources` leaves the plugin in shared lists |
| `progress` | pass | `ScreenRequestsAgree`; with fairness `ScreenOffApplied` and `ListenersRecover`; the refinement `RegistryKept` |
| `parts` | pass | 25 parts, each on its own; see the next table |

The properties of `parts`:

| Property | Parts | What it says |
|---|---|---|
| `SocPerfRight` | focus, events | input is suppressed for games only, the weak mode is off in a custom game, no boost outlives its scene, unless the end came while the plugin was disabled |
| `ObserversRight` | observers, device, suspend | every observer is registered with its running ability unless refused and misses no change, but may report an older value it fetched after a newer one; the plugins know the state of the device, but for such a value; the service calls the living suspend observers that registered |
| `CommonEventsRight` | common | one known subscription while the service runs, none after Stop, unless notices crossed; the last event was heard |
| `AudioReportsRight` | audio | the last report about a process says whether it plays and records, but for a process that played when the observer was given up |
| `OobeRight` | oobe | a task runs once and only after the agreement, and is not forgotten |
| `ProcessesKnown` | state, cgroup, kill | a process in the foreground counts as such, and one that counts is there or was put back by the merge of an older list; records hold what their processes do and end with them; the configured kills are known unless a reply overtook a push or a configuration was not pushed, and kills are counted |
| `LimitsRight` | limit, battery | in any span as long as a window at most twice the limit of requests passes; the frequency limit is that of the battery level |
| `CallsRight` | sync, js | a synchronous event meets a plugin that held the type and was loaded since it came; a JavaScript callback ends with the newest level unless it was registered again meanwhile |
| `ExecutorHasPlugins` | executor | an executor that took every fragment of one send and none of another has its plugins |
| `NodeWritesDefined` | soc | the checks of the load are enough for the writes |
| `ConfigRight` | config | the last good file counts, the right plugins are loaded, repairs keep the settings but for the game boost switch |
| `RecognizedRight` | startup, slide, overlap, install, upgrade | scenes that are reported end; flings have their end arranged unless they were cut off; an install is reported unless it met a running exit task; an upgrade is reported unless the service ended before |
| `FrameAwareRight` | latency, frame | low latency is on while somebody wants it; the frame scheduler gets the numbers, of one beyond int its low 32 bits |

**Bounds.** `QueueBound` (2) limits `DeviceNotifyQueue`: two pending tasks are enough
for a task of a level change and a catch-up to be in either order. Two levels and one
value out of range tell apart equal, different and refused. `MaxReport` is lowered to
1 or 2 so that the full set happens. One application process suffices for the level
run because entries of different pids do not influence each other; the registry run
has two processes for one pid. In the cgroup runs processes of one application
suffice because no handler reads two applications, except the cosmic cube recovery,
which treats each alike. `MaxReports` 4 allows
three timeouts of one plugin and a fourth report after a ban. `plugin` has `Window` 1,
`Wrap` 2 and `MaxTime` 2: timeouts at distance 0 are a burst, at 1 they are not, and at 2
the int32_t is negative (6.3 million states).
`CHECK_DEADLOCK FALSE` is set in the plugin runs since the system ends when it is
stopped or the bound on reports is reached.

In `parts` and `progress` every bound is a constant with the prefix `Max` or a constant
of the code, lowered: limits of 2 requests of one uid and 3 of all in a window of two
ticks, so that neither limit follows from the other, a cache of two permissions, one
retry, one kept recognizer, three starts of two applications. One death of a service or
client gives the loss, the return and everything between; two listeners, sessions,
identities or clients overlap in every way two can. Configurations have up to three
fragments, so that a first, a middle and a last one exist. `CgProcs` has two processes
of which one is reported on, with two reports waiting: instances with two reporters and
two waiting (5.3 million states) and with one process and three waiting were checked
once and hold as well. `MaxRefused` lets an ability refuse none, one or all
registrations of an addition, and `MaxLost` one scene end while the plugin is disabled;
with any number of either the properties hold as well (1.3 million states, checked once).
The run has 0.9 million states. `CHECK_DEADLOCK FALSE` is set
because several parts end: a service that stopped does not start again, and bounds on
deaths run out.

**Two caller threads.** The four level properties speak of the moments between the calls
of `OnDeviceLevelChanged`. A call writes level, file and messages in three unlocked steps,
so calls of two threads that overlap can leave them different, and nothing in the
repository excludes that or says what holds then. `crossed` is therefore set when calls
overlap, and reset at the end of the next call that met no other: from then on level,
file, override and choice agree again. For the order of delivery `misled` holds the
processes that no such call has told since. The run has one thread of each kind (device,
hidumper); the proofs have any number of either.

**Fairness.** `Systemload!FairSpec`: weak fairness of the handlers of calls and deaths,
of the queue and of the steps of a caller: binder threads and ffrt workers run what is
enabled, and no step waits for another. Clients, device and hidumper are not fair.
`PluginMgr!FairSpec`: weak fairness of the dispatcher thread as a whole. It assumes that
plugin calls return, which the default build does not enforce. Reporters are not fair:
`ReportReaches` starts at a posted task. `MCProgress!ProgressFairness`: weak fairness of
the dispatcher (`HandleScreenStatusAnalysis`) and of the delayed tasks, which ffrt runs
when their time has come; of the restart of the service by the ability manager and of
the delivery of its notices, and of the client's two callbacks. Nothing makes a client
register, a screen turn on, or a process die.

## 4. Proofs

All constants are arbitrary up to the named assumptions in the modules, which say what
the code gives them: bounds are natural numbers, a value that stands for "none" is no
process, pid or identity, the load notifier is none of the event listeners
(`LinkAssumption`), the configuration has at least one fragment (`ExecutorAssumption`),
files are finite sequences of nodes (`ConfigAssumption`, `SocExeAssumption`), and there
is a process to report about (`CgStatesAssumption`). No theorem assumes more than these.
What a theorem exempts is in the comment of the property and in `about` of
`PROJECT.json`; the excuses are those of section 2.

Each proof has the same shape. An inductive invariant is shown to hold at the start, to
be kept by every action (one lemma per group of actions that treat the state alike), and
to give the property; TLC checked each invariant before it was proved. What follows says
which invariant, and why the property is not enough by itself.

**`SystemloadProofs`.**

* `TypeCorrect`: `TypeOK` alone is not inductive, because the range of the level is
  checked once and relied on later; `TypeInv` adds `RangeChecked`, that a caller past the
  check carries a level in range.
* `RegistryReclaimed` proves `EntriesReclaimed`, which is inductive with the types: a
  registration of a dead caller announces the death at once, and removal is by object.
* `StatisticsBounded` adds that the name set is finite (`StatInv`).
* `FileFollowsLevel`, `OverrideInForce`: the properties speak of the
  moments between two calls. `ServiceInv` says of a caller that runs alone and has met no
  other, for each of its lines, what it carries and what it has not written yet: which of
  the reported and the debugging level it will set, and that the file may be behind only
  between `SetLevel` and `SaveLevel`. `OverlapInv` says what the history is worth: unless
  `crossed` is "yes", whoever calls is alone.
* `NoticesCurrent`, `NoticesInOrder`: `NoticeInv` says the same of the notices, of all
  processes but those in `misled`. Only processes that made a call are registered (`CallersKnown`); an entry of
  the map holds the level it was chosen last; and what a process will hear last, from the
  queue or from the call that is on its way, is what was chosen for it last. A catch-up
  and a level change go through one queue, and `HearsAppended` and its companions say
  what adding and taking a task does to what is heard last.

**`CgroupSchedProofs`.**

* `TypeCorrect`, `RecordsConsistent`, `OneTopApp`: `Inv` is the conjunction of `TypeOK`,
  `FocusedIsTracked` and `TopAppIsFocused`. The lemma `AdjustedInv` says what `Adjusted`
  guarantees for any records a handler hands it; handlers are then grouped by how they
  use the records (making, known, focus, removing, other). `TopAppIsFocused` needs that a
  change of the focus adjusts all main processes, not only the one that gains it.
* `GroupsCurrent`, `SubWinTimed`, `RendersFollow`: with `Inv` the first two are inductive;
  the third is not, because a host adjusts the render processes only if it is in
  `hostPidsSet_`. `GroupInv` adds that the live host of every known render process is
  there. Again one lemma (`AdjustingStep`) for all handlers that change one record and
  adjust.

**`PluginMgrProofs`.**

* `BannedStaysOff`: `OffInv` adds that a plugin being banned is already inactive and that
  a plugin in a call is not banned.
* `CallsInOrder`: `OrderInv` orders the numbers of the queue, the current task and the
  last call of each plugin, and says every list names a plugin at most once.
* `BannedOnBurst`: `BurstInv` relates `timeOutTime`, which keeps
  at most two entries, to the whole history of timeouts; `TimeoutStep` is the arithmetic
  of one more timeout, and of a distance that wraps.
* `RepairsRestore`: `RepairInv` adds what holds in the middle of a repair, that every key
  `OnPluginInit` has passed is subscribed, and that nothing but a plugin that takes itself
  out removes it from the exact lists.
* `StopsQuietly`, an action property: `StopInv` says that loading has ended before the
  service can stop, so the plugin map stays empty, and that the dispatcher is not made
  again, which is why a reporter that passed the test of `isInit` long ago posts nothing.
  The plugin whose entry was copied before Stop is the one in hand, which may still be
  called and repaired; no other can be taken up from an empty map.

**`ClientLinkProofs`.** `LinkTypes`, and `LinkKeepsRegistry`: `LinkSpec => RegistryKept`,
the refinement of `ListenerRegistry`. Every action is shown to be a step of the abstract
registry or to leave `want` and `serve` alone. It needs `LinkInv`: what the service holds
of the present client process it got over a proxy that is still live, for a listener the
client still has; death notices belong to dead proxies; and no object is younger than the
process, which is what makes the reuse of a pid harmless. `ProgressTypes` joins the types
of the link with those of the screen requests, for the specification of `progress`.

**`SocPerfProofs`.** `ScreenTypes` and `ScreenRequestsConsistent` are proved together:
that the counts of delayed tasks stay in range needs the requests to agree.
`BoostsEnd` is inductive; its lemmas say what an entry of `functionMap` can do to the
requests that are on, so the proof does not depend on which scenes there are.
`FocusKeptRight`: `FocusInv` adds that the flag is only set while the types can be asked
for, and that the set of focused applications is finite, so that a set of one element is
the application that got the focus. `BatteryInv` is the part of `SocPerfBattery`: the
limit that is on is that of the level, which the proof of `LimitsStayRight` uses.

* `NodeWritesAreDefined`: `SocExeInv` says what a load leaves behind. A load is a fold over
  files, groups and declarations; every declaration keeps the nodes there are and enters
  no id twice, and nothing is entered after a failure; so the last `CheckDefValid` of a
  load that succeeded speaks of every node (`NodesLoaded`). A null node comes only from an
  id without a node, a written file belongs to a node, and what is in the file of a
  governor is one of its levels.
* `ExecutorInv` says that the fragments counted are those one sender sent so far, as long
  as no second sender mixed in (`ExecutorGetsPlugins` of `PartsProofs`).
* `OobeInv` counts the runs of each task, and says where an agreement the manager does not
  know of is under way (a notice, a read that has begun, or an observer still to be
  registered); `HiddenInv` is the part that the four excuses of the property cut out
  (`OobeStaysRight` of `PartsProofs`).
* `ConfigurationIsRight`: the property defines each setting by the place of the last file
  that names it (`CHOOSE`), the code reads the files one after the other. `ConfigsRead`
  and `PluginsAsSwitched` are the two descriptions side by side, at each number of files
  read; the plugin removes what it has read, so when it is initialised again every config
  is empty, which changes no setting but the game boost switch (`SettingsRead`).

The recursion in the loads and in the configuration is the one of `FoldLeft`. The
induction theorems with an operator parameter cannot be used, so these proofs go another
way: the facts on folds at the beginning of the module show that the function by which a
fold is defined exists, and that its value at each prefix of the sequence is one step
further than at the one before (`LeftAlong`); the prefixes of which something holds are
then a set of numbers, with 0 in it and with every number the next (`Climbs`, from the
least number that it would not hold).

The module begins with the facts about sums that the proofs about counting cite: what
adding to one summand does to `SumFunction`, and that a sum over more or larger terms is
not smaller. They are shown by a least counterexample (`WFMin` with
`NatLessThanWellFounded`), since the induction theorems with an operator parameter
cannot be used.

**`SceneProofs`.** `FrameAwareKeepsRight`: `LatencyInv` says what the request in the
middle of being added or withdrawn counts for, since requests, timer and switch are
changed in separate steps. The lemmas on the other recognizers are about their own
state: `StartupInv`; `SlideInv`, that a recognizer that is being started has asked for
its frames, and that no START is queued for a screen without one; `InstallInv`, which
says in which step of a START and of the exit tasks the flag and what the plugins were
told may differ. Some of them are needed for the types of the modules as well
(`LatencyTypes`, `SlideFields` and the others): a request that is being added has an
identity, because `LatencyInv` says so.

**`ObserverProofs`.** `AudioReportsTrue`: `AudioInv` relates the observer's map to the
sessions of the audio service. The map may hold sessions that ended in between, but not a
process with none, and never misses one that runs. `CommonEventsKeptRight`:
`CommonEventsInv` says which notices of the event service may still be queued in which
state, that at most the known subscription is alive, and that the last event in its inbox
is the last one published. The other lemmas are about the parts that `PartsProofs` joins:

* `ObserversInv`: the notices of an ability alternate and the last one says whether it
  runs, as long as the manager listens; a window listener object is given up before
  the ability comes back; and a value that is registered and was not reported since its
  last change is still to be fetched, is in hand, or was reported by a fetch that a change
  overtook. The steps are treated by the pattern that Init and Disable of
  the ability use.
* `DeviceInv`: the last callback that is queued carries the present state, and what the
  observer remembers is what it told, but for the window modes it read in silence.
* `SuspendInv`: the list of observers is ahead of their death recipients only in the
  middle of a registration, and nothing of an observer is left once its death is handled,
  unless a call overlapped it.
* `AppStateInv`: a notice under way carries the present state of its application, and a
  pid in the service's set or in the list under way that is not in the foreground is one
  the list crossed, so the merge adds no other and loses none.
* `CgInv`: of each process whose last report was not lost, the last report in the cgroup
  plugin's queue says what the process does, and the record says it when none is queued; a
  record of a process whose death was reported stands only while the death is queued, and
  a creation that is queued is followed by its death.

**`PartsProofs`.** The theorems carry results on single parts over to `PartsSpec`, the
specification of the run: by `PartTakesSteps` a step of `PartsSpec` is a step of the
chosen part or leaves its variables alone, so what the steps of a part keep `PartsSpec`
keeps.

* `SocPerfStaysRight`, `OobeStaysRight`, `RecognizedStaysRight`, `ObserversStayRight`: from
  the lemmas of the three modules above; so is `ExecutorGetsPlugins`, for `ExecutorInitSpec`.
* `CallsStayRight`. `SyncInv`: a plugin that a thread found under one lock and will call
  after it held the type at some moment since the event came. `JsInv`: on its way through
  three threads the newest level is the last one at the first place of the pipeline that
  is not empty, and what `off` left queued is counted.
* `LimitsStayRight`. `LimitInv`: a span as long as a window meets at most two windows, each
  of which accepted at most its limit, of one uid and of all together.
* `PartsTypes`: `PartsTypeOK`. The types of a part are split into those that follow from
  what is assigned (flags, sets) and those that need an invariant of the part: the retries
  of `CheckOobeValue` stay in range because a task that is rescheduled was below the limit,
  the fragments the executor holds because no sender sends more than there are, the
  permission cache stays within its capacity and without a token twice because `CacheAfter`
  drops the oldest, and the counts of `KillEventListener` because a full cache takes no
  new reason.
* `ProcessesStayKnown`, with `AppStateInv` and `CgInv`. `KillInv`: one thread asks for the
  configuration; the last one pushed is the newest, unless one was not pushed at all; and
  each kill asked about is counted,
  reported, excused, or held by a thread that will count it; the sum over the threads
  uses the facts on sums.

Only model-checked:

* `DeadForgotten`, `ReportReaches`, `ListenersRecover`, `ScreenOffApplied`: liveness under
  fairness is out of the prover's reach.
* The properties of the four runs that expect a violation: they do not hold.

## 5. Findings

1. `notifier_mgr.cpp:256`: the catch-up compares with a level that registration leaves
   at LOW (`systemload_foreground`).
2. `cgroup_adjuster.cpp:168`: GPU and child processes do not follow their host when
   they are created, unlike what the documentation says (`cgroup_follow`).
3. `cgroup_map.cpp:52`: failed writes are reported as success, so `curSchedGroup_` is
   updated without one (`cgroup_write`).
4. `plugin_mgr.cpp:697`: the loop of `UnSubscribeAllResources` changes copies
   (`plugin_unsubscribe`).

Seen while modelling, without a run of their own:

* `notifier_mgr.cpp:222`: two calls that overlap can leave the file stale: one stores its
  level and is overtaken, the other stores and saves its own, and the first then saves the
  older one. Messages and level can differ in the same way until the next call.
* `plugin_mgr.cpp:867`: the int32_t cast of `crash_time` wraps after 24.9 days, and a plugin
  is disabled for timeouts weeks apart; `BanIsBurst` names that distance.
* `plugin_mgr.cpp:912`: Stop may disable a plugin between the copy of its entry and the
  call, which is then still made and may be followed by a repair.
* `suspend_manager_base_observer.cpp:32`: a registration between the two removals of
  `OnObserverDied` leaves a dead observer in the list.
* `suspend_manager_base_client.cpp:122`: the result of the IPC call is not returned, so
  ERR_OK is answered for a call that met a dead service.
* `res_sched_client.cpp:473`: an add notice before the death notice meets the dead proxy;
  line 104: a list of types that could not be fetched counts as fetched.
* `res_sched_mgr.cpp:333`: a process that leaves the foreground between the fetch and the
  merge of the list counts as foreground again.
* `window_state_observer.cpp:172`, `observer_manager.cpp:917`: modes, styles and other
  values read at setup overwrite newer ones.
* `continuous_app_install_recognizer.cpp:47`: a START handled while the exit task of an
  earlier install runs leaves the plugins told STOP, or the flag as it was.
* `event_controller.cpp:220`: an add notice handled late subscribes twice.
* `network_latency_controller.cpp:97`: a renewed request is removed by its old timeout.
* `frame_aware_plugin.cpp:316`: a long is cast to int before its range is tested, so
  "4294967297" reaches the frame scheduler as 1; `errno` is tested and never cleared.
* `app_startup_scene_rec.cpp:84`: after `Deinit` a start uses the queue that was reset, and the
  process ends (`crashed`).
* `kill_event_listener.cpp:155`: an older reply replaces a newer push; and a configuration
  set while the listener is only stored (`res_sched_client.cpp:264`) is never pushed.
* `res_sched_exe_mgr.cpp:133`: fragments of two sends are counted together.

## 6. Not modelled, and the plan

What is left, in the order of importance:

1. The composition of `PluginMgr` with `CgroupSched`: a repair of the plugin drops its
   records while reports are queued. `CgroupStates` has it for the states of processes,
   not for the groups.
2. `PluginMgr`: the callbacks at the end of initialisation and the build with ffrt queues.
3. The interleaving of two binder threads in the statistics of `RequestLimit`.

Left out for good: parsing of configuration and payloads, logging, tracing, dumps, and
bindings without state; they are listed in `PROJECT.json`.
