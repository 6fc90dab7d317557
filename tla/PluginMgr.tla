----------------------------- MODULE PluginMgr -----------------------------
(***************************************************************************)
(* PluginMgr: plugins subscribe to resource types, or to pairs of a type   *)
(* and a value; reported data is posted to one dispatcher thread, which    *)
(* calls the plugins one after the other, repairs a plugin that takes too  *)
(* long and disables it forever when that happens too often.  This is the  *)
(* default build (one EventHandler, no ffrt queues).                       *)
(*                                                                         *)
(* Reporter threads, the dispatcher thread, plugins and the thread that    *)
(* stops the service interleave between any two critical sections, since   *)
(* each map has a mutex of its own and none is held across two of them.    *)
(*                                                                         *)
(* Plugins are external.  Those of the repository subscribe in             *)
(* OnPluginInit and unsubscribe in OnPluginDisable (Wants), except that an *)
(* extension library subscribes on each OnPluginInit what no               *)
(* OnPluginDisable takes back (Ext).                                       *)
(***************************************************************************)
EXTENDS Integers, Sequences

CONSTANTS
  Plugins,    \* plugin libraries that are switched on
  Types,      \* resource types
  Values,     \* values reported with them
  Wants,      \* what each plugin subscribes to and unsubscribes from
  Ext,        \* what each plugin only subscribes to
  Quitters,   \* plugins that call UnSubscribeAllResources
  Reporters,  \* threads that report data
  Window,     \* DISABLE_PLUGIN_TIME
  Wrap,       \* 2^31: crash_time is an int32_t
  MayStop,    \* may the service be stopped?
  MaxReports, \* bound of the model on the number of posted tasks
  MaxTime,    \* bound of the model on the clock
  None

(* The keys of resTypeLibMap_ and of resTyperesValueLibMap_.               *)
Exact == Types \X Values
Keys == Types \cup Exact

ASSUME PluginAssumption ==
  /\ Wants \in [Plugins -> SUBSET Keys]
  /\ Ext \in [Plugins -> SUBSET Keys]
  /\ Quitters \subseteq Plugins
  /\ Types \cap Exact = {}
  /\ Window \in Nat \ {0} /\ Wrap \in Nat \ {0} /\ Window < Wrap
  /\ MayStop \in BOOLEAN
  /\ MaxReports \in Nat /\ MaxTime \in Nat
  /\ None \notin Plugins /\ None \notin Exact

MAX_PLUGIN_TIMEOUT_TIMES == 3

VARIABLES
  toLoad,   \* plugins LoadPlugin has not come to yet
  isInit,
  handler,  \* is there a dispatcher_?
  libs,     \* pluginLibMap_
  subs,     \* resTypeLibMap_ and resTyperesValueLibMap_: how often a plugin
            \* is in the list of a key; the order in a list has no effect
  queue,    \* tasks posted to dispatcher_
  posted,   \* number of tasks posted so far; numbers the tasks
  reporter, \* program counter and locals of DispatchResource in each thread
  worker,   \* the same of DispatchResourceToPluginSync and RepairPlugin
  stopper,  \* how far Stop got
  quit,     \* how far UnSubscribeAllResources of each plugin got
  timeOut,  \* PluginStat::timeOutTime
  now,      \* the clock
  active,   \* plugins that are initialised and not disabled (external)
  last,     \* history: the number of the task each plugin was called for last
  late,     \* history: the times of all timeouts of each plugin
  banned    \* history: plugins that were disabled forever

lists == <<toLoad, isInit, libs, subs>>
history == <<last, late, banned>>
vars == <<lists, handler, queue, posted, reporter, worker, stopper, quit, timeOut,
          now, active, history>>

NoList == [p \in Plugins |-> 0]
PluginList == [Plugins -> Nat]
Task == [id : Nat, list : PluginList]
IdleReporter == [pc |-> "idle", key |-> None, list |-> NoList]
IdleWorker == [pc |-> "idle", id |-> 0, todo |-> NoList, plugin |-> None, left |-> {}]

ReporterState ==
  [pc : {"idle", "type", "exact", "post"}, key : Exact \cup {None}, list : PluginList]

WorkerState ==
  [pc : {"idle", "next", "copied", "call", "disable", "ban", "erase", "enable"}, id : Nat,
   todo : PluginList, plugin : Plugins \cup {None}, left : SUBSET Keys]

TypeOK ==
  /\ toLoad \subseteq Plugins /\ libs \subseteq Plugins
  /\ isInit \in BOOLEAN /\ handler \in BOOLEAN
  /\ subs \in [Keys -> PluginList]
  /\ queue \in Seq(Task) /\ posted \in 0..MaxReports
  /\ reporter \in [Reporters -> ReporterState]
  /\ \A r \in Reporters : reporter[r].pc # "idle" => reporter[r].key # None
  /\ worker \in WorkerState
  /\ worker.pc \notin {"idle", "next"} => worker.plugin # None
  /\ stopper \in {"no", "type", "exact", "handler", "done"}
  /\ quit \in [Plugins -> {"no", "exact"}]
  /\ timeOut \in [Plugins -> Seq(Nat)] /\ now \in 0..MaxTime
  /\ active \subseteq Plugins /\ banned \subseteq Plugins
  /\ last \in [Plugins -> Nat] /\ late \in [Plugins -> Seq(Nat)]

Init ==
  /\ toLoad = Plugins /\ isInit = FALSE /\ handler = FALSE /\ libs = {}
  /\ subs = [k \in Keys |-> NoList]
  /\ queue = <<>> /\ posted = 0
  /\ reporter = [r \in Reporters |-> IdleReporter]
  /\ worker = IdleWorker /\ stopper = "no"
  /\ quit = [p \in Plugins |-> "no"]
  /\ timeOut = [p \in Plugins |-> <<>>] /\ now = 0
  /\ active = {} /\ banned = {}
  /\ last = [p \in Plugins |-> 0] /\ late = [p \in Plugins |-> <<>>]

-----------------------------------------------------------------------------
(* Subscriptions                                                            *)

SubscribeResource(s, p, ks) ==
  [k \in Keys |-> IF k \in ks THEN [s[k] EXCEPT ![p] = @ + 1] ELSE s[k]]

(* Mutant: one copy is taken out, not all.                                  *)
UnSubscribeResourceOnce(s, p, ks) ==
  [k \in Keys |-> IF k \in ks THEN [s[k] EXCEPT ![p] = @ - 1] ELSE s[k]]

(* list::remove takes out every copy.                                       *)
UnSubscribeResource(s, p, ks) ==
  [k \in Keys |-> IF k \in ks THEN [s[k] EXCEPT ![p] = 0] ELSE s[k]]

(* What one of the two loops of UnSubscribeAllResources does to the keys    *)
(* ks.  It runs over copies of the lists, so all it can do is erase a key   *)
(* whose list is empty once one copy of the plugin is taken out.            *)
OnlyOnce(list, p) == list[p] = 1 /\ \A q \in Plugins \ {p} : list[q] = 0
EraseKeys(s, p, ks) ==
  [k \in Keys |-> IF k \in ks /\ OnlyOnce(s[k], p) THEN NoList ELSE s[k]]

UnSubscribeAllTypes(p) ==
  /\ p \in Quitters \cap active /\ quit[p] = "no"
  /\ quit' = [quit EXCEPT ![p] = "exact"]
  /\ subs' = EraseKeys(subs, p, Types)
  /\ UNCHANGED <<toLoad, isInit, libs, handler, queue, posted, reporter, worker,
                 stopper, timeOut, now, active, history>>

UnSubscribeAllValues(p) ==
  /\ quit[p] = "exact"
  /\ quit' = [quit EXCEPT ![p] = "no"]
  /\ subs' = EraseKeys(subs, p, Exact)
  /\ UNCHANGED <<toLoad, isInit, libs, handler, queue, posted, reporter, worker,
                 stopper, timeOut, now, active, history>>

-----------------------------------------------------------------------------
(* ParsePluginSwitch: LoadPlugin, then the dispatcher, then isInit          *)

(* LoadOnePlugin may fail at any of its checks, the last of which is that    *)
(* OnPluginInit returns TRUE: what that subscribed before it failed stays.   *)
LoadPlugin(p) ==
  /\ p \in toLoad /\ toLoad' = toLoad \ {p}
  /\ \/ /\ \E ks \in SUBSET (Wants[p] \cup Ext[p]) : subs' = SubscribeResource(subs, p, ks)
        /\ UNCHANGED <<libs, active>>
     \/ /\ libs' = libs \cup {p} /\ active' = active \cup {p}
        /\ subs' = SubscribeResource(SubscribeResource(subs, p, Wants[p]), p, Ext[p])
  /\ UNCHANGED <<isInit, handler, queue, posted, reporter, worker, stopper, quit,
                 timeOut, now, history>>

CompletePluginInitialization ==
  /\ toLoad = {} /\ ~isInit /\ stopper = "no"
  /\ isInit' = TRUE /\ handler' = TRUE
  /\ UNCHANGED <<toLoad, libs, subs, queue, posted, reporter, worker, stopper, quit,
                 timeOut, now, active, history>>

-----------------------------------------------------------------------------
(* DispatchResource, in a reporter thread                                   *)

ReporterUnchanged ==
  UNCHANGED <<lists, handler, worker, stopper, quit, timeOut, now, active, history>>

DispatchResource(r, t, v) ==
  /\ reporter[r].pc = "idle" /\ isInit
  /\ reporter' = [reporter EXCEPT ![r] = [pc |-> "type", key |-> <<t, v>>, list |-> NoList]]
  /\ ReporterUnchanged /\ UNCHANGED <<queue, posted>>

GetPluginListByResType(r) ==
  /\ reporter[r].pc = "type"
  /\ reporter' = [reporter EXCEPT ![r].pc = "exact", ![r].list = subs[reporter[r].key[1]]]
  /\ ReporterUnchanged /\ UNCHANGED <<queue, posted>>

(* Mutant: the list is not made unique.                                     *)
UniqueMissing(list) == list

(* uniqueSet: each plugin once, however often it subscribed.                *)
Unique(list) == [p \in Plugins |-> IF list[p] > 0 THEN 1 ELSE 0]

(* An empty list ends DispatchResource.                                     *)
GetPluginListByResTypeAndValue(r) ==
  LET exact == subs[reporter[r].key]
      all == [p \in Plugins |-> reporter[r].list[p] + exact[p]]
  IN /\ reporter[r].pc = "exact"
     /\ reporter' = [reporter EXCEPT ![r] =
                       IF all = NoList THEN IdleReporter
                       ELSE [@ EXCEPT !.pc = "post", !.list = Unique(all)]]
     /\ ReporterUnchanged /\ UNCHANGED <<queue, posted>>

(* Mutant: dispatcher_ is not looked at under dispatcherHandlerMutex_.        *)
PostTaskUnchecked(r) ==
  /\ reporter[r].pc = "post"
  /\ reporter' = [reporter EXCEPT ![r] = IdleReporter]
  /\ posted < MaxReports
  /\ posted' = posted + 1
  /\ queue' = Append(queue, [id |-> posted + 1, list |-> reporter[r].list])
  /\ ReporterUnchanged

PostTask(r) ==
  /\ reporter[r].pc = "post"
  /\ reporter' = [reporter EXCEPT ![r] = IdleReporter]
  /\ IF handler
     THEN /\ posted < MaxReports
          /\ posted' = posted + 1
          /\ queue' = Append(queue, [id |-> posted + 1, list |-> reporter[r].list])
     ELSE UNCHANGED <<queue, posted>>
  /\ ReporterUnchanged

-----------------------------------------------------------------------------
(* DispatchResourceToPluginSync and RepairPlugin, in the dispatcher thread  *)

TakeTask ==
  /\ worker.pc = "idle" /\ queue # <<>>
  /\ queue' = Tail(queue)
  /\ worker' = [IdleWorker EXCEPT !.pc = "next", !.id = Head(queue).id, !.todo = Head(queue).list]
  /\ UNCHANGED <<lists, handler, posted, reporter, stopper, quit, timeOut, now, active,
                 history>>

(* Mutant: a plugin that is gone ends the task.                             *)
NextPluginBreak(p) ==
  /\ worker.pc = "next" /\ worker.todo[p] > 0
  /\ worker' = IF p \in libs
               THEN [worker EXCEPT !.pc = "copied", !.plugin = p, !.todo[p] = @ - 1]
               ELSE IdleWorker
  /\ UNCHANGED <<lists, handler, queue, posted, reporter, stopper, quit, timeOut, now,
                 active, history>>

(* SortPluginList may put the plugins in any order.  The entry of the       *)
(* plugin is copied under pluginMutex_ ...                                  *)
NextPlugin(p) ==
  /\ worker.pc = "next" /\ worker.todo[p] > 0
  /\ worker' = IF p \in libs
               THEN [worker EXCEPT !.pc = "copied", !.plugin = p, !.todo[p] = @ - 1]
               ELSE [worker EXCEPT !.todo[p] = @ - 1]
  /\ UNCHANGED <<lists, handler, queue, posted, reporter, stopper, quit, timeOut, now,
                 active, history>>

(* ... and called outside it: the copy keeps the library open.              *)
CallPlugin ==
  /\ worker.pc = "copied"
  /\ worker' = [worker EXCEPT !.pc = "call"]
  /\ last' = [last EXCEPT ![worker.plugin] = worker.id]
  /\ UNCHANGED <<lists, handler, queue, posted, reporter, stopper, quit, timeOut, now,
                 active, late, banned>>

EndTask ==
  /\ worker.pc = "next" /\ worker.todo = NoList
  /\ worker' = IdleWorker
  /\ UNCHANGED <<lists, handler, queue, posted, reporter, stopper, quit, timeOut, now,
                 active, history>>

WorkerUnchanged ==
  UNCHANGED <<toLoad, isInit, handler, queue, posted, reporter, stopper, quit, now, last>>

(* The plugin returns in time ...                                           *)
ReturnInTime ==
  /\ worker.pc = "call"
  /\ worker' = [worker EXCEPT !.pc = "next", !.plugin = None]
  /\ WorkerUnchanged /\ UNCHANGED <<libs, subs, timeOut, active, late, banned>>

Int32(n) == ((n + Wrap) % (2 * Wrap)) - Wrap

(* RepairPlugin: the list of the last timeouts, with the new one; full when *)
(* it holds MAX_PLUGIN_TIMEOUT_TIMES; too often when the oldest of a full   *)
(* list is less than DISABLE_PLUGIN_TIME ago.  front() of an empty list is  *)
(* read too, but only to be logged.                                         *)
Full(times) == Len(times) >= MAX_PLUGIN_TIMEOUT_TIMES
TooOften(times, t) == Full(Append(times, t)) /\ Int32(t - Head(times)) < Window

(* Mutant: the oldest timeout is not dropped.                               *)
TimesAfterKept(times, t) ==
  IF TooOften(times, t) THEN <<>> ELSE Append(times, t)

TimesAfter(times, t) ==
  IF TooOften(times, t) THEN <<>>
  ELSE IF Full(Append(times, t)) THEN Tail(Append(times, t)) ELSE Append(times, t)

(* ... or after DISPATCH_TIME_OUT, and OnPluginDisable begins.              *)
TimedOut ==
  LET p == worker.plugin IN
  /\ worker.pc = "call"
  /\ worker' = [worker EXCEPT !.left = Wants[p],
                  !.pc = IF TooOften(timeOut[p], now) THEN "ban" ELSE "disable"]
  /\ timeOut' = [timeOut EXCEPT ![p] = TimesAfter(@, now)]
  /\ late' = [late EXCEPT ![p] = Append(@, now)]
  /\ active' = active \ {p}
  /\ WorkerUnchanged /\ UNCHANGED <<libs, subs, banned>>

(* OnPluginDisable unsubscribes one key after the other.                    *)
OnPluginDisable(k) ==
  /\ worker.pc \in {"ban", "disable"} /\ k \in worker.left
  /\ worker' = [worker EXCEPT !.left = @ \ {k}]
  /\ subs' = UnSubscribeResource(subs, worker.plugin, {k})
  /\ WorkerUnchanged /\ UNCHANGED <<libs, timeOut, active, late, banned>>

(* Mutant: OnPluginDisable is called and OnPluginInit is not.               *)
DisabledOnly ==
  /\ worker.pc \in {"ban", "disable"} /\ worker.left = {}
  /\ worker' = IF worker.pc = "ban" THEN [worker EXCEPT !.pc = "erase"]
               ELSE [worker EXCEPT !.pc = "next", !.plugin = None]
  /\ WorkerUnchanged /\ UNCHANGED <<libs, subs, timeOut, active, late, banned>>

Disabled ==
  /\ worker.pc \in {"ban", "disable"} /\ worker.left = {}
  /\ worker' = IF worker.pc = "ban" THEN [worker EXCEPT !.pc = "erase"]
               ELSE [worker EXCEPT !.pc = "enable", !.left = Wants[worker.plugin] \cup Ext[worker.plugin]]
  /\ WorkerUnchanged /\ UNCHANGED <<libs, subs, timeOut, active, late, banned>>

(* Mutant: the plugin stays in pluginLibMap_.                               *)
ErasePluginKept ==
  /\ worker.pc = "erase"
  /\ banned' = banned \cup {worker.plugin}
  /\ worker' = [worker EXCEPT !.pc = "next", !.plugin = None]
  /\ WorkerUnchanged /\ UNCHANGED <<libs, subs, timeOut, active, late>>

(* A plugin disabled forever leaves pluginLibMap_.                          *)
ErasePlugin ==
  /\ worker.pc = "erase"
  /\ libs' = libs \ {worker.plugin}
  /\ banned' = banned \cup {worker.plugin}
  /\ worker' = [worker EXCEPT !.pc = "next", !.plugin = None]
  /\ WorkerUnchanged /\ UNCHANGED <<subs, timeOut, active, late>>

(* OnPluginInit subscribes one key after the other.                         *)
OnPluginInit(k) ==
  /\ worker.pc = "enable" /\ k \in worker.left
  /\ worker' = [worker EXCEPT !.left = @ \ {k}]
  /\ subs' = SubscribeResource(subs, worker.plugin, {k})
  /\ WorkerUnchanged /\ UNCHANGED <<libs, timeOut, active, late, banned>>

Enabled ==
  /\ worker.pc = "enable" /\ worker.left = {}
  /\ worker' = [worker EXCEPT !.pc = "next", !.plugin = None]
  /\ active' = active \cup {worker.plugin}
  /\ WorkerUnchanged /\ UNCHANGED <<libs, subs, timeOut, late, banned>>

-----------------------------------------------------------------------------
(* Stop: OnDestroy, section by section                                      *)

StopUnchanged ==
  UNCHANGED <<toLoad, isInit, posted, reporter, worker, quit, timeOut, now, history>>

(* UnLoadPlugin disables every plugin under pluginMutex_.                   *)
UnLoadPlugin ==
  /\ MayStop /\ stopper = "no" /\ isInit /\ stopper' = "type"
  /\ active' = active \ libs
  /\ subs' = [k \in Keys |-> [p \in Plugins |->
                IF p \in libs /\ k \in Wants[p] THEN 0 ELSE subs[k][p]]]
  /\ libs' = {}
  /\ StopUnchanged /\ UNCHANGED <<handler, queue>>

(* ClearResource.                                                           *)
ClearResource ==
  /\ stopper \in {"type", "exact"}
  /\ stopper' = IF stopper = "type" THEN "exact" ELSE "handler"
  /\ subs' = [k \in Keys |-> IF k \in (IF stopper = "type" THEN Types ELSE Exact)
                             THEN NoList ELSE subs[k]]
  /\ StopUnchanged /\ UNCHANGED <<libs, active, handler, queue>>

RemoveDispatcher ==
  /\ stopper = "handler" /\ stopper' = "done"
  /\ handler' = FALSE /\ queue' = <<>>
  /\ StopUnchanged /\ UNCHANGED <<libs, subs, active>>

(* The clock is read when a call returns, so it may as well stand still       *)
(* between calls.                                                             *)
Tick ==
  /\ worker.pc = "call"
  /\ now < MaxTime /\ now' = now + 1
  /\ UNCHANGED <<lists, handler, queue, posted, reporter, worker, stopper, quit, timeOut,
                 active, history>>

Worker ==
  \/ TakeTask \/ EndTask \/ CallPlugin \/ ReturnInTime
  \/ TimedOut \/ Disabled \/ ErasePlugin \/ Enabled
  \/ \E p \in Plugins : NextPlugin(p)
  \/ \E k \in Keys : OnPluginDisable(k) \/ OnPluginInit(k)

Reporter(r) ==
  \/ \E t \in Types, v \in Values : DispatchResource(r, t, v)
  \/ GetPluginListByResType(r) \/ GetPluginListByResTypeAndValue(r) \/ PostTask(r)

Next ==
  \/ \E p \in Plugins : LoadPlugin(p) \/ UnSubscribeAllTypes(p) \/ UnSubscribeAllValues(p)
  \/ CompletePluginInitialization
  \/ \E r \in Reporters : Reporter(r)
  \/ Worker
  \/ UnLoadPlugin \/ ClearResource \/ RemoveDispatcher
  \/ Tick

Spec == Init /\ [][Next]_vars

(* The event runner keeps taking tasks, and plugins return from their calls. *)
FairSpec == Spec /\ WF_vars(Worker)

-----------------------------------------------------------------------------
(* Properties                                                               *)

(* Each plugin is called at most once for a report and for reports in the    *)
(* order in which they were posted, whatever it subscribed to how often, and *)
(* through its own repairs and those of others.                              *)
CalledInOrder ==
  [][(worker.pc = "copied" /\ worker'.pc = "call") => last[worker.plugin] < worker.id]_vars

(* A plugin that was disabled forever is not loaded, not initialised and not *)
(* being called, although tasks that name it may still be in the queue.      *)
BannedIsOff ==
  \A p \in banned : p \notin libs /\ p \notin active /\ worker.plugin # p

(* "plugin crash 3 times in 60s, will be disable forever": between its       *)
(* dispatches, a plugin has been disabled forever if and only if three of    *)
(* its timeouts in a row happened in less than DISABLE_PLUGIN_TIME, or so    *)
(* far apart that the int32_t with the milliseconds between the first and    *)
(* the third is negative: 2^31 ms, 24 days, or more, modulo 2^32.            *)
Close(d) == LET low == d % (2 * Wrap) IN low < Window \/ low >= Wrap
Burst(times) == \E i \in 1..(Len(times) - 2) : Close(times[i + 2] - times[i])
BanIsBurst ==
  \A p \in Plugins : worker.plugin # p => (p \in banned <=> Burst(late[p]))

(* A repair loses no subscription: a loaded plugin that is not being         *)
(* repaired is initialised and in the list of every key it wants, unless it  *)
(* took itself out or the service is being stopped.                          *)
Repairing(p) == worker.plugin = p /\ worker.pc \notin {"copied", "call"}
RepairRestores ==
  \A p \in libs \ Quitters :
    (stopper = "no" /\ ~Repairing(p))
       => p \in active /\ \A k \in Wants[p] \cup Ext[p] : subs[k][p] > 0

(* A report that was posted for a plugin reaches it, unless the plugin is    *)
(* disabled forever or the service stops first: repairs of the plugin, and   *)
(* other plugins that are repaired or gone, do not lose it.                  *)
Waiting(p, i) == \E j \in DOMAIN queue : queue[j].id = i /\ queue[j].list[p] > 0
ReportReaches ==
  \A p \in Plugins, i \in 1..MaxReports : Waiting(p, i) ~> (last[p] = i \/ p \notin libs)

(* From the moment Stop has disabled the plugins the dispatcher takes up no   *)
(* plugin any more, not even for a task it is in the middle of: the one whose *)
(* entry it had copied before is the only one that may still be called, once, *)
(* and repaired.  Once Stop has returned nothing is posted, not even by a     *)
(* reporter that passed the test of isInit before.                            *)
StopIsQuiet ==
  [][/\ stopper # "no" => /\ worker'.plugin \in {worker.plugin, None}
                          /\ \A p \in Plugins : last'[p] # last[p] => p = worker.plugin
     /\ stopper = "done" => queue' = <<>>]_vars

(* UnSubscribeAllResources leaves the plugin in no list.                     *)
UnSubscribesAll ==
  [][\A p \in Plugins :
       /\ UnSubscribeAllTypes(p) => \A k \in Types : subs'[k][p] = 0
       /\ UnSubscribeAllValues(p) => \A k \in Exact : subs'[k][p] = 0]_vars
=============================================================================
