-------------------------- MODULE PluginMgrProofs --------------------------
(***************************************************************************)
(* Proofs about PluginMgr for any plugins, types, values, subscriptions    *)
(* and reporter threads, and for any window and bounds: type correctness,  *)
(* the isolation of a plugin disabled forever, the order of the calls,     *)
(* which plugins are disabled forever, what a repair restores, and that    *)
(* nothing happens after Stop.                                             *)
(***************************************************************************)
EXTENDS PluginMgr, TLAPS, SequenceTheorems

(* What the list operators return.                                          *)
LEMMA ListTypes ==
  /\ NoList \in PluginList
  /\ \A list \in PluginList : Unique(list) \in PluginList
  /\ \A l1, l2 \in PluginList : [p \in Plugins |-> l1[p] + l2[p]] \in PluginList
  /\ IdleReporter \in ReporterState /\ IdleWorker \in WorkerState
<1>1. NoList \in PluginList
  BY DEF NoList, PluginList
<1>2. \A list \in PluginList : Unique(list) \in PluginList
  BY DEF Unique, PluginList
<1>3. \A l1, l2 \in PluginList : [p \in Plugins |-> l1[p] + l2[p]] \in PluginList
  BY DEF PluginList
<1>4. IdleReporter \in ReporterState /\ IdleWorker \in WorkerState
  BY <1>1 DEF IdleReporter, IdleWorker, ReporterState, WorkerState
<1> QED
  BY <1>1, <1>2, <1>3, <1>4

(* What the subscription operators return.                                  *)
LEMMA SubscriptionTypes ==
  ASSUME NEW s \in [Keys -> PluginList], NEW p \in Plugins, NEW ks \in SUBSET Keys
  PROVE  /\ SubscribeResource(s, p, ks) \in [Keys -> PluginList]
         /\ UnSubscribeResource(s, p, ks) \in [Keys -> PluginList]
         /\ EraseKeys(s, p, ks) \in [Keys -> PluginList]
<1>1. SubscribeResource(s, p, ks) \in [Keys -> PluginList]
  BY DEF SubscribeResource, PluginList
<1>2. UnSubscribeResource(s, p, ks) \in [Keys -> PluginList]
  BY DEF UnSubscribeResource, PluginList
<1>3. EraseKeys(s, p, ks) \in [Keys -> PluginList]
  BY ListTypes DEF EraseKeys
<1> QED
  BY <1>1, <1>2, <1>3

(* The list of timeouts stays a sequence of times.                          *)
LEMMA TimesType ==
  ASSUME NEW times \in Seq(Nat), NEW t \in Nat
  PROVE  TimesAfter(times, t) \in Seq(Nat)
<1>1. Append(times, t) \in Seq(Nat) /\ Append(times, t) # <<>>
  BY AppendProperties
<1>2. Tail(Append(times, t)) \in Seq(Nat)
  BY <1>1
<1> QED
  BY <1>1, <1>2 DEF TimesAfter

(* Freshly started: every variable has its type.                            *)
LEMMA InitType == Init => TypeOK
<1> SUFFICES ASSUME Init PROVE TypeOK
  OBVIOUS
<1>1. /\ subs \in [Keys -> PluginList]
      /\ reporter \in [Reporters -> ReporterState]
      /\ \A r \in Reporters : reporter[r].pc # "idle" => reporter[r].key # None
  BY ListTypes DEF Init, IdleReporter
<1>2. worker \in WorkerState /\ (worker.pc \notin {"idle", "next"} => worker.plugin # None)
  BY ListTypes DEF Init, IdleWorker
<1>3. queue \in Seq(Task) /\ timeOut \in [Plugins -> Seq(Nat)] /\ late \in [Plugins -> Seq(Nat)]
  BY DEF Init
<1>4. /\ toLoad \subseteq Plugins /\ libs \subseteq Plugins
      /\ posted \in 0..MaxReports /\ now \in 0..MaxTime
      /\ active \subseteq Plugins /\ banned \subseteq Plugins
  BY PluginAssumption DEF Init
<1>5. quit \in [Plugins -> {"no", "exact"}] /\ last \in [Plugins -> Nat]
  BY DEF Init
<1> QED
  BY <1>1, <1>2, <1>3, <1>4, <1>5 DEF Init, TypeOK

(* Loading, unsubscribing, stopping and the clock.                          *)
LEMMA ManagerType ==
  ASSUME TypeOK,
         \/ \E p \in Plugins : LoadPlugin(p) \/ UnSubscribeAllTypes(p) \/ UnSubscribeAllValues(p)
         \/ CompletePluginInitialization
         \/ UnLoadPlugin \/ ClearResource \/ RemoveDispatcher \/ Tick
  PROVE  TypeOK'
<1> USE PluginAssumption DEF TypeOK, lists, history, StopUnchanged
<1>0. Types \subseteq Keys /\ Exact \subseteq Keys
  BY DEF Keys
<1>1. ASSUME NEW p \in Plugins, LoadPlugin(p) PROVE TypeOK'
  <2>1. subs' \in [Keys -> PluginList]
    <3>1. SubscribeResource(subs, p, Wants[p]) \in [Keys -> PluginList]
      BY SubscriptionTypes
    <3>2. SubscribeResource(SubscribeResource(subs, p, Wants[p]), p, Ext[p])
            \in [Keys -> PluginList]
      BY <3>1, SubscriptionTypes
    <3>3. \A ks \in SUBSET (Wants[p] \cup Ext[p]) :
            SubscribeResource(subs, p, ks) \in [Keys -> PluginList]
      <4>1. Wants[p] \cup Ext[p] \subseteq Keys
        OBVIOUS
      <4> QED
        BY <4>1, SubscriptionTypes
    <3> QED
      BY <1>1, <3>2, <3>3 DEF LoadPlugin
  <2> QED
    BY <1>1, <2>1 DEF LoadPlugin
<1>2. ASSUME NEW p \in Plugins, UnSubscribeAllTypes(p) PROVE TypeOK'
  <2>1. subs' \in [Keys -> PluginList]
    BY <1>0, <1>2, SubscriptionTypes DEF UnSubscribeAllTypes
  <2> QED
    BY <1>2, <2>1 DEF UnSubscribeAllTypes
<1>3. ASSUME NEW p \in Plugins, UnSubscribeAllValues(p) PROVE TypeOK'
  <2>1. subs' \in [Keys -> PluginList]
    BY <1>0, <1>3, SubscriptionTypes DEF UnSubscribeAllValues
  <2> QED
    BY <1>3, <2>1 DEF UnSubscribeAllValues
<1>4. CASE CompletePluginInitialization
  BY <1>4 DEF CompletePluginInitialization
<1>5. CASE UnLoadPlugin
  <2>1. subs' \in [Keys -> PluginList]
    BY <1>5 DEF UnLoadPlugin, PluginList
  <2> QED
    BY <1>5, <2>1 DEF UnLoadPlugin
<1>6. CASE ClearResource
  <2>1. subs' \in [Keys -> PluginList]
    BY <1>6, ListTypes DEF ClearResource
  <2> QED
    BY <1>6, <2>1 DEF ClearResource
<1>7. CASE RemoveDispatcher
  <2>1. queue' \in Seq(Task)
    BY <1>7 DEF RemoveDispatcher
  <2> QED
    BY <1>7, <2>1 DEF RemoveDispatcher
<1>8. CASE Tick
  BY <1>8 DEF Tick
<1> QED
  BY <1>1, <1>2, <1>3, <1>4, <1>5, <1>6, <1>7, <1>8

(* The steps of DispatchResource change the state of one reporter thread    *)
(* and, in the last, the queue.                                             *)
LEMMA ReporterType ==
  ASSUME TypeOK, NEW r \in Reporters, Reporter(r)
  PROVE  TypeOK'
<1> DEFINE Keyed(s) == s.pc # "idle" => s.key # None
<1> USE PluginAssumption DEF TypeOK, lists, history, ReporterUnchanged
<1>0. ASSUME NEW s \in ReporterState, Keyed(s), reporter' = [reporter EXCEPT ![r] = s]
      PROVE  /\ reporter' \in [Reporters -> ReporterState]
             /\ \A q \in Reporters : reporter'[q].pc # "idle" => reporter'[q].key # None
  BY <1>0
<1>i. Keyed(IdleReporter)
  BY DEF IdleReporter
<1>1. ASSUME NEW t \in Types, NEW v \in Values, DispatchResource(r, t, v) PROVE TypeOK'
  <2> DEFINE s == [pc |-> "type", key |-> <<t, v>>, list |-> NoList]
  <2>1. s \in ReporterState
    BY ListTypes DEF ReporterState, Exact
  <2>2. <<t, v>> \in Exact
    BY DEF Exact
  <2>3. Keyed(s)
    BY <2>2
  <2> QED
    BY <1>0, <1>1, <2>1, <2>3 DEF DispatchResource
<1>2. CASE GetPluginListByResType(r)
  <2>1. reporter[r] \in ReporterState /\ reporter[r].key \in Exact
    BY <1>2 DEF GetPluginListByResType, ReporterState
  <2>2. subs[reporter[r].key[1]] \in PluginList
    BY <2>1 DEF Exact, Keys
  <2> DEFINE s == [reporter[r] EXCEPT !.pc = "exact", !.list = subs[reporter[r].key[1]]]
  <2>3. s \in ReporterState /\ Keyed(s)
    BY <1>2, <2>1, <2>2 DEF ReporterState, GetPluginListByResType
  <2>4. reporter' = [reporter EXCEPT ![r] = s]
    BY <1>2, <2>1 DEF GetPluginListByResType, ReporterState
  <2> QED
    BY <1>0, <1>2, <2>3, <2>4 DEF GetPluginListByResType
<1>3. CASE GetPluginListByResTypeAndValue(r)
  <2>1. reporter[r] \in ReporterState /\ reporter[r].key \in Exact
    BY <1>3 DEF GetPluginListByResTypeAndValue, ReporterState
  <2> DEFINE all == [p \in Plugins |-> reporter[r].list[p] + subs[reporter[r].key][p]]
             s == IF all = NoList THEN IdleReporter
                  ELSE [reporter[r] EXCEPT !.pc = "post", !.list = Unique(all)]
  <2>2. Unique(all) \in PluginList
    <3>1. reporter[r].list \in PluginList /\ subs[reporter[r].key] \in PluginList
      BY <2>1 DEF ReporterState, Keys
    <3>2. all \in PluginList
      BY <3>1 DEF PluginList
    <3> QED
      BY <3>2, ListTypes
  <2>3. s \in ReporterState /\ Keyed(s)
    <3>1. [reporter[r] EXCEPT !.pc = "post", !.list = Unique(all)] \in ReporterState
      BY <2>1, <2>2 DEF ReporterState
    <3>2. Keyed([reporter[r] EXCEPT !.pc = "post", !.list = Unique(all)])
      BY <2>1 DEF ReporterState
    <3> QED
      BY <1>i, <3>1, <3>2, ListTypes
  <2>4. reporter' = [reporter EXCEPT ![r] = s]
    BY <1>3 DEF GetPluginListByResTypeAndValue
  <2> QED
    BY <1>0, <1>3, <2>3, <2>4 DEF GetPluginListByResTypeAndValue
<1>4. CASE PostTask(r)
  <2>1. /\ reporter' \in [Reporters -> ReporterState]
        /\ \A q \in Reporters : reporter'[q].pc # "idle" => reporter'[q].key # None
    BY <1>0, <1>i, <1>4, ListTypes DEF PostTask
  <2>2. queue' \in Seq(Task) /\ posted' \in 0..MaxReports
    <3>1. [id |-> posted + 1, list |-> reporter[r].list] \in Task
      BY DEF Task, ReporterState
    <3>2. CASE handler
      <4>1. /\ queue' = Append(queue, [id |-> posted + 1, list |-> reporter[r].list])
            /\ posted' = posted + 1 /\ posted < MaxReports
        BY <1>4, <3>2 DEF PostTask
      <4> QED
        BY <3>1, <4>1
    <3>3. CASE ~handler
      BY <1>4, <3>3 DEF PostTask
    <3> QED
      BY <3>2, <3>3
  <2> QED
    BY <1>4, <2>1, <2>2 DEF PostTask
<1> QED
  BY <1>1, <1>2, <1>3, <1>4 DEF Reporter

(* The dispatcher thread.                                                   *)
LEMMA WorkerType ==
  ASSUME TypeOK, Worker
  PROVE  TypeOK'
<1> USE PluginAssumption DEF TypeOK, lists, history, WorkerUnchanged
<1>0. worker.plugin \in Plugins \cup {None} /\ worker.todo \in PluginList /\ worker.id \in Nat
  BY DEF WorkerState
<1>1. CASE TakeTask
  <2>1. Head(queue) \in Task /\ queue' \in Seq(Task)
    BY <1>1 DEF TakeTask
  <2>2. /\ worker' \in WorkerState
        /\ worker'.pc = "next"
    BY <1>1, <2>1, ListTypes DEF TakeTask, WorkerState, IdleWorker, Task
  <2> QED
    BY <1>1, <2>1, <2>2 DEF TakeTask
<1>2. CASE EndTask
  <2>1. worker' \in WorkerState /\ worker'.pc = "idle"
    BY <1>2, ListTypes DEF EndTask, IdleWorker
  <2> QED
    BY <1>2, <2>1 DEF EndTask
<1>3. CASE ReturnInTime
  <2>1. worker' \in WorkerState /\ worker'.pc = "next"
    BY <1>3 DEF ReturnInTime, WorkerState
  <2> QED
    BY <1>3, <2>1 DEF ReturnInTime
<1>4. CASE TimedOut
  <2>1. worker.plugin \in Plugins
    BY <1>0, <1>4 DEF TimedOut
  <2>2. worker' \in WorkerState /\ worker'.plugin # None
    BY <1>4, <2>1 DEF TimedOut, WorkerState
  <2>3. timeOut' \in [Plugins -> Seq(Nat)] /\ late' \in [Plugins -> Seq(Nat)]
    <3>1. now \in Nat
      OBVIOUS
    <3>2. TimesAfter(timeOut[worker.plugin], now) \in Seq(Nat)
      BY <2>1, <3>1, TimesType
    <3>3. Append(late[worker.plugin], now) \in Seq(Nat)
      BY <2>1, <3>1
    <3> QED
      BY <1>4, <2>1, <3>2, <3>3 DEF TimedOut
  <2> QED
    BY <1>4, <2>2, <2>3 DEF TimedOut
<1>5. CASE Disabled
  <2>1. worker.plugin \in Plugins
    BY <1>0, <1>5 DEF Disabled
  <2>2. worker' \in WorkerState /\ worker'.plugin # None
    BY <1>5, <2>1 DEF Disabled, WorkerState
  <2> QED
    BY <1>5, <2>2 DEF Disabled
<1>6. CASE ErasePlugin
  <2>1. worker.plugin \in Plugins
    BY <1>0, <1>6 DEF ErasePlugin
  <2>2. worker' \in WorkerState /\ worker'.pc = "next"
    BY <1>6 DEF ErasePlugin, WorkerState
  <2> QED
    BY <1>6, <2>1, <2>2 DEF ErasePlugin
<1>7. CASE Enabled
  <2>1. worker.plugin \in Plugins
    BY <1>0, <1>7 DEF Enabled
  <2>2. worker' \in WorkerState /\ worker'.pc = "next"
    BY <1>7 DEF Enabled, WorkerState
  <2> QED
    BY <1>7, <2>1, <2>2 DEF Enabled
<1>8. ASSUME NEW p \in Plugins, NextPlugin(p) PROVE TypeOK'
  <2>1. [worker.todo EXCEPT ![p] = @ - 1] \in PluginList
    <3>1. worker.todo \in [Plugins -> Nat] /\ worker.todo[p] > 0
      BY <1>0, <1>8 DEF NextPlugin, PluginList
    <3>2. worker.todo[p] - 1 \in Nat
      BY <3>1
    <3> QED
      BY <3>1, <3>2 DEF PluginList
  <2>2. worker' \in WorkerState /\ (worker'.pc \notin {"idle", "next"} => worker'.plugin # None)
    <3>1. CASE p \in libs
      <4>1. worker' = [worker EXCEPT !.pc = "copied", !.plugin = p,
                                     !.todo = [worker.todo EXCEPT ![p] = @ - 1]]
        BY <1>8, <3>1 DEF NextPlugin, WorkerState
      <4> QED
        BY <2>1, <4>1 DEF WorkerState
    <3>2. CASE p \notin libs
      <4>1. worker' = [worker EXCEPT !.todo = [worker.todo EXCEPT ![p] = @ - 1]]
        BY <1>8, <3>2 DEF NextPlugin, WorkerState
      <4>2. worker'.pc = "next"
        BY <1>8, <4>1 DEF NextPlugin, WorkerState
      <4> QED
        BY <2>1, <4>1, <4>2 DEF WorkerState
    <3> QED
      BY <3>1, <3>2
  <2> QED
    BY <1>8, <2>2 DEF NextPlugin
<1>9. ASSUME NEW k \in Keys, OnPluginDisable(k) PROVE TypeOK'
  <2>1. worker.plugin \in Plugins
    BY <1>0, <1>9 DEF OnPluginDisable
  <2>2. worker' \in WorkerState /\ worker'.plugin # None
    BY <1>9, <2>1 DEF OnPluginDisable, WorkerState
  <2>3. subs' \in [Keys -> PluginList]
    <3>1. {k} \in SUBSET Keys
      BY <1>9
    <3>2. UnSubscribeResource(subs, worker.plugin, {k}) \in [Keys -> PluginList]
      BY <2>1, <3>1, SubscriptionTypes
    <3> QED
      BY <1>9, <3>2 DEF OnPluginDisable
  <2> QED
    BY <1>9, <2>2, <2>3 DEF OnPluginDisable
<1>10. ASSUME NEW k \in Keys, OnPluginInit(k) PROVE TypeOK'
  <2>1. worker.plugin \in Plugins
    BY <1>0, <1>10 DEF OnPluginInit
  <2>2. worker' \in WorkerState /\ worker'.plugin # None
    BY <1>10, <2>1 DEF OnPluginInit, WorkerState
  <2>3. subs' \in [Keys -> PluginList]
    <3>1. {k} \in SUBSET Keys
      BY <1>10
    <3>2. SubscribeResource(subs, worker.plugin, {k}) \in [Keys -> PluginList]
      BY <2>1, <3>1, SubscriptionTypes
    <3> QED
      BY <1>10, <3>2 DEF OnPluginInit
  <2> QED
    BY <1>10, <2>2, <2>3 DEF OnPluginInit
<1>11. CASE CallPlugin
  <2>1. worker.plugin \in Plugins
    BY <1>0, <1>11 DEF CallPlugin
  <2>2. worker' \in WorkerState /\ worker'.plugin # None
    BY <1>11, <2>1 DEF CallPlugin, WorkerState
  <2>3. last' \in [Plugins -> Nat]
    BY <1>0, <1>11 DEF CallPlugin
  <2> QED
    BY <1>11, <2>2, <2>3 DEF CallPlugin
<1> QED
  BY <1>1, <1>2, <1>3, <1>4, <1>5, <1>6, <1>7, <1>8, <1>9, <1>10, <1>11 DEF Worker

(* Type correctness: every variable of PluginMgr keeps its type; no list     *)
(* counts below zero, and a dispatcher that calls or repairs has a plugin.   *)
THEOREM TypeCorrect == Spec => []TypeOK
<1>1. TypeOK /\ [Next]_vars => TypeOK'
  <2> SUFFICES ASSUME TypeOK, [Next]_vars PROVE TypeOK'
    OBVIOUS
  <2>1. CASE UNCHANGED vars
    BY <2>1 DEF vars, lists, history, TypeOK
  <2>2. CASE Next
    BY <2>2, ManagerType, ReporterType, WorkerType DEF Next
  <2> QED
    BY <2>1, <2>2
<1> QED
  BY <1>1, InitType, PTL DEF Spec

-----------------------------------------------------------------------------
(* A plugin disabled forever.  What makes BannedIsOff inductive: a plugin   *)
(* that waits to be loaded was never called, the dispatcher has a plugin in *)
(* hand only from the copy of its entry to the end of the repair, and a     *)
(* plugin under repair is not initialised.                                  *)
OffInv ==
  /\ BannedIsOff
  /\ toLoad \cap (libs \cup banned) = {} /\ worker.plugin \notin toLoad
  /\ worker.pc \in {"idle", "next"} => worker.plugin = None
  /\ worker.pc \in {"ban", "disable", "erase", "enable"} => worker.plugin \notin active

(* A step of the dispatcher keeps OffInv.                                   *)
LEMMA WorkerOff ==
  ASSUME TypeOK, OffInv, Worker
  PROVE  OffInv'
<1> USE PluginAssumption DEF TypeOK, OffInv, BannedIsOff, lists, history, WorkerUnchanged
<1>1. CASE TakeTask
  <2>1. worker'.pc = "next" /\ worker'.plugin = None
    BY <1>1 DEF TakeTask, IdleWorker
  <2> QED
    BY <1>1, <2>1 DEF TakeTask
<1>2. CASE EndTask
  <2>1. worker'.pc = "idle" /\ worker'.plugin = None
    BY <1>2 DEF EndTask, IdleWorker
  <2> QED
    BY <1>2, <2>1 DEF EndTask
<1>3. CASE ReturnInTime
  <2>1. worker'.pc = "next" /\ worker'.plugin = None
    BY <1>3 DEF ReturnInTime, WorkerState
  <2> QED
    BY <1>3, <2>1 DEF ReturnInTime
<1>4. CASE TimedOut
  <2>1. worker'.pc \in {"ban", "disable"} /\ worker'.plugin = worker.plugin
    BY <1>4 DEF TimedOut, WorkerState
  <2> QED
    BY <1>4, <2>1 DEF TimedOut
<1>5. CASE Disabled
  <2>1. worker'.pc \in {"erase", "enable"} /\ worker'.plugin = worker.plugin
    BY <1>5 DEF Disabled, WorkerState
  <2> QED
    BY <1>5, <2>1 DEF Disabled
<1>6. CASE ErasePlugin
  <2>1. worker'.pc = "next" /\ worker'.plugin = None
    BY <1>6 DEF ErasePlugin, WorkerState
  <2> QED
    BY <1>6, <2>1 DEF ErasePlugin
<1>7. CASE Enabled
  <2>1. worker'.pc = "next" /\ worker'.plugin = None
    BY <1>7 DEF Enabled, WorkerState
  <2> QED
    BY <1>7, <2>1 DEF Enabled
<1>8. ASSUME NEW p \in Plugins, NextPlugin(p) PROVE OffInv'
  <2>1. CASE p \in libs
    <3>1. worker'.pc = "copied" /\ worker'.plugin = p
      BY <1>8, <2>1 DEF NextPlugin, WorkerState
    <3> QED
      BY <1>8, <2>1, <3>1 DEF NextPlugin
  <2>2. CASE p \notin libs
    <3>1. worker'.pc = "next" /\ worker'.plugin = worker.plugin
      BY <1>8, <2>2 DEF NextPlugin, WorkerState
    <3> QED
      BY <1>8, <3>1 DEF NextPlugin
  <2> QED
    BY <2>1, <2>2
<1>9. ASSUME NEW k \in Keys, OnPluginDisable(k) PROVE OffInv'
  <2>1. worker'.pc = worker.pc /\ worker'.plugin = worker.plugin
    BY <1>9 DEF OnPluginDisable, WorkerState
  <2> QED
    BY <1>9, <2>1 DEF OnPluginDisable
<1>10. ASSUME NEW k \in Keys, OnPluginInit(k) PROVE OffInv'
  <2>1. worker'.pc = worker.pc /\ worker'.plugin = worker.plugin
    BY <1>10 DEF OnPluginInit, WorkerState
  <2> QED
    BY <1>10, <2>1 DEF OnPluginInit
<1>11. CASE CallPlugin
  <2>1. worker'.pc = "call" /\ worker'.plugin = worker.plugin
    BY <1>11 DEF CallPlugin, WorkerState
  <2> QED
    BY <1>11, <2>1 DEF CallPlugin
<1> QED
  BY <1>1, <1>2, <1>3, <1>4, <1>5, <1>6, <1>7, <1>8, <1>9, <1>10, <1>11 DEF Worker

(* Any step keeps OffInv.                                                   *)
LEMMA StepOff ==
  ASSUME TypeOK, OffInv, [Next]_vars
  PROVE  OffInv'
<1> USE PluginAssumption DEF TypeOK, OffInv, BannedIsOff, lists, history
<1>1. CASE UNCHANGED vars
  BY <1>1 DEF vars
<1>2. ASSUME NEW p \in Plugins, LoadPlugin(p) PROVE OffInv'
  BY <1>2 DEF LoadPlugin
<1>3. ASSUME NEW p \in Plugins, UnSubscribeAllTypes(p) \/ UnSubscribeAllValues(p) PROVE OffInv'
  BY <1>3 DEF UnSubscribeAllTypes, UnSubscribeAllValues
<1>4. CASE CompletePluginInitialization
  BY <1>4 DEF CompletePluginInitialization
<1>5. ASSUME NEW r \in Reporters, Reporter(r) PROVE OffInv'
  BY <1>5 DEF Reporter, DispatchResource, GetPluginListByResType,
     GetPluginListByResTypeAndValue, PostTask, ReporterUnchanged
<1>6. CASE Worker
  BY <1>6, WorkerOff
<1>7. CASE UnLoadPlugin
  BY <1>7 DEF UnLoadPlugin, StopUnchanged
<1>8. CASE ClearResource \/ RemoveDispatcher
  BY <1>8 DEF ClearResource, RemoveDispatcher, StopUnchanged
<1>9. CASE Tick
  BY <1>9 DEF Tick
<1> QED
  BY <1>1, <1>2, <1>3, <1>4, <1>5, <1>6, <1>7, <1>8, <1>9 DEF Next

LEMMA InitOff == Init => OffInv
  BY PluginAssumption DEF Init, OffInv, BannedIsOff, IdleWorker

(* A plugin RepairPlugin disabled forever stays out of pluginLibMap_, is not *)
(* initialised again and is not called, whatever tasks still name it.        *)
THEOREM BannedStaysOff == Spec => []BannedIsOff
<1>1. Init => TypeOK /\ OffInv
  BY InitType, InitOff
<1>2. OffInv => BannedIsOff
  BY DEF OffInv
<1> QED
  BY <1>1, <1>2, StepOff, TypeCorrect, PTL DEF Spec

-----------------------------------------------------------------------------
(* The order of the calls.  Tasks in the queue are numbered upwards, above   *)
(* the task in hand and above every call made; a plugin of the task in hand  *)
(* that is still to be called, or whose entry was just copied, was not       *)
(* called for it; and it is named once.                                      *)
OrderInv ==
  /\ \A r \in Reporters, p \in Plugins :
       reporter[r].pc = "post" => reporter[r].list[p] <= 1
  /\ \A i \in 1..Len(queue) :
       /\ worker.id < queue[i].id /\ queue[i].id <= posted
       /\ \A p \in Plugins : queue[i].list[p] <= 1 /\ last[p] < queue[i].id
  /\ \A i, j \in 1..Len(queue) : i < j => queue[i].id < queue[j].id
  /\ worker.id <= posted
  /\ \A p \in Plugins :
       /\ last[p] <= posted /\ worker.todo[p] <= 1
       /\ worker.todo[p] > 0 => last[p] < worker.id
  /\ worker.pc = "copied"
       => worker.todo[worker.plugin] = 0 /\ last[worker.plugin] < worker.id

LEMMA InitOrder == Init => OrderInv
  BY PluginAssumption DEF Init, OrderInv, IdleWorker, IdleReporter, NoList

(* The indices of a sequence that grew by one.                              *)
LEMMA LastIndex ==
  ASSUME NEW n \in Nat, NEW j \in 1..(n + 1)
  PROVE  j \in 1..n \/ j = n + 1
  OBVIOUS

(* A list made unique names no plugin twice.                                *)
LEMMA UniqueOnce == \A list : \A p \in Plugins : Unique(list)[p] <= 1
  BY DEF Unique

(* The steps of a reporter keep OrderInv.                                   *)
LEMMA ReporterOrder ==
  ASSUME TypeOK, OrderInv, NEW r \in Reporters, Reporter(r)
  PROVE  OrderInv'
<1> USE PluginAssumption DEF TypeOK, OrderInv, lists, history, ReporterUnchanged
<1>1. ASSUME NEW t \in Types, NEW v \in Values, DispatchResource(r, t, v) PROVE OrderInv'
  BY <1>1 DEF DispatchResource
<1>2. CASE GetPluginListByResType(r)
  <2>1. reporter'[r].pc = "exact" /\ \A q \in Reporters \ {r} : reporter'[q] = reporter[q]
    BY <1>2 DEF GetPluginListByResType, ReporterState
  <2> QED
    BY <1>2, <2>1 DEF GetPluginListByResType
<1>3. CASE GetPluginListByResTypeAndValue(r)
  <2> DEFINE all == [p \in Plugins |-> reporter[r].list[p] + subs[reporter[r].key][p]]
  <2>1. \/ reporter'[r] = IdleReporter
        \/ reporter'[r].list = Unique(all)
    BY <1>3 DEF GetPluginListByResTypeAndValue, ReporterState
  <2>2. \A q \in Reporters \ {r} : reporter'[q] = reporter[q]
    BY <1>3 DEF GetPluginListByResTypeAndValue
  <2>3. \A p \in Plugins : Unique(all)[p] <= 1
    BY UniqueOnce
  <2>4. IdleReporter.pc = "idle"
    BY DEF IdleReporter
  <2>5. \A q \in Reporters, p \in Plugins :
          reporter'[q].pc = "post" => reporter'[q].list[p] <= 1
    BY <2>1, <2>2, <2>3, <2>4
  <2> QED
    BY <1>3, <2>5 DEF GetPluginListByResTypeAndValue
<1>4. CASE PostTask(r)
  <2>1. \A q \in Reporters, p \in Plugins :
          reporter'[q].pc = "post" => reporter'[q].list[p] <= 1
    BY <1>4 DEF PostTask, IdleReporter
  <2>2. CASE handler
    <3> DEFINE new == [id |-> posted + 1, list |-> reporter[r].list]
    <3>1. queue' = Append(queue, new) /\ posted' = posted + 1 /\ posted \in Nat
      BY <1>4, <2>2 DEF PostTask
    <3>2. new \in Task
      BY <3>1 DEF Task, ReporterState
    <3>3. Len(queue') = Len(queue) + 1 /\ queue'[Len(queue) + 1] = new
          /\ \A i \in 1..Len(queue) : queue'[i] = queue[i]
      BY <3>1, <3>2
    <3>4. \A i \in 1..Len(queue) : queue[i].id \in Nat
      <4>1. \A i \in 1..Len(queue) : queue[i] \in Task
        OBVIOUS
      <4> QED
        BY <4>1 DEF Task
    <3>5. worker.id \in Nat /\ \A p \in Plugins : last[p] \in Nat
      BY DEF WorkerState
    <3>6. \A i \in 1..Len(queue') :
           /\ worker.id < queue'[i].id /\ queue'[i].id <= posted'
           /\ \A p \in Plugins : queue'[i].list[p] <= 1 /\ last[p] < queue'[i].id
      <4> SUFFICES ASSUME NEW i \in 1..Len(queue')
                   PROVE  /\ worker.id < queue'[i].id /\ queue'[i].id <= posted'
                          /\ \A p \in Plugins : queue'[i].list[p] <= 1 /\ last[p] < queue'[i].id
        OBVIOUS
      <4>1. CASE i = Len(queue) + 1
        BY <1>4, <3>1, <3>3, <3>5, <4>1 DEF PostTask
      <4>2. CASE i \in 1..Len(queue)
        BY <3>1, <3>3, <3>4, <4>2
      <4> QED
        BY <3>3, <4>1, <4>2
    <3>7. \A i, j \in 1..Len(queue') : i < j => queue'[i].id < queue'[j].id
      <4> SUFFICES ASSUME NEW i \in 1..Len(queue'), NEW j \in 1..Len(queue'), i < j
                   PROVE  queue'[i].id < queue'[j].id
        OBVIOUS
      <4>1. i \in 1..Len(queue) /\ queue'[i] = queue[i]
        BY <3>3
      <4>2. CASE j \in 1..Len(queue)
        BY <3>3, <4>1, <4>2
      <4>3. CASE j = Len(queue) + 1
        <5>1. queue'[j].id = posted + 1
          BY <3>3, <4>3
        <5>2. queue[i].id <= posted /\ queue[i].id \in Nat
          BY <3>4, <4>1
        <5> QED
          BY <3>1, <4>1, <5>1, <5>2
      <4>4. Len(queue) \in Nat
        OBVIOUS
      <4>5. j \in 1..Len(queue) \/ j = Len(queue) + 1
        <5>1. j \in 1..(Len(queue) + 1)
          BY <3>3
        <5> QED
          BY <4>4, <5>1, LastIndex
      <4> QED
        BY <4>2, <4>3, <4>5
    <3> QED
      BY <1>4, <2>1, <3>1, <3>5, <3>6, <3>7 DEF PostTask
  <2>3. CASE ~handler
    BY <1>4, <2>1, <2>3 DEF PostTask
  <2> QED
    BY <2>2, <2>3
<1> QED
  BY <1>1, <1>2, <1>3, <1>4 DEF Reporter

(* Tasks are numbered by natural numbers.                                    *)
LEMMA TaskNumber ==
  ASSUME NEW q \in Seq(Task), NEW i \in 1..Len(q)
  PROVE  q[i].id \in Nat
<1>1. q[i] \in Task
  OBVIOUS
<1> QED
  BY <1>1 DEF Task

(* The steps of the dispatcher keep OrderInv.                               *)
LEMMA WorkerOrder ==
  ASSUME TypeOK, OrderInv, Worker
  PROVE  OrderInv'
<1> USE PluginAssumption DEF TypeOK, OrderInv, lists, history, WorkerUnchanged
<1>0. /\ posted \in Nat /\ worker.id \in Nat /\ worker.todo \in [Plugins -> Nat]
      /\ \A p \in Plugins : last[p] \in Nat
  BY DEF WorkerState, PluginList
<1>1. CASE TakeTask
  <2>1. /\ Len(queue) > 0 /\ Len(queue') = Len(queue) - 1
        /\ \A i \in 1..Len(queue') : queue'[i] = queue[i + 1]
    BY <1>1 DEF TakeTask
  <2>2. /\ worker'.id = queue[1].id /\ worker'.todo = queue[1].list /\ worker'.pc = "next"
    BY <1>1 DEF TakeTask, IdleWorker
  <2>3. \A i \in 1..Len(queue) : queue[i] \in Task
    OBVIOUS
  <2>4. /\ UNCHANGED <<posted, last, reporter>>
    BY <1>1 DEF TakeTask
  <2>5. 1 \in 1..Len(queue) /\ \A i \in 1..Len(queue') : i + 1 \in 1..Len(queue) /\ 1 < i + 1
    BY <2>1
  <2>6. \A i \in 1..Len(queue') :
           /\ worker'.id < queue'[i].id /\ queue'[i].id <= posted
           /\ \A p \in Plugins : queue'[i].list[p] <= 1 /\ last[p] < queue'[i].id
    BY ZenonT(60), <2>1, <2>2, <2>5
  <2>7. \A i, j \in 1..Len(queue') : i < j => queue'[i].id < queue'[j].id
    <3> SUFFICES ASSUME NEW i \in 1..Len(queue'), NEW j \in 1..Len(queue'), i < j
                 PROVE  queue'[i].id < queue'[j].id
      OBVIOUS
    <3>1. i + 1 \in 1..Len(queue) /\ j + 1 \in 1..Len(queue) /\ i + 1 < j + 1
      BY <2>5
    <3> QED
      BY <2>1, <3>1
  <2>8. worker'.id <= posted /\ \A p \in Plugins : worker'.todo[p] <= 1 /\ last[p] < worker'.id
    BY <2>2, <2>5
  <2> QED
    BY <2>2, <2>4, <2>6, <2>7, <2>8
<1>2. CASE EndTask
  <2>1. worker'.pc = "idle" /\ worker'.id = 0 /\ \A p \in Plugins : worker'.todo[p] = 0
    BY <1>2 DEF EndTask, IdleWorker, NoList
  <2>2. \A i \in 1..Len(queue) : 0 < queue[i].id
    <3> SUFFICES ASSUME NEW i \in 1..Len(queue) PROVE 0 < queue[i].id
      OBVIOUS
    <3>1. queue \in Seq(Task) /\ worker.id < queue[i].id
      OBVIOUS
    <3> HIDE DEF TypeOK, OrderInv
    <3>2. queue[i].id \in Nat
      BY <3>1, TaskNumber
    <3> QED
      BY <1>0, <3>1, <3>2
  <2> QED
    BY <1>0, <1>2, <2>1, <2>2 DEF EndTask
<1>3. CASE \/ ReturnInTime \/ TimedOut \/ Disabled \/ ErasePlugin \/ Enabled
           \/ \E k \in Keys : OnPluginDisable(k) \/ OnPluginInit(k)
  <2>1. worker'.id = worker.id /\ worker'.todo = worker.todo /\ worker'.pc # "copied"
    <3>1. CASE ReturnInTime \/ ErasePlugin \/ Enabled
      BY <3>1 DEF ReturnInTime, ErasePlugin, Enabled, WorkerState
    <3>4. CASE TimedOut
      BY <3>4 DEF TimedOut, WorkerState
    <3>2. CASE Disabled
      BY <3>2 DEF Disabled, WorkerState
    <3>3. CASE \E k \in Keys : OnPluginDisable(k) \/ OnPluginInit(k)
      BY <3>3 DEF OnPluginDisable, OnPluginInit, WorkerState
    <3> QED
      BY <1>3, <3>1, <3>2, <3>3, <3>4
  <2>2. UNCHANGED <<queue, posted, reporter, last>>
    BY <1>3 DEF ReturnInTime, TimedOut, Disabled, ErasePlugin, Enabled, OnPluginDisable,
       OnPluginInit
  <2> QED
    BY <2>1, <2>2
<1>4. ASSUME NEW p \in Plugins, NextPlugin(p) PROVE OrderInv'
  <2>1. /\ worker'.id = worker.id /\ worker'.todo = [worker.todo EXCEPT ![p] = @ - 1]
        /\ UNCHANGED <<queue, posted, reporter>>
    BY ZenonT(60), <1>4 DEF NextPlugin, WorkerState
  <2>2. worker'.todo[p] = 0 /\ \A q \in Plugins \ {p} : worker'.todo[q] = worker.todo[q]
    BY <1>0, <1>4, <2>1 DEF NextPlugin
  <2>3. last' = last
    BY <1>4 DEF NextPlugin
  <2>4. last[p] < worker.id
    BY <1>4 DEF NextPlugin
  <2>5. worker'.pc = "copied" => worker'.plugin = p
    BY <1>4 DEF NextPlugin, WorkerState
  <2>6. \A q \in Plugins :
          /\ last[q] <= posted /\ worker'.todo[q] <= 1
          /\ worker'.todo[q] > 0 => last[q] < worker.id
    <3> SUFFICES ASSUME NEW q \in Plugins
                 PROVE  /\ last[q] <= posted /\ worker'.todo[q] <= 1
                        /\ worker'.todo[q] > 0 => last[q] < worker.id
      OBVIOUS
    <3>1. CASE q = p
      BY <1>0, <2>2, <3>1
    <3>2. CASE q # p
      BY <2>2, <3>2
    <3> QED
      BY <3>1, <3>2
  <2> QED
    BY <2>1, <2>2, <2>3, <2>4, <2>5, <2>6
<1>5. CASE CallPlugin
  <2>1. PICK p \in Plugins : p = worker.plugin
    BY <1>5 DEF CallPlugin, WorkerState
  <2>2. /\ worker'.id = worker.id /\ worker'.todo = worker.todo /\ worker'.pc = "call"
        /\ UNCHANGED <<queue, posted, reporter>>
    BY <1>5 DEF CallPlugin, WorkerState
  <2>3. last'[p] = worker.id /\ worker.todo[p] = 0
    BY <1>5, <2>1 DEF CallPlugin
  <2>4. \A q \in Plugins \ {p} : last'[q] = last[q]
    BY <1>5, <2>1 DEF CallPlugin
  <2>5. \A i \in 1..Len(queue) : \A q \in Plugins : last'[q] < queue[i].id
    BY <2>3, <2>4
  <2>6. \A q \in Plugins :
          /\ last'[q] <= posted /\ worker.todo[q] <= 1
          /\ worker.todo[q] > 0 => last'[q] < worker.id
    <3> SUFFICES ASSUME NEW q \in Plugins
                 PROVE  /\ last'[q] <= posted /\ worker.todo[q] <= 1
                        /\ worker.todo[q] > 0 => last'[q] < worker.id
      OBVIOUS
    <3>1. CASE q = p
      BY <1>0, <2>3, <3>1
    <3>2. CASE q # p
      BY <2>4, <3>2
    <3> QED
      BY <3>1, <3>2
  <2> QED
    BY <2>2, <2>5, <2>6
<1> QED
  BY <1>1, <1>2, <1>3, <1>4, <1>5 DEF Worker

(* Any step keeps OrderInv.                                                 *)
LEMMA StepOrder ==
  ASSUME TypeOK, OrderInv, [Next]_vars
  PROVE  OrderInv'
<1>1. ASSUME UNCHANGED <<posted, reporter, worker, last>>, queue' \in {queue, <<>>}
      PROVE  OrderInv'
  BY <1>1 DEF OrderInv
<1> USE DEF lists, history, StopUnchanged
<1>2. CASE UNCHANGED vars
  BY <1>1, <1>2 DEF vars
<1>3. ASSUME NEW p \in Plugins,
             LoadPlugin(p) \/ UnSubscribeAllTypes(p) \/ UnSubscribeAllValues(p)
      PROVE  OrderInv'
  BY <1>1, <1>3 DEF LoadPlugin, UnSubscribeAllTypes, UnSubscribeAllValues
<1>4. CASE CompletePluginInitialization
  BY <1>1, <1>4 DEF CompletePluginInitialization
<1>5. CASE UnLoadPlugin \/ ClearResource \/ RemoveDispatcher
  BY <1>1, <1>5 DEF UnLoadPlugin, ClearResource, RemoveDispatcher
<1>6. CASE Tick
  BY <1>1, <1>6 DEF Tick
<1> QED
  BY <1>2, <1>3, <1>4, <1>5, <1>6, ReporterOrder, WorkerOrder DEF Next

(* A plugin whose entry is copied was not called for the task in hand.        *)
LEMMA CallBegins ==
  ASSUME OrderInv, worker.pc = "copied"
  PROVE  last[worker.plugin] < worker.id
  BY DEF OrderInv

(* Each plugin is called at most once for a report and for reports in the    *)
(* order of PostTask, through repairs, bans and a stop of the service.       *)
THEOREM CallsInOrder == Spec => CalledInOrder
<1>1. Init => TypeOK /\ OrderInv
  BY InitType, InitOrder
<1>2. Spec => []OrderInv
  BY <1>1, StepOrder, TypeCorrect, PTL DEF Spec
<1>3. OrderInv /\ [Next]_vars
        => [(worker.pc = "copied" /\ worker'.pc = "call") => last[worker.plugin] < worker.id]_vars
  BY CallBegins
<1> QED
  BY <1>2, <1>3, TypeCorrect, PTL DEF Spec, CalledInOrder

-----------------------------------------------------------------------------
(* Which plugins are disabled forever.  timeOutTime holds the last two of    *)
(* all the timeouts of a plugin ...                                          *)
Recent(times, all) ==
  /\ Len(times) = IF Len(all) < 2 THEN Len(all) ELSE 2
  /\ \A i \in 1..Len(times) : times[i] = all[Len(all) - Len(times) + i]

(* ... as long as there was no burst among them; afterwards the plugin is    *)
(* disabled forever, or about to be.                                         *)
Kept(p) == p \notin banned /\ ~(worker.plugin = p /\ worker.pc \in {"ban", "erase"})
BurstInv ==
  \A p \in Plugins :
    /\ \A i \in 1..Len(late[p]) : late[p][i] <= now
    /\ Kept(p) => ~Burst(late[p]) /\ Recent(timeOut[p], late[p])
    /\ ~Kept(p) => Burst(late[p])

(* What a division returns.                                                  *)
LEMMA Division ==
  ASSUME NEW n \in Nat, NEW m \in Nat \ {0}
  PROVE  n = m * (n \div m) + (n % m) /\ n % m \in 0..(m - 1) /\ n \div m \in Nat
  OBVIOUS

LEMMA DivisionUnique ==
  ASSUME NEW n \in Nat, NEW m \in Nat \ {0}, NEW q \in Nat, NEW r \in 0..(m - 1),
         n = m * q + r
  PROVE  n % m = r
<1>1. n % m \in 0..(m-1) /\ n \div m \in Nat /\ n = m * (n \div m) + (n % m)
  BY Division
<1>2. CASE n \div m < q
  <2>1. q >= (n \div m) + 1
    BY <1>1, <1>2
  <2>2. m * q >= m * (n \div m) + m
    BY <1>1, <2>1
  <2> QED
    BY <1>1, <2>2
<1>3. CASE n \div m > q
  <2>1. n \div m >= q + 1
    BY <1>1, <1>3
  <2>2. m * (n \div m) >= m * q + m
    BY <1>1, <2>1
  <2> QED
    BY <1>1, <2>2
<1>4. CASE n \div m = q
  BY <1>1, <1>4
<1> QED
  BY <1>1, <1>2, <1>3, <1>4

(* The int32_t with a time is below the window exactly when the time is close:  *)
(* short, or so long that it wraps.                                             *)
LEMMA Int32Close ==
  ASSUME NEW n \in Nat
  PROVE  Int32(n) < Window <=> Close(n)
<1> DEFINE m == 2 * Wrap  q == n \div m  r == n % m
<1>1. m \in Nat \ {0} /\ m = Wrap + Wrap
  BY PluginAssumption
<1> HIDE DEF m
<1>2. n = m * q + r /\ r \in 0..(m - 1) /\ q \in Nat
  BY <1>1, Division
<1> HIDE DEF q, r
<1>3. CASE r < Wrap
  <2>1. n + Wrap = m * q + (r + Wrap) /\ r + Wrap \in 0..(m - 1) /\ n + Wrap \in Nat
    BY PluginAssumption, <1>1, <1>2, <1>3
  <2>2. (n + Wrap) % m = r + Wrap
    BY <1>1, <1>2, <2>1, DivisionUnique
  <2>3. Int32(n) = r
    BY PluginAssumption, <1>2, <2>2 DEF Int32, m
  <2> QED
    BY PluginAssumption, <1>2, <1>3, <2>3 DEF Close, m, r
<1>4. CASE r >= Wrap
  <2>1. /\ n + Wrap = m * (q + 1) + (r - Wrap) /\ r - Wrap \in 0..(m - 1)
        /\ n + Wrap \in Nat /\ q + 1 \in Nat
    BY PluginAssumption, <1>1, <1>2, <1>4
  <2>2. (n + Wrap) % m = r - Wrap
    BY <1>1, <2>1, DivisionUnique
  <2>3. Int32(n) = r - (Wrap + Wrap) /\ Int32(n) < 0
    BY PluginAssumption, <1>1, <1>2, <2>2 DEF Int32, m
  <2> QED
    BY PluginAssumption, <1>2, <1>4, <2>3 DEF Close, m, r
<1> QED
  BY PluginAssumption, <1>1, <1>2, <1>3, <1>4

(* A timeout makes a burst if and only if RepairPlugin finds it too often,   *)
(* and otherwise the list again holds the last two.                          *)
LEMMA TimeoutStep ==
  ASSUME NEW times \in Seq(Nat), NEW all \in Seq(Nat), NEW t \in Nat,
         Recent(times, all), ~Burst(all), \A i \in 1..Len(all) : all[i] <= t
  PROVE  /\ Burst(Append(all, t)) <=> TooOften(times, t)
         /\ ~TooOften(times, t) => Recent(TimesAfter(times, t), Append(all, t))
<1> DEFINE new == Append(all, t)  n == Len(all)  tt == Append(times, t)
<1>0. n \in Nat /\ Len(times) \in Nat
  OBVIOUS
<1>1. Len(new) = n + 1 /\ new[n + 1] = t /\ \A i \in 1..n : new[i] = all[i]
  OBVIOUS
<1>2. Len(tt) = Len(times) + 1 /\ tt[Len(times) + 1] = t
      /\ \A i \in 1..Len(times) : tt[i] = times[i]
  OBVIOUS
<1>3. \A i \in 1..n : all[i] \in Nat
  OBVIOUS
<1>4. CASE n < 2
  <2>1. Len(times) = n
    BY <1>4 DEF Recent
  <2>2. ~TooOften(times, t)
    BY <1>0, <1>2, <1>4, <2>1 DEF TooOften, Full, MAX_PLUGIN_TIMEOUT_TIMES
  <2>3. ~Burst(new)
    BY <1>0, <1>1, <1>4 DEF Burst
  <2>4. TimesAfter(times, t) = tt
    BY <1>0, <1>2, <1>4, <2>1, <2>2 DEF TimesAfter, Full, MAX_PLUGIN_TIMEOUT_TIMES
  <2>5. Recent(tt, new)
    <3>1. Len(tt) = n + 1 /\ Len(new) = n + 1
      BY <1>1, <1>2, <2>1
    <3>2. ASSUME NEW i \in 1..Len(tt) PROVE tt[i] = new[Len(new) - Len(tt) + i]
      <4>1. Len(new) - Len(tt) + i = i
        BY <1>0, <3>1
      <4>2. CASE i = n + 1
        BY <1>1, <1>2, <2>1, <4>1, <4>2
      <4>3. CASE i \in 1..n
        <5>1. times[i] = all[n - Len(times) + i]
          BY <2>1, <4>3 DEF Recent
        <5> QED
          BY <1>0, <1>1, <1>2, <2>1, <4>1, <4>3, <5>1
      <4> QED
        BY <1>0, <3>1, <4>2, <4>3
    <3> QED
      BY <1>0, <1>4, <3>1, <3>2 DEF Recent
  <2> QED
    BY <2>2, <2>3, <2>4, <2>5
<1>5. CASE n >= 2
  <2>1. Len(times) = 2 /\ times[1] = all[n - 1] /\ times[2] = all[n]
    <3>1. Len(times) = 2
      BY <1>0, <1>5 DEF Recent
    <3>2. times[1] = all[n - 2 + 1] /\ times[2] = all[n - 2 + 2]
      <4>1. 1 \in 1..Len(times) /\ 2 \in 1..Len(times)
        BY <3>1
      <4>2. times[1] = all[n - Len(times) + 1] /\ times[2] = all[n - Len(times) + 2]
        BY <4>1 DEF Recent
      <4> QED
        BY <3>1, <4>2
    <3>3. n - 2 + 1 = n - 1 /\ n - 2 + 2 = n
      BY <1>0
    <3> QED
      BY <3>1, <3>2, <3>3
  <2>2. Full(tt)
    BY <1>2, <2>1 DEF Full, MAX_PLUGIN_TIMEOUT_TIMES
  <2>3. Head(times) = all[n - 1]
    BY <2>1
  <2>4. n - 1 \in 1..n
    BY <1>0, <1>5
  <2>5. t - all[n - 1] \in Nat
    <3>1. all[n - 1] \in Nat /\ all[n - 1] <= t
      BY <1>3, <2>4
    <3> QED
      BY <3>1
  <2>6. TooOften(times, t) <=> Close(t - all[n - 1])
    BY <2>2, <2>3, <2>5, Int32Close DEF TooOften
  <2>7. Burst(new) <=> Close(t - all[n - 1])
    <3>1. Len(new) - 2 = n - 1 /\ new[n + 1] = t /\ new[n - 1] = all[n - 1]
      BY <1>0, <1>1, <2>4
    <3>2. ASSUME Close(t - all[n - 1]) PROVE Burst(new)
      <4>1. n - 1 \in 1..(Len(new) - 2) /\ (n - 1) + 2 = n + 1
        <5>1. n - 1 \in 1..(n - 1) /\ (n - 1) + 2 = n + 1
          BY SMTT(60), <1>0, <1>5
        <5> QED
          BY <3>1, <5>1
      <4>2. Close(new[(n - 1) + 2] - new[n - 1])
        BY <3>1, <3>2, <4>1
      <4> QED
        BY <4>1, <4>2 DEF Burst
    <3>3. ASSUME Burst(new) PROVE Close(t - all[n - 1])
      <4>1. PICK i \in 1..(Len(new) - 2) : Close(new[i + 2] - new[i])
        BY SMTT(60), <3>3 DEF Burst
      <4>2. i \in 1..(n - 1)
        BY ZenonT(60), <3>1, <4>1
      <4>3. CASE i = n - 1
        <5>1. i + 2 = n + 1
          BY <1>0, <4>3
        <5> QED
          BY ZenonT(60), <3>1, <4>1, <4>3, <5>1
      <4>4. CASE i < n - 1
        <5>1. i \in 1..(n - 2) /\ i \in 1..n /\ i + 2 \in 1..n
          BY SMTT(60), <1>0, <4>2, <4>4
        <5>2. Close(all[i + 2] - all[i])
          BY <1>1, <4>1, <5>1
        <5> QED
          BY <5>1, <5>2 DEF Burst
      <4> QED
        BY <1>0, <4>2, <4>3, <4>4
    <3> QED
      BY <3>2, <3>3
  <2>8. ASSUME ~TooOften(times, t) PROVE Recent(TimesAfter(times, t), new)
    <3>1. TimesAfter(times, t) = Tail(tt)
      BY <2>2, <2>8 DEF TimesAfter
    <3>2. Len(tt) = 3 /\ tt[2] = all[n] /\ tt[3] = t /\ tt \in Seq(Nat)
      BY <1>2, <2>1
    <3>3. Len(Tail(tt)) = 2 /\ Tail(tt)[1] = all[n] /\ Tail(tt)[2] = t
      <4>1. tt # <<>>
        BY SMTT(60), EmptySeq, <3>2
      <4>2. Len(Tail(tt)) = Len(tt) - 1 /\ \A i \in 1..Len(Tail(tt)) : Tail(tt)[i] = tt[i + 1]
        BY <3>2, <4>1, HeadTailProperties
      <4>3. Len(Tail(tt)) = 2 /\ 1 \in 1..2 /\ 2 \in 1..2 /\ 1 + 1 = 2 /\ 2 + 1 = 3
        BY <3>2, <4>2
      <4>4. Tail(tt)[1] = tt[1 + 1] /\ Tail(tt)[2] = tt[2 + 1]
        BY <4>2, <4>3
      <4> QED
        BY <3>2, <4>3, <4>4
    <3>4. /\ ~(Len(new) < 2) /\ Len(new) - 2 + 1 = n /\ Len(new) - 2 + 2 = n + 1
          /\ new[n] = all[n]
      BY <1>0, <1>1, <1>5
    <3>5. \A i \in 1..2 : Tail(tt)[i] = new[Len(new) - 2 + i]
      <4>1. \A i \in 1..2 : i = 1 \/ i = 2
        OBVIOUS
      <4> QED
        BY <1>1, <3>3, <3>4, <4>1
    <3> QED
      BY ZenonT(60), <3>1, <3>3, <3>4, <3>5 DEF Recent
  <2> QED
    BY <2>6, <2>7, <2>8
<1> QED
  BY <1>0, <1>4, <1>5

LEMMA InitBurst == Init => BurstInv
<1> SUFFICES ASSUME Init, NEW p \in Plugins
             PROVE  /\ \A i \in 1..Len(late[p]) : late[p][i] <= now
                    /\ Kept(p) /\ ~Burst(late[p]) /\ Recent(timeOut[p], late[p])
  BY DEF BurstInv
<1>1. late[p] = <<>> /\ timeOut[p] = <<>> /\ Kept(p)
  BY DEF Init, Kept, IdleWorker
<1> QED
  BY <1>1 DEF Burst, Recent

(* Steps that touch neither the timeouts nor who is kept keep BurstInv.      *)
LEMMA BurstStays ==
  ASSUME TypeOK, BurstInv, UNCHANGED <<late, timeOut>>, now' \in Nat, now <= now',
         \A p \in Plugins : Kept(p)' = Kept(p)
  PROVE  BurstInv'
<1> SUFFICES ASSUME NEW p \in Plugins
             PROVE  /\ \A i \in 1..Len(late[p]) : late[p][i] <= now'
                    /\ Kept(p) => ~Burst(late[p]) /\ Recent(timeOut[p], late[p])
                    /\ ~Kept(p) => Burst(late[p])
  BY DEF BurstInv, Burst, Recent
<1>1. \A i \in 1..Len(late[p]) : late[p][i] \in Nat /\ late[p][i] <= now
  <2>1. late[p] \in Seq(Nat)
    BY DEF TypeOK
  <2> QED
    BY <2>1 DEF BurstInv
<1>2. now \in Nat
  BY PluginAssumption DEF TypeOK
<1> QED
  BY <1>1, <1>2 DEF BurstInv

(* A timeout of the plugin in hand keeps BurstInv.                           *)
LEMMA TimedOutBurst ==
  ASSUME TypeOK, OffInv, BurstInv, TimedOut
  PROVE  BurstInv'
<1>w. PICK w \in Plugins : w = worker.plugin
  BY DEF TypeOK, TimedOut, WorkerState
<1>1. w \in Plugins /\ w \notin banned /\ Kept(w)
  BY <1>w DEF OffInv, BannedIsOff, TimedOut, Kept
<1>2. now \in Nat /\ now' = now /\ banned' = banned
  BY PluginAssumption DEF TypeOK, TimedOut, WorkerUnchanged
<1>3. late[w] \in Seq(Nat) /\ timeOut[w] \in Seq(Nat)
  BY <1>1 DEF TypeOK
<1>4. /\ late'[w] = Append(late[w], now) /\ timeOut'[w] = TimesAfter(timeOut[w], now)
      /\ \A p \in Plugins \ {w} : late'[p] = late[p] /\ timeOut'[p] = timeOut[p]
  BY <1>w DEF TimedOut, TypeOK
<1>5. /\ worker'.plugin = w
      /\ worker'.pc = IF TooOften(timeOut[w], now) THEN "ban" ELSE "disable"
  BY <1>w DEF TimedOut, TypeOK, WorkerState
<1>6. /\ Burst(late'[w]) <=> TooOften(timeOut[w], now)
      /\ ~TooOften(timeOut[w], now) => Recent(timeOut'[w], late'[w])
  <2>1. /\ Recent(timeOut[w], late[w]) /\ ~Burst(late[w])
        /\ \A i \in 1..Len(late[w]) : late[w][i] <= now
    BY <1>1 DEF BurstInv
  <2> QED
    BY ZenonT(60), <1>2, <1>3, <1>4, <2>1, TimeoutStep
<1>7. Kept(w)' <=> ~TooOften(timeOut[w], now)
  BY <1>1, <1>2, <1>5 DEF Kept
<1>8. \A p \in Plugins \ {w} : Kept(p)' = Kept(p)
  BY <1>w, <1>2, <1>5 DEF Kept, TimedOut
<1>9. \A i \in 1..Len(late'[w]) : late'[w][i] <= now'
  <2>1. \A i \in 1..Len(late[w]) : late[w][i] <= now
    BY <1>1 DEF BurstInv
  <2> DEFINE new == Append(late[w], now)
  <2>2. Len(new) = Len(late[w]) + 1 /\ new[Len(late[w]) + 1] = now
        /\ \A i \in 1..Len(late[w]) : new[i] = late[w][i]
    BY <1>2, <1>3
  <2>3. Len(late[w]) \in Nat
    BY <1>3
  <2>4. \A i \in 1..Len(new) : new[i] <= now
    BY <1>2, <2>1, <2>2, <2>3, LastIndex
  <2> QED
    BY <1>2, <1>4, <2>4
<1> SUFFICES ASSUME NEW p \in Plugins
             PROVE  /\ \A i \in 1..Len(late'[p]) : late'[p][i] <= now'
                    /\ Kept(p)' => ~Burst(late'[p]) /\ Recent(timeOut'[p], late'[p])
                    /\ ~Kept(p)' => Burst(late'[p])
  BY DEF BurstInv, Burst, Recent
<1>10. CASE p = w
  <2>1. CASE TooOften(timeOut[w], now)
    BY <1>6, <1>7, <1>9, <1>10, <2>1
  <2>2. CASE ~TooOften(timeOut[w], now)
    BY <1>6, <1>7, <1>9, <1>10, <2>2
  <2> QED
    BY <2>1, <2>2
<1>11. CASE p # w
  BY <1>2, <1>4, <1>8, <1>11 DEF BurstInv
<1> QED
  BY <1>10, <1>11

(* Any step keeps BurstInv.                                                  *)
LEMMA StepBurst ==
  ASSUME TypeOK, TypeOK', OffInv, BurstInv, [Next]_vars
  PROVE  BurstInv'
<1>0. now \in Nat /\ now' \in Nat
  BY PluginAssumption DEF TypeOK
<1>1. ASSUME UNCHANGED <<late, timeOut, now, worker, banned>> PROVE BurstInv'
  BY <1>0, <1>1, BurstStays DEF Kept
<1> USE DEF lists, history
<1>2. CASE UNCHANGED vars
  BY <1>1, <1>2 DEF vars
<1>3. ASSUME NEW p \in Plugins,
             LoadPlugin(p) \/ UnSubscribeAllTypes(p) \/ UnSubscribeAllValues(p)
      PROVE  BurstInv'
  BY <1>1, <1>3 DEF LoadPlugin, UnSubscribeAllTypes, UnSubscribeAllValues
<1>4. ASSUME NEW r \in Reporters, Reporter(r) PROVE BurstInv'
  BY <1>1, <1>4 DEF Reporter, DispatchResource, GetPluginListByResType,
     GetPluginListByResTypeAndValue, PostTask, ReporterUnchanged
<1>5. CASE CompletePluginInitialization
  BY <1>1, <1>5 DEF CompletePluginInitialization
<1>6. CASE UnLoadPlugin \/ ClearResource \/ RemoveDispatcher
  BY <1>1, <1>6 DEF UnLoadPlugin, ClearResource, RemoveDispatcher, StopUnchanged
<1>7. CASE Tick
  <2>1. /\ UNCHANGED <<late, timeOut, worker, banned>> /\ now <= now'
    BY <1>0, <1>7 DEF Tick
  <2> QED
    BY <1>0, <2>1, BurstStays DEF Kept
<1>8. CASE Worker
  <2>1. CASE TimedOut
    BY <2>1, TimedOutBurst
  <2>2. ASSUME UNCHANGED <<late, timeOut, now, banned>>,
               worker.pc \notin {"ban", "erase"} \/ worker.plugin = None,
               worker'.pc \notin {"ban", "erase"} \/ worker'.plugin = None
        PROVE  BurstInv'
    <3>1. \A p \in Plugins : Kept(p)' = Kept(p)
      BY <2>2, PluginAssumption DEF Kept
    <3> QED
      BY <1>0, <2>2, <3>1, BurstStays
  <2>3. CASE TakeTask
    BY <2>2, <2>3 DEF TakeTask, IdleWorker
  <2>4. CASE EndTask
    BY <2>2, <2>4 DEF EndTask, IdleWorker
  <2>5. CASE ReturnInTime
    <3>1. worker'.pc = "next"
      BY <2>5 DEF ReturnInTime, TypeOK, WorkerState
    <3> QED
      BY <2>2, <2>5, <3>1 DEF ReturnInTime, WorkerUnchanged
  <2>6. CASE Enabled
    <3>1. worker'.pc = "next"
      BY <2>6 DEF Enabled, TypeOK, WorkerState
    <3> QED
      BY <2>2, <2>6, <3>1 DEF Enabled, WorkerUnchanged
  <2>7. ASSUME NEW p \in Plugins, NextPlugin(p) PROVE BurstInv'
    <3>1. worker'.pc \in {"next", "copied"}
      BY <2>7 DEF NextPlugin, TypeOK, WorkerState
    <3> QED
      BY <2>2, <2>7, <3>1 DEF NextPlugin
  <2>8. ASSUME UNCHANGED <<late, timeOut, now, banned>>, worker'.plugin = worker.plugin,
               worker.pc \in {"ban", "erase"} <=> worker'.pc \in {"ban", "erase"}
        PROVE  BurstInv'
    <3>1. \A p \in Plugins : Kept(p)' = Kept(p)
      BY <2>8 DEF Kept
    <3> QED
      BY <1>0, <2>8, <3>1, BurstStays
  <2>9. CASE Disabled
    <3>1. /\ worker'.plugin = worker.plugin
          /\ worker.pc \in {"ban", "erase"} <=> worker'.pc \in {"ban", "erase"}
      BY <2>9 DEF Disabled, TypeOK, WorkerState
    <3> QED
      BY <2>8, <2>9, <3>1 DEF Disabled, WorkerUnchanged
  <2>10. ASSUME NEW k \in Keys, OnPluginDisable(k) \/ OnPluginInit(k) PROVE BurstInv'
    <3>1. worker'.plugin = worker.plugin /\ worker'.pc = worker.pc
      BY <2>10 DEF OnPluginDisable, OnPluginInit, TypeOK, WorkerState
    <3> QED
      BY <2>8, <2>10, <3>1 DEF OnPluginDisable, OnPluginInit, WorkerUnchanged
  <2>11. CASE ErasePlugin
    <3>1. worker'.pc = "next" /\ worker.pc = "erase" /\ banned' = banned \cup {worker.plugin}
      BY <2>11 DEF ErasePlugin, TypeOK, WorkerState
    <3>2. \A p \in Plugins : Kept(p)' = Kept(p)
      BY <3>1 DEF Kept
    <3> QED
      BY <1>0, <2>11, <3>2, BurstStays DEF ErasePlugin, WorkerUnchanged
  <2>12. CASE CallPlugin
    <3>1. worker'.pc = "call" /\ worker.pc = "copied"
      BY <2>12 DEF CallPlugin, TypeOK, WorkerState
    <3> QED
      BY <2>2, <2>12, <3>1 DEF CallPlugin
  <2> QED
    BY <1>8, <2>1, <2>3, <2>4, <2>5, <2>6, <2>7, <2>9, <2>10, <2>11, <2>12 DEF Worker
<1> QED
  BY <1>2, <1>3, <1>4, <1>5, <1>6, <1>7, <1>8 DEF Next

(* RepairPlugin disables a plugin forever if and only if three timeouts in a *)
(* row happened within DISABLE_PLUGIN_TIME, or in a time that wraps around   *)
(* the int32_t it is computed in, however many timeouts there were before.   *)
THEOREM BannedOnBurst == Spec => []BanIsBurst
<1>1. Spec => []OffInv
  <2>1. Init => TypeOK /\ OffInv
    BY InitType, InitOff
  <2> QED
    BY <2>1, StepOff, TypeCorrect, PTL DEF Spec
<1>2. BurstInv => BanIsBurst
  BY DEF BurstInv, BanIsBurst, Kept
<1>3. TypeOK /\ TypeOK' /\ OffInv /\ BurstInv /\ [Next]_vars => BurstInv'
  BY StepBurst
<1> QED
  BY <1>1, <1>2, <1>3, InitBurst, TypeCorrect, PTL DEF Spec
-----------------------------------------------------------------------------
(* Repairs.  What makes RepairRestores inductive: only a plugin that takes   *)
(* itself out is in the middle of UnSubscribeAllResources, and OnPluginInit  *)
(* has subscribed every key it does not have left.                           *)
Ready(p) == p \in active /\ \A k \in Wants[p] \cup Ext[p] : subs[k][p] > 0

RepairInv ==
  /\ \A p \in Plugins : quit[p] = "exact" => p \in Quitters
  /\ stopper = "no" =>
       \A p \in libs \ Quitters :
         /\ ~Repairing(p) => Ready(p)
         /\ (worker.plugin = p /\ worker.pc = "enable")
              => \A k \in (Wants[p] \cup Ext[p]) \ worker.left : subs[k][p] > 0

(* What the subscription operators do to the place of one plugin p in the    *)
(* list of one key when they are applied to a plugin q.                      *)
LEMMA PlaceInList ==
  ASSUME NEW s \in [Keys -> PluginList], NEW p \in Plugins, NEW q \in Plugins,
         NEW ks \in SUBSET Keys, NEW k \in Keys
  PROVE  /\ SubscribeResource(s, q, ks)[k][p] >= s[k][p]
         /\ k \in ks => SubscribeResource(s, p, ks)[k][p] > 0
         /\ p # q => UnSubscribeResource(s, q, ks)[k][p] = s[k][p]
         /\ p # q => EraseKeys(s, q, ks)[k][p] = s[k][p]
<1>0. s[k] \in [Plugins -> Nat]
  BY DEF PluginList
<1>1. SubscribeResource(s, q, ks)[k][p] >= s[k][p]
  BY <1>0 DEF SubscribeResource
<1>2. k \in ks => SubscribeResource(s, p, ks)[k][p] > 0
  BY <1>0 DEF SubscribeResource
<1>3. p # q => UnSubscribeResource(s, q, ks)[k][p] = s[k][p]
  BY <1>0 DEF UnSubscribeResource
<1>4. p # q => EraseKeys(s, q, ks)[k][p] = s[k][p]
  BY <1>0 DEF EraseKeys, OnlyOnce, NoList
<1> QED
  BY <1>1, <1>2, <1>3, <1>4

(* The keys of a plugin are keys, and its places in their lists are counts.  *)
LEMMA PluginKeys ==
  ASSUME TypeOK, NEW p \in Plugins
  PROVE  /\ Wants[p] \subseteq Keys /\ Ext[p] \subseteq Keys
         /\ \A k \in Wants[p] \cup Ext[p] : k \in Keys /\ subs[k][p] \in Nat
<1>1. Wants[p] \subseteq Keys /\ Ext[p] \subseteq Keys
  BY PluginAssumption
<1>2. \A k \in Keys : subs[k][p] \in Nat
  BY DEF TypeOK, PluginList
<1> QED
  BY <1>1, <1>2

(* A step that leaves the loaded plugins, their lists and the dispatcher     *)
(* alone keeps RepairInv.                                                    *)
LEMMA RepairKept ==
  ASSUME RepairInv, UNCHANGED <<libs, subs, active, worker, quit>>,
         stopper' = "no" => stopper = "no"
  PROVE  RepairInv'
  BY DEF RepairInv, Ready, Repairing

(* Loading, unsubscribing and stopping.                                      *)
LEMMA ManagerRepair ==
  ASSUME TypeOK, TypeOK', OffInv, RepairInv,
         \/ \E p \in Plugins : LoadPlugin(p) \/ UnSubscribeAllTypes(p) \/ UnSubscribeAllValues(p)
         \/ UnLoadPlugin \/ ClearResource
  PROVE  RepairInv'
<1>0. Types \subseteq Keys /\ Exact \subseteq Keys /\ subs \in [Keys -> PluginList]
  BY DEF Keys, TypeOK
<1>1. ASSUME NEW p \in Plugins, LoadPlugin(p) PROVE RepairInv'
  <2>1. CASE /\ \E ks \in SUBSET (Wants[p] \cup Ext[p]) : subs' = SubscribeResource(subs, p, ks)
             /\ UNCHANGED <<libs, active>>
    <3>1. PICK ks \in SUBSET (Wants[p] \cup Ext[p]) : subs' = SubscribeResource(subs, p, ks)
      BY <2>1
    <3>2. /\ ks \in SUBSET Keys
          /\ worker' = worker /\ quit' = quit /\ stopper' = stopper
      BY <1>1, PluginKeys DEF LoadPlugin
    <3>3. \A q \in libs : \A k \in Wants[q] \cup Ext[q] : subs[k][q] > 0 => subs'[k][q] > 0
      <4> TAKE q \in libs
      <4> TAKE k \in Wants[q] \cup Ext[q]
      <4>1. q \in Plugins /\ k \in Keys
        BY PluginKeys DEF TypeOK
      <4>2. subs[k][q] \in Nat /\ subs'[k][q] \in Nat
        BY <4>1 DEF TypeOK, PluginList
      <4>3. subs'[k][q] >= subs[k][q]
        BY <1>0, <3>1, <3>2, <4>1, PlaceInList
      <4> QED
        BY <4>2, <4>3
    <3> QED
      BY <2>1, <3>2, <3>3 DEF RepairInv, Ready, Repairing
  <2>2. CASE /\ libs' = libs \cup {p} /\ active' = active \cup {p}
             /\ subs' = SubscribeResource(SubscribeResource(subs, p, Wants[p]), p, Ext[p])
    <3> DEFINE mid == SubscribeResource(subs, p, Wants[p])
    <3>0. /\ worker' = worker /\ quit' = quit /\ stopper' = stopper
          /\ p \notin libs /\ worker.plugin # p
      BY <1>1 DEF LoadPlugin, OffInv
    <3>1. mid \in [Keys -> PluginList]
      BY <1>0, PluginKeys, SubscriptionTypes
    <3>2. \A q \in Plugins, k \in Keys : mid[k][q] \in Nat /\ subs[k][q] \in Nat /\ subs'[k][q] \in Nat
      BY <3>1 DEF TypeOK, PluginList
    <3>3. \A q \in Plugins, k \in Keys : subs'[k][q] >= subs[k][q]
      <4> TAKE q \in Plugins, k \in Keys
      <4>1. mid[k][q] >= subs[k][q] /\ subs'[k][q] >= mid[k][q]
        BY <1>0, <2>2, <3>1, PluginKeys, PlaceInList
      <4> QED
        BY <3>2, <4>1
    <3>4. \A k \in Wants[p] \cup Ext[p] : subs'[k][p] > 0
      <4> TAKE k \in Wants[p] \cup Ext[p]
      <4>0. k \in Keys
        BY PluginKeys
      <4>1. CASE k \in Ext[p]
        BY <2>2, <3>1, <4>0, <4>1, PluginKeys, PlaceInList
      <4>2. CASE k \in Wants[p]
        <5>1. mid[k][p] > 0 /\ subs'[k][p] >= mid[k][p]
          BY <1>0, <2>2, <3>1, <4>0, <4>2, PluginKeys, PlaceInList
        <5> QED
          BY <3>2, <4>0, <5>1
      <4> QED
        BY <4>1, <4>2
    <3>5. \A q \in libs : \A k \in Wants[q] \cup Ext[q] : subs[k][q] > 0 => subs'[k][q] > 0
      <4> TAKE q \in libs
      <4> TAKE k \in Wants[q] \cup Ext[q]
      <4>1. q \in Plugins /\ k \in Keys
        BY PluginKeys DEF TypeOK
      <4> QED
        BY <3>2, <3>3, <4>1
    <3> QED
      BY <2>2, <3>0, <3>4, <3>5 DEF RepairInv, Ready, Repairing
  <2> QED
    BY <1>1, <2>1, <2>2 DEF LoadPlugin
<1>2. ASSUME NEW p \in Plugins, UnSubscribeAllTypes(p) \/ UnSubscribeAllValues(p)
      PROVE  RepairInv'
  <2>1. /\ p \in Quitters /\ \A q \in Plugins : quit'[q] = "exact" => q \in Quitters
        /\ UNCHANGED <<libs, active, worker, stopper>>
    BY <1>2 DEF UnSubscribeAllTypes, UnSubscribeAllValues, RepairInv, TypeOK
  <2>2. PICK ks \in SUBSET Keys : subs' = EraseKeys(subs, p, ks)
    BY <1>0, <1>2 DEF UnSubscribeAllTypes, UnSubscribeAllValues
  <2>3. \A q \in libs \ Quitters, k \in Keys : subs'[k][q] = subs[k][q]
    <3> TAKE q \in libs \ Quitters, k \in Keys
    <3>1. q \in Plugins /\ q # p
      BY <2>1 DEF TypeOK
    <3> QED
      BY <1>0, <2>2, <3>1, PlaceInList
  <2>4. \A q \in libs \ Quitters : \A k \in Wants[q] \cup Ext[q] : subs'[k][q] = subs[k][q]
    BY <2>3, PluginKeys DEF TypeOK
  <2> QED
    BY <2>1, <2>4 DEF RepairInv, Ready, Repairing
<1>3. CASE UnLoadPlugin \/ ClearResource
  BY <1>3 DEF UnLoadPlugin, ClearResource, StopUnchanged, RepairInv
<1> QED
  BY <1>1, <1>2, <1>3

(* The dispatcher thread: only the plugin under repair loses keys, and it is *)
(* out of repair only with every key back.                                   *)
LEMMA WorkerRepair ==
  ASSUME TypeOK, TypeOK', OffInv, RepairInv, Worker
  PROVE  RepairInv'
<1> DEFINE Back(p) == \A k \in (Wants[p] \cup Ext[p]) \ worker.left : subs[k][p] > 0
<1>0. /\ quit' = quit /\ stopper' = stopper /\ subs \in [Keys -> PluginList]
      /\ libs \subseteq Plugins /\ worker.plugin \in Plugins \cup {None}
  BY DEF Worker, TakeTask, EndTask, ReturnInTime, TimedOut, Disabled, ErasePlugin, Enabled,
     CallPlugin, NextPlugin, OnPluginDisable, OnPluginInit, WorkerUnchanged, TypeOK, WorkerState
<1>1. CASE TakeTask
  <2>1. worker.pc = "idle" /\ worker'.pc = "next" /\ worker'.plugin = None
    BY <1>1 DEF TakeTask, IdleWorker
  <2>2. None \notin Plugins /\ worker.plugin = None
    BY <2>1, PluginAssumption DEF OffInv
  <2> QED
    BY <1>0, <1>1, <2>1, <2>2 DEF TakeTask, RepairInv, Ready, Repairing, lists
<1>2. CASE EndTask
  <2>1. worker.pc = "next" /\ worker'.pc = "idle" /\ worker'.plugin = None
    BY <1>2 DEF EndTask, IdleWorker
  <2>2. None \notin Plugins /\ worker.plugin = None
    BY <2>1, PluginAssumption DEF OffInv
  <2> QED
    BY <1>0, <1>2, <2>1, <2>2 DEF EndTask, RepairInv, Ready, Repairing, lists
<1>3. CASE ReturnInTime
  <2>1. worker.pc = "call" /\ worker'.pc = "next" /\ worker'.plugin = None
    BY <1>3 DEF ReturnInTime, TypeOK, WorkerState
  <2> QED
    BY <1>0, <1>3, <2>1, PluginAssumption DEF ReturnInTime, RepairInv, Ready, Repairing
<1>4. CASE TimedOut
  <2>1. worker'.pc \in {"ban", "disable"} /\ worker'.plugin = worker.plugin
    BY <1>4 DEF TimedOut, TypeOK, WorkerState
  <2> QED
    BY <1>0, <1>4, <2>1 DEF TimedOut, RepairInv, Ready, Repairing
<1>5. CASE Disabled
  <2>1. /\ worker.pc \in {"ban", "disable"} /\ worker'.plugin = worker.plugin
        /\ worker'.pc = "erase" \/
             (worker'.pc = "enable" /\ worker'.left = Wants[worker.plugin] \cup Ext[worker.plugin])
    BY <1>5 DEF Disabled, TypeOK, WorkerState
  <2> QED
    BY <1>0, <1>5, <2>1 DEF Disabled, RepairInv, Ready, Repairing
<1>6. CASE ErasePlugin
  <2>1. worker.pc = "erase" /\ worker'.pc = "next" /\ worker'.plugin = None
    BY <1>6 DEF ErasePlugin, TypeOK, WorkerState
  <2> QED
    BY <1>0, <1>6, <2>1, PluginAssumption DEF ErasePlugin, RepairInv, Ready, Repairing
<1>7. CASE Enabled
  <2>1. /\ worker.pc = "enable" /\ worker.left = {}
        /\ worker'.pc = "next" /\ worker'.plugin = None
    BY <1>7 DEF Enabled, TypeOK, WorkerState
  <2> QED
    BY <1>0, <1>7, <2>1, PluginAssumption DEF Enabled, RepairInv, Ready, Repairing
<1>8. ASSUME NEW p \in Plugins, NextPlugin(p) PROVE RepairInv'
  <2>1. worker.pc = "next" /\ worker.plugin = None /\ None \notin Plugins
    BY <1>8, PluginAssumption DEF NextPlugin, OffInv
  <2>2. \/ worker'.pc = "copied"
        \/ worker'.pc = "next" /\ worker'.plugin = None
    BY <1>8, <2>1 DEF NextPlugin, TypeOK, WorkerState
  <2> QED
    BY <1>0, <1>8, <2>1, <2>2 DEF NextPlugin, RepairInv, Ready, Repairing, lists
<1>9. ASSUME NEW k \in Keys, OnPluginDisable(k) PROVE RepairInv'
  <2>1. /\ worker.pc \in {"ban", "disable"} /\ worker'.pc = worker.pc
        /\ worker'.plugin = worker.plugin /\ worker.plugin \in Plugins
    BY <1>0, <1>9 DEF OnPluginDisable, TypeOK, WorkerState
  <2>2. \A q \in libs : \A j \in Wants[q] \cup Ext[q] : q # worker.plugin => subs'[j][q] = subs[j][q]
    <3> SUFFICES ASSUME NEW q \in libs, NEW j \in Wants[q] \cup Ext[q], q # worker.plugin
                 PROVE  subs'[j][q] = subs[j][q]
      OBVIOUS
    <3>1. q \in Plugins /\ j \in Keys /\ {k} \in SUBSET Keys
      BY <1>0, PluginKeys
    <3> QED
      BY <1>0, <1>9, <2>1, <3>1, PlaceInList DEF OnPluginDisable
  <2> QED
    BY <1>0, <1>9, <2>1, <2>2 DEF OnPluginDisable, RepairInv, Ready, Repairing
<1>10. ASSUME NEW k \in Keys, OnPluginInit(k) PROVE RepairInv'
  <2>1. /\ worker.pc = "enable" /\ worker'.pc = "enable" /\ worker'.left = worker.left \ {k}
        /\ worker'.plugin = worker.plugin /\ worker.plugin \in Plugins
    BY <1>0, <1>10 DEF OnPluginInit, TypeOK, WorkerState
  <2>2. \A q \in libs : \A j \in Wants[q] \cup Ext[q] :
          /\ subs[j][q] > 0 => subs'[j][q] > 0
          /\ q = worker.plugin /\ j = k => subs'[j][q] > 0
    <3> TAKE q \in libs
    <3> TAKE j \in Wants[q] \cup Ext[q]
    <3>1. q \in Plugins /\ j \in Keys /\ {k} \in SUBSET Keys
      BY <1>0, PluginKeys
    <3>2. subs[j][q] \in Nat /\ subs'[j][q] \in Nat
      BY <3>1 DEF TypeOK, PluginList
    <3>3. subs' = SubscribeResource(subs, worker.plugin, {k})
      BY <1>10 DEF OnPluginInit
    <3>4. subs'[j][q] >= subs[j][q]
      BY <1>0, <2>1, <3>1, <3>3, PlaceInList
    <3>5. q = worker.plugin /\ j = k => subs'[j][q] > 0
      BY <1>0, <2>1, <3>1, <3>3, PlaceInList
    <3> QED
      BY <3>2, <3>4, <3>5
  <2> QED
    BY <1>0, <1>10, <2>1, <2>2 DEF OnPluginInit, RepairInv, Ready, Repairing
<1>11. CASE CallPlugin
  <2>1. worker.pc = "copied" /\ worker'.pc = "call" /\ worker'.plugin = worker.plugin
    BY <1>11 DEF CallPlugin, TypeOK, WorkerState
  <2> QED
    BY <1>0, <1>11, <2>1 DEF CallPlugin, RepairInv, Ready, Repairing, lists
<1> QED
  BY <1>1, <1>2, <1>3, <1>4, <1>5, <1>6, <1>7, <1>8, <1>9, <1>10, <1>11 DEF Worker

(* Any step keeps RepairInv.                                                 *)
LEMMA StepRepair ==
  ASSUME TypeOK, TypeOK', OffInv, RepairInv, [Next]_vars
  PROVE  RepairInv'
<1>1. CASE UNCHANGED vars
  BY <1>1, RepairKept DEF vars, lists
<1>2. CASE CompletePluginInitialization
  BY <1>2, RepairKept DEF CompletePluginInitialization
<1>3. ASSUME NEW r \in Reporters, Reporter(r) PROVE RepairInv'
  BY <1>3, RepairKept DEF Reporter, DispatchResource, GetPluginListByResType,
     GetPluginListByResTypeAndValue, PostTask, ReporterUnchanged, lists
<1>4. CASE RemoveDispatcher
  BY <1>4, RepairKept DEF RemoveDispatcher, StopUnchanged
<1>5. CASE Tick
  BY <1>5, RepairKept DEF Tick, lists
<1> QED
  BY <1>1, <1>2, <1>3, <1>4, <1>5, ManagerRepair, WorkerRepair DEF Next

(* RepairPlugin loses no subscription: outside its own repair, a loaded      *)
(* plugin that does not take itself out is initialised and in the list of    *)
(* every key it subscribes to, whichever others are loaded, repaired,        *)
(* disabled forever or unsubscribe themselves meanwhile.                     *)
THEOREM RepairsRestore == Spec => []RepairRestores
<1>1. Init => TypeOK /\ OffInv /\ RepairInv
  <2>1. Init => RepairInv
    BY DEF Init, RepairInv
  <2> QED
    BY <2>1, InitType, InitOff
<1>2. RepairInv => RepairRestores
  BY DEF RepairInv, RepairRestores, Ready
<1> QED
  BY <1>1, <1>2, StepOff, StepRepair, TypeCorrect, PTL DEF Spec

-----------------------------------------------------------------------------
(* Stopping.  Loading has ended before the service can be stopped, so        *)
(* pluginLibMap_ stays empty after UnLoadPlugin and every plugin that a task *)
(* still names is skipped, but for the one whose entry was copied before;    *)
(* the dispatcher that Stop removes is not made again, and PostTask looks    *)
(* for it.                                                                   *)
StopInv ==
  /\ isInit => toLoad = {}
  /\ stopper # "no" => isInit /\ libs = {}
  /\ stopper = "done" => ~handler /\ queue = <<>>

(* Any step keeps StopInv.                                                   *)
LEMMA StepStop ==
  ASSUME TypeOK, StopInv, [Next]_vars
  PROVE  StopInv'
<1> USE DEF StopInv, lists, history
<1>1. CASE UNCHANGED vars
  BY <1>1 DEF vars
<1>2. ASSUME NEW p \in Plugins, LoadPlugin(p) \/ UnSubscribeAllTypes(p) \/ UnSubscribeAllValues(p)
      PROVE  StopInv'
  BY <1>2 DEF LoadPlugin, UnSubscribeAllTypes, UnSubscribeAllValues
<1>3. CASE CompletePluginInitialization
  BY <1>3 DEF CompletePluginInitialization
<1>4. ASSUME NEW r \in Reporters, Reporter(r) PROVE StopInv'
  BY <1>4 DEF Reporter, DispatchResource, GetPluginListByResType,
     GetPluginListByResTypeAndValue, PostTask, ReporterUnchanged
<1>5. CASE Worker
  <2>1. /\ UNCHANGED <<isInit, toLoad, stopper, handler>>
        /\ libs' \subseteq libs
        /\ queue' = queue \/ queue # <<>>
    BY <1>5 DEF Worker, TakeTask, EndTask, ReturnInTime, TimedOut, Disabled, ErasePlugin,
       Enabled, CallPlugin, NextPlugin, OnPluginDisable, OnPluginInit, WorkerUnchanged
  <2> QED
    BY <2>1
<1>6. CASE UnLoadPlugin \/ ClearResource \/ RemoveDispatcher
  BY <1>6 DEF UnLoadPlugin, ClearResource, RemoveDispatcher, StopUnchanged
<1>7. CASE Tick
  BY <1>7 DEF Tick
<1> QED
  BY <1>1, <1>2, <1>3, <1>4, <1>5, <1>6, <1>7 DEF Next

(* What each step does to the plugin in hand and to the calls made.          *)
LEMMA PluginInHand ==
  ASSUME TypeOK, [Next]_vars
  PROVE  \/ /\ worker'.plugin \in {worker.plugin, None}
            /\ last' = last \/ last' = [last EXCEPT ![worker.plugin] = worker.id]
         \/ \E p \in Plugins : p \in libs /\ NextPlugin(p)
<1> USE DEF lists, history
<1>1. CASE UNCHANGED vars
  BY <1>1 DEF vars
<1>2. ASSUME NEW p \in Plugins,
             LoadPlugin(p) \/ UnSubscribeAllTypes(p) \/ UnSubscribeAllValues(p)
      PROVE  worker' = worker /\ last' = last
  BY <1>2 DEF LoadPlugin, UnSubscribeAllTypes, UnSubscribeAllValues
<1>3. ASSUME NEW r \in Reporters, Reporter(r) PROVE worker' = worker /\ last' = last
  BY <1>3 DEF Reporter, DispatchResource, GetPluginListByResType,
     GetPluginListByResTypeAndValue, PostTask, ReporterUnchanged
<1>4. CASE CompletePluginInitialization \/ Tick
  BY <1>4 DEF CompletePluginInitialization, Tick
<1>5. CASE UnLoadPlugin \/ ClearResource \/ RemoveDispatcher
  BY <1>5 DEF UnLoadPlugin, ClearResource, RemoveDispatcher, StopUnchanged
<1>6. CASE TakeTask \/ EndTask
  <2>1. worker'.plugin = None
    <3>1. CASE TakeTask
      BY <3>1 DEF TakeTask, IdleWorker
    <3>2. CASE EndTask
      BY <3>2 DEF EndTask, IdleWorker
    <3> QED
      BY <1>6, <3>1, <3>2
  <2>2. last' = last
    BY <1>6 DEF TakeTask, EndTask
  <2> QED
    BY <2>1, <2>2
<1>7. CASE ReturnInTime \/ ErasePlugin \/ Enabled
  BY <1>7 DEF ReturnInTime, ErasePlugin, Enabled, WorkerUnchanged, TypeOK, WorkerState
<1>8. CASE TimedOut
  BY <1>8 DEF TimedOut, WorkerUnchanged, TypeOK, WorkerState
<1>9. CASE Disabled
  BY <1>9 DEF Disabled, WorkerUnchanged, TypeOK, WorkerState
<1>10. CASE \E k \in Keys : OnPluginDisable(k) \/ OnPluginInit(k)
  BY <1>10 DEF OnPluginDisable, OnPluginInit, WorkerUnchanged, TypeOK, WorkerState
<1>11. CASE CallPlugin
  BY <1>11 DEF CallPlugin, TypeOK, WorkerState
<1>12. ASSUME NEW p \in Plugins, NextPlugin(p), p \notin libs
       PROVE  worker'.plugin = worker.plugin /\ last' = last
  BY <1>12 DEF NextPlugin, TypeOK, WorkerState
<1> QED
  BY <1>1, <1>2, <1>3, <1>4, <1>5, <1>6, <1>7, <1>8, <1>9, <1>10, <1>11, <1>12
     DEF Next, Worker

(* From a state of StopInv no step takes up a plugin once Stop has begun,    *)
(* and none posts a task once it has returned.                               *)
LEMMA QuietStep ==
  ASSUME TypeOK, StopInv, StopInv', [Next]_vars
  PROVE  /\ stopper # "no" => /\ worker'.plugin \in {worker.plugin, None}
                              /\ \A p \in Plugins : last'[p] # last[p] => p = worker.plugin
         /\ stopper = "done" => queue' = <<>>
<1>1. stopper # "no" => /\ worker'.plugin \in {worker.plugin, None}
                        /\ \A p \in Plugins : last'[p] # last[p] => p = worker.plugin
  <2> SUFFICES ASSUME stopper # "no"
               PROVE  /\ worker'.plugin \in {worker.plugin, None}
                      /\ \A p \in Plugins : last'[p] # last[p] => p = worker.plugin
    OBVIOUS
  <2>1. libs = {}
    BY DEF StopInv
  <2>2. /\ worker'.plugin \in {worker.plugin, None}
        /\ last' = last \/ last' = [last EXCEPT ![worker.plugin] = worker.id]
    BY <2>1, PluginInHand
  <2>3. \A p \in Plugins : last'[p] # last[p] => p = worker.plugin
    BY <2>2 DEF TypeOK
  <2> QED
    BY <2>2, <2>3
<1>2. stopper = "done" => stopper' = "done"
  BY DEF Next, vars, lists, history, LoadPlugin, UnSubscribeAllTypes, UnSubscribeAllValues,
     CompletePluginInitialization, Reporter, DispatchResource, GetPluginListByResType,
     GetPluginListByResTypeAndValue, PostTask, ReporterUnchanged, Worker, TakeTask, EndTask,
     ReturnInTime, TimedOut, Disabled, ErasePlugin, Enabled, CallPlugin, NextPlugin, OnPluginDisable,
     OnPluginInit, WorkerUnchanged, UnLoadPlugin, ClearResource, RemoveDispatcher,
     StopUnchanged, Tick
<1> QED
  BY <1>1, <1>2 DEF StopInv

(* Once Stop has disabled the plugins the dispatcher takes up none any more, *)
(* not even for a task it is in the middle of: only the plugin whose entry   *)
(* it had copied before may still be called, and repaired.  Once Stop has    *)
(* returned nothing is posted, not even by a reporter that passed the test   *)
(* of isInit before.                                                         *)
THEOREM StopsQuietly == Spec => StopIsQuiet
<1>1. Init => StopInv
  BY DEF Init, StopInv
<1>2. TypeOK /\ StopInv /\ StopInv' /\ [Next]_vars
        => [/\ stopper # "no" => /\ worker'.plugin \in {worker.plugin, None}
                                 /\ \A p \in Plugins : last'[p] # last[p] => p = worker.plugin
            /\ stopper = "done" => queue' = <<>>]_vars
  BY QuietStep
<1> QED
  BY <1>1, <1>2, StepStop, TypeCorrect, PTL DEF Spec, StopIsQuiet
=============================================================================
