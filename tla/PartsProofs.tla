----------------------------- MODULE PartsProofs -----------------------------
(***************************************************************************)
(* Proofs about parts of MCParts, for any values of their constants:       *)
(* synchronous requests (SyncDelivery), the callbacks of systemLoad        *)
(* (JsSystemload), the limits on requests (RequestLimit) and the reasons   *)
(* of kills in the client (KillReasons); and, for the specification the    *)
(* run checks, the properties that join several parts and the type         *)
(* invariant of all of them.                                               *)
(***************************************************************************)
EXTENDS MCParts, SocPerfProofs, SceneProofs, ObserverProofs, TLAPS

-----------------------------------------------------------------------------
(* ExecutorHasPlugins in every behaviour of ExecutorInitSpec: an executor  *)
(* to which ResSchedExeClient::SendRequestInner delivered every fragment   *)
(* of one send has loaded its plugins, for configurations of any length,   *)
(* any number of sending threads and deaths of either process, unless      *)
(* InitPluginMgrPretreatment counted fragments of another send (mixed) or  *)
(* a configuration string is too long.                                     *)
THEOREM ExecutorGetsPlugins == ExecutorInitSpec => []ExecutorHasPlugins
<1>1. ExecutorInitially => ExecutorInv
  BY ExecutorStart
<1>2. ExecutorInv /\ [ExecutorInitNext]_executorInitVars => ExecutorInv'
  BY ExecutorStep
<1>3. ExecutorInv => ExecutorHasPlugins
  BY Zenon DEF ExecutorInv, LoadedInv, ExecutorHasPlugins
<1> QED
  BY <1>1, <1>2, <1>3, PTL DEF ExecutorInitSpec

-----------------------------------------------------------------------------
(* SyncDelivery.  A subscription that is in force is the one last made,    *)
(* whoever held it while a request is served is remembered, and no plugin  *)
(* is loaded later.                                                        *)
SyncRequestState(r) ==
  LET req == syncRequest[r]
  IN  /\ req.phase # "idle" => /\ wanted[req.type] \in subscribedSince[r] \cup {NoPlugin}
                               /\ pluginLibMap \subseteq loadedSince[r]
      /\ req.phase \in {"looked", "found"} => req.lib \in subscribedSince[r]
      /\ req.phase = "found" => req.lib \in loadedSince[r]
SyncData ==
  /\ pluginLibMap \subseteq SyncPlugins
  /\ resTypeLibSync \in [SyncTypes -> SyncPlugins \cup {NoPlugin}]
  /\ wanted \in [SyncTypes -> SyncPlugins \cup {NoPlugin}]
  /\ syncRequest \in [BinderThreads ->
       [phase : {"idle", "begun", "looked", "found"}, type : SyncTypes,
        lib : SyncPlugins \cup {NoPlugin}]]
  /\ subscribedSince \in [BinderThreads -> SUBSET SyncPlugins]
  /\ loadedSince \in [BinderThreads -> SUBSET SyncPlugins]
SyncInv ==
  /\ SyncData
  /\ \A t \in SyncTypes : resTypeLibSync[t] \in {NoPlugin, wanted[t]}
  /\ \A r \in BinderThreads : SyncRequestState(r)

LEMMA SyncStart == SyncInit => SyncInv
<1> SUFFICES ASSUME SyncInit PROVE SyncInv
  OBVIOUS
<1>1. SyncData
  BY DEF SyncInit, SyncData, SyncIdle, SyncTypes
<1> QED
  BY <1>1 DEF SyncInit, SyncInv, SyncRequestState, SyncIdle

(* A binder thread goes on with its request.                               *)
OthersKept(r) ==
  \A q \in BinderThreads \ {r} : /\ syncRequest'[q] = syncRequest[q]
                                  /\ subscribedSince'[q] = subscribedSince[q]
                                  /\ loadedSince'[q] = loadedSince[q]
LEMMA SyncThread ==
  ASSUME SyncInv, NEW r \in BinderThreads,
         \/ FindSubscriber(r) \/ FindPlugin(r) \/ DeliverResource(r)
         \/ \E t \in SyncTypes, c \in SyncCallers : ReportSyncEvent(r, t, c)
  PROVE  SyncInv'
<1>1. UNCHANGED pluginSyncVars
  BY DEF FindSubscriber, FindPlugin, DeliverResource, ReportSyncEvent, pluginSyncVars
<1>2. SyncData' /\ SyncRequestState(r)' /\ OthersKept(r)
  <2> USE DEF SyncInv, SyncData, SyncRequestState, OthersKept, pluginSyncVars
  <2>0. ASSUME Answered(r) PROVE SyncData' /\ SyncRequestState(r)' /\ OthersKept(r)
    BY <1>1, <2>0 DEF Answered, SyncIdle, SyncTypes
  <2>1. CASE FindSubscriber(r)
    <3> DEFINE lib == resTypeLibSync[syncRequest[r].type]
    <3>1. ASSUME lib # NoPlugin PROVE SyncData' /\ SyncRequestState(r)' /\ OthersKept(r)
      <4>1. /\ syncRequest[r].phase = "begun"
            /\ syncRequest' = [syncRequest EXCEPT ![r].phase = "looked", ![r].lib = lib]
            /\ UNCHANGED <<subscribedSince, loadedSince>>
        BY <2>1, <3>1 DEF FindSubscriber
      <4>2. lib \in SyncPlugins /\ lib \in subscribedSince[r]
        BY <3>1, <4>1
      <4> HIDE DEF lib
      <4>3. /\ syncRequest'[r] = [phase |-> "looked", type |-> syncRequest[r].type, lib |-> lib]
            /\ \A q \in BinderThreads \ {r} : syncRequest'[q] = syncRequest[q]
            /\ syncRequest' \in [BinderThreads ->
                 [phase : {"idle", "begun", "looked", "found"}, type : SyncTypes,
                  lib : SyncPlugins \cup {NoPlugin}]]
        <5> DEFINE one == [syncRequest EXCEPT ![r].phase = "looked"]
        <5>1. /\ syncRequest' = [one EXCEPT ![r].lib = lib]
              /\ one \in [BinderThreads ->
                   [phase : {"idle", "begun", "looked", "found"}, type : SyncTypes,
                    lib : SyncPlugins \cup {NoPlugin}]]
              /\ one[r].phase = "looked" /\ one[r].type = syncRequest[r].type
              /\ \A q \in BinderThreads \ {r} : one[q] = syncRequest[q]
          BY <4>1
        <5> HIDE DEF one
        <5> QED
          BY <4>2, <5>1
      <4> QED
        BY <1>1, <4>1, <4>2, <4>3
    <3> QED
      BY <2>0, <2>1, <3>1 DEF FindSubscriber
  <2>2. CASE FindPlugin(r)
    <3>1. ASSUME IsLoaded(syncRequest[r].lib) PROVE SyncData' /\ SyncRequestState(r)' /\ OthersKept(r)
      <4>1. /\ syncRequest[r].phase = "looked"
            /\ syncRequest' = [syncRequest EXCEPT ![r].phase = "found"]
            /\ UNCHANGED <<subscribedSince, loadedSince>>
        BY <2>2, <3>1 DEF FindPlugin
      <4>2. /\ syncRequest'[r] = [syncRequest[r] EXCEPT !.phase = "found"]
            /\ \A q \in BinderThreads \ {r} : syncRequest'[q] = syncRequest[q]
            /\ syncRequest' \in [BinderThreads ->
                 [phase : {"idle", "begun", "looked", "found"}, type : SyncTypes,
                  lib : SyncPlugins \cup {NoPlugin}]]
        BY <4>1
      <4> QED
        BY <1>1, <3>1, <4>1, <4>2 DEF IsLoaded
    <3> QED
      BY <2>0, <2>2, <3>1 DEF FindPlugin
  <2>3. CASE DeliverResource(r)
    BY <2>0, <2>3 DEF DeliverResource
  <2>4. ASSUME NEW t \in SyncTypes, NEW c \in SyncCallers, ReportSyncEvent(r, t, c)
        PROVE  SyncData' /\ SyncRequestState(r)' /\ OthersKept(r)
    <3>1. CASE CheckSyncParcel(t, c)
      <4>1. /\ syncRequest' = [syncRequest EXCEPT ![r] = [phase |-> "begun", type |-> t, lib |-> NoPlugin]]
            /\ subscribedSince' = [subscribedSince EXCEPT ![r] = {wanted[t]} \ {NoPlugin}]
            /\ loadedSince' = [loadedSince EXCEPT ![r] = pluginLibMap]
        BY <2>4, <3>1 DEF ReportSyncEvent
      <4>2. SyncData' /\ OthersKept(r)
        BY <1>1, <2>4, <4>1
      <4> QED
        BY <1>1, <2>4, <4>1, <4>2
    <3>2. CASE ~CheckSyncParcel(t, c)
      BY <1>1, <2>4, <3>2 DEF ReportSyncEvent, requestVars
    <3> QED
      BY <3>1, <3>2
  <2> QED
    BY <2>1, <2>2, <2>3, <2>4
<1>3. ASSUME NEW q \in BinderThreads \ {r} PROVE SyncRequestState(q)'
  BY <1>1, <1>2 DEF SyncInv, SyncRequestState, OthersKept, pluginSyncVars
<1> QED
  BY <1>1, <1>2, <1>3 DEF SyncInv, pluginSyncVars

LEMMA SyncStep ==
  ASSUME SyncInv, [SyncNext]_syncVars
  PROVE  SyncInv'
<1> USE DEF SyncInv, SyncData, SyncRequestState, requestVars
<1>1. CASE UNCHANGED syncVars
  BY <1>1 DEF syncVars
<1>2. CASE AddAllowAllSAReportResExt \/ InitAllowIpcReportRes
  BY <1>2 DEF AddAllowAllSAReportResExt, InitAllowIpcReportRes, pluginSyncVars
<1>3. ASSUME NEW p \in SyncPlugins, NEW t \in SyncTypes, SubscribeSyncResource(p, t) PROVE SyncInv'
  <2>1. /\ UNCHANGED <<pluginLibMap, syncRequest, loadedSince>>
        /\ resTypeLibSync' = [resTypeLibSync EXCEPT ![t] = p]
        /\ wanted' = [wanted EXCEPT ![t] = p]
        /\ subscribedSince' = [r \in BinderThreads |->
             subscribedSince[r] \cup (IF syncRequest[r].phase = "idle" THEN {}
                                      ELSE {wanted'[syncRequest[r].type]} \ {NoPlugin})]
    BY <1>3 DEF SubscribeSyncResource, Subscribers
  <2>2. SyncData'
    BY <1>3, <2>1
  <2>3. ASSUME NEW r \in BinderThreads PROVE SyncRequestState(r)'
    BY <1>3, <2>1
  <2> QED
    BY <1>3, <2>1, <2>2, <2>3
<1>4. ASSUME NEW p \in SyncPlugins, NEW t \in SyncTypes, UnSubscribeSyncResource(p, t) PROVE SyncInv'
  BY <1>4 DEF UnSubscribeSyncResource
<1>5. ASSUME NEW p \in SyncPlugins, BanPlugin(p) PROVE SyncInv'
  BY <1>5 DEF BanPlugin
<1>6. CASE UnLoadAll
  BY <1>6 DEF UnLoadAll
<1>7. CASE ClearSyncResource
  BY <1>7 DEF ClearSyncResource
<1>8. {"sa", "ext_sa"} \subseteq SyncTypes
  BY DEF SyncTypes
<1> QED
  BY <1>1, <1>2, <1>3, <1>4, <1>5, <1>6, <1>7, <1>8, SyncThread DEF SyncNext

LEMMA SyncGives == SyncInv => SyncCallsLive
  BY DEF SyncInv, SyncRequestState, SyncCallsLive

-----------------------------------------------------------------------------
(* JsSystemload.  The newest level for a function that is on is the last   *)
(* one at the first place it has to pass where there is any: the calls of  *)
(* the service, the list the binder thread works off, the thread-safe      *)
(* function of its listener, the event queue.  No older listener of the    *)
(* function has anything under way, or the function is unsure.             *)
LastCall(f, d) ==
  \/ \E i \in DOMAIN jsEvents :
       jsEvents[i] = <<f, d>> /\ \A j \in DOMAIN jsEvents : j > i => jsEvents[j][1] # f
  \/ (\A i \in DOMAIN jsEvents : jsEvents[i][1] # f) /\ jsCalled[f] = d
Coming(f, d) ==
  LET l == jsCallBackMap[f]
  IN  IF binderLevels # <<>> THEN LastIn(binderLevels) = d
      ELSE IF l \in notifyList THEN notifyLevel = d
      ELSE IF safeCalls[l] # <<>> THEN LastIn(safeCalls[l]) = d
      ELSE LastCall(f, d)
OldDone(f) ==
  \A l \in 1..Len(jsOwner) :
    jsOwner[l] = f /\ l # jsCallBackMap[f] => l \notin notifyList /\ safeCalls[l] = <<>>
JsMaps ==
  /\ jsOwner \in Seq(JsFunctions) /\ Len(jsOwner) \in JsListeners \cup {0}
  /\ jsCallBackMap \in [JsFunctions -> 0..Len(jsOwner)]
  /\ \A f \in JsFunctions : IsOn(f) => jsOwner[jsCallBackMap[f]] = f
JsWays ==
  /\ binderLevels \in Seq(LoadLevels)
  /\ notifyList \subseteq 1..Len(jsOwner) /\ (notifyList # {} => notifyLevel \in LoadLevels)
  /\ safeCalls \in [JsListeners -> Seq(LoadLevels)]
  /\ \A l \in JsListeners : safeCalls[l] # <<>> => l <= Len(jsOwner)
  /\ jsEvents \in Seq(JsFunctions \X LoadLevels)
JsHistory ==
  /\ jsCalled \in [JsFunctions -> LoadLevels \cup {NoLoadLevel}]
  /\ jsDue \in [JsFunctions -> LoadLevels \cup {NoLoadLevel}]
  /\ jsLate \in [JsFunctions -> Nat]
OffState(f) ==
  ~IsOn(f) => /\ jsDue[f] = NoLoadLevel
              /\ \A i \in DOMAIN jsEvents : jsEvents[i][1] = f => i <= jsLate[f]
OnState(f) ==
  IsOn(f) /\ f \notin jsUnsure =>
    OldDone(f) /\ (jsDue[f] # NoLoadLevel => Coming(f, jsDue[f]))
JsInv ==
  /\ JsMaps /\ JsWays /\ JsHistory
  /\ \A f \in JsFunctions : OffState(f) /\ OnState(f)

(* What an event added to the queue, or taken from it, does to the last    *)
(* call of a function.                                                     *)
LEMMA EventAdded ==
  ASSUME JsWays, NEW f \in JsFunctions, NEW v \in LoadLevels,
         jsEvents' = Append(jsEvents, <<f, v>>), jsCalled' = jsCalled
  PROVE  /\ jsEvents' \in Seq(JsFunctions \X LoadLevels)
         /\ LastCall(f, v)'
         /\ \A g, d : g # f /\ LastCall(g, d) => LastCall(g, d)'
         /\ \A i \in DOMAIN jsEvents' : jsEvents'[i][1] = f \/ (i \in DOMAIN jsEvents /\ jsEvents'[i] = jsEvents[i])
<1> DEFINE n == Len(jsEvents)
<1>1. /\ jsEvents' \in Seq(JsFunctions \X LoadLevels) /\ n \in Nat /\ DOMAIN jsEvents = 1..n
      /\ DOMAIN jsEvents' = 1..(n + 1) /\ jsEvents'[n + 1] = <<f, v>>
      /\ \A i \in 1..n : jsEvents'[i] = jsEvents[i]
  BY DEF JsWays
<1>2. LastCall(f, v)'
  BY <1>1 DEF LastCall
<1>3. ASSUME NEW g, NEW d, g # f, LastCall(g, d) PROVE LastCall(g, d)'
  <2>1. CASE \E i \in 1..n : jsEvents[i] = <<g, d>> /\ \A j \in 1..n : j > i => jsEvents[j][1] # g
    BY <1>1, <1>3, <2>1 DEF LastCall
  <2>2. CASE (\A i \in 1..n : jsEvents[i][1] # g) /\ jsCalled[g] = d
    BY <1>1, <1>3, <2>2 DEF LastCall
  <2> QED
    BY <1>1, <1>3, <2>1, <2>2 DEF LastCall
<1>4. \A i \in DOMAIN jsEvents' : jsEvents'[i][1] = f \/ (i \in DOMAIN jsEvents /\ jsEvents'[i] = jsEvents[i])
  BY <1>1
<1> QED
  BY <1>1, <1>2, <1>3, <1>4

LEMMA EventTaken ==
  ASSUME JsWays, JsHistory, CompleteCb
  PROVE  /\ jsEvents' \in Seq(JsFunctions \X LoadLevels) /\ JsHistory'
         /\ \A f, d : f \in JsFunctions /\ LastCall(f, d) => LastCall(f, d)'
         /\ \A f \in JsFunctions :
              (\A i \in DOMAIN jsEvents : jsEvents[i][1] = f => i <= jsLate[f])
                => \A i \in DOMAIN jsEvents' : jsEvents'[i][1] = f => i <= jsLate'[f]
<1> DEFINE n == Len(jsEvents)
           h == jsEvents[1]
<1>1. /\ jsEvents # <<>> /\ jsEvents' = Tail(jsEvents)
      /\ jsCalled' = [jsCalled EXCEPT ![Head(jsEvents)[1]] = Head(jsEvents)[2]]
      /\ jsLate' = [f \in JsFunctions |-> IF jsLate[f] > 0 THEN jsLate[f] - 1 ELSE 0]
      /\ UNCHANGED jsDue
  BY DEF CompleteCb
<1>2. /\ jsEvents' \in Seq(JsFunctions \X LoadLevels) /\ n \in Nat \ {0} /\ DOMAIN jsEvents = 1..n
      /\ DOMAIN jsEvents' = 1..(n - 1) /\ Head(jsEvents) = h
      /\ \A i \in 1..(n - 1) : jsEvents'[i] = jsEvents[i + 1]
      /\ h \in JsFunctions \X LoadLevels
  BY <1>1 DEF JsWays
<1>3. h = <<h[1], h[2]>> /\ h[1] \in JsFunctions /\ h[2] \in LoadLevels
  BY <1>2
<1>4. JsHistory'
  BY <1>1, <1>2, <1>3 DEF JsHistory
<1>5. ASSUME NEW f \in JsFunctions, NEW d, LastCall(f, d) PROVE LastCall(f, d)'
  <2>1. CASE (\A i \in 1..n : jsEvents[i][1] # f) /\ jsCalled[f] = d
    <3>1. jsCalled'[f] = d
      BY <1>1, <1>2, <1>5, <2>1 DEF JsHistory
    <3>2. \A i \in 1..(n - 1) : jsEvents'[i][1] # f
      BY <1>2, <2>1
    <3> QED
      BY <1>2, <3>1, <3>2 DEF LastCall
  <2>2. ASSUME NEW i \in 1..n, jsEvents[i] = <<f, d>>, \A j \in 1..n : j > i => jsEvents[j][1] # f
        PROVE  LastCall(f, d)'
    <3>1. CASE i = 1
      <4>1. jsCalled'[f] = d
        BY <1>1, <1>2, <1>5, <2>2, <3>1 DEF JsHistory
      <4>2. ASSUME NEW j \in 1..(n - 1) PROVE jsEvents'[j][1] # f
        <5>1. j + 1 \in 1..n /\ j + 1 > i
          BY <1>2, <3>1
        <5>2. jsEvents'[j] = jsEvents[j + 1]
          BY <1>2
        <5> QED
          BY <2>2, <5>1, <5>2
      <4> QED
        BY <1>2, <4>1, <4>2 DEF LastCall
    <3>2. CASE i > 1
      <4>1. i - 1 \in 1..(n - 1) /\ jsEvents'[i - 1] = <<f, d>>
        BY <1>2, <2>2, <3>2
      <4>2. ASSUME NEW j \in 1..(n - 1), j > i - 1 PROVE jsEvents'[j][1] # f
        <5>1. j + 1 \in 1..n /\ j + 1 > i
          BY <1>2, <2>2, <4>2
        <5>2. jsEvents'[j] = jsEvents[j + 1]
          BY <1>2
        <5> QED
          BY <2>2, <5>1, <5>2
      <4> QED
        BY <1>2, <4>1, <4>2 DEF LastCall
    <3> QED
      BY <3>1, <3>2
  <2> QED
    BY <1>2, <1>5, <2>1, <2>2 DEF LastCall
<1>6. ASSUME NEW f \in JsFunctions, \A i \in DOMAIN jsEvents : jsEvents[i][1] = f => i <= jsLate[f],
             NEW i \in DOMAIN jsEvents', jsEvents'[i][1] = f
      PROVE  i <= jsLate'[f]
  BY <1>1, <1>2, <1>6 DEF JsHistory
<1> QED
  BY <1>2, <1>4, <1>5, <1>6

(* on and off.                                                             *)
LEMMA JsRegister ==
  ASSUME JsInv, NEW f \in JsFunctions, RegisterSystemloadCallback(f)
  PROVE  JsInv'
<1> DEFINE n == Len(jsOwner)
<1>1. /\ ~IsOn(f) /\ n < MaxJsListeners /\ jsOwner' = Append(jsOwner, f)
      /\ jsCallBackMap' = [jsCallBackMap EXCEPT ![f] = Len(jsOwner')]
      /\ jsUnsure' = IF UnderWay(f) THEN jsUnsure \cup {f} ELSE jsUnsure \ {f}
      /\ UNCHANGED <<binderLevels, notifyList, notifyLevel, safeCalls, jsEvents, jsCalled, jsDue, jsLate>>
  BY DEF RegisterSystemloadCallback
<1>2. /\ n \in Nat /\ n \in 0..MaxJsListeners /\ jsOwner' \in Seq(JsFunctions) /\ Len(jsOwner') = n + 1
      /\ jsOwner'[n + 1] = f /\ \A l \in 1..n : jsOwner'[l] = jsOwner[l]
      /\ DOMAIN jsOwner = 1..n
  <2>1. jsOwner \in Seq(JsFunctions) /\ n \in JsListeners \cup {0}
    BY DEF JsInv, JsMaps
  <2>2. n \in Nat /\ n \in 0..MaxJsListeners
    BY <2>1, JsSystemloadAssumption DEF JsListeners
  <2> QED
    BY <1>1, <2>1, <2>2
<1>3. /\ jsCallBackMap'[f] = n + 1 /\ \A g \in JsFunctions \ {f} : jsCallBackMap'[g] = jsCallBackMap[g]
      /\ jsCallBackMap' \in [JsFunctions -> 0..(n + 1)]
  <2>1. jsCallBackMap \in [JsFunctions -> 0..n] /\ 0..n \subseteq 0..(n + 1) /\ n + 1 \in 0..(n + 1)
    BY <1>2 DEF JsInv, JsMaps
  <2>2. jsCallBackMap \in [JsFunctions -> 0..(n + 1)]
    BY <2>1
  <2> QED
    BY <1>1, <1>2, <2>1, <2>2
<1>4. /\ IsOn(f)' /\ \A g \in JsFunctions \ {f} : IsOn(g)' <=> IsOn(g)
  BY <1>2, <1>3 DEF IsOn, NoJsListener
<1>5. JsMaps'
  <2>1. n + 1 \in JsListeners
    BY <1>1, <1>2, JsSystemloadAssumption DEF JsListeners
  <2>2. ASSUME NEW g \in JsFunctions, IsOn(g)' PROVE jsOwner'[jsCallBackMap'[g]] = g
    <3>1. CASE g = f
      BY <1>2, <1>3, <3>1
    <3>2. CASE g # f
      <4>1. IsOn(g) /\ jsCallBackMap[g] \in 1..n
        BY <1>2, <1>4, <2>2, <3>2 DEF JsInv, JsMaps, IsOn, NoJsListener
      <4> QED
        BY <1>2, <1>3, <3>2, <4>1 DEF JsInv, JsMaps
    <3> QED
      BY <3>1, <3>2
  <2> QED
    BY <1>2, <1>3, <2>1, <2>2 DEF JsMaps
<1>6. JsWays' /\ JsHistory'
  BY <1>1, <1>2 DEF JsInv, JsWays, JsHistory, JsListeners
<1>7. ASSUME NEW g \in JsFunctions PROVE OffState(g)' /\ OnState(g)'
  <2>1. CASE g = f
    <3>1. jsDue'[f] = NoLoadLevel
      BY <1>1 DEF JsInv, OffState
    <3>2. f \notin jsUnsure' => OldDone(f)'
      <4> SUFFICES ASSUME f \notin jsUnsure', NEW l \in 1..(n + 1), jsOwner'[l] = f, l # n + 1
                   PROVE  l \notin notifyList /\ safeCalls[l] = <<>>
        BY <1>1, <1>2, <1>3 DEF OldDone
      <4>1. ~UnderWay(f)
        BY <1>1
      <4>2. l \in 1..n /\ jsOwner[l] = f
        BY <1>2
      <4> QED
        BY <1>2, <4>1, <4>2 DEF UnderWay
    <3> QED
      BY <1>4, <2>1, <3>1, <3>2 DEF OffState, OnState
  <2>2. CASE g # f
    <3>1. OffState(g)'
      BY <1>1, <1>4, <2>2 DEF JsInv, OffState
    <3>2. ASSUME IsOn(g)', g \notin jsUnsure' PROVE OldDone(g)' /\ (jsDue'[g] # NoLoadLevel => Coming(g, jsDue[g])')
      <4>1. IsOn(g) /\ g \notin jsUnsure
        BY <1>1, <1>4, <2>2, <3>2
      <4>2. OldDone(g)'
        BY <1>1, <1>2, <1>3, <2>2, <4>1 DEF JsInv, OnState, OldDone
      <4>3. jsDue[g] # NoLoadLevel => Coming(g, jsDue[g])'
        BY <1>1, <1>3, <2>2, <4>1 DEF JsInv, OnState, Coming, LastCall
      <4> QED
        BY <1>1, <4>2, <4>3
    <3> QED
      BY <3>1, <3>2 DEF OnState
  <2> QED
    BY <2>1, <2>2
<1> QED
  BY <1>5, <1>6, <1>7 DEF JsInv

LEMMA JsUnregister ==
  ASSUME JsInv, NEW f \in JsFunctions, UnRegisterSystemloadCallback(f)
  PROVE  JsInv'
<1>1. /\ jsCallBackMap' = [jsCallBackMap EXCEPT ![f] = NoJsListener]
      /\ jsDue' = [jsDue EXCEPT ![f] = NoLoadLevel]
      /\ jsLate' = [jsLate EXCEPT ![f] = Len(jsEvents)]
      /\ UNCHANGED <<jsOwner, binderLevels, notifyList, notifyLevel, safeCalls, jsEvents, jsCalled, jsUnsure>>
  BY DEF UnRegisterSystemloadCallback
<1>2. /\ ~IsOn(f)' /\ \A g \in JsFunctions \ {f} : IsOn(g)' <=> IsOn(g)
      /\ \A g \in JsFunctions \ {f} : /\ jsCallBackMap'[g] = jsCallBackMap[g]
                                      /\ jsDue'[g] = jsDue[g] /\ jsLate'[g] = jsLate[g]
      /\ jsDue'[f] = NoLoadLevel /\ jsLate'[f] = Len(jsEvents) /\ Len(jsEvents) \in Nat
  BY <1>1 DEF JsInv, JsMaps, JsWays, JsHistory, IsOn
<1>3. JsMaps'
  <2>1. Len(jsOwner) \in Nat
    BY DEF JsInv, JsMaps
  <2>2. jsCallBackMap' \in [JsFunctions -> 0..Len(jsOwner)]
    BY <1>1, <2>1 DEF JsInv, JsMaps, NoJsListener
  <2> QED
    BY <1>1, <1>2, <2>2 DEF JsInv, JsMaps
<1>4. JsWays' /\ JsHistory'
  BY <1>1, <1>2 DEF JsInv, JsWays, JsHistory
<1>5. ASSUME NEW g \in JsFunctions PROVE OffState(g)' /\ OnState(g)'
  <2>1. CASE g = f
    <3>1. DOMAIN jsEvents = 1..Len(jsEvents)
      BY DEF JsInv, JsWays
    <3> QED
      BY <1>1, <1>2, <2>1, <3>1 DEF OffState, OnState
  <2>2. CASE g # f
    BY <1>1, <1>2, <2>2 DEF JsInv, OffState, OnState, OldDone, Coming, LastCall
  <2> QED
    BY <2>1, <2>2
<1> QED
  BY <1>3, <1>4, <1>5 DEF JsInv

(* The steps that leave the maps and the history of off alone.             *)
JsMapsKept == UNCHANGED <<jsCallBackMap, jsOwner, jsLate>>
LEMMA JsMapsStay ==
  ASSUME JsInv, JsMapsKept
  PROVE  JsMaps' /\ \A g \in JsFunctions : IsOn(g)' <=> IsOn(g)
  BY DEF JsMapsKept, JsInv, JsMaps, IsOn

(* The thread-safe function of a listener hands a level to the event queue.*)
LEMMA JsSafeCall ==
  ASSUME JsInv, NEW l \in JsListeners, NEW sent \in BOOLEAN, ThreadSafeCallBack(l, sent)
  PROVE  JsInv'
<1>0. safeCalls[l] # <<>>
  BY DEF ThreadSafeCallBack
<1>2. /\ safeCalls[l] \in Seq(LoadLevels) /\ Head(safeCalls[l]) \in LoadLevels
      /\ l \in 1..Len(jsOwner) /\ jsOwner[l] \in JsFunctions
  <2>1. /\ safeCalls[l] \in Seq(LoadLevels) /\ l <= Len(jsOwner)
        /\ jsOwner \in Seq(JsFunctions) /\ l \in Nat /\ l >= 1
    BY <1>0, JsSystemloadAssumption DEF JsInv, JsWays, JsMaps, JsListeners
  <2>2. l \in 1..Len(jsOwner) /\ jsOwner[l] \in JsFunctions
    BY <2>1
  <2>3. Head(safeCalls[l]) \in LoadLevels
    BY <1>0, <2>1
  <2> QED
    BY <2>1, <2>2, <2>3
<1> PICK f \in JsFunctions, v \in LoadLevels : f = jsOwner[l] /\ v = Head(safeCalls[l])
  BY <1>2
<1>1. /\ safeCalls[l] # <<>> /\ safeCalls' = [safeCalls EXCEPT ![l] = Tail(safeCalls[l])]
      /\ OnSystemloadLevel(f, v, sent)
      /\ UNCHANGED <<jsCallBackMap, jsOwner, binderLevels, notifyList, notifyLevel, jsCalled, jsDue, jsLate>>
  BY DEF ThreadSafeCallBack
<1>3. /\ Tail(safeCalls[l]) \in Seq(LoadLevels)
      /\ Tail(safeCalls[l]) = <<>> => v = LastIn(safeCalls[l])
      /\ Tail(safeCalls[l]) # <<>> => LastIn(Tail(safeCalls[l])) = LastIn(safeCalls[l])
  BY <1>1, <1>2, LastFacts
<1>4. /\ safeCalls'[l] = Tail(safeCalls[l]) /\ \A k \in JsListeners \ {l} : safeCalls'[k] = safeCalls[k]
      /\ safeCalls' \in [JsListeners -> Seq(LoadLevels)]
  BY <1>1, <1>3 DEF JsInv, JsWays
<1>5. JsMaps' /\ JsHistory' /\ \A g \in JsFunctions : IsOn(g)' <=> IsOn(g)
  BY <1>1, JsMapsStay DEF JsMapsKept, JsInv, JsHistory
<1>6. \/ IsOn(f) /\ jsEvents' = Append(jsEvents, <<f, v>>) /\ jsUnsure' = jsUnsure
      \/ jsEvents' = jsEvents /\ jsUnsure \subseteq jsUnsure' /\ (IsOn(f) => f \in jsUnsure')
  BY <1>1 DEF OnSystemloadLevel
<1>7. /\ jsEvents' \in Seq(JsFunctions \X LoadLevels)
      /\ \A g, d : g # f /\ LastCall(g, d) => LastCall(g, d)'
      /\ \A i \in DOMAIN jsEvents' :
           (IsOn(f) /\ jsEvents'[i][1] = f) \/ (i \in DOMAIN jsEvents /\ jsEvents'[i] = jsEvents[i])
      /\ IsOn(f) /\ f \notin jsUnsure' => LastCall(f, v)'
      /\ jsUnsure \subseteq jsUnsure'
  <2>1. CASE IsOn(f) /\ jsEvents' = Append(jsEvents, <<f, v>>) /\ jsUnsure' = jsUnsure
    <3>1. JsWays /\ jsCalled' = jsCalled
      BY <1>1 DEF JsInv
    <3>2. /\ jsEvents' \in Seq(JsFunctions \X LoadLevels) /\ LastCall(f, v)'
          /\ \A g, d : g # f /\ LastCall(g, d) => LastCall(g, d)'
          /\ \A i \in DOMAIN jsEvents' : jsEvents'[i][1] = f \/ (i \in DOMAIN jsEvents /\ jsEvents'[i] = jsEvents[i])
      BY <1>2, <2>1, <3>1, EventAdded
    <3> QED
      BY <2>1, <3>2
  <2>2. CASE jsEvents' = jsEvents /\ jsUnsure \subseteq jsUnsure' /\ (IsOn(f) => f \in jsUnsure')
    BY <1>1, <2>2 DEF JsInv, JsWays, LastCall
  <2> QED
    BY <1>6, <2>1, <2>2
<1>8. JsWays'
  BY <1>1, <1>2, <1>4, <1>7 DEF JsInv, JsWays
<1>9. ASSUME NEW g \in JsFunctions PROVE OffState(g)' /\ OnState(g)'
  <2>1. OffState(g)'
    BY <1>1, <1>5, <1>7 DEF JsInv, OffState
  <2>2. ASSUME IsOn(g)', g \notin jsUnsure' PROVE OldDone(g)' /\ (jsDue'[g] # NoLoadLevel => Coming(g, jsDue[g])')
    <3>1. IsOn(g) /\ g \notin jsUnsure /\ OldDone(g) /\ (jsDue[g] # NoLoadLevel => Coming(g, jsDue[g]))
      BY <1>5, <1>7, <2>2 DEF JsInv, OnState
    <3>2. jsCallBackMap[g] \in JsListeners /\ jsOwner[jsCallBackMap[g]] = g /\ 1..Len(jsOwner) \subseteq JsListeners
      <4>1. /\ Len(jsOwner) \in Nat /\ MaxJsListeners \in Nat /\ Len(jsOwner) <= MaxJsListeners
            /\ jsCallBackMap[g] \in 0..Len(jsOwner) /\ jsCallBackMap[g] # 0 /\ jsOwner[jsCallBackMap[g]] = g
        BY <3>1, JsSystemloadAssumption DEF JsInv, JsMaps, IsOn, NoJsListener, JsListeners
      <4> QED
        BY <4>1 DEF JsListeners
    <3>3. OldDone(g)'
      <4> SUFFICES ASSUME NEW k \in 1..Len(jsOwner), jsOwner[k] = g, k # jsCallBackMap[g]
                   PROVE  k \notin notifyList /\ safeCalls'[k] = <<>>
        BY <1>1 DEF OldDone
      <4>1. k \notin notifyList /\ safeCalls[k] = <<>>
        BY <3>1 DEF OldDone
      <4> QED
        BY <1>1, <1>4, <3>2, <4>1
    <3>4. ASSUME jsDue[g] # NoLoadLevel PROVE Coming(g, jsDue[g])'
      <4>1. CASE l = jsCallBackMap[g]
        <5>1. g = f
          BY <3>2, <4>1
        <5>2. LastCall(f, v)'
          BY <1>7, <2>2, <3>1, <5>1
        <5> QED
          BY <1>1, <1>3, <1>4, <3>1, <3>4, <4>1, <5>1, <5>2 DEF Coming
      <4>2. CASE l # jsCallBackMap[g]
        <5>1. g # f
          BY <1>1, <1>2, <3>1, <4>2 DEF OldDone
        <5>2. safeCalls'[jsCallBackMap[g]] = safeCalls[jsCallBackMap[g]]
          BY <1>4, <3>2, <4>2
        <5>3. LastCall(g, jsDue[g]) => LastCall(g, jsDue[g])'
          BY <1>1, <1>7, <5>1
        <5> QED
          BY <1>1, <3>1, <3>4, <5>2, <5>3 DEF Coming
      <4> QED
        BY <4>1, <4>2
    <3> QED
      BY <1>1, <3>3, <3>4
  <2> QED
    BY <2>1, <2>2 DEF OnState
<1> QED
  BY <1>5, <1>8, <1>9 DEF JsInv

(* A queued event is handled.                                              *)
LEMMA JsComplete ==
  ASSUME JsInv, CompleteCb
  PROVE  JsInv'
<1>1. UNCHANGED <<jsCallBackMap, jsOwner, binderLevels, notifyList, notifyLevel, safeCalls, jsDue, jsUnsure>>
  BY DEF CompleteCb
<1>2. JsWays /\ JsHistory
  BY DEF JsInv
<1>3. /\ jsEvents' \in Seq(JsFunctions \X LoadLevels) /\ JsHistory'
      /\ \A f, d : f \in JsFunctions /\ LastCall(f, d) => LastCall(f, d)'
      /\ \A f \in JsFunctions :
           (\A i \in DOMAIN jsEvents : jsEvents[i][1] = f => i <= jsLate[f])
             => \A i \in DOMAIN jsEvents' : jsEvents'[i][1] = f => i <= jsLate'[f]
  BY <1>2, EventTaken
<1>4. JsMaps' /\ JsWays' /\ \A g \in JsFunctions : IsOn(g)' <=> IsOn(g)
  BY <1>1, <1>3 DEF JsInv, JsMaps, JsWays, IsOn
<1>5. ASSUME NEW g \in JsFunctions PROVE OffState(g)' /\ OnState(g)'
  <2>1. OffState(g) /\ OnState(g)
    BY DEF JsInv
  <2>2. OffState(g)'
    BY <1>1, <1>3, <1>4, <2>1 DEF OffState
  <2>3. LastCall(g, jsDue[g]) => LastCall(g, jsDue[g])'
    BY <1>1, <1>3
  <2>4. OldDone(g) => OldDone(g)'
    BY <1>1 DEF OldDone
  <2>5. Coming(g, jsDue[g]) => Coming(g, jsDue[g])'
    BY <1>1, <2>3 DEF Coming
  <2> QED
    BY <1>1, <1>4, <2>1, <2>2, <2>4, <2>5 DEF OnState
<1> QED
  BY <1>3, <1>4, <1>5 DEF JsInv

(* The listener of a function that is on.                                  *)
LEMMA ListenerOfFunction ==
  ASSUME JsMaps, NEW f \in JsFunctions, IsOn(f)
  PROVE  /\ jsCallBackMap[f] \in 1..Len(jsOwner) /\ jsCallBackMap[f] \in JsListeners
         /\ jsOwner[jsCallBackMap[f]] = f /\ jsCallBackMap[f] \in SystemloadLevelCbs
<1>1. /\ Len(jsOwner) \in Nat /\ MaxJsListeners \in Nat /\ Len(jsOwner) <= MaxJsListeners
      /\ jsCallBackMap[f] \in 0..Len(jsOwner) /\ jsCallBackMap[f] # 0 /\ jsOwner[jsCallBackMap[f]] = f
  BY JsSystemloadAssumption DEF JsMaps, IsOn, NoJsListener, JsListeners
<1> QED
  BY <1>1 DEF JsListeners, SystemloadLevelCbs

(* The binder thread copies the list of listeners for the next level.      *)
LEMMA JsCopy ==
  ASSUME JsInv, CopyListeners
  PROVE  JsInv'
<1>1. /\ notifyList = {} /\ binderLevels # <<>> /\ binderLevels' = Tail(binderLevels)
      /\ notifyList' = SystemloadLevelCbs /\ notifyLevel' = Head(binderLevels)
      /\ UNCHANGED <<jsCallBackMap, jsOwner, safeCalls, jsEvents, jsCalled, jsDue, jsLate, jsUnsure>>
  BY DEF CopyListeners
<1>2. JsMaps' /\ JsHistory' /\ \A g \in JsFunctions : IsOn(g)' <=> IsOn(g)
  BY <1>1, JsMapsStay DEF JsMapsKept, JsInv, JsHistory
<1>3. binderLevels \in Seq(LoadLevels)
  BY DEF JsInv, JsWays
<1>4. /\ Tail(binderLevels) \in Seq(LoadLevels) /\ Head(binderLevels) \in LoadLevels
      /\ Tail(binderLevels) = <<>> => Head(binderLevels) = LastIn(binderLevels)
      /\ Tail(binderLevels) # <<>> => LastIn(Tail(binderLevels)) = LastIn(binderLevels)
  BY <1>1, <1>3, LastFacts
<1>5. ASSUME NEW l \in notifyList'
      PROVE  \E g \in JsFunctions : IsOn(g) /\ l = jsCallBackMap[g] /\ jsOwner[l] = g /\ l \in 1..Len(jsOwner)
  <2>1. PICK g \in JsFunctions : IsOn(g) /\ l = jsCallBackMap[g]
    BY <1>1, <1>5 DEF SystemloadLevelCbs
  <2> QED
    BY <2>1, ListenerOfFunction DEF JsInv
<1>6. JsWays'
  BY <1>1, <1>4, <1>5 DEF JsInv, JsWays
<1>7. ASSUME NEW g \in JsFunctions PROVE OffState(g)' /\ OnState(g)'
  <2>1. OffState(g)'
    BY <1>1, <1>2 DEF JsInv, OffState
  <2>2. ASSUME IsOn(g)', g \notin jsUnsure' PROVE OldDone(g)' /\ (jsDue'[g] # NoLoadLevel => Coming(g, jsDue[g])')
    <3>1. IsOn(g) /\ OldDone(g) /\ (jsDue[g] # NoLoadLevel => Coming(g, jsDue[g]))
      BY <1>1, <1>2, <2>2 DEF JsInv, OnState
    <3>2. OldDone(g)'
      BY <1>1, <1>5, <3>1 DEF OldDone
    <3>3. jsCallBackMap[g] \in notifyList'
      BY <1>1, <3>1, ListenerOfFunction DEF JsInv
    <3>4. jsDue[g] # NoLoadLevel => Coming(g, jsDue[g])'
      BY <1>1, <1>4, <3>1, <3>3 DEF Coming
    <3> QED
      BY <1>1, <3>2, <3>4
  <2> QED
    BY <2>1, <2>2 DEF OnState
<1> QED
  BY <1>2, <1>6, <1>7 DEF JsInv

(* The binder thread hands the level to one of the listeners of its list.  *)
LEMMA JsListener ==
  ASSUME JsInv, NEW l \in JsListeners, ListenerOnSystemloadLevel(l)
  PROVE  JsInv'
<1>1. /\ l \in notifyList /\ notifyList' = notifyList \ {l}
      /\ safeCalls' = [safeCalls EXCEPT ![l] = Append(safeCalls[l], notifyLevel)]
      /\ UNCHANGED <<jsCallBackMap, jsOwner, binderLevels, notifyLevel, jsEvents, jsCalled, jsDue, jsLate, jsUnsure>>
  BY DEF ListenerOnSystemloadLevel
<1>2. JsMaps' /\ JsHistory' /\ \A g \in JsFunctions : IsOn(g)' <=> IsOn(g)
  BY <1>1, JsMapsStay DEF JsMapsKept, JsInv, JsHistory
<1>3. safeCalls[l] \in Seq(LoadLevels) /\ notifyLevel \in LoadLevels /\ l \in 1..Len(jsOwner)
  BY <1>1 DEF JsInv, JsWays
<1>4. /\ Append(safeCalls[l], notifyLevel) \in Seq(LoadLevels) /\ Append(safeCalls[l], notifyLevel) # <<>>
      /\ LastIn(Append(safeCalls[l], notifyLevel)) = notifyLevel
  BY <1>3, LastFacts
<1>5. /\ safeCalls'[l] = Append(safeCalls[l], notifyLevel) /\ \A k \in JsListeners \ {l} : safeCalls'[k] = safeCalls[k]
      /\ safeCalls' \in [JsListeners -> Seq(LoadLevels)]
  BY <1>1, <1>4 DEF JsInv, JsWays
<1>6. JsWays'
  <2>1. ASSUME NEW k \in JsListeners, safeCalls'[k] # <<>> PROVE k <= Len(jsOwner)
    <3>1. CASE k = l
      BY <1>3, <3>1 DEF JsInv, JsMaps
    <3>2. CASE k # l
      BY <1>5, <2>1, <3>2 DEF JsInv, JsWays
    <3> QED
      BY <3>1, <3>2
  <2> QED
    BY <1>1, <1>5, <2>1 DEF JsInv, JsWays
<1>7. ASSUME NEW g \in JsFunctions PROVE OffState(g)' /\ OnState(g)'
  <2>1. OffState(g)'
    BY <1>1, <1>2 DEF JsInv, OffState
  <2>2. ASSUME IsOn(g)', g \notin jsUnsure' PROVE OldDone(g)' /\ (jsDue'[g] # NoLoadLevel => Coming(g, jsDue[g])')
    <3>1. IsOn(g) /\ OldDone(g) /\ (jsDue[g] # NoLoadLevel => Coming(g, jsDue[g]))
      BY <1>1, <1>2, <2>2 DEF JsInv, OnState
    <3>2. 1..Len(jsOwner) \subseteq JsListeners /\ jsCallBackMap[g] \in JsListeners
      <4>1. Len(jsOwner) \in Nat /\ MaxJsListeners \in Nat /\ Len(jsOwner) <= MaxJsListeners
        BY JsSystemloadAssumption DEF JsInv, JsMaps, JsListeners
      <4> QED
        BY <3>1, <4>1, ListenerOfFunction DEF JsInv, JsListeners
    <3>3. OldDone(g)'
      <4> SUFFICES ASSUME NEW k \in 1..Len(jsOwner), jsOwner[k] = g, k # jsCallBackMap[g]
                   PROVE  k \notin notifyList' /\ safeCalls'[k] = <<>>
        BY <1>1 DEF OldDone
      <4>1. k \notin notifyList /\ safeCalls[k] = <<>>
        BY <3>1 DEF OldDone
      <4> QED
        BY <1>1, <1>5, <3>2, <4>1
    <3>4. ASSUME jsDue[g] # NoLoadLevel PROVE Coming(g, jsDue[g])'
      <4>1. CASE l = jsCallBackMap[g]
        BY <1>1, <1>4, <1>5, <3>1, <3>4, <4>1 DEF Coming
      <4>2. CASE l # jsCallBackMap[g]
        <5>1. safeCalls'[jsCallBackMap[g]] = safeCalls[jsCallBackMap[g]]
          BY <1>5, <3>2, <4>2
        <5>2. LastCall(g, jsDue[g]) => LastCall(g, jsDue[g])'
          BY <1>1 DEF LastCall
        <5> QED
          BY <1>1, <3>1, <3>4, <4>2, <5>1, <5>2 DEF Coming
      <4> QED
        BY <4>1, <4>2
    <3> QED
      BY <1>1, <3>3, <3>4
  <2> QED
    BY <2>1, <2>2 DEF OnState
<1> QED
  BY <1>2, <1>6, <1>7 DEF JsInv

(* The service sends a level.                                              *)
LEMMA JsService ==
  ASSUME JsInv, NEW level \in LoadLevels, ServiceSendsLevel(level)
  PROVE  JsInv'
<1>1. /\ binderLevels' = IF SystemloadLevelCbs = {} THEN binderLevels ELSE Append(binderLevels, level)
      /\ jsDue' = [f \in JsFunctions |-> IF IsOn(f) THEN level ELSE jsDue[f]]
      /\ UNCHANGED <<jsCallBackMap, jsOwner, notifyList, notifyLevel, safeCalls, jsEvents,
                     jsCalled, jsLate, jsUnsure>>
  BY DEF ServiceSendsLevel
<1>2. JsMaps' /\ \A g \in JsFunctions : IsOn(g)' <=> IsOn(g)
  BY <1>1, JsMapsStay DEF JsMapsKept
<1>3. binderLevels \in Seq(LoadLevels)
  BY DEF JsInv, JsWays
<1>4. /\ Append(binderLevels, level) \in Seq(LoadLevels) /\ Append(binderLevels, level) # <<>>
      /\ LastIn(Append(binderLevels, level)) = level
  BY <1>3, LastFacts
<1>5. JsWays' /\ JsHistory'
  <2>1. binderLevels' \in Seq(LoadLevels)
    BY <1>1, <1>3, <1>4
  <2>2. jsDue' \in [JsFunctions -> LoadLevels \cup {NoLoadLevel}]
    BY <1>1 DEF JsInv, JsHistory
  <2> QED
    BY <1>1, <2>1, <2>2 DEF JsInv, JsWays, JsHistory
<1>6. ASSUME NEW g \in JsFunctions PROVE OffState(g)' /\ OnState(g)'
  <2>1. CASE ~IsOn(g)
    BY <1>1, <1>2, <2>1 DEF JsInv, OffState, OnState
  <2>2. CASE IsOn(g)
    <3>1. OldDone(g) => OldDone(g)'
      BY <1>1 DEF OldDone
    <3>2. binderLevels' = Append(binderLevels, level) /\ jsDue'[g] = level
      BY <1>1, <2>2, ListenerOfFunction DEF JsInv
    <3>3. Coming(g, jsDue[g])'
      BY <1>4, <3>2 DEF Coming
    <3> QED
      BY <1>1, <1>2, <2>2, <3>1, <3>3 DEF JsInv, OffState, OnState
  <2> QED
    BY <2>1, <2>2
<1> QED
  BY <1>2, <1>5, <1>6 DEF JsInv

LEMMA JsStep ==
  ASSUME JsInv, [JsNext]_jsVars
  PROVE  JsInv'
<1>1. CASE UNCHANGED jsVars
  <2>1. JsMaps' /\ JsWays' /\ JsHistory'
    BY <1>1 DEF jsVars, JsInv, JsMaps, JsWays, JsHistory, IsOn
  <2>2. ASSUME NEW g \in JsFunctions PROVE OffState(g)' /\ OnState(g)'
    <3>1. OffState(g) /\ OnState(g)
      BY DEF JsInv
    <3> QED
      BY <1>1, <3>1 DEF jsVars, OffState, OnState, IsOn, OldDone, Coming, LastCall
  <2> QED
    BY <2>1, <2>2 DEF JsInv
<1> QED
  BY <1>1, JsRegister, JsUnregister, JsSafeCall, JsComplete, JsCopy, JsListener, JsService DEF JsNext

LEMMA JsStart == JsInit => JsInv
<1> SUFFICES ASSUME JsInit PROVE JsInv
  OBVIOUS
<1>1. /\ jsCallBackMap = [f \in JsFunctions |-> 0] /\ jsOwner = <<>>
      /\ binderLevels = <<>> /\ notifyList = {} /\ jsEvents = <<>>
      /\ safeCalls = [l \in JsListeners |-> <<>>]
      /\ jsCalled = [f \in JsFunctions |-> NoLoadLevel]
      /\ jsDue = [f \in JsFunctions |-> NoLoadLevel]
      /\ jsLate = [f \in JsFunctions |-> 0]
  BY DEF JsInit, NoJsListener
<1>2. Len(jsOwner) = 0 /\ jsOwner \in Seq(JsFunctions) /\ 0 \in 0..0 /\ \A f \in JsFunctions : ~IsOn(f)
  BY <1>1 DEF IsOn, NoJsListener
<1>3. JsMaps
  <2>1. jsCallBackMap \in [JsFunctions -> 0..Len(jsOwner)]
    BY <1>1, <1>2
  <2> QED
    BY <1>2, <2>1 DEF JsMaps
<1>4. JsWays
  BY <1>1, <1>2 DEF JsWays
<1>5. JsHistory
  BY <1>1 DEF JsHistory
<1>6. \A f \in JsFunctions : OffState(f) /\ OnState(f)
  BY <1>1, <1>2 DEF OffState, OnState
<1> QED
  BY <1>3, <1>4, <1>5, <1>6 DEF JsInv

LEMMA JsGives == JsInv => JsCallbacksRight
<1> SUFFICES ASSUME JsInv PROVE JsCallbacksRight
  OBVIOUS
<1>1. ASSUME JsArrived, NEW f \in JsFunctions \ jsUnsure, IsOn(f), jsDue[f] # NoLoadLevel
      PROVE  jsCalled[f] = jsDue[f]
  <2>1. Coming(f, jsDue[f])
    BY <1>1 DEF JsInv, OnState
  <2>2. jsCallBackMap[f] \in JsListeners
    BY <1>1, ListenerOfFunction DEF JsInv
  <2>3. LastCall(f, jsDue[f]) /\ jsEvents = <<>>
    BY <1>1, <2>1, <2>2 DEF JsArrived, Coming
  <2>4. DOMAIN jsEvents = {}
    BY <2>3
  <2> QED
    BY <2>3, <2>4 DEF LastCall
<1> QED
  BY <1>1 DEF JsInv, OffState, JsCallbacksRight

-----------------------------------------------------------------------------
(* RequestLimit.  What was accepted in the window that is open is what the *)
(* counters say, what was accepted in as long a time before it is within   *)
(* the limits, and any span that ends now lies in these two.               *)
Ticks == 0..MaxTime
AcceptedOf(u) == [t \in Ticks |-> acceptedAt[t][u]]
ThisWindow == {t \in Ticks : t + LIMIT_REQUEST_TIME >= nextCheckTime}
LastWindow == {t \in Ticks : /\ t + LIMIT_REQUEST_TIME < nextCheckTime
                             /\ t + 2 * LIMIT_REQUEST_TIME >= nextCheckTime}
LastAccepted == [u \in Callers |-> Total(AcceptedOf(u), LastWindow)]
LimitData ==
  /\ clock \in Ticks /\ allRequestCount \in 0..ALL_UID_REQUEST_LIMIT_COUNT
  /\ appRequestCount \in [Callers -> 0..SINGLE_UID_REQUEST_LIMIT_COUNT]
  /\ nextCheckTime \in Nat /\ acceptedAt \in [Ticks -> [Callers -> Nat]]
  /\ nextCheckTime <= clock + LIMIT_REQUEST_TIME
  /\ \A t \in Ticks, u \in Callers : t > clock \/ t >= nextCheckTime => acceptedAt[t][u] = 0
LimitSums ==
  /\ \A u \in Callers : Total(AcceptedOf(u), ThisWindow) = appRequestCount[u]
  /\ Total(appRequestCount, Callers) = allRequestCount
  /\ \A u \in Callers : LastAccepted[u] <= SINGLE_UID_REQUEST_LIMIT_COUNT
  /\ Total(LastAccepted, Callers) <= ALL_UID_REQUEST_LIMIT_COUNT
LimitInv == LimitData /\ LimitSums

LEMMA LimitConstants ==
  /\ IsFiniteSet(Callers) /\ MaxTime \in Nat /\ IsFiniteSet(Ticks) /\ Ticks \subseteq Nat
  /\ SINGLE_UID_REQUEST_LIMIT_COUNT \in Nat \ {0} /\ ALL_UID_REQUEST_LIMIT_COUNT \in Nat \ {0}
  /\ LIMIT_REQUEST_TIME \in Nat \ {0}
<1>1. IsFiniteSet(Callers) /\ MaxTime \in Nat
  BY RequestsAssumption
<1>2. IsFiniteSet(0..MaxTime)
  BY <1>1, FS_Interval
<1> QED
  BY <1>1, <1>2, RequestsAssumption DEF Ticks

LEMMA AcceptedCounted ==
  ASSUME LimitData
  PROVE  /\ \A u \in Callers, T \in SUBSET Ticks :
              Counted(AcceptedOf(u), T) /\ Total(AcceptedOf(u), T) \in Nat
         /\ Counted(appRequestCount, Callers) /\ Counted(LastAccepted, Callers)
<1>1. \A u \in Callers : Counted(AcceptedOf(u), Ticks)
  BY LimitConstants DEF LimitData, AcceptedOf, Counted
<1>2. \A u \in Callers, T \in SUBSET Ticks :
        Counted(AcceptedOf(u), T) /\ Total(AcceptedOf(u), T) \in Nat
  BY <1>1, CountedSubset, TotalType
<1>3. LastWindow \in SUBSET Ticks
  BY DEF LastWindow
<1>4. Counted(LastAccepted, Callers)
  BY <1>2, <1>3, LimitConstants DEF LastAccepted, Counted
<1>5. Counted(appRequestCount, Callers)
  BY LimitConstants DEF LimitData, Counted
<1> QED
  BY <1>2, <1>4, <1>5

LEMMA LimitGives == LimitInv => LimitHolds
<1> SUFFICES ASSUME LimitInv PROVE LimitHolds
  OBVIOUS
<1> DEFINE Span == {i \in 0..clock : i + LIMIT_REQUEST_TIME > clock}
           lately == [u \in Callers |-> AcceptedLately(u)]
           both == [u \in Callers |-> appRequestCount[u] + LastAccepted[u]]
<1>1. /\ clock \in Ticks /\ nextCheckTime \in Nat /\ nextCheckTime <= clock + LIMIT_REQUEST_TIME
      /\ appRequestCount \in [Callers -> 0..SINGLE_UID_REQUEST_LIMIT_COUNT]
      /\ allRequestCount \in 0..ALL_UID_REQUEST_LIMIT_COUNT
  BY DEF LimitInv, LimitData
<1>2. /\ Span \in SUBSET Ticks /\ ThisWindow \in SUBSET Ticks /\ LastWindow \in SUBSET Ticks
      /\ Span \subseteq ThisWindow \cup LastWindow
  BY <1>1, LimitConstants DEF Ticks, ThisWindow, LastWindow
<1>3. \A u \in Callers, T \in SUBSET Ticks : Counted(AcceptedOf(u), T) /\ Total(AcceptedOf(u), T) \in Nat
  BY AcceptedCounted DEF LimitInv
<1>4. Counted(appRequestCount, Callers) /\ Counted(LastAccepted, Callers)
  BY AcceptedCounted DEF LimitInv
<1>5. ASSUME NEW u \in Callers
      PROVE  AcceptedLately(u) \in Nat /\ AcceptedLately(u) <= appRequestCount[u] + LastAccepted[u]
  <2> DEFINE f == [t \in Span |-> acceptedAt[t][u]]
  <2>1. AcceptedLately(u) = Total(f, Span)
    <3>1. DOMAIN f = Span
      OBVIOUS
    <3>2. AcceptedLately(u) = SumFunction(f)
      BY DEF AcceptedLately
    <3> HIDE DEF f, Span
    <3> QED
      BY <3>1, <3>2, Zenon DEF SumFunction, Total
  <2>2. \A t \in Span : f[t] = AcceptedOf(u)[t]
    BY <1>2 DEF AcceptedOf
  <2> HIDE DEF f
  <2>3. Total(f, Span) = Total(AcceptedOf(u), Span)
    BY <1>2, <1>3, <2>2, TotalSame
  <2>4. Counted(AcceptedOf(u), Ticks)
    BY <1>3
  <2> HIDE DEF Span
  <2>5. Total(AcceptedOf(u), Span) <= Total(AcceptedOf(u), ThisWindow) + Total(AcceptedOf(u), LastWindow)
    BY <1>2, <2>4, TotalCovered
  <2>6. /\ Total(AcceptedOf(u), ThisWindow) = appRequestCount[u]
        /\ Total(AcceptedOf(u), LastWindow) = LastAccepted[u]
    BY DEF LimitInv, LimitSums, LastAccepted
  <2> QED
    BY <1>2, <1>3, <2>1, <2>3, <2>5, <2>6
<1>6. ASSUME NEW u \in Callers PROVE AcceptedLately(u) <= 2 * SINGLE_UID_REQUEST_LIMIT_COUNT
  <2>1. /\ appRequestCount[u] \in 0..SINGLE_UID_REQUEST_LIMIT_COUNT /\ LastAccepted[u] \in Nat
        /\ LastAccepted[u] <= SINGLE_UID_REQUEST_LIMIT_COUNT
    BY <1>1, <1>4 DEF LimitInv, LimitSums, Counted
  <2> QED
    BY <1>5, <2>1, LimitConstants
<1>7. SumFunction(lately) <= 2 * ALL_UID_REQUEST_LIMIT_COUNT
  <2>1. SumFunction(lately) = Total(lately, Callers)
    BY DEF SumFunction, Total
  <2>2. Counted(lately, Callers) /\ Counted(both, Callers) /\ \A u \in Callers : lately[u] <= both[u]
    BY <1>4, <1>5, LimitConstants DEF Counted
  <2>3. \A u \in Callers : both[u] = appRequestCount[u] + LastAccepted[u]
    OBVIOUS
  <2> HIDE DEF lately, both
  <2>4. Total(lately, Callers) <= Total(both, Callers)
    BY <2>2, TotalLess
  <2>5. Total(both, Callers) = Total(appRequestCount, Callers) + Total(LastAccepted, Callers)
    BY <1>4, <2>3, TotalPlus
  <2>6. /\ Total(appRequestCount, Callers) = allRequestCount /\ Total(LastAccepted, Callers) \in Nat
        /\ Total(LastAccepted, Callers) <= ALL_UID_REQUEST_LIMIT_COUNT /\ Total(lately, Callers) \in Nat
    BY <1>4, <2>2, TotalType DEF LimitInv, LimitSums
  <2> QED
    BY <1>1, <2>1, <2>4, <2>5, <2>6, LimitConstants
<1> QED
  BY <1>6, <1>7, Zenon DEF LimitHolds

(* A request in the window that is open.                                   *)
LEMMA LimitInWindow ==
  ASSUME LimitInv, NEW u \in Callers, RemoteRequestCheck(u), clock' = clock, clock < nextCheckTime
  PROVE  LimitInv'
<1> DEFINE one == IF IsLimitRequest(u) THEN 0 ELSE 1
<1>1. one \in {0, 1} /\ (one = 1 => /\ allRequestCount < ALL_UID_REQUEST_LIMIT_COUNT
                                     /\ appRequestCount[u] < SINGLE_UID_REQUEST_LIMIT_COUNT)
  <2>1. /\ ~(clock >= nextCheckTime) /\ allRequestCount \in Nat /\ appRequestCount[u] \in Nat
    BY LimitConstants DEF LimitInv, LimitData
  <2> QED
    BY <2>1, LimitConstants DEF IsLimitRequest, CheckAndUpdateLimitData
<1>2. /\ nextCheckTime' = nextCheckTime /\ allRequestCount' = allRequestCount + one
      /\ appRequestCount' = [appRequestCount EXCEPT ![u] = appRequestCount[u] + one]
      /\ acceptedAt' = [acceptedAt EXCEPT ![clock] = [acceptedAt[clock] EXCEPT ![u] = acceptedAt[clock][u] + one]]
  <2>1. ~(clock >= nextCheckTime)
    BY LimitConstants DEF LimitInv, LimitData
  <2> QED
    BY <2>1 DEF RemoteRequestCheck, CheckAndUpdateLimitData
<1> HIDE DEF one
<1>3. /\ clock \in Ticks /\ clock \in Nat /\ nextCheckTime \in Nat /\ one \in Nat
      /\ appRequestCount \in [Callers -> 0..SINGLE_UID_REQUEST_LIMIT_COUNT]
      /\ allRequestCount \in 0..ALL_UID_REQUEST_LIMIT_COUNT
      /\ acceptedAt \in [Ticks -> [Callers -> Nat]]
      /\ nextCheckTime <= clock + LIMIT_REQUEST_TIME
      /\ \A t \in Ticks, v \in Callers : t > clock \/ t >= nextCheckTime => acceptedAt[t][v] = 0
  BY <1>1, LimitConstants DEF LimitInv, LimitData
<1>4. \A t \in Ticks, v \in Callers :
        acceptedAt'[t][v] = IF t = clock /\ v = u THEN acceptedAt[t][v] + one ELSE acceptedAt[t][v]
  BY <1>2, <1>3
<1>5. LimitData'
  <2>1. acceptedAt' \in [Ticks -> [Callers -> Nat]]
    BY <1>2, <1>3
  <2>2. appRequestCount' \in [Callers -> 0..SINGLE_UID_REQUEST_LIMIT_COUNT]
    <3>1. appRequestCount[u] + one \in 0..SINGLE_UID_REQUEST_LIMIT_COUNT
      BY <1>1, <1>3, LimitConstants
    <3> QED
      BY <1>2, <1>3, <3>1
  <2>3. allRequestCount' \in 0..ALL_UID_REQUEST_LIMIT_COUNT
    BY <1>1, <1>2, <1>3, LimitConstants
  <2>4. \A t \in Ticks, v \in Callers : t > clock \/ t >= nextCheckTime => acceptedAt'[t][v] = 0
    BY <1>3, <1>4, LimitConstants
  <2> QED
    BY <1>2, <1>3, <2>1, <2>2, <2>3, <2>4 DEF LimitData
<1>6. ThisWindow' = ThisWindow /\ LastWindow' = LastWindow
  BY <1>2 DEF ThisWindow, LastWindow
<1>7. clock \in ThisWindow /\ clock \notin LastWindow /\ ThisWindow \in SUBSET Ticks /\ LastWindow \in SUBSET Ticks
  BY <1>3, LimitConstants DEF ThisWindow, LastWindow
<1>8. \A v \in Callers, T \in SUBSET Ticks : Counted(AcceptedOf(v), T)
  BY AcceptedCounted DEF LimitInv
<1>9. \A v \in Callers, t \in Ticks : /\ AcceptedOf(v)[t] = acceptedAt[t][v]
                                      /\ AcceptedOf(v)'[t] = acceptedAt'[t][v]
  BY DEF AcceptedOf
<1>10. ASSUME NEW v \in Callers PROVE Total(AcceptedOf(v)', ThisWindow) = appRequestCount'[v]
  <2>1. Total(AcceptedOf(v), ThisWindow) = appRequestCount[v]
    BY DEF LimitInv, LimitSums
  <2>2. CASE v = u
    <3>1. /\ AcceptedOf(v)'[clock] = AcceptedOf(v)[clock] + one
          /\ \A t \in ThisWindow \ {clock} : AcceptedOf(v)'[t] = AcceptedOf(v)[t]
      BY <1>3, <1>4, <1>7, <1>9, <2>2
    <3>2. Total(AcceptedOf(v)', ThisWindow) = Total(AcceptedOf(v), ThisWindow) + one
      <4>1. Grown(AcceptedOf(v), AcceptedOf(v)', ThisWindow, clock, one)
        BY <1>3, <1>7, <1>8, <3>1 DEF Grown
      <4> QED
        BY <4>1, TotalGrows
    <3> QED
      BY <1>2, <1>3, <2>1, <2>2, <3>2
  <2>3. CASE v # u
    <3>1. \A t \in ThisWindow : AcceptedOf(v)[t] = AcceptedOf(v)'[t]
      BY <1>4, <1>7, <1>9, <2>3
    <3>2. Total(AcceptedOf(v), ThisWindow) = Total(AcceptedOf(v)', ThisWindow)
      BY <1>7, <1>8, <3>1, TotalSame
    <3> QED
      BY <1>2, <1>3, <2>1, <2>3, <3>2
  <2> QED
    BY <2>2, <2>3
<1>11. Total(appRequestCount', Callers) = allRequestCount'
  <2>1. Counted(appRequestCount, Callers) /\ Total(appRequestCount, Callers) = allRequestCount
    BY AcceptedCounted DEF LimitInv, LimitSums
  <2>2. appRequestCount'[u] = appRequestCount[u] + one /\ \A v \in Callers \ {u} : appRequestCount'[v] = appRequestCount[v]
    BY <1>2, <1>3
  <2>3. Total(appRequestCount', Callers) = Total(appRequestCount, Callers) + one
    <3>1. Grown(appRequestCount, appRequestCount', Callers, u, one)
      BY <1>3, <2>1, <2>2 DEF Grown
    <3> QED
      BY <3>1, TotalGrows
  <2> QED
    BY <1>2, <2>1, <2>3
<1>12. LastAccepted' = LastAccepted
  <2>1. ASSUME NEW v \in Callers PROVE Total(AcceptedOf(v), LastWindow) = Total(AcceptedOf(v)', LastWindow)
    <3>1. \A t \in LastWindow : AcceptedOf(v)[t] = AcceptedOf(v)'[t]
      BY <1>4, <1>7, <1>9
    <3> QED
      BY <1>7, <1>8, <3>1, TotalSame
  <2> QED
    BY <1>6, <2>1 DEF LastAccepted
<1>13. LimitSums'
  BY <1>6, <1>10, <1>11, <1>12 DEF LimitInv, LimitSums
<1> QED
  BY <1>5, <1>13 DEF LimitInv

(* The first request past a window opens the next.                         *)
LEMMA LimitOpensWindow ==
  ASSUME LimitInv, NEW u \in Callers, RemoteRequestCheck(u), clock' = clock, clock >= nextCheckTime
  PROVE  LimitInv'
<1> DEFINE zero == [v \in Callers |-> 0]
<1>1. ~IsLimitRequest(u)
  BY LimitConstants DEF IsLimitRequest, CheckAndUpdateLimitData
<1>2. /\ nextCheckTime' = clock + LIMIT_REQUEST_TIME /\ allRequestCount' = 1
      /\ appRequestCount' = [zero EXCEPT ![u] = 1]
      /\ acceptedAt' = [acceptedAt EXCEPT ![clock] = [acceptedAt[clock] EXCEPT ![u] = acceptedAt[clock][u] + 1]]
  BY <1>1 DEF RemoteRequestCheck, CheckAndUpdateLimitData
<1>3. /\ clock \in Ticks /\ clock \in Nat /\ nextCheckTime \in Nat
      /\ appRequestCount \in [Callers -> 0..SINGLE_UID_REQUEST_LIMIT_COUNT]
      /\ allRequestCount \in 0..ALL_UID_REQUEST_LIMIT_COUNT
      /\ acceptedAt \in [Ticks -> [Callers -> Nat]]
      /\ \A t \in Ticks, v \in Callers : t > clock \/ t >= nextCheckTime => acceptedAt[t][v] = 0
  BY LimitConstants DEF LimitInv, LimitData
<1>4. \A t \in Ticks, v \in Callers :
        acceptedAt'[t][v] = IF t = clock /\ v = u THEN acceptedAt[t][v] + 1 ELSE acceptedAt[t][v]
  BY <1>2, <1>3
<1>5. LimitData'
  <2>1. acceptedAt' \in [Ticks -> [Callers -> Nat]]
    BY <1>2, <1>3
  <2>2. appRequestCount' \in [Callers -> 0..SINGLE_UID_REQUEST_LIMIT_COUNT]
    BY <1>2, LimitConstants
  <2>3. allRequestCount' \in 0..ALL_UID_REQUEST_LIMIT_COUNT
    BY <1>2, LimitConstants
  <2>4. \A t \in Ticks, v \in Callers : t > clock \/ t >= nextCheckTime' => acceptedAt'[t][v] = 0
    BY <1>2, <1>3, <1>4, LimitConstants
  <2> QED
    BY <1>2, <1>3, <2>1, <2>2, <2>3, <2>4, LimitConstants DEF LimitData
<1>6. /\ ThisWindow' = {t \in Ticks : t >= clock} /\ ThisWindow' \in SUBSET Ticks
      /\ LastWindow' \subseteq ThisWindow /\ LastWindow' \in SUBSET Ticks /\ ThisWindow \in SUBSET Ticks
      /\ clock \notin LastWindow' /\ clock \in ThisWindow'
  <2>1. ThisWindow' = {t \in Ticks : t + LIMIT_REQUEST_TIME >= clock + LIMIT_REQUEST_TIME}
    BY <1>2 DEF ThisWindow, Ticks
  <2>2. LastWindow' = {t \in Ticks : /\ t + LIMIT_REQUEST_TIME < clock + LIMIT_REQUEST_TIME
                                     /\ t + 2 * LIMIT_REQUEST_TIME >= clock + LIMIT_REQUEST_TIME}
    BY <1>2 DEF LastWindow, Ticks
  <2>3. ThisWindow' = {t \in Ticks : t >= clock}
    BY <1>3, <2>1, LimitConstants
  <2>4. \A t \in LastWindow' : t \in Ticks /\ t < clock /\ t + LIMIT_REQUEST_TIME >= clock
    BY <1>3, <2>2, LimitConstants
  <2>5. ASSUME NEW t \in LastWindow' PROVE t \in ThisWindow
    <3>1. t \in Ticks /\ t + LIMIT_REQUEST_TIME >= clock
      BY <2>4, Zenon
    <3>2. t \in Nat /\ LIMIT_REQUEST_TIME \in Nat /\ nextCheckTime \in Nat /\ clock \in Nat
      BY <1>3, <3>1, LimitConstants
    <3>3. t + LIMIT_REQUEST_TIME >= nextCheckTime
      BY <3>1, <3>2
    <3> QED
      BY <3>1, <3>3 DEF ThisWindow
  <2>6. ThisWindow' \in SUBSET Ticks /\ LastWindow' \in SUBSET Ticks /\ ThisWindow \in SUBSET Ticks
    BY <2>3, <2>4 DEF ThisWindow
  <2>7. clock \notin LastWindow' /\ clock \in ThisWindow'
    BY <1>3, <2>3, <2>4
  <2> QED
    BY <2>3, <2>5, <2>6, <2>7
<1>7. \A v \in Callers, T \in SUBSET Ticks : Counted(AcceptedOf(v), T) /\ Total(AcceptedOf(v), T) \in Nat
  BY AcceptedCounted DEF LimitInv
<1>8. \A v \in Callers, t \in Ticks : /\ AcceptedOf(v)[t] = acceptedAt[t][v]
                                      /\ AcceptedOf(v)'[t] = acceptedAt'[t][v]
  BY DEF AcceptedOf
<1>9. ASSUME NEW v \in Callers PROVE Total(AcceptedOf(v)', ThisWindow') = appRequestCount'[v]
  <2>1. IsFiniteSet(ThisWindow') /\ \A t \in ThisWindow' : AcceptedOf(v)[t] = 0
    <3>1. \A t \in ThisWindow' : t \in Ticks /\ t >= nextCheckTime
      BY <1>3, <1>6, LimitConstants
    <3> QED
      BY <1>3, <1>6, <1>7, <1>8, <3>1 DEF Counted
  <2>2. Total(AcceptedOf(v), ThisWindow') = 0
    BY <2>1, TotalZero
  <2>3. CASE v = u
    <3>1. /\ AcceptedOf(v)'[clock] = AcceptedOf(v)[clock] + 1
          /\ \A t \in ThisWindow' \ {clock} : AcceptedOf(v)'[t] = AcceptedOf(v)[t]
      BY <1>3, <1>4, <1>6, <1>8, <2>3
    <3>2. Total(AcceptedOf(v)', ThisWindow') = Total(AcceptedOf(v), ThisWindow') + 1
      <4>1. Grown(AcceptedOf(v), AcceptedOf(v)', ThisWindow', clock, 1)
        BY <1>6, <1>7, <3>1 DEF Grown
      <4> QED
        BY <4>1, TotalGrows
    <3> QED
      BY <1>2, <2>2, <2>3, <3>2
  <2>4. CASE v # u
    <3>1. \A t \in ThisWindow' : AcceptedOf(v)[t] = AcceptedOf(v)'[t]
      BY <1>4, <1>6, <1>8, <2>4
    <3>2. Total(AcceptedOf(v), ThisWindow') = Total(AcceptedOf(v)', ThisWindow')
      BY <1>6, <1>7, <3>1, TotalSame
    <3> QED
      BY <1>2, <2>2, <2>4, <3>2
  <2> QED
    BY <2>3, <2>4
<1>10. Total(appRequestCount', Callers) = allRequestCount'
  <2>1. Counted(zero, Callers) /\ Total(zero, Callers) = 0
    BY LimitConstants, TotalZero DEF Counted
  <2>2. appRequestCount'[u] = zero[u] + 1 /\ \A v \in Callers \ {u} : appRequestCount'[v] = zero[v]
    BY <1>2
  <2> HIDE DEF zero
  <2>3. Total(appRequestCount', Callers) = Total(zero, Callers) + 1
    <3>1. Grown(zero, appRequestCount', Callers, u, 1)
      BY <2>1, <2>2 DEF Grown
    <3> QED
      BY <3>1, TotalGrows
  <2> QED
    BY <1>2, <2>1, <2>3
<1>11. ASSUME NEW v \in Callers PROVE LastAccepted'[v] \in Nat /\ LastAccepted'[v] <= appRequestCount[v]
  <2>1. \A t \in LastWindow' : AcceptedOf(v)[t] = AcceptedOf(v)'[t]
    BY <1>4, <1>6, <1>8
  <2>2. Total(AcceptedOf(v), LastWindow') = Total(AcceptedOf(v)', LastWindow')
    BY <1>6, <1>7, <2>1, TotalSame
  <2>3. Total(AcceptedOf(v), LastWindow') <= Total(AcceptedOf(v), ThisWindow)
    BY <1>6, <1>7, TotalPart
  <2>4. Total(AcceptedOf(v), ThisWindow) = appRequestCount[v] /\ LastAccepted'[v] = Total(AcceptedOf(v)', LastWindow')
    BY DEF LimitInv, LimitSums, LastAccepted
  <2> QED
    BY <1>6, <1>7, <2>2, <2>3, <2>4
<1>12. \A v \in Callers : LastAccepted'[v] <= SINGLE_UID_REQUEST_LIMIT_COUNT
  BY <1>3, <1>11, LimitConstants
<1>13. Total(LastAccepted', Callers) <= ALL_UID_REQUEST_LIMIT_COUNT
  <2>1. Counted(LastAccepted', Callers)
    BY <1>11, LimitConstants DEF Counted
  <2>2. Counted(appRequestCount, Callers) /\ Total(appRequestCount, Callers) = allRequestCount
    BY AcceptedCounted DEF LimitInv, LimitSums
  <2>3. Total(LastAccepted', Callers) <= Total(appRequestCount, Callers)
    BY <1>11, <2>1, <2>2, TotalLess
  <2>4. Total(LastAccepted', Callers) \in Nat
    BY <2>1, TotalType
  <2> QED
    BY <1>3, <2>2, <2>3, <2>4, LimitConstants
<1>14. LimitSums'
  BY <1>9, <1>10, <1>12, <1>13 DEF LimitSums
<1> QED
  BY <1>5, <1>14 DEF LimitInv

LEMMA LimitStep ==
  ASSUME LimitInv, [LimitNext]_limitVars
  PROVE  LimitInv'
<1>1. ASSUME UNCHANGED <<appRequestCount, allRequestCount, nextCheckTime, acceptedAt>>,
             clock' = clock \/ (clock < MaxTime /\ clock' = clock + 1)
      PROVE  LimitInv'
  <2>1. clock \in Nat /\ clock' \in Ticks /\ clock' >= clock
    <3>1. clock \in 0..MaxTime /\ MaxTime \in Nat
      BY LimitConstants DEF LimitInv, LimitData, Ticks
    <3>2. clock' \in 0..MaxTime /\ clock' >= clock
      BY <1>1, <3>1
    <3> QED
      BY <3>1, <3>2 DEF Ticks
  <2>2. LimitData'
    <3>1. nextCheckTime' \in Nat /\ nextCheckTime' <= clock' + LIMIT_REQUEST_TIME
      <4>1. nextCheckTime \in Nat /\ nextCheckTime <= clock + LIMIT_REQUEST_TIME
        BY DEF LimitInv, LimitData
      <4>2. clock' \in Nat /\ nextCheckTime' = nextCheckTime /\ LIMIT_REQUEST_TIME \in Nat
        BY <1>1, <2>1, LimitConstants
      <4>3. nextCheckTime <= clock' + LIMIT_REQUEST_TIME
        <5>1. clock \in Nat /\ clock' >= clock
          BY <2>1
        <5>2. \A a, b, c, d \in Nat : a <= b + d /\ c >= b => a <= c + d
          OBVIOUS
        <5> QED
          BY <4>1, <4>2, <5>1, <5>2, Zenon
      <4> QED
        BY <4>1, <4>2, <4>3, Zenon
    <3>2. \A t \in Ticks, u \in Callers : t > clock' \/ t >= nextCheckTime' => acceptedAt'[t][u] = 0
      <4>1. ASSUME NEW t \in Ticks, t > clock' PROVE t > clock
        <5>1. t \in Nat /\ clock' \in Nat /\ clock \in Nat /\ clock' >= clock
          BY <2>1, LimitConstants
        <5> QED
          BY <4>1, <5>1
      <4>2. \A t \in Ticks, u \in Callers : t > clock \/ t >= nextCheckTime => acceptedAt[t][u] = 0
        BY DEF LimitInv, LimitData
      <4>3. acceptedAt' = acceptedAt /\ nextCheckTime' = nextCheckTime
        BY <1>1
      <4> QED
        BY <4>1, <4>2, <4>3, Zenon
    <3> QED
      BY <1>1, <2>1, <3>1, <3>2 DEF LimitInv, LimitData
  <2>3. ThisWindow' = ThisWindow /\ LastWindow' = LastWindow /\ \A u : AcceptedOf(u)' = AcceptedOf(u)
    BY <1>1 DEF ThisWindow, LastWindow, AcceptedOf
  <2>4. LastAccepted' = LastAccepted
    BY <2>3 DEF LastAccepted
  <2>5. LimitSums'
    BY <1>1, <2>3, <2>4 DEF LimitInv, LimitSums
  <2> QED
    BY <2>2, <2>5 DEF LimitInv
<1>2. CASE UNCHANGED limitVars
  BY <1>1, <1>2 DEF limitVars
<1>3. CASE ClockTicks
  BY <1>1, <1>3 DEF ClockTicks
<1>4. ASSUME NEW u \in Callers, NEW permitted \in BOOLEAN, Request(u, permitted) PROVE LimitInv'
  <2>1. RemoteRequestCheck(u) /\ clock' = clock
    BY <1>4 DEF Request
  <2>2. clock < nextCheckTime \/ clock >= nextCheckTime
    BY LimitConstants DEF LimitInv, LimitData
  <2> QED
    BY <2>1, <2>2, LimitInWindow, LimitOpensWindow
<1> QED
  BY <1>2, <1>3, <1>4 DEF LimitNext

LEMMA LimitStart == LimitInit => LimitInv
<1> SUFFICES ASSUME LimitInit PROVE LimitInv
  OBVIOUS
<1>1. /\ clock = 0 /\ appRequestCount = [u \in Callers |-> 0] /\ allRequestCount = 0
      /\ nextCheckTime = 0 /\ acceptedAt = [t \in Ticks |-> [u \in Callers |-> 0]]
  BY DEF LimitInit, Ticks
<1>2. LimitData
  BY <1>1, LimitConstants DEF LimitData, Ticks
<1>3. ASSUME NEW u \in Callers, NEW T \in SUBSET Ticks PROVE Total(AcceptedOf(u), T) = 0
  <2>1. IsFiniteSet(T) /\ \A t \in T : AcceptedOf(u)[t] = 0
    BY <1>1, LimitConstants, FS_Subset DEF AcceptedOf
  <2> QED
    BY <2>1, TotalZero
<1>4. ThisWindow \in SUBSET Ticks /\ LastWindow \in SUBSET Ticks
  BY DEF ThisWindow, LastWindow
<1>5. \A u \in Callers : LastAccepted[u] = 0
  BY <1>3, <1>4 DEF LastAccepted
<1>6. Total(LastAccepted, Callers) = 0
  BY <1>5, LimitConstants, TotalZero
<1>7. Total(appRequestCount, Callers) = 0
  BY <1>1, LimitConstants, TotalZero
<1>8. LimitSums
  BY <1>1, <1>3, <1>4, <1>5, <1>6, <1>7, LimitConstants DEF LimitSums
<1> QED
  BY <1>2, <1>8 DEF LimitInv

-----------------------------------------------------------------------------
(* KillReasons.  One thread at a time asks for the configuration, and only *)
(* while it is not known; the last push under way is the newest; a kill    *)
(* that was asked about is counted, or its thread will count it.           *)
KillCalls ==
  {NoKill} \cup [at : {"init", "asking"}, kind : KillKinds \cup {NoKind}, with : {FALSE}]
           \cup [at : {"parse"}, kind : KillKinds \cup {NoKind}, with : KillConfigs]
           \cup [at : {"decide", "submit"}, kind : KillKinds, with : {FALSE}]
           \cup [at : {"count"}, kind : KillKinds, with : BOOLEAN]
UncountedCall(c) == /\ c.at \in {"init", "asking", "parse", "decide", "count"}
                    /\ c.kind # NoKind
Uncounting == {t \in KillThreads : UncountedCall(killCall[t])}
Asks(c) == c.at \in {"asking", "parse"}
Counts == DOMAIN killCountMap

KillData ==
  /\ killCall \in [KillThreads -> KillCalls] /\ pushedConfigs \in Seq(KillConfigs)
  /\ killsAsked \in Nat /\ killsReported \in Nat /\ killsUncounted \in Nat
  /\ killLink \in {"off", "stored", "served"} /\ Counted(killCountMap, Counts)
Registered ==
  /\ isConfigInited \/ pushedConfigs # <<>> => isKillRegister
  /\ \A t \in KillThreads : killCall[t] # NoKill => isKillRegister
  /\ isKillRegister <=> killLink # "off"
OneAsks ==
  \A t \in KillThreads : Asks(killCall[t]) =>
    ~isConfigInited /\ \A u \in KillThreads \ {t} : ~Asks(killCall[u])
PushedNewest ==
  /\ servedConfig \in KillConfigs
  /\ pushedConfigs # <<>> => configUnpushed \/ pushedConfigs[Len(pushedConfigs)] = servedConfig
ConfigStored ==
  isConfigInited /\ pushedConfigs = <<>> /\ servedConfig # Malformed =>
    configOvertaken \/ configUnpushed \/ killReasonMap = servedConfig
KillConfigInv == Registered /\ OneAsks /\ PushedNewest /\ ConfigStored
KillSum ==
  killsAsked = Total(killCountMap, Counts) + killsReported + killsUncounted + Cardinality(Uncounting)
WillReport == Counts # {} => isTaskSubmit \/ \E t \in KillThreads : killCall[t].at = "submit"
KillInv == KillData /\ KillConfigInv /\ KillSum /\ WillReport

LEMMA KillConstants == NoKind \notin KillKinds /\ IsFiniteSet(KillThreads)
  BY KillAssumption

LEMMA CallKinds ==
  \A c \in KillCalls :
    /\ c.at = "none" => c = NoKill
    /\ c.at \in {"init", "asking", "parse"} => c.kind \in KillKinds \cup {NoKind}
    /\ c.at = "parse" => c.with \in KillConfigs
    /\ c.at \in {"decide", "count", "submit"} => c.kind \in KillKinds
<1> TAKE c \in KillCalls
<1>1. CASE c = NoKill
  BY <1>1 DEF NoKill
<1>2. CASE c \in [at : {"init", "asking"}, kind : KillKinds \cup {NoKind}, with : {FALSE}]
  BY <1>2
<1>3. CASE c \in [at : {"parse"}, kind : KillKinds \cup {NoKind}, with : KillConfigs]
  BY <1>3
<1>4. CASE c \in [at : {"decide", "submit"}, kind : KillKinds, with : {FALSE}]
  BY <1>4
<1>5. CASE c \in [at : {"count"}, kind : KillKinds, with : BOOLEAN]
  BY <1>5
<1> QED
  BY <1>1, <1>2, <1>3, <1>4, <1>5, Zenon DEF KillCalls

LEMMA InitCalls ==
  \A k \in KillKinds \cup {NoKind} :
    /\ CallAt("init", k, FALSE) \in KillCalls /\ CallAt("asking", k, FALSE) \in KillCalls
    /\ \A x \in KillConfigs : CallAt("parse", k, x) \in KillCalls
  BY DEF KillCalls, CallAt
LEMMA LaterCalls ==
  \A k \in KillKinds :
    /\ CallAt("decide", k, FALSE) \in KillCalls /\ CallAt("submit", k, FALSE) \in KillCalls
    /\ \A x \in BOOLEAN : CallAt("count", k, x) \in KillCalls
  BY DEF KillCalls, CallAt
LEMMA CallParts ==
  /\ NoKill \in KillCalls /\ NoKill.at = "none"
  /\ \A a, k, x : CallAt(a, k, x).at = a /\ CallAt(a, k, x).kind = k
  BY DEF KillCalls, NoKill, CallAt

LEMMA CallsTold ==
  /\ ~Asks(NoKill) /\ ~UncountedCall(NoKill)
  /\ \A k, x : /\ ~Asks(CallAt("init", k, x)) /\ ~Asks(CallAt("decide", k, x))
               /\ ~Asks(CallAt("count", k, x)) /\ ~Asks(CallAt("submit", k, x))
               /\ UncountedCall(CallAt("init", k, x)) <=> k # NoKind
               /\ UncountedCall(CallAt("asking", k, x)) <=> k # NoKind
               /\ UncountedCall(CallAt("parse", k, x)) <=> k # NoKind
               /\ UncountedCall(CallAt("decide", k, x)) <=> k # NoKind
               /\ UncountedCall(CallAt("count", k, x)) <=> k # NoKind
               /\ ~UncountedCall(CallAt("submit", k, x))
  BY DEF Asks, UncountedCall, CallAt, NoKill

LEMMA CallAfterInit ==
  ASSUME NEW k \in KillKinds \cup {NoKind}
  PROVE  /\ AfterInit(k) \in KillCalls /\ ~Asks(AfterInit(k))
         /\ UncountedCall(AfterInit(k)) <=> k # NoKind
<1>1. CASE k = NoKind
  BY <1>1, CallParts, CallsTold DEF AfterInit
<1>2. CASE k # NoKind
  <2>1. AfterInit(k) = CallAt("decide", k, FALSE) /\ k \in KillKinds
    BY <1>2 DEF AfterInit
  <2>2. AfterInit(k) \in KillCalls
    BY <2>1, LaterCalls
  <2> QED
    BY <1>2, <2>1, <2>2, CallsTold
<1> QED
  BY <1>1, <1>2

(* A thread goes on.                                                       *)
LEMMA ThreadStep ==
  ASSUME KillData, NEW t \in KillThreads, NEW c \in KillCalls, Step(t, c)
  PROVE  /\ killCall' \in [KillThreads -> KillCalls] /\ killCall'[t] = c
         /\ \A u \in KillThreads \ {t} : killCall'[u] = killCall[u]
         /\ Uncounting' = IF UncountedCall(c) THEN Uncounting \cup {t} ELSE Uncounting \ {t}
<1>1. /\ killCall' \in [KillThreads -> KillCalls] /\ killCall'[t] = c
      /\ \A u \in KillThreads \ {t} : killCall'[u] = killCall[u]
  BY DEF Step, KillData
<1>2. Uncounting' = {u \in KillThreads : UncountedCall(killCall'[u])}
  BY DEF Uncounting, UncountedCall
<1> HIDE DEF UncountedCall
<1> QED
  BY <1>1, <1>2 DEF Uncounting

LEMMA UncountingFinite ==
  /\ IsFiniteSet(Uncounting) /\ Cardinality(Uncounting) \in Nat
  /\ \A t : /\ Cardinality(Uncounting \cup {t}) =
                 IF t \in Uncounting THEN Cardinality(Uncounting) ELSE Cardinality(Uncounting) + 1
            /\ Cardinality(Uncounting \ {t}) =
                 IF t \in Uncounting THEN Cardinality(Uncounting) - 1 ELSE Cardinality(Uncounting)
<1>1. Uncounting \in SUBSET KillThreads
  BY DEF Uncounting
<1>2. IsFiniteSet(Uncounting)
  BY <1>1, KillConstants, FS_Subset
<1> QED
  BY <1>2, FS_CardinalityType, FS_AddElement, FS_RemoveElement

(* Steps of a thread that leave the configuration alone.                   *)
LEMMA ConfigKept ==
  ASSUME KillInv, NEW t \in KillThreads, NEW c \in KillCalls, Step(t, c),
         RegisterKillConfigUpdate \/ (UNCHANGED registration /\ killCall[t] # NoKill),
         UNCHANGED <<isConfigInited, pushedConfigs, servedConfig, configHistory, killReasonMap>>,
         Asks(c) => Asks(killCall[t]) \/ (InitLockFree /\ ~isConfigInited)
  PROVE  KillConfigInv'
<1>1. /\ killCall'[t] = c /\ \A u \in KillThreads \ {t} : killCall'[u] = killCall[u]
  BY ThreadStep DEF KillInv
<1>2. Registered /\ OneAsks /\ PushedNewest /\ ConfigStored
  BY DEF KillInv, KillConfigInv
<1>3. isKillRegister' /\ killLink' # "off"
  <2>1. CASE RegisterKillConfigUpdate
    BY <1>2, <2>1 DEF RegisterKillConfigUpdate, Registered
  <2>2. CASE UNCHANGED registration /\ killCall[t] # NoKill
    BY <1>2, <2>2 DEF Registered, registration
  <2> QED
    BY <2>1, <2>2
<1>4. Registered'
  BY <1>3 DEF Registered
<1>5. OneAsks'
  <2> SUFFICES ASSUME NEW u \in KillThreads, Asks(killCall'[u])
               PROVE  ~isConfigInited' /\ \A v \in KillThreads \ {u} : ~Asks(killCall'[v])
    BY Zenon DEF OneAsks, Asks
  <2>1. isConfigInited' <=> isConfigInited
    OBVIOUS
  <2>2. CASE u # t
    <3>1. killCall'[u] = killCall[u] /\ Asks(killCall[u])
      BY <1>1, <2>2
    <3>2. ~isConfigInited /\ \A v \in KillThreads \ {u} : ~Asks(killCall[v])
      BY <1>2, <3>1, Zenon DEF OneAsks
    <3>3. ~Asks(killCall[t]) /\ ~InitLockFree
      BY <2>2, <3>1, <3>2 DEF InitLockFree, Asks
    <3>4. ~Asks(c)
      BY <3>3
    <3>5. \A v \in KillThreads \ {u} : ~Asks(killCall'[v])
      BY <1>1, <3>2, <3>4
    <3> QED
      BY <2>1, <3>2, <3>5, Zenon
  <2>3. CASE u = t
    <3>1. Asks(c)
      BY <1>1, <2>3
    <3>2. CASE Asks(killCall[t])
      <4>1. ~isConfigInited /\ \A v \in KillThreads \ {t} : ~Asks(killCall[v])
        BY <1>2, <3>2, Zenon DEF OneAsks
      <4>2. \A v \in KillThreads \ {u} : ~Asks(killCall'[v])
        BY <1>1, <2>3, <4>1
      <4> QED
        BY <2>1, <4>1, <4>2, Zenon
    <3>3. CASE InitLockFree /\ ~isConfigInited
      <4>1. \A v \in KillThreads : ~Asks(killCall[v])
        BY <3>3 DEF InitLockFree, Asks
      <4>2. \A v \in KillThreads \ {u} : ~Asks(killCall'[v])
        BY <1>1, <2>3, <4>1
      <4> QED
        BY <2>1, <3>3, <4>2, Zenon
    <3> QED
      BY <3>1, <3>2, <3>3
  <2> QED
    BY <2>2, <2>3
<1>6. PushedNewest' /\ ConfigStored'
  BY <1>2, Zenon DEF PushedNewest, ConfigStored, configHistory
<1> QED
  BY <1>4, <1>5, <1>6, Zenon DEF KillConfigInv

(* The listener in the client library.                                     *)
LEMMA LinkTyped ==
  ASSUME KillInv, RegisterKillConfigUpdate \/ UNCHANGED registration
  PROVE  killLink' \in {"off", "stored", "served"}
<1>1. killLink \in {"off", "stored", "served"}
  BY DEF KillInv, KillData
<1>2. CASE RegisterKillConfigUpdate
  BY <1>1, <1>2 DEF RegisterKillConfigUpdate
<1>3. CASE UNCHANGED registration
  BY <1>1, <1>3 DEF registration
<1> QED
  BY <1>2, <1>3

(* Steps of a thread that count nothing.                                   *)
LEMMA CountsKept ==
  ASSUME KillInv, NEW t \in KillThreads, NEW c \in KillCalls, Step(t, c),
         UNCHANGED <<killsAsked, killsReported, killsUncounted, killCountMap, pushedConfigs>>,
         RegisterKillConfigUpdate \/ UNCHANGED registration,
         UncountedCall(c) <=> UncountedCall(killCall[t]),
         isTaskSubmit' = TRUE \/ (isTaskSubmit' = isTaskSubmit /\ killCall[t].at # "submit")
  PROVE  KillData' /\ KillSum' /\ WillReport'
<1>1. /\ killCall' \in [KillThreads -> KillCalls] /\ killCall'[t] = c
      /\ \A u \in KillThreads \ {t} : killCall'[u] = killCall[u]
      /\ Uncounting' = IF UncountedCall(c) THEN Uncounting \cup {t} ELSE Uncounting \ {t}
  BY ThreadStep DEF KillInv
<1>2. Uncounting' = Uncounting
  BY <1>1 DEF Uncounting
<1>3. Counts' = Counts
  BY DEF Counts
<1>4. KillSum'
  BY <1>2, <1>3 DEF KillInv, KillSum
<1>5. KillData'
  BY <1>1, <1>3, LinkTyped DEF KillInv, KillData
<1>6. WillReport'
  <2>1. CASE isTaskSubmit' = TRUE
    BY <2>1 DEF WillReport
  <2>2. ASSUME isTaskSubmit' = isTaskSubmit, killCall[t].at # "submit", Counts # {}, ~isTaskSubmit
        PROVE  \E u \in KillThreads : killCall'[u].at = "submit"
    <3>1. PICK u \in KillThreads : killCall[u].at = "submit"
      BY <2>2, Zenon DEF KillInv, WillReport
    <3> QED
      BY <1>1, <2>2, <3>1
  <2>3. CASE isTaskSubmit' = isTaskSubmit /\ killCall[t].at # "submit"
    BY <1>3, <2>2, <2>3, Zenon DEF WillReport
  <2> QED
    BY <2>1, <2>3
<1> QED
  BY <1>4, <1>5, <1>6

(* InitKillConfig stores the reply.                                        *)
LEMMA ReplyStored ==
  ASSUME KillInv, NEW t \in KillThreads, NEW c \in KillCalls, Step(t, c), ~Asks(c),
         killCall[t].at = "parse", killReasonMap' = ParseKillConfig(killCall[t].with),
         configOvertaken' = (killCall[t].with # servedConfig /\ pushedConfigs = <<>>),
         configUnpushed' = (configUnpushed /\ (killCall[t].with # servedConfig \/ pushedConfigs # <<>>)),
         isConfigInited' = TRUE, UNCHANGED <<registration, servedVars>>
  PROVE  KillConfigInv'
<1>1. servedConfig' = servedConfig /\ pushedConfigs' = pushedConfigs
  BY DEF servedVars
<1>2. /\ killCall'[t] = c /\ \A u \in KillThreads \ {t} : killCall'[u] = killCall[u]
  BY ThreadStep DEF KillInv
<1>3. Registered /\ OneAsks /\ PushedNewest
  BY DEF KillInv, KillConfigInv
<1>4. Registered'
  <2>1. isKillRegister
    BY <1>3, CallParts DEF Registered
  <2> QED
    BY <1>3, <2>1 DEF Registered, registration
<1>5. OneAsks'
  <2>1. \A u \in KillThreads \ {t} : ~Asks(killCall[u])
    BY <1>3 DEF OneAsks, Asks
  <2>2. \A u \in KillThreads : ~Asks(killCall'[u])
    BY <1>2, <2>1
  <2> QED
    BY <2>2 DEF OneAsks, Asks
<1>6. PushedNewest'
  BY <1>1, <1>3 DEF PushedNewest
<1>7. ConfigStored'
  <2>1. CASE killCall[t].with = servedConfig
    BY <1>1, <2>1 DEF ConfigStored, ParseKillConfig
  <2>2. CASE killCall[t].with # servedConfig
    BY <1>1, <2>2 DEF ConfigStored
  <2> QED
    BY <2>1, <2>2
<1> QED
  BY <1>4, <1>5, <1>6, <1>7 DEF KillConfigInv

(* A kill is counted.                                                      *)
LEMMA KillCounted ==
  ASSUME KillInv, NEW t \in KillThreads, UpdateKillCount(t)
  PROVE  KillData' /\ KillSum' /\ WillReport'
<1> DEFINE c == CallAt("submit", killCall[t].kind, FALSE)
           key == <<killCall[t].kind, killCall[t].with>>
<1>1. /\ killCall[t].at = "count" /\ killCall[t] \in KillCalls /\ killCall[t].kind \in KillKinds
  BY CallKinds DEF KillInv, KillData, UpdateKillCount
<1>2. c \in KillCalls /\ c.at = "submit" /\ Step(t, c)
  BY <1>1, LaterCalls, CallParts DEF UpdateKillCount
<1>3. /\ killCall' \in [KillThreads -> KillCalls] /\ killCall'[t] = c
      /\ Uncounting' = Uncounting \ {t} /\ t \in Uncounting
  <2>1. ~UncountedCall(c) /\ UncountedCall(killCall[t])
    BY <1>1, <1>2, KillConstants DEF UncountedCall
  <2> HIDE DEF c
  <2> QED
    BY <1>2, <2>1, ThreadStep DEF KillInv, Uncounting
<1>4. WillReport'
  BY <1>2, <1>3 DEF WillReport
<1>5. Cardinality(Uncounting) \in Nat /\ Cardinality(Uncounting') = Cardinality(Uncounting) - 1
  BY <1>3, UncountingFinite
<1>6. /\ killsAsked' = killsAsked /\ killsReported' = killsReported /\ pushedConfigs' = pushedConfigs
      /\ killsAsked \in Nat /\ killsReported \in Nat /\ killsUncounted \in Nat
      /\ pushedConfigs \in Seq(KillConfigs) /\ Counted(killCountMap, Counts)
      /\ killsAsked = Total(killCountMap, Counts) + killsReported + killsUncounted + Cardinality(Uncounting)
  BY DEF UpdateKillCount, servedVars, KillInv, KillData, KillSum
<1>7. Total(killCountMap, Counts) \in Nat
  BY <1>6, TotalType
<1>10. killLink' \in {"off", "stored", "served"}
  BY LinkTyped DEF UpdateKillCount
<1>8. CASE CacheFull(key)
  <2>1. killsUncounted' = killsUncounted + 1 /\ killCountMap' = killCountMap
    BY <1>8 DEF UpdateKillCount
  <2>2. Counts' = Counts
    BY <2>1 DEF Counts
  <2>3. KillData'
    BY <1>3, <1>6, <1>10, <2>1, <2>2 DEF KillData
  <2>4. KillSum'
    BY <1>5, <1>6, <1>7, <2>1, <2>2 DEF KillSum
  <2> QED
    BY <1>4, <2>3, <2>4
<1>9. CASE ~CacheFull(key)
  <2>1. /\ killsUncounted' = killsUncounted
        /\ killCountMap' = [k \in Counts \cup {key} |->
             IF k \in Counts THEN killCountMap[k] + (IF k = key THEN 1 ELSE 0) ELSE 1]
    BY <1>9 DEF UpdateKillCount, Counts
  <2> HIDE DEF key
  <2>2. Counts' = Counts \cup {key}
    BY <2>1 DEF Counts
  <2>3. Counted(killCountMap', Counts') /\ Total(killCountMap', Counts') = Total(killCountMap, Counts) + 1
    <3>1. CASE key \in Counts
      <4>1. Counts' = Counts
        BY <2>2, <3>1
      <4>2. Grown(killCountMap, killCountMap', Counts, key, 1)
        BY <1>6, <2>1, <3>1 DEF Grown, Counted
      <4> QED
        BY <4>1, <4>2, TotalGrows
    <3>2. CASE key \notin Counts
      <4>1. /\ \A k \in Counts : killCountMap[k] = killCountMap'[k]
            /\ killCountMap'[key] = 1 /\ Counts' \ {key} = Counts /\ key \in Counts'
        BY <1>6, <2>1, <2>2, <3>2 DEF Counted
      <4>2. Counted(killCountMap', Counts')
        <5>1. IsFiniteSet(Counts')
          BY <1>6, <2>2, FS_AddElement DEF Counted
        <5> QED
          BY <1>6, <2>2, <4>1, <5>1 DEF Counted
      <4>3. Total(killCountMap, Counts) = Total(killCountMap', Counts)
        BY <1>6, <4>1, TotalSame
      <4>4. Total(killCountMap', Counts') = killCountMap'[key] + Total(killCountMap', Counts' \ {key})
        BY <4>1, <4>2, TotalWithout
      <4> QED
        BY <1>7, <4>1, <4>2, <4>3, <4>4
    <3> QED
      BY <3>1, <3>2
  <2>4. KillData'
    BY <1>3, <1>6, <1>10, <2>1, <2>3 DEF KillData
  <2>5. KillSum'
    BY <1>5, <1>6, <1>7, <2>1, <2>3 DEF KillSum
  <2> QED
    BY <1>4, <2>4, <2>5
<1> QED
  BY <1>8, <1>9

(* The service pushes a configuration, and a push arrives.                 *)
LEMMA ConfigPushed ==
  ASSUME KillInv, NEW config \in KillConfigs, ServiceConfigured(config)
  PROVE  KillConfigInv' /\ pushedConfigs' \in Seq(KillConfigs)
<1>1. /\ servedConfig' = config /\ killCall' = killCall /\ killReasonMap' = killReasonMap
      /\ pushedConfigs' = IF killLink = "served" THEN Append(pushedConfigs, config) ELSE pushedConfigs
      /\ pushedConfigs \in Seq(KillConfigs)
  BY DEF ServiceConfigured, KillInv, KillData
<1>2. /\ isKillRegister' <=> isKillRegister
      /\ isConfigInited' <=> isConfigInited
      /\ configOvertaken' <=> configOvertaken
      /\ killLink' = killLink /\ (configUnpushed' <=> killLink = "stored")
  BY DEF ServiceConfigured, registration
<1>3. Registered /\ OneAsks /\ killLink \in {"off", "stored", "served"}
  BY DEF KillInv, KillConfigInv, KillData
<1>4. OneAsks'
  BY <1>1, <1>2, <1>3, Zenon DEF OneAsks, Asks
<1>5. CASE killLink = "served"
  <2>1. /\ pushedConfigs' # <<>> /\ pushedConfigs'[Len(pushedConfigs')] = config
        /\ pushedConfigs' \in Seq(KillConfigs) /\ isKillRegister
    BY <1>1, <1>3, <1>5 DEF Registered
  <2>2. Registered'
    BY <1>2, <1>3, <2>1, Zenon DEF Registered
  <2>3. PushedNewest' /\ ConfigStored'
    BY <1>1, <2>1, Zenon DEF PushedNewest, ConfigStored
  <2> QED
    BY <1>4, <2>1, <2>2, <2>3, Zenon DEF KillConfigInv
<1>6. CASE killLink # "served"
  <2>1. pushedConfigs' = pushedConfigs
    BY <1>1, <1>6
  <2>2. Registered'
    BY <1>1, <1>2, <1>3, <2>1, Zenon DEF Registered
  <2>3. configUnpushed' \/ (pushedConfigs = <<>> /\ ~isConfigInited)
    BY <1>2, <1>3, <1>6, Zenon DEF Registered
  <2>4. PushedNewest' /\ ConfigStored'
    BY <1>1, <1>2, <2>1, <2>3, Zenon DEF PushedNewest, ConfigStored
  <2> QED
    BY <1>1, <1>4, <2>1, <2>2, <2>4, Zenon DEF KillConfigInv
<1> QED
  BY <1>5, <1>6

(* The service dies with the last of its pushes, and the client library    *)
(* registers the listener again.                                           *)
LEMMA LinkChanges ==
  ASSUME KillInv, KillServiceRestarts \/ RecoverKillListener
  PROVE  KillConfigInv' /\ KillData'
<1>1. /\ UNCHANGED <<isKillRegister, isConfigInited, killReasonMap, killCountMap, killCall>>
      /\ UNCHANGED <<killHistory, servedConfig, configOvertaken>>
      /\ killLink # "off" /\ killLink' # "off" /\ killLink' \in {"off", "stored", "served"}
  BY DEF KillServiceRestarts, RecoverKillListener, servedVars, configHistory
<1>2. /\ pushedConfigs \in Seq(KillConfigs) /\ Len(pushedConfigs) \in Nat
      /\ Registered /\ OneAsks /\ PushedNewest /\ ConfigStored
  BY DEF KillInv, KillConfigInv, KillData
<1>3. PICK sent \in 0..Len(pushedConfigs) :
        /\ pushedConfigs' = SubSeq(pushedConfigs, 1, sent)
        /\ configUnpushed' <=> (configUnpushed \/ sent < Len(pushedConfigs))
  <2>1. CASE KillServiceRestarts
    BY <2>1 DEF KillServiceRestarts
  <2>2. CASE RecoverKillListener
    <3>1. pushedConfigs' = pushedConfigs /\ configUnpushed' = configUnpushed
      BY <2>2 DEF RecoverKillListener, servedVars, configHistory
    <3>2. /\ pushedConfigs = SubSeq(pushedConfigs, 1, Len(pushedConfigs))
          /\ Len(pushedConfigs) \in 0..Len(pushedConfigs) /\ ~(Len(pushedConfigs) < Len(pushedConfigs))
      BY <1>2
    <3> WITNESS Len(pushedConfigs) \in 0..Len(pushedConfigs)
    <3> QED
      BY <3>1, <3>2, Zenon
  <2> QED
    BY <2>1, <2>2
<1>4. /\ pushedConfigs' \in Seq(KillConfigs)
      /\ pushedConfigs' = pushedConfigs \/ configUnpushed'
      /\ pushedConfigs' # <<>> => pushedConfigs # <<>>
  BY <1>2, <1>3
<1>5. Registered' /\ OneAsks'
  BY <1>1, <1>2, <1>4, Zenon DEF Registered, OneAsks, Asks
<1>6. configUnpushed => configUnpushed'
  BY <1>3
<1>7. PushedNewest' /\ ConfigStored'
  BY <1>1, <1>2, <1>4, <1>6, Zenon DEF PushedNewest, ConfigStored
<1>8. Counts' = Counts
  BY <1>1 DEF Counts
<1>9. KillData'
  BY <1>1, <1>4, <1>8 DEF KillInv, KillData, killHistory
<1> QED
  BY <1>5, <1>7, <1>9 DEF KillConfigInv

LEMMA PushArrives ==
  ASSUME KillInv, OnReceiveEvent
  PROVE  KillConfigInv' /\ pushedConfigs' \in Seq(KillConfigs)
<1>1. /\ servedConfig' = servedConfig /\ killCall' = killCall
      /\ pushedConfigs # <<>> /\ pushedConfigs' = Tail(pushedConfigs)
      /\ pushedConfigs \in Seq(KillConfigs)
      /\ killReasonMap' = ParseKillConfig(Head(pushedConfigs))
  BY DEF OnReceiveEvent, KillInv, KillData
<1>2. /\ isKillRegister' <=> isKillRegister
      /\ isConfigInited' <=> isConfigInited
      /\ killLink' = killLink /\ (configUnpushed' <=> configUnpushed)
  BY DEF OnReceiveEvent, registration
<1>3. Registered /\ OneAsks /\ PushedNewest
  BY DEF KillInv, KillConfigInv
<1>4. OneAsks'
  BY <1>1, <1>2, <1>3, Zenon DEF OneAsks, Asks
<1>5. Registered'
  BY <1>1, <1>2, <1>3, Zenon DEF Registered
<1>6. configUnpushed \/ pushedConfigs[Len(pushedConfigs)] = servedConfig
  BY <1>1, <1>3 DEF PushedNewest
<1>7. /\ pushedConfigs' \in Seq(KillConfigs)
      /\ pushedConfigs' # <<>> => configUnpushed \/ pushedConfigs'[Len(pushedConfigs')] = servedConfig
      /\ pushedConfigs' = <<>> => configUnpushed \/ Head(pushedConfigs) = servedConfig
  <2>1. /\ Tail(pushedConfigs) \in Seq(KillConfigs)
        /\ Tail(pushedConfigs) # <<>> =>
             Tail(pushedConfigs)[Len(Tail(pushedConfigs))] = pushedConfigs[Len(pushedConfigs)]
        /\ Tail(pushedConfigs) = <<>> => Head(pushedConfigs) = pushedConfigs[Len(pushedConfigs)]
    BY <1>1, LastFacts DEF LastIn
  <2> QED
    BY <1>1, <1>6, <2>1, Zenon
<1>8. PushedNewest'
  BY <1>1, <1>2, <1>3, <1>7, Zenon DEF PushedNewest
<1>9. ConfigStored'
  <2> SUFFICES ASSUME pushedConfigs' = <<>>, servedConfig' # Malformed
               PROVE  configUnpushed' \/ killReasonMap' = servedConfig'
    BY Zenon DEF ConfigStored
  <2> QED
    BY <1>1, <1>2, <1>7 DEF ParseKillConfig
<1> QED
  BY <1>4, <1>5, <1>7, <1>8, <1>9, Zenon DEF KillConfigInv

(* InitKillConfig, a step of it.                                           *)
LEMMA InitStep ==
  ASSUME KillInv, NEW t \in KillThreads, InitKillConfig(t)
  PROVE  KillInv'
<1> DEFINE k == killCall[t].kind
<1>1. killCall[t] \in KillCalls
  BY DEF KillInv, KillData
<1>2. killCall[t].at \in {"init", "parse"} /\ k \in KillKinds \cup {NoKind}
  BY <1>1, CallKinds DEF InitKillConfig
<1>3. AfterInit(k) \in KillCalls /\ ~Asks(AfterInit(k)) /\ (UncountedCall(AfterInit(k)) <=> k # NoKind)
  BY <1>2, CallAfterInit
<1>4. UncountedCall(killCall[t]) <=> k # NoKind
  BY <1>2 DEF UncountedCall
<1>5. /\ isTaskSubmit' = isTaskSubmit /\ killCall[t].at # "submit" /\ killCall[t] # NoKill
      /\ UNCHANGED <<killsAsked, killsReported, killsUncounted, killCountMap, pushedConfigs>>
      /\ servedConfig' = servedConfig /\ UNCHANGED registration
  BY <1>2, CallParts DEF InitKillConfig, killHistory, servedVars
<1>6. CASE killCall[t].at = "init"
  <2> DEFINE c == IF isConfigInited THEN AfterInit(k) ELSE CallAt("asking", k, FALSE)
  <2>1. /\ Step(t, c) /\ InitLockFree
        /\ UNCHANGED <<isConfigInited, killReasonMap, configHistory>>
    BY <1>6 DEF InitKillConfig
  <2>2. c \in KillCalls /\ (Asks(c) => ~isConfigInited) /\ (UncountedCall(c) <=> k # NoKind)
    <3>1. CASE isConfigInited
      BY <1>3, <3>1
    <3>2. CASE ~isConfigInited
      BY <1>2, <3>2, InitCalls, CallsTold
    <3> QED
      BY <3>1, <3>2
  <2> HIDE DEF c, k
  <2>3. KillConfigInv'
    BY <1>5, <2>1, <2>2, ConfigKept
  <2>4. KillData' /\ KillSum' /\ WillReport'
    BY <1>4, <1>5, <2>1, <2>2, CountsKept
  <2> QED
    BY <2>3, <2>4 DEF KillInv
<1>7. CASE killCall[t].at = "parse"
  <2>1. /\ Step(t, AfterInit(k)) /\ killReasonMap' = ParseKillConfig(killCall[t].with)
        /\ configOvertaken' = (killCall[t].with # servedConfig /\ pushedConfigs = <<>>)
        /\ configUnpushed' = (configUnpushed /\ (killCall[t].with # servedConfig \/ pushedConfigs # <<>>))
        /\ isConfigInited' = TRUE /\ UNCHANGED <<registration, servedVars>>
    BY <1>7 DEF InitKillConfig
  <2> HIDE DEF k
  <2>2. KillConfigInv'
    BY <1>3, <1>7, <2>1, ReplyStored
  <2>3. KillData' /\ KillSum' /\ WillReport'
    BY <1>3, <1>4, <1>5, <2>1, CountsKept
  <2> QED
    BY <2>2, <2>3 DEF KillInv
<1> QED
  BY <1>2, <1>6, <1>7

(* IsAllowedKill begins.                                                   *)
LEMMA KillAsked ==
  ASSUME KillInv, NEW t \in KillThreads, NEW k \in KillKinds, IsAllowedKill(t, k)
  PROVE  KillInv'
<1> DEFINE c == CallAt("init", k, FALSE)
<1>1. /\ killCall[t] = NoKill /\ Step(t, c) /\ RegisterKillConfigUpdate /\ isTaskSubmit' = isTaskSubmit
      /\ killsAsked' = killsAsked + 1
      /\ UNCHANGED <<isConfigInited, pushedConfigs, servedConfig, configHistory, killReasonMap>>
      /\ UNCHANGED <<killsReported, killsUncounted, killCountMap>>
  BY DEF IsAllowedKill, servedVars
<1>2. c \in KillCalls /\ ~Asks(c) /\ UncountedCall(c) /\ ~UncountedCall(killCall[t])
  <2>1. c \in KillCalls /\ k # NoKind
    BY InitCalls, KillConstants
  <2> QED
    BY <1>1, <2>1, CallsTold
<1> HIDE DEF c
<1>3. KillConfigInv'
  BY <1>1, <1>2, ConfigKept
<1>4. /\ killCall' \in [KillThreads -> KillCalls] /\ Uncounting' = Uncounting \cup {t} /\ t \notin Uncounting
      /\ \A u \in KillThreads \ {t} : killCall'[u] = killCall[u]
  BY <1>1, <1>2, ThreadStep DEF KillInv, Uncounting
<1>5. Cardinality(Uncounting) \in Nat /\ Cardinality(Uncounting') = Cardinality(Uncounting) + 1 /\ Counts' = Counts
  BY <1>1, <1>4, UncountingFinite DEF Counts
<1>6. /\ killsAsked \in Nat /\ killsReported \in Nat /\ killsUncounted \in Nat
      /\ pushedConfigs \in Seq(KillConfigs) /\ Counted(killCountMap, Counts)
      /\ killsAsked = Total(killCountMap, Counts) + killsReported + killsUncounted + Cardinality(Uncounting)
  BY DEF KillInv, KillData, KillSum
<1>7. KillSum'
  <2>1. Total(killCountMap, Counts) \in Nat
    BY <1>6, TotalType
  <2> QED
    BY <1>1, <1>5, <1>6, <2>1 DEF KillSum
<1>8. KillData'
  BY <1>1, <1>4, <1>5, <1>6, LinkTyped DEF KillData
<1>9. WillReport'
  <2>1. ASSUME Counts # {}, ~isTaskSubmit PROVE \E u \in KillThreads : killCall'[u].at = "submit"
    <3>1. PICK u \in KillThreads : killCall[u].at = "submit"
      BY <2>1, Zenon DEF KillInv, WillReport
    <3> QED
      BY <1>1, <1>4, <3>1, CallParts
  <2>2. isTaskSubmit' <=> isTaskSubmit
    BY <1>1
  <2> QED
    BY <1>5, <2>1, <2>2, Zenon DEF WillReport
<1> QED
  BY <1>3, <1>7, <1>8, <1>9 DEF KillInv

(* The steps of a thread that change nothing but where it is.              *)
LEMMA ThreadGoesOn ==
  ASSUME KillInv, NEW t \in KillThreads, NEW c \in KillCalls, Step(t, c),
         UNCHANGED <<isConfigInited, killReasonMap, killCountMap, killHistory, servedVars, configHistory>>,
         RegisterKillConfigUpdate \/ (UNCHANGED registration /\ killCall[t] # NoKill),
         isTaskSubmit' = TRUE \/ (isTaskSubmit' = isTaskSubmit /\ killCall[t].at # "submit"),
         Asks(c) => Asks(killCall[t]), UncountedCall(c) <=> UncountedCall(killCall[t])
  PROVE  KillInv'
<1>1. /\ UNCHANGED <<isConfigInited, pushedConfigs, servedConfig, configHistory, killReasonMap>>
      /\ UNCHANGED <<killsAsked, killsReported, killsUncounted, killCountMap, pushedConfigs>>
  BY DEF killHistory, servedVars
<1>2. KillConfigInv'
  BY <1>1, ConfigKept
<1>3. KillData' /\ KillSum' /\ WillReport'
  BY <1>1, CountsKept
<1> QED
  BY <1>2, <1>3 DEF KillInv

(* ReportKillEventPeriod.                                                  *)
LEMMA KillsAreReported ==
  ASSUME KillInv, ReportKillEventPeriod
  PROVE  KillInv'
<1>1. /\ killsReported' = killsReported + CountSum(killCountMap) /\ killCountMap' = [k \in {} |-> 0]
      /\ killsAsked' = killsAsked /\ killsUncounted' = killsUncounted
      /\ killCall' = killCall /\ UNCHANGED <<registration, isConfigInited, servedVars, configHistory, killReasonMap>>
  BY DEF ReportKillEventPeriod
<1>2. Counts' = {} /\ Counted(killCountMap', Counts') /\ Total(killCountMap', Counts') = 0
  <2>1. Counts' = {}
    BY <1>1 DEF Counts
  <2> QED
    BY <2>1, FS_EmptySet, TotalEmpty DEF Counted
<1>3. CountSum(killCountMap) = Total(killCountMap, Counts) /\ Counted(killCountMap, Counts)
  BY DEF CountSum, SumFunction, Total, Counts, KillInv, KillData
<1>4. Total(killCountMap, Counts) \in Nat /\ Uncounting' = Uncounting /\ pushedConfigs' = pushedConfigs
  BY <1>1, <1>3, TotalType DEF Uncounting, UncountedCall, servedVars
<1>5. /\ killsAsked \in Nat /\ killsReported \in Nat /\ killsUncounted \in Nat
      /\ killCall \in [KillThreads -> KillCalls] /\ pushedConfigs \in Seq(KillConfigs)
      /\ killsAsked = Total(killCountMap, Counts) + killsReported + killsUncounted + Cardinality(Uncounting)
  BY DEF KillInv, KillData, KillSum
<1>6. KillData'
  BY <1>1, <1>2, <1>3, <1>4, <1>5, LinkTyped DEF KillData
<1>7. KillSum'
  BY <1>1, <1>2, <1>3, <1>4, <1>5, UncountingFinite DEF KillSum
<1>8. KillConfigInv'
  BY <1>1 DEF KillInv, KillConfigInv, Registered, OneAsks, Asks, PushedNewest, ConfigStored, servedVars,
     registration, configHistory
<1>9. WillReport'
  BY <1>2 DEF WillReport
<1> QED
  BY <1>6, <1>7, <1>8, <1>9 DEF KillInv

LEMMA KillStep ==
  ASSUME KillInv, [KillNext]_killVars
  PROVE  KillInv'
<1>1. ASSUME UNCHANGED <<killCall, isTaskSubmit, killCountMap, killHistory>>,
             KillConfigInv', pushedConfigs' \in Seq(KillConfigs),
             killLink' \in {"off", "stored", "served"}
      PROVE  KillInv'
  <2>1. Counts' = Counts /\ Uncounting' = Uncounting
    BY <1>1 DEF Counts, Uncounting, UncountedCall
  <2>2. KillData' /\ KillSum'
    BY <1>1, <2>1 DEF KillInv, KillData, KillSum, killHistory
  <2>3. WillReport'
    BY <1>1, <2>1 DEF KillInv, WillReport
  <2> QED
    BY <1>1, <2>2, <2>3 DEF KillInv
<1>2. CASE UNCHANGED killVars
  <2>1. KillConfigInv' /\ pushedConfigs' \in Seq(KillConfigs)
    BY <1>2 DEF killVars, servedVars, KillInv, KillData, KillConfigInv, Registered, OneAsks, Asks,
      PushedNewest, ConfigStored, registration, configHistory
  <2>2. killLink' \in {"off", "stored", "served"}
    BY <1>2 DEF killVars, registration, KillInv, KillData
  <2> QED
    BY <1>1, <1>2, <2>1, <2>2 DEF killVars
<1>3. ASSUME NEW t \in KillThreads, KillListenerInit(t) PROVE KillInv'
  <2>1. /\ CallAt("init", NoKind, FALSE) \in KillCalls /\ killCall[t] = NoKill /\ NoKill.at = "none"
        /\ ~Asks(CallAt("init", NoKind, FALSE)) /\ ~UncountedCall(CallAt("init", NoKind, FALSE))
        /\ ~UncountedCall(NoKill)
    BY <1>3, InitCalls, CallsTold, CallParts DEF KillListenerInit
  <2> QED
    BY <1>3, <2>1, ThreadGoesOn DEF KillListenerInit
<1>4. ASSUME NEW t \in KillThreads, NEW ok \in BOOLEAN, ServiceAnswersKill(t, ok) PROVE KillInv'
  <2> DEFINE k == killCall[t].kind
             c == IF ok THEN CallAt("parse", k, servedConfig) ELSE AfterInit(k)
  <2>1. killCall[t].at = "asking" /\ k \in KillKinds \cup {NoKind} /\ killCall[t] # NoKill
    BY <1>4, CallKinds, CallParts DEF ServiceAnswersKill, KillInv, KillData
  <2>2. c \in KillCalls /\ (UncountedCall(c) <=> k # NoKind)
    <3>1. servedConfig \in KillConfigs
      BY DEF KillInv, KillConfigInv, PushedNewest
    <3>2. CASE ok
      <4>1. c = CallAt("parse", k, servedConfig) /\ c \in KillCalls
        BY <2>1, <3>1, <3>2, InitCalls
      <4> QED
        BY <4>1, CallsTold
    <3>3. CASE ~ok
      BY <2>1, <3>3, CallAfterInit
    <3> QED
      BY <3>2, <3>3
  <2>3. Asks(killCall[t]) /\ (UncountedCall(killCall[t]) <=> k # NoKind)
    BY <2>1 DEF Asks, UncountedCall
  <2>4. Step(t, c)
    BY <1>4 DEF ServiceAnswersKill
  <2> HIDE DEF c, k
  <2> QED
    BY <1>4, <2>1, <2>2, <2>3, <2>4, ThreadGoesOn DEF ServiceAnswersKill
<1>5. ASSUME NEW t \in KillThreads, IsConfigKillReason(t) PROVE KillInv'
  <2> DEFINE c == CallAt("count", killCall[t].kind, killCall[t].kind \in killReasonMap)
  <2>1. killCall[t].at = "decide" /\ killCall[t].kind \in KillKinds /\ killCall[t] # NoKill
    BY <1>5, CallKinds, CallParts DEF IsConfigKillReason, KillInv, KillData
  <2>2. c \in KillCalls /\ UncountedCall(c) /\ ~Asks(c) /\ UncountedCall(killCall[t]) /\ Step(t, c)
    <3>1. UncountedCall(killCall[t])
      BY <2>1, KillConstants DEF UncountedCall
    <3>2. Step(t, c) /\ (killCall[t].kind \in killReasonMap) \in BOOLEAN
      BY <1>5 DEF IsConfigKillReason
    <3>3. c \in KillCalls /\ killCall[t].kind # NoKind
      BY <2>1, <3>2, LaterCalls, KillConstants
    <3> QED
      BY <3>1, <3>2, <3>3, CallsTold
  <2> HIDE DEF c
  <2> QED
    BY <1>5, <2>1, <2>2, ThreadGoesOn DEF IsConfigKillReason
<1>6. ASSUME NEW t \in KillThreads, UpdateKillCount(t) PROVE KillInv'
  <2> DEFINE c == CallAt("submit", killCall[t].kind, FALSE)
  <2>1. killCall[t].at = "count" /\ killCall[t].kind \in KillKinds /\ killCall[t] # NoKill
    BY <1>6, CallKinds, CallParts DEF UpdateKillCount, KillInv, KillData
  <2>2. c \in KillCalls /\ ~Asks(c) /\ Step(t, c)
    <3>1. c \in KillCalls /\ Step(t, c)
      BY <1>6, <2>1, LaterCalls DEF UpdateKillCount
    <3> QED
      BY <3>1, CallsTold
  <2>3. /\ UNCHANGED registration
        /\ UNCHANGED <<isConfigInited, pushedConfigs, servedConfig, configHistory, killReasonMap>>
    BY <1>6 DEF UpdateKillCount, servedVars
  <2> HIDE DEF c
  <2>4. KillConfigInv'
    BY <2>1, <2>2, <2>3, ConfigKept
  <2> QED
    BY <1>6, <2>4, KillCounted DEF KillInv
<1>7. ASSUME NEW t \in KillThreads, ReportKillEvent(t) PROVE KillInv'
  <2>1. killCall[t].at = "submit" /\ killCall[t] # NoKill
    BY <1>7, CallParts DEF ReportKillEvent
  <2>2. NoKill \in KillCalls /\ ~Asks(NoKill) /\ ~UncountedCall(NoKill) /\ ~UncountedCall(killCall[t])
    BY <2>1, CallParts, CallsTold DEF UncountedCall
  <2> QED
    BY <1>7, <2>1, <2>2, ThreadGoesOn DEF ReportKillEvent
<1>8. ASSUME NEW config \in KillConfigs, ServiceConfigured(config) PROVE KillInv'
  BY <1>1, <1>8, ConfigPushed DEF ServiceConfigured, registration, KillInv, KillData
<1>9. CASE OnReceiveEvent
  BY <1>1, <1>9, PushArrives DEF OnReceiveEvent, registration, KillInv, KillData
<1>10. CASE KillServiceRestarts \/ RecoverKillListener
  <2>1. UNCHANGED <<killCall, isTaskSubmit, killCountMap, killHistory>>
    BY <1>10 DEF KillServiceRestarts, RecoverKillListener
  <2> QED
    BY <1>1, <1>10, <2>1, LinkChanges DEF KillData
<1> QED
  BY <1>2, <1>3, <1>4, <1>5, <1>6, <1>7, <1>8, <1>9, <1>10, KillAsked, InitStep, KillsAreReported DEF KillNext

LEMMA KillStart == KillInit => KillInv
<1> SUFFICES ASSUME KillInit PROVE KillInv
  OBVIOUS
<1>1. /\ ~isConfigInited /\ ~isKillRegister /\ killLink = "off" /\ pushedConfigs = <<>> /\ servedConfig = {}
      /\ killCall = [t \in KillThreads |-> NoKill] /\ killCountMap = [k \in {} |-> 0]
      /\ killsAsked = 0 /\ killsReported = 0 /\ killsUncounted = 0
  BY DEF KillInit
<1>2. Counts = {} /\ Uncounting = {}
  BY <1>1, CallsTold DEF Counts, Uncounting
<1>3. Counted(killCountMap, Counts) /\ Total(killCountMap, Counts) = 0 /\ Cardinality(Uncounting) = 0
  BY <1>2, FS_EmptySet, TotalEmpty DEF Counted
<1>4. KillData
  BY <1>1, <1>3, CallParts DEF KillData, KillConfigs
<1>5. KillConfigInv
  BY <1>1, CallsTold DEF KillConfigInv, Registered, OneAsks, PushedNewest, ConfigStored, KillConfigs
<1> QED
  BY <1>1, <1>2, <1>3, <1>4, <1>5 DEF KillInv, KillSum, WillReport

LEMMA KillGives == KillInv => KillReasonsRight
<1> SUFFICES ASSUME KillInv PROVE KillReasonsRight
  OBVIOUS
<1>1. KillConfigKnown
  BY DEF KillInv, KillConfigInv, ConfigStored, KillConfigKnown
<1>2. ASSUME \A t \in KillThreads : killCall[t] = NoKill
      PROVE  /\ killsAsked = CountSum(killCountMap) + killsReported + killsUncounted
             /\ DOMAIN killCountMap # {} => isTaskSubmit
  <2>1. Uncounting = {}
    BY <1>2, CallsTold DEF Uncounting
  <2>2. CountSum(killCountMap) = Total(killCountMap, Counts) /\ Total(killCountMap, Counts) \in Nat
    BY TotalType DEF CountSum, SumFunction, Total, Counts, KillInv, KillData
  <2>3. killsAsked = CountSum(killCountMap) + killsReported + killsUncounted
    BY <2>1, <2>2, FS_EmptySet DEF KillInv, KillData, KillSum
  <2>4. \A t \in KillThreads : killCall[t].at # "submit"
    BY <1>2, CallParts
  <2>5. DOMAIN killCountMap # {} => isTaskSubmit
    BY <2>4, Zenon DEF KillInv, WillReport, Counts
  <2> QED
    BY <2>3, <2>5
<1>3. KillsCounted
  BY <1>2, Zenon DEF KillsCounted
<1> QED
  BY <1>1, <1>3 DEF KillReasonsRight

-----------------------------------------------------------------------------
(* The type invariants that MCParts checks.                                *)

(* The types of RequestLimit: the statistics of what was refused.          *)
LimitFlags == isPrintLimitLog \in BOOLEAN /\ isReportBigData \in BOOLEAN
LimitFields ==
  /\ nextReportBigDataTime \in Nat /\ bigDataReportCount \in Nat
  /\ errLogCount \in Nat /\ lastEventReportTime \in Nat

LEMMA LimitStartType == LimitInit => LimitFlags /\ LimitFields
<1>1. LimitInit => LimitFlags
  BY Zenon DEF LimitInit, LimitFlags
<1>2. LimitInit => LimitFields
  BY DEF LimitInit, LimitFields
<1> QED
  BY <1>1, <1>2

LEMMA LimitStepFlags ==
  ASSUME LimitFlags, [LimitNext]_limitVars
  PROVE  LimitFlags'
<1>1. ASSUME NEW u \in Callers, NEW permitted \in BOOLEAN, Request(u, permitted) PROVE LimitFlags'
  <2>1. PICK tooMany : (IF tooMany THEN InreaseBigDataCount ELSE ReportBigData)
                       /\ PrintLimitLog(tooMany)
    BY <1>1, Zenon DEF Request, RemoteRequestCheck
  <2>2. isReportBigData' \in BOOLEAN
    <3>1. InreaseBigDataCount => isReportBigData' \in BOOLEAN
      BY Zenon DEF InreaseBigDataCount
    <3>2. ReportBigData => isReportBigData' \in BOOLEAN
      BY Zenon DEF ReportBigData
    <3> QED
      BY <2>1, <3>1, <3>2, Zenon
  <2>3. isPrintLimitLog' \in BOOLEAN
    BY <2>1, Zenon DEF PrintLimitLog
  <2> QED
    BY <2>2, <2>3, Zenon DEF LimitFlags
<1>2. CASE ClockTicks
  BY <1>2, Zenon DEF ClockTicks, LimitFlags
<1>3. CASE UNCHANGED limitVars
  BY <1>3, Zenon DEF limitVars, LimitFlags
<1> QED
  BY <1>1, <1>2, <1>3, Zenon DEF LimitNext

LEMMA LimitStepFields ==
  ASSUME LimitInv, LimitFields, [LimitNext]_limitVars
  PROVE  LimitFields'
<1>1. clock \in Nat /\ FOUR_HOUR_TIME \in Nat
  BY LimitConstants, RequestsAssumption DEF LimitInv, LimitData
<1>2. ASSUME NEW u \in Callers, NEW permitted \in BOOLEAN, Request(u, permitted) PROVE LimitFields'
  <2>1. InreaseBigDataCount \/ ReportBigData
    BY <1>2, Zenon DEF Request, RemoteRequestCheck
  <2>2. bigDataReportCount' \in Nat /\ nextReportBigDataTime' \in Nat
    BY <1>1, <2>1 DEF InreaseBigDataCount, ReportBigData, LimitFields
  <2>3. errLogCount' \in Nat /\ lastEventReportTime' \in Nat
    BY <1>1, <1>2 DEF Request, CheckReportDataParcel, ReportPermissionErrorEvent, LimitFields
  <2> QED
    BY <2>2, <2>3 DEF LimitFields
<1>3. CASE ClockTicks
  BY <1>3 DEF ClockTicks, LimitFields
<1>4. CASE UNCHANGED limitVars
  BY <1>4 DEF limitVars, LimitFields
<1> QED
  BY <1>2, <1>3, <1>4, Zenon DEF LimitNext

LEMMA LimitTyped == LimitInv /\ LimitFlags /\ LimitFields => LimitTypeOK
  BY Zenon DEF LimitInv, LimitData, LimitFlags, LimitFields, LimitTypeOK, Ticks

(* The types of SyncDelivery: the cache of permissions holds no token      *)
(* twice and no more than its capacity.                                    *)
CacheRight(cache) ==
  /\ cache \in Seq(SyncCallers) /\ Len(cache) <= CACHE_CAPACITY
  /\ \A i, j \in 1..Len(cache) : cache[i] = cache[j] => i = j
SyncFields == extAdded \in BOOLEAN /\ allowAllSA \subseteq SyncTypes

LEMMA CacheStaysRight ==
  ASSUME CacheRight(permissionCache), NEW c \in SyncCallers
  PROVE  CacheRight(CacheAfter(c))
<1> DEFINE n == Len(permissionCache)
           held == {i \in 1..n : permissionCache[i] = c}
           free == IF held # {} THEN CHOOSE i \in held : TRUE
                   ELSE IF n >= CACHE_CAPACITY THEN n ELSE n + 1
           size == IF free > n THEN free ELSE n
           new == [i \in 1..size |->
                     IF i = 1 THEN c
                     ELSE IF i <= free THEN permissionCache[i - 1] ELSE permissionCache[i]]
<1>1. CacheAfter(c) = new
  BY Zenon DEF CacheAfter
<1>2. /\ n \in Nat /\ CACHE_CAPACITY \in Nat \ {0} /\ n <= CACHE_CAPACITY
      /\ \A i \in 1..n : permissionCache[i] \in SyncCallers
      /\ \A i, j \in 1..n : permissionCache[i] = permissionCache[j] => i = j
  BY SyncAssumption DEF CacheRight
<1>3. /\ free \in 1..n \/ (free = n + 1 /\ n < CACHE_CAPACITY)
      /\ \A i \in 1..n : i # free => permissionCache[i] # c
  <2>1. CASE held # {}
    <3>1. free = CHOOSE i \in held : TRUE
      BY <2>1, Zenon
    <3>2. free \in held
      <4> HIDE DEF held, free
      <4> QED
        BY <2>1, <3>1, Zenon
    <3>3. free \in 1..n /\ permissionCache[free] = c
      <4> HIDE DEF free
      <4> QED
        BY <3>2
    <3> HIDE DEF free, n
    <3> QED
      BY <1>2, <3>3
  <2>2. CASE held = {}
    <3>1. free = IF n >= CACHE_CAPACITY THEN n ELSE n + 1
      BY <2>2, Zenon
    <3>2. \A i \in 1..n : permissionCache[i] # c
      BY <2>2
    <3> HIDE DEF free, n
    <3>3. n \in Nat /\ n <= CACHE_CAPACITY /\ CACHE_CAPACITY \in Nat \ {0}
      BY <1>2
    <3>4. free \in 1..n \/ (free = n + 1 /\ n < CACHE_CAPACITY)
      BY <3>1, <3>3
    <3> QED
      BY <3>2, <3>4, Zenon
  <2> QED
    BY <2>1, <2>2
<1> HIDE DEF n, held, free
<1>4. /\ size \in Nat /\ size <= CACHE_CAPACITY /\ free <= size
      /\ \A i \in 1..size : i # 1 =>
           IF i <= free THEN i - 1 \in 1..n /\ i - 1 # free ELSE i \in 1..n /\ i # free
  BY <1>2, <1>3
<1> HIDE DEF size
<1>5. /\ new[1] = c \/ size = 0
      /\ \A i \in 1..size : i # 1 => /\ new[i] # c /\ new[i] \in SyncCallers
                                     /\ i <= free => new[i] = permissionCache[i - 1]
                                     /\ i > free => new[i] = permissionCache[i]
  <2>1. \A i \in 1..size :
          new[i] = IF i = 1 THEN c
                   ELSE IF i <= free THEN permissionCache[i - 1] ELSE permissionCache[i]
    OBVIOUS
  <2> HIDE DEF new
  <2>2. free \in Nat
    BY <1>2, <1>3
  <2>3. new[1] = c \/ size = 0
    BY <1>4, <2>1
  <2>4. ASSUME NEW i \in 1..size, i # 1
        PROVE  /\ new[i] # c /\ new[i] \in SyncCallers
               /\ i <= free => new[i] = permissionCache[i - 1]
               /\ i > free => new[i] = permissionCache[i]
    BY <1>2, <1>3, <1>4, <2>1, <2>2, <2>4
  <2> QED
    BY <2>3, <2>4
<1>6. new \in Seq(SyncCallers) /\ Len(new) = size
  <2>1. \A i \in 1..size : new[i] \in SyncCallers
    <3> HIDE DEF new
    <3> QED
      BY <1>4, <1>5
  <2> QED
    BY <1>4, <2>1
<1> HIDE DEF new
<1>7. ASSUME NEW i \in 1..size, NEW j \in 1..size, new[i] = new[j] PROVE i = j
  <2>1. free \in Nat /\ (i = 1 \/ j = 1 => i = j)
    BY <1>2, <1>3, <1>4, <1>5, <1>7
  <2>2. CASE i # 1 /\ j # 1
    <3> DEFINE old(k) == IF k <= free THEN k - 1 ELSE k
    <3>1. /\ old(i) \in 1..n /\ old(j) \in 1..n /\ old(i) # free /\ old(j) # free
          /\ new[i] = permissionCache[old(i)] /\ new[j] = permissionCache[old(j)]
      BY <1>4, <1>5, <2>1, <2>2
    <3>2. old(i) = old(j)
      <4> HIDE DEF old
      <4> QED
        BY <1>2, <1>7, <3>1
    <3> QED
      BY <1>4, <2>1, <3>1, <3>2
  <2> QED
    BY <2>1, <2>2
<1> QED
  BY <1>1, <1>4, <1>6, <1>7 DEF CacheRight

LEMMA SyncStartType == SyncInit => SyncFields /\ CacheRight(permissionCache)
<1>1. <<>> \in Seq(SyncCallers) /\ Len(<<>>) = 0 /\ 1..0 = {}
  OBVIOUS
<1>2. ASSUME NEW cache, cache = <<>> PROVE CacheRight(cache)
  BY <1>1, <1>2, SyncAssumption DEF CacheRight
<1> QED
  BY <1>2 DEF SyncInit, SyncFields

LEMMA SyncStepType ==
  ASSUME SyncFields, CacheRight(permissionCache), [SyncNext]_syncVars
  PROVE  SyncFields' /\ CacheRight(permissionCache)'
<1>1. ASSUME UNCHANGED allowVars PROVE SyncFields' /\ CacheRight(permissionCache)'
  BY <1>1, Zenon DEF allowVars, SyncFields, CacheRight
<1>2. CASE AddAllowAllSAReportResExt
  BY <1>2, Zenon DEF AddAllowAllSAReportResExt, SyncFields, CacheRight
<1>3. CASE InitAllowIpcReportRes
  <2>1. allowAllSA' \subseteq SyncTypes
    BY <1>3 DEF InitAllowIpcReportRes, SyncTypes
  <2> QED
    BY <1>3, <2>1, Zenon DEF InitAllowIpcReportRes, SyncFields, CacheRight
<1>4. ASSUME NEW r \in BinderThreads, NEW t \in SyncTypes, NEW c \in SyncCallers,
             ReportSyncEvent(r, t, c)
      PROVE  SyncFields' /\ CacheRight(permissionCache)'
  <2>1. permissionCache' = permissionCache \/ permissionCache' = CacheAfter(c)
    BY <1>4, Zenon DEF ReportSyncEvent
  <2>2. CacheRight(permissionCache')
    BY <2>1, CacheStaysRight, Zenon
  <2>3. CacheRight(permissionCache)'
    BY <2>2, Zenon DEF CacheRight
  <2> QED
    BY <1>4, <2>3, Zenon DEF ReportSyncEvent, SyncFields
<1>5. ASSUME NEW r \in BinderThreads, FindSubscriber(r) \/ FindPlugin(r) \/ DeliverResource(r)
      PROVE  UNCHANGED allowVars
  BY <1>5, Zenon DEF FindSubscriber, FindPlugin, DeliverResource, allowVars
<1>6. ASSUME NEW p \in SyncPlugins, NEW t,
             BanPlugin(p) \/ SubscribeSyncResource(p, t) \/ UnSubscribeSyncResource(p, t)
      PROVE  UNCHANGED allowVars
  BY <1>6, Zenon DEF BanPlugin, SubscribeSyncResource, UnSubscribeSyncResource, allowVars
<1>7. CASE UnLoadAll \/ ClearSyncResource \/ UNCHANGED syncVars
  BY <1>1, <1>7, Zenon DEF UnLoadAll, ClearSyncResource, syncVars, allowVars
<1> QED
  BY <1>1, <1>2, <1>3, <1>4, <1>5, <1>6, <1>7, Zenon DEF SyncNext

LEMMA SyncTyped == SyncInv /\ SyncFields /\ CacheRight(permissionCache) => SyncTypeOK
<1>1. CacheRight(permissionCache) =>
        \A i, j \in DOMAIN permissionCache : permissionCache[i] = permissionCache[j] => i = j
  BY DEF CacheRight
<1> QED
  BY <1>1, Zenon DEF SyncInv, SyncData, SyncFields, CacheRight, SyncTypeOK

(* The types of JsSystemload.                                              *)
JsLevels ==
  /\ notifyLevel \in LoadLevels \cup {NoLoadLevel} /\ loadLevel \in LoadLevels
  /\ loadChanges \in 0..MaxLoadChanges /\ jsUnsure \subseteq JsFunctions

LEMMA JsStartType == JsInit => JsLevels
<1>1. 0 \in LoadLevels /\ 0 \in 0..MaxLoadChanges
  BY JsSystemloadAssumption DEF LoadLevels
<1> QED
  BY <1>1, Zenon DEF JsInit, JsLevels

LEMMA JsStepType ==
  ASSUME JsInv, JsLevels, [JsNext]_jsVars
  PROVE  JsLevels'
<1>1. ASSUME UNCHANGED <<notifyLevel, loadLevel, loadChanges>>, jsUnsure' \subseteq JsFunctions
      PROVE  JsLevels'
  BY <1>1, Zenon DEF JsLevels
<1>2. ASSUME NEW f \in JsFunctions, RegisterSystemloadCallback(f) PROVE JsLevels'
  <2>1. jsUnsure' \in {jsUnsure \cup {f}, jsUnsure \ {f}}
    BY <1>2 DEF RegisterSystemloadCallback
  <2>2. jsUnsure' \subseteq JsFunctions
    BY <2>1 DEF JsLevels
  <2> QED
    BY <1>1, <1>2, <2>2, Zenon DEF RegisterSystemloadCallback
<1>3. ASSUME NEW f \in JsFunctions, UnRegisterSystemloadCallback(f) PROVE JsLevels'
  BY <1>1, <1>3, Zenon DEF UnRegisterSystemloadCallback, JsLevels
<1>4. ASSUME NEW l \in JsListeners, NEW sent \in BOOLEAN, ThreadSafeCallBack(l, sent)
      PROVE  JsLevels'
  <2>1. l \in 1..Len(jsOwner)
    <3>1. Len(jsOwner) \in Nat /\ l \in Nat /\ l >= 1 /\ l <= Len(jsOwner)
      BY <1>4 DEF ThreadSafeCallBack, JsInv, JsWays, JsMaps, JsListeners
    <3> QED
      BY <3>1
  <2>2. jsOwner[l] \in JsFunctions
    BY <2>1 DEF JsInv, JsMaps
  <2>3. jsUnsure' \in {jsUnsure \cup {jsOwner[l]}, jsUnsure}
    BY <1>4 DEF ThreadSafeCallBack, OnSystemloadLevel
  <2>4. jsUnsure' \subseteq JsFunctions
    BY <2>2, <2>3 DEF JsLevels
  <2> QED
    BY <1>1, <1>4, <2>4, Zenon DEF ThreadSafeCallBack
<1>5. CASE CompleteCb
  BY <1>1, <1>5, Zenon DEF CompleteCb, JsLevels
<1>6. CASE CopyListeners
  <2>1. binderLevels \in Seq(LoadLevels) /\ binderLevels # <<>>
    BY <1>6 DEF CopyListeners, JsInv, JsWays
  <2>2. notifyLevel' \in LoadLevels
    BY <1>6, <2>1 DEF CopyListeners
  <2> QED
    BY <1>6, <2>2, Zenon DEF CopyListeners, JsLevels
<1>7. ASSUME NEW l \in JsListeners, ListenerOnSystemloadLevel(l) PROVE JsLevels'
  BY <1>1, <1>7, Zenon DEF ListenerOnSystemloadLevel, JsLevels
<1>8. ASSUME NEW level \in LoadLevels, ServiceSendsLevel(level) PROVE JsLevels'
  <2>1. loadChanges' \in 0..MaxLoadChanges
    BY <1>8, JsSystemloadAssumption DEF ServiceSendsLevel, JsLevels
  <2> QED
    BY <1>8, <2>1, Zenon DEF ServiceSendsLevel, JsLevels
<1>9. CASE UNCHANGED jsVars
  BY <1>9, Zenon DEF jsVars, JsLevels
<1> QED
  BY <1>2, <1>3, <1>4, <1>5, <1>6, <1>7, <1>8, <1>9, Zenon DEF JsNext

LEMMA JsTyped == JsInv /\ JsLevels => JsTypeOK
<1> SUFFICES ASSUME JsInv, JsLevels PROVE JsTypeOK
  OBVIOUS
<1>1. /\ Len(jsOwner) \in 0..MaxJsListeners /\ MaxJsListeners \in Nat
      /\ jsCallBackMap \in [JsFunctions -> 0..Len(jsOwner)] /\ jsOwner \in Seq(JsFunctions)
  BY JsSystemloadAssumption DEF JsInv, JsMaps, JsListeners
<1>2. jsCallBackMap \in [JsFunctions -> JsListeners \cup {NoJsListener}]
  <2>1. \A i \in 0..Len(jsOwner) : i \in JsListeners \cup {NoJsListener}
    BY <1>1 DEF JsListeners, NoJsListener
  <2> QED
    BY <1>1, <2>1
<1>3. notifyList \subseteq DOMAIN jsOwner /\ Len(jsOwner) <= MaxJsListeners
  BY <1>1 DEF JsInv, JsWays
<1>4. \A f \in JsFunctions : jsCallBackMap[f] # NoJsListener => jsOwner[jsCallBackMap[f]] = f
  BY Zenon DEF JsInv, JsMaps, IsOn
<1> QED
  BY <1>1, <1>2, <1>3, <1>4, Zenon DEF JsInv, JsWays, JsHistory, JsLevels, JsTypeOK

(* The types of KillReasons: a key of the counts is a kind and an answer,  *)
(* no more keys are counted than the cache holds, and no kill is counted   *)
(* that was not asked about.                                               *)
KillFlags ==
  /\ isKillRegister \in BOOLEAN /\ isConfigInited \in BOOLEAN
  /\ isTaskSubmit \in BOOLEAN /\ configOvertaken \in BOOLEAN /\ configUnpushed \in BOOLEAN
KillFields ==
  /\ killReasonMap \subseteq KillKinds /\ Counts \subseteq KillKinds \X BOOLEAN
  /\ Cardinality(Counts) <= MAX_CACHE_REASON_COUNT
  /\ \A k \in Counts : killCountMap[k] \in Nat \ {0}
  /\ killsAsked <= MaxKills /\ servedConfigs \in 0..MaxKillConfigs

LEMMA KillStartType == KillInit => KillFlags /\ KillFields
<1>1. KillInit => KillFlags
  BY Zenon DEF KillInit, KillFlags
<1>2. KillInit => KillFields
  <2>1. KillInit => Counts = {} /\ killReasonMap = {} /\ killsAsked = 0 /\ servedConfigs = 0
    BY DEF KillInit, Counts
  <2> QED
    BY <2>1, FS_EmptySet, KillAssumption DEF KillFields
<1> QED
  BY <1>1, <1>2

LEMMA KillStepFlags ==
  ASSUME KillFlags, [KillNext]_killVars
  PROVE  KillFlags'
<1>1. ASSUME NEW t \in KillThreads, NEW kind \in KillKinds, IsAllowedKill(t, kind) PROVE KillFlags'
  BY <1>1, Zenon DEF IsAllowedKill, RegisterKillConfigUpdate, configHistory, KillFlags
<1>2. ASSUME NEW t \in KillThreads, KillListenerInit(t) PROVE KillFlags'
  BY <1>2, Zenon DEF KillListenerInit, RegisterKillConfigUpdate, configHistory, KillFlags
<1>3. ASSUME NEW t \in KillThreads, InitKillConfig(t) PROVE KillFlags'
  <2>1. isConfigInited' \in BOOLEAN /\ configOvertaken' \in BOOLEAN /\ configUnpushed' \in BOOLEAN
    BY <1>3, Zenon DEF InitKillConfig, configHistory, KillFlags
  <2> QED
    BY <1>3, <2>1, Zenon DEF InitKillConfig, registration, KillFlags
<1>4. ASSUME NEW t \in KillThreads,
             IsConfigKillReason(t) \/ UpdateKillCount(t) \/ ReportKillEvent(t)
               \/ \E ok \in BOOLEAN : ServiceAnswersKill(t, ok)
      PROVE  KillFlags'
  BY <1>4, Zenon DEF IsConfigKillReason, UpdateKillCount, ReportKillEvent, ServiceAnswersKill,
     registration, configHistory, KillFlags
<1>5. CASE ReportKillEventPeriod \/ (\E config \in KillConfigs : ServiceConfigured(config))
  BY <1>5, Zenon DEF ReportKillEventPeriod, ServiceConfigured, registration, configHistory, KillFlags
<1>6. CASE OnReceiveEvent \/ KillServiceRestarts \/ RecoverKillListener
  BY <1>6, Zenon DEF OnReceiveEvent, KillServiceRestarts, RecoverKillListener, registration,
     configHistory, KillFlags
<1>7. CASE UNCHANGED killVars
  BY <1>7, Zenon DEF killVars, registration, configHistory, KillFlags
<1> QED
  BY <1>1, <1>2, <1>3, <1>4, <1>5, <1>6, <1>7, Zenon DEF KillNext

LEMMA CallAnswers ==
  \A c \in KillCalls :
    /\ c.at \in {"none", "init", "asking", "parse", "decide", "count", "submit"}
    /\ c.at = "count" => c.with \in BOOLEAN
<1> TAKE c \in KillCalls
<1>1. CASE c = NoKill
  BY <1>1 DEF NoKill
<1>2. CASE c \in [at : {"init", "asking"}, kind : KillKinds \cup {NoKind}, with : {FALSE}]
  BY <1>2
<1>3. CASE c \in [at : {"parse"}, kind : KillKinds \cup {NoKind}, with : KillConfigs]
  BY <1>3
<1>4. CASE c \in [at : {"decide", "submit"}, kind : KillKinds, with : {FALSE}]
  BY <1>4
<1>5. CASE c \in [at : {"count"}, kind : KillKinds, with : BOOLEAN]
  BY <1>5
<1> QED
  BY <1>1, <1>2, <1>3, <1>4, <1>5, Zenon DEF KillCalls

LEMMA ParsedKinds ==
  ASSUME killReasonMap \subseteq KillKinds, NEW config \in KillConfigs
  PROVE  ParseKillConfig(config) \subseteq KillKinds
  BY DEF ParseKillConfig, KillConfigs

LEMMA KillStepFields ==
  ASSUME KillInv, KillFields, [KillNext]_killVars
  PROVE  KillFields'
<1>1. ASSUME killCountMap' = killCountMap, killReasonMap' \subseteq KillKinds,
             killsAsked' <= MaxKills, servedConfigs' \in 0..MaxKillConfigs
      PROVE  KillFields'
  BY <1>1, Zenon DEF KillFields, Counts
<1>2. /\ killReasonMap \subseteq KillKinds /\ killsAsked <= MaxKills
      /\ servedConfigs \in 0..MaxKillConfigs /\ killsAsked \in Nat
      /\ MaxKills \in Nat /\ MaxKillConfigs \in Nat
  BY KillAssumption DEF KillFields, KillInv, KillData
<1>3. ASSUME NEW t \in KillThreads, NEW kind \in KillKinds, IsAllowedKill(t, kind) PROVE KillFields'
  <2>1. killsAsked' <= MaxKills
    BY <1>2, <1>3 DEF IsAllowedKill
  <2> QED
    BY <1>1, <1>2, <1>3, <2>1, Zenon DEF IsAllowedKill, servedVars
<1>4. ASSUME NEW t \in KillThreads,
             KillListenerInit(t) \/ IsConfigKillReason(t) \/ ReportKillEvent(t)
               \/ \E ok \in BOOLEAN : ServiceAnswersKill(t, ok)
      PROVE  KillFields'
  BY <1>1, <1>2, <1>4, Zenon DEF KillListenerInit, IsConfigKillReason, ReportKillEvent,
     ServiceAnswersKill, killHistory, servedVars
<1>5. ASSUME NEW t \in KillThreads, InitKillConfig(t) PROVE KillFields'
  <2>1. \/ killReasonMap' = killReasonMap
        \/ killCall[t].at = "parse" /\ killReasonMap' = ParseKillConfig(killCall[t].with)
    BY <1>5, Zenon DEF InitKillConfig
  <2>2. killCall[t] \in KillCalls
    BY DEF KillInv, KillData
  <2>3. killCall[t].at = "parse" => killCall[t].with \in KillConfigs
    BY <2>2, CallKinds, Zenon
  <2>4. killReasonMap' \subseteq KillKinds
    BY <1>2, <2>1, <2>3, ParsedKinds
  <2> QED
    BY <1>1, <1>2, <1>5, <2>4, Zenon DEF InitKillConfig, killHistory, servedVars
<1>6. ASSUME NEW t \in KillThreads, UpdateKillCount(t) PROVE KillFields'
  <2> DEFINE key == <<killCall[t].kind, killCall[t].with>>
  <2>1. killCall[t].at = "count" /\ killCall[t] \in KillCalls
    BY <1>6, Zenon DEF UpdateKillCount, KillInv, KillData
  <2>2. killCall[t].kind \in KillKinds /\ killCall[t].with \in BOOLEAN
    BY <2>1, CallKinds, CallAnswers, Zenon
  <2>3. key \in KillKinds \X BOOLEAN
    BY <2>2
  <2>4. UNCHANGED <<killReasonMap, killsAsked, servedConfigs>>
    BY <1>6, Zenon DEF UpdateKillCount, servedVars
  <2>5. \/ UNCHANGED killCountMap
        \/ /\ ~CacheFull(key)
           /\ killCountMap' = [k \in Counts \cup {key} |->
                IF k \in Counts THEN killCountMap[k] + (IF k = key THEN 1 ELSE 0) ELSE 1]
    BY <1>6, Zenon DEF UpdateKillCount, Counts
  <2> HIDE DEF key
  <2>6. CASE ~CacheFull(key) /\ killCountMap' = [k \in Counts \cup {key} |->
               IF k \in Counts THEN killCountMap[k] + (IF k = key THEN 1 ELSE 0) ELSE 1]
    <3>1. Counts' = Counts \cup {key} /\ Counts' \subseteq KillKinds \X BOOLEAN
      BY <2>3, <2>6 DEF Counts, KillFields
    <3>2. \A k \in Counts' : killCountMap'[k] \in Nat \ {0}
      <4>1. \A k \in Counts \cup {key} : killCountMap'[k] =
              IF k \in Counts THEN killCountMap[k] + (IF k = key THEN 1 ELSE 0) ELSE 1
        BY <2>6
      <4>2. \A k \in Counts : killCountMap[k] \in Nat \ {0}
        BY DEF KillFields
      <4> QED
        BY <3>1, <4>1, <4>2
    <3>3. IsFiniteSet(Counts) /\ Cardinality(Counts) \in Nat
      BY FS_CardinalityType DEF KillInv, KillData, Counted
    <3>4. Cardinality(Counts \cup {key}) =
            IF key \in Counts THEN Cardinality(Counts) ELSE Cardinality(Counts) + 1
      BY <3>3, FS_AddElement
    <3>5. key \in Counts \/ ~(Cardinality(Counts) >= MAX_CACHE_REASON_COUNT)
      BY <2>6 DEF CacheFull, Counts
    <3>6. Cardinality(Counts') <= MAX_CACHE_REASON_COUNT
      <4>1. Cardinality(Counts) <= MAX_CACHE_REASON_COUNT /\ MAX_CACHE_REASON_COUNT \in Nat
        BY KillAssumption DEF KillFields
      <4>2. Cardinality(Counts') = Cardinality(Counts \cup {key})
        BY <3>1, Zenon
      <4> QED
        BY <3>3, <3>4, <3>5, <4>1, <4>2
    <3> QED
      BY <1>2, <2>4, <3>1, <3>2, <3>6, Zenon DEF KillFields
  <2> QED
    BY <1>1, <1>2, <2>4, <2>5, <2>6, Zenon
<1>7. CASE ReportKillEventPeriod
  <2>1. Counts' = {} /\ UNCHANGED <<killReasonMap, killsAsked, servedConfigs>>
    BY <1>7 DEF ReportKillEventPeriod, Counts, servedVars
  <2> QED
    BY <1>2, <2>1, FS_EmptySet, KillAssumption DEF KillFields
<1>8. ASSUME NEW config \in KillConfigs, ServiceConfigured(config) PROVE KillFields'
  <2>1. servedConfigs' \in 0..MaxKillConfigs
    BY <1>2, <1>8 DEF ServiceConfigured
  <2> QED
    BY <1>1, <1>2, <1>8, <2>1, Zenon DEF ServiceConfigured, killHistory
<1>11. CASE KillServiceRestarts \/ RecoverKillListener
  BY <1>1, <1>2, <1>11, Zenon DEF KillServiceRestarts, RecoverKillListener, killHistory, servedVars
<1>9. CASE OnReceiveEvent
  <2>1. Head(pushedConfigs) \in KillConfigs
    BY <1>9 DEF OnReceiveEvent, KillInv, KillData
  <2>2. killReasonMap' \subseteq KillKinds
    BY <1>2, <1>9, <2>1, ParsedKinds DEF OnReceiveEvent
  <2> QED
    BY <1>1, <1>2, <1>9, <2>2, Zenon DEF OnReceiveEvent, killHistory
<1>10. CASE UNCHANGED killVars
  BY <1>1, <1>2, <1>10, Zenon DEF killVars, killHistory, servedVars
<1> QED
  BY <1>3, <1>4, <1>5, <1>6, <1>7, <1>8, <1>9, <1>10, <1>11, Zenon DEF KillNext

LEMMA KillTyped == KillInv /\ KillFlags /\ KillFields => KillTypeOK
<1> SUFFICES ASSUME KillInv, KillFlags, KillFields PROVE KillTypeOK
  OBVIOUS
<1>1. /\ {isKillRegister, isConfigInited, isTaskSubmit, configOvertaken, configUnpushed}
            \subseteq BOOLEAN
      /\ killLink \in {"off", "stored", "served"}
  BY Zenon DEF KillFlags, KillInv, KillData
<1>2. \A t \in KillThreads :
        killCall[t].at \in {"none", "init", "asking", "parse", "decide", "count", "submit"}
  BY CallAnswers DEF KillInv, KillData
<1>3. {killsAsked, killsReported, killsUncounted} \subseteq 0..MaxKills
  <2>1. Total(killCountMap, Counts) \in Nat
    BY TotalType DEF KillInv, KillData
  <2>2. Cardinality(Uncounting) \in Nat
    BY UncountingFinite, Zenon
  <2>3. /\ killsAsked \in Nat /\ killsReported \in Nat /\ killsUncounted \in Nat
        /\ killsAsked = Total(killCountMap, Counts) + killsReported + killsUncounted
                        + Cardinality(Uncounting)
        /\ killsAsked <= MaxKills /\ MaxKills \in Nat
    BY KillAssumption, Zenon DEF KillInv, KillData, KillSum, KillFields
  <2> HIDE DEF Total, Counts, Uncounting
  <2>4. killsReported <= killsAsked /\ killsUncounted <= killsAsked
    BY <2>1, <2>2, <2>3
  <2> QED
    BY <2>3, <2>4
<1>4. /\ DOMAIN killCountMap \subseteq KillKinds \X BOOLEAN /\ killReasonMap \subseteq KillKinds
      /\ Cardinality(DOMAIN killCountMap) <= MAX_CACHE_REASON_COUNT
      /\ \A k \in DOMAIN killCountMap : killCountMap[k] \in Nat \ {0}
      /\ servedConfigs \in 0..MaxKillConfigs
  BY Zenon DEF KillFields, Counts
<1>5. servedConfig \in KillConfigs /\ pushedConfigs \in Seq(KillConfigs)
  BY Zenon DEF KillInv, KillConfigInv, PushedNewest, KillData
<1> QED
  BY <1>1, <1>2, <1>3, <1>4, <1>5, Zenon DEF KillTypeOK

-----------------------------------------------------------------------------
(* The parts together.  The part that was chosen takes its own steps, so   *)
(* that what its steps keep, MCParts keeps.                                *)
LEMMA PartTakesSteps ==
  ASSUME [PartsNext]_partsVars
  PROVE  /\ part' = part
         /\ part = "focus" => [FocusNext]_sfVars
         /\ part = "events" => [EventsNext]_seVars
         /\ part = "oobe" => [OobeNext]_oobeVars
         /\ part = "startup" => [StartupNext]_startupVars
         /\ part = "slide" => [SlideNext]_slideVars
         /\ part = "observers" => [ObserversNext]_obVars
         /\ part = "device" => [DeviceNext]_deviceVars
         /\ part = "suspend" => [SuspendNext]_suspendVars
         /\ part = "sync" => [SyncNext]_syncVars
         /\ part = "js" => [JsNext]_jsVars
         /\ part = "limit" => [LimitNext]_limitVars
         /\ part = "battery" => [BatteryNext]_batteryVars
         /\ part = "state" => [AppStateNext]_appStateVars
         /\ part = "cgroup" => [CgStatesNext]_cgVars
         /\ part = "kill" => [KillNext]_killVars
         /\ part = "audio" => [AudioNext]_audioVars
         /\ part = "executor" => [ExecutorInitNext]_executorInitVars
         /\ part = "soc" => [SocExeNext]_socExeVars
         /\ part = "config" => [ConfigNext]_configVars
         /\ part = "common" => [CommonEventsNext]_commonEventVars
<1>1. CASE UNCHANGED partsVars
  BY <1>1 DEF partsVars
<1>2. CASE PartsNext
  BY <1>2, Zenon DEF PartsNext, Alone
<1> QED
  BY <1>1, <1>2

(* SocPerfRight in every behaviour of PartsSpec (BoostsEnd and             *)
(* FocusKeptRight, as the run states them): input is suppressed for games  *)
(* only, the weak mode is off in a custom game, no boost of SocPerfPlugin  *)
(* that has an end outlives its scene, unless the end came while the       *)
(* plugin was disabled.                                                    *)
THEOREM SocPerfStaysRight == PartsSpec => []SocPerfRight
<1> DEFINE Inv == /\ part = "focus" => FocusInv
                  /\ part = "events" => OnlyOpenScenes
<1>1. PartsInit => Inv
  <2>1. EventsInit => OnlyOpenScenes
    BY DEF EventsInit, OnlyOpenScenes
  <2> QED
    BY <2>1, FocusStart DEF PartsInit
<1>2. Inv /\ [PartsNext]_partsVars => Inv'
  <2> SUFFICES ASSUME Inv, [PartsNext]_partsVars PROVE Inv'
    OBVIOUS
  <2>1. part' = part
    BY PartTakesSteps
  <2>2. CASE part = "focus"
    BY <2>1, <2>2, PartTakesSteps, FocusStep
  <2>3. CASE part = "events"
    BY <2>1, <2>3, PartTakesSteps, EventsStep
  <2> QED
    BY <2>1, <2>2, <2>3
<1>3. Inv => SocPerfRight
  BY DEF FocusInv, SocPerfRight
<1> QED
  BY <1>1, <1>2, <1>3, PTL DEF PartsSpec

(* OobeRight in every behaviour of PartsSpec: OOBEManager runs a task once *)
(* and only after the agreement, with any number of tasks, retries and     *)
(* listens, and forgets no registration that RegisterObserver put off.     *)
THEOREM OobeStaysRight == PartsSpec => []OobeRight
<1> DEFINE Inv == part = "oobe" => OobeInv
<1>1. PartsInit => Inv
  BY OobeStart DEF PartsInit
<1>2. Inv /\ [PartsNext]_partsVars => Inv'
  BY PartTakesSteps, OobeStep
<1>3. Inv => OobeRight
  BY OobeGivesTasks DEF OobeRight
<1> QED
  BY <1>1, <1>2, <1>3, PTL DEF PartsSpec

(* The three recognizers of SceneRecognizers share a type invariant: while *)
(* one of them runs the other two stay as they are.                        *)
LEMMA RecognizerTakesSteps ==
  ASSUME [PartsNext]_partsVars, part \in {"overlap", "install", "upgrade"}
  PROVE  [OverlapNext]_overlapVars /\ [InstallNext]_installVars /\ [UpgradeNext]_upgradeVars
<1>1. CASE UNCHANGED partsVars
  BY <1>1 DEF partsVars
<1>2. CASE PartsNext
  <2>1. /\ part = "overlap" => Alone("overlap") /\ OverlapNext
        /\ part = "install" => Alone("install") /\ InstallNext
        /\ part = "upgrade" => Alone("upgrade") /\ UpgradeNext
    BY <1>2, Zenon DEF PartsNext, Alone
  <2>2. ASSUME NEW p, NEW q \in {"overlap", "install", "upgrade"}, Alone(p), q # p PROVE Still(q)
    BY <2>2 DEF Alone, Parts
  <2>3. /\ Still("overlap") => UNCHANGED overlapVars
        /\ Still("install") => UNCHANGED installVars
        /\ Still("upgrade") => UNCHANGED upgradeVars
    BY DEF Still
  <2> QED
    BY <2>1, <2>2, <2>3
<1> QED
  BY <1>1, <1>2

(* RecognizedRight in every behaviour of PartsSpec, for any applications,  *)
(* pids, system versions, queues and limits.  A continuous startup that    *)
(* was reported will end; a fling too, unless a slide or an older OFF cut  *)
(* it off (overtaken).  A recognizer that waits for frames gets them,      *)
(* unless a fling ended between the steps of StartDetecting (framesLost).  *)
(* The overlap scene is reported while it is there; an install too, unless *)
(* it began while the exit task of another ran (startMet); and the first   *)
(* boot of a version, unless the service ended before it (cutShort).       *)
THEOREM RecognizedStaysRight == PartsSpec => []RecognizedRight
<1> DEFINE Three == part \in {"overlap", "install", "upgrade"}
           Inv == /\ part = "startup" => StartupInv
                  /\ part = "slide" => SlideInv
                  /\ Three => OverlapSceneRight /\ InstallInv /\ UpgradeReported
<1>1. PartsInit => Inv
  BY StartupStart, SlideStart, OverlapStart, InstallStart, UpgradeStart DEF PartsInit
<1>2. Inv /\ [PartsNext]_partsVars => Inv'
  <2> SUFFICES ASSUME Inv, [PartsNext]_partsVars PROVE Inv'
    OBVIOUS
  <2>1. part' = part
    BY PartTakesSteps
  <2>2. part = "startup" => StartupInv'
    BY PartTakesSteps, StartupStep
  <2>3. part = "slide" => SlideInv'
    BY PartTakesSteps, SlideStep
  <2>4. Three => OverlapSceneRight' /\ InstallInv' /\ UpgradeReported'
    BY RecognizerTakesSteps, OverlapStep, InstallStep, UpgradeStep
  <2> QED
    BY <2>1, <2>2, <2>3, <2>4
<1>3. Inv => RecognizedRight
  BY DEF RecognizedRight, StartupInv, SlideInv, InstallInv, InstallTells, ScenesRight
<1> QED
  BY <1>1, <1>2, <1>3, PTL DEF PartsSpec

(* ObserversRight in every behaviour of PartsSpec, for any abilities,      *)
(* device states and clients.  An observer is registered with its running  *)
(* ability unless it was refused, and the value reported last of it is the *)
(* newest, unless one it had fetched before a change was reported after it *)
(* (outdated).  The plugins know the state of the device once its          *)
(* callbacks are handled, unless the setup used an overtaken state         *)
(* (backward), or a first mode was stored and not told or an event dropped *)
(* (silent).  The suspend manager calls the living observers that          *)
(* registered, but for a registration served while a death was handled     *)
(* (overlapped) and calls that met no service (unserved).                  *)
THEOREM ObserversStayRight == PartsSpec => []ObserversRight
<1> DEFINE Inv == /\ part = "observers" => ObserversInv
                  /\ part = "device" => DeviceInv
                  /\ part = "suspend" => SuspendInv
<1>1. PartsInit => Inv
  BY ObserversStart, DeviceStart, SuspendStart DEF PartsInit
<1>2. Inv /\ [PartsNext]_partsVars => Inv'
  <2> SUFFICES ASSUME Inv, [PartsNext]_partsVars PROVE Inv'
    OBVIOUS
  <2>1. part' = part
    BY PartTakesSteps
  <2>2. part = "observers" => ObserversInv'
    BY PartTakesSteps, ObserversStep
  <2>3. part = "device" => DeviceInv'
    BY PartTakesSteps, DeviceStep
  <2>4. part = "suspend" => SuspendInv'
    BY PartTakesSteps, SuspendStep
  <2> QED
    BY <2>1, <2>2, <2>3, <2>4
<1>3. Inv => ObserversRight
  BY SuspendGives DEF ObserversInv, DeviceInv, ObserversRight
<1> QED
  BY <1>1, <1>2, <1>3, PTL DEF PartsSpec

(* CallsRight in every behaviour of PartsSpec, for any plugins, binder     *)
(* threads, JavaScript functions, levels and listeners: DeliverResource    *)
(* hands a synchronous event only to a plugin that was subscribed, and     *)
(* loaded, at some moment since the event arrived; a callback of           *)
(* systemLoad that is on ends with the level last sent to it, unless it    *)
(* was registered again while a call was under way (jsUnsure), and one     *)
(* that is off is called by no event that off did not find in the queue.   *)
THEOREM CallsStayRight == PartsSpec => []CallsRight
<1> DEFINE Inv == /\ part = "sync" => SyncInv
                  /\ part = "js" => JsInv
<1>1. PartsInit => Inv
  BY SyncStart, JsStart DEF PartsInit
<1>2. Inv /\ [PartsNext]_partsVars => Inv'
  <2> SUFFICES ASSUME Inv, [PartsNext]_partsVars PROVE Inv'
    OBVIOUS
  <2>1. part' = part
    BY PartTakesSteps
  <2>2. part = "sync" => SyncInv'
    BY PartTakesSteps, SyncStep
  <2>3. part = "js" => JsInv'
    BY PartTakesSteps, JsStep
  <2> QED
    BY <2>1, <2>2, <2>3
<1>3. Inv => CallsRight
  BY SyncGives, JsGives DEF CallsRight
<1> QED
  BY <1>1, <1>2, <1>3, PTL DEF PartsSpec

(* LimitsRight in every behaviour of PartsSpec, for any uids, limits,      *)
(* length of a window and battery levels: RemoteRequestCheck accepts, in   *)
(* any span as long as a window, at most twice the limit of a uid from it  *)
(* and at most twice the limit of all uids from them together; and the     *)
(* frequency limit of HandleBatteryStatusChange is that of the level.      *)
THEOREM LimitsStayRight == PartsSpec => []LimitsRight
<1> DEFINE Inv == /\ part = "limit" => LimitInv
                  /\ part = "battery" => BatteryInv
<1>1. PartsInit => Inv
  BY LimitStart, BatteryStart DEF PartsInit
<1>2. Inv /\ [PartsNext]_partsVars => Inv'
  <2> SUFFICES ASSUME Inv, [PartsNext]_partsVars PROVE Inv'
    OBVIOUS
  <2>1. part' = part
    BY PartTakesSteps
  <2>2. part = "limit" => LimitInv'
    BY PartTakesSteps, LimitStep
  <2>3. part = "battery" => BatteryInv'
    BY PartTakesSteps, BatteryStep
  <2> QED
    BY <2>1, <2>2, <2>3
<1>3. Inv => LimitsRight
  BY LimitGives DEF BatteryInv, LimitsRight
<1> QED
  BY <1>1, <1>2, <1>3, PTL DEF PartsSpec

(* ProcessesKnown in every behaviour of PartsSpec, for any processes,      *)
(* threads, kinds of kill and bound on the queue: the pids ResSchedMgr     *)
(* takes for foreground are those of the application manager once its      *)
(* notices are handled, and those a list fetched before they left put back *)
(* (listCrossed, AppState); the records of the cgroup plugin hold what     *)
(* their living processes do and end with them (CgroupStates); and the     *)
(* client library counts each kill it is asked about once and knows the    *)
(* kills that are configured, unless a reply overtook a push               *)
(* (configOvertaken) or the configuration was not pushed to it because the *)
(* listener was only stored or the service died (configUnpushed,           *)
(* KillReasons).                                                           *)
THEOREM ProcessesStayKnown == PartsSpec => []ProcessesKnown
<1> DEFINE Inv == /\ part = "state" => AppStateInv
                  /\ part = "cgroup" => CgInv
                  /\ part = "kill" => KillInv
<1>1. PartsInit => Inv
  BY AppStateStart, CgStart, KillStart DEF PartsInit
<1>2. Inv /\ [PartsNext]_partsVars => Inv'
  <2> SUFFICES ASSUME Inv, [PartsNext]_partsVars PROVE Inv'
    OBVIOUS
  <2>1. part' = part
    BY PartTakesSteps
  <2>2. part = "state" => AppStateInv'
    BY PartTakesSteps, AppStateStep
  <2>3. part = "cgroup" => CgInv'
    BY PartTakesSteps, CgStep
  <2>4. part = "kill" => KillInv'
    BY PartTakesSteps, KillStep
  <2> QED
    BY <2>1, <2>2, <2>3, <2>4
<1>3. Inv => ProcessesKnown
  BY AppStateGives, CgGives, KillGives DEF ProcessesKnown
<1> QED
  BY <1>1, <1>2, <1>3, PTL DEF PartsSpec

-----------------------------------------------------------------------------
(* The type invariant of the run, which joins those of all the parts.      *)

(* FrameAware has two parts, and they share a type invariant.              *)
LEMMA FrameAwareTakesSteps ==
  ASSUME [PartsNext]_partsVars, part \in {"latency", "frame"}
  PROVE  [LatencyNext]_latencyVars /\ [FrameNext]_frameVars
<1>1. CASE UNCHANGED partsVars
  BY <1>1 DEF partsVars
<1>2. CASE PartsNext
  <2>1. /\ part = "latency" => Alone("latency") /\ LatencyNext
        /\ part = "frame" => Alone("frame") /\ FrameNext
    BY <1>2, Zenon DEF PartsNext, Alone
  <2>2. ASSUME NEW p, NEW q \in {"latency", "frame"}, Alone(p), q # p PROVE Still(q)
    BY <2>2 DEF Alone, Parts
  <2>3. /\ Still("latency") => UNCHANGED latencyVars
        /\ Still("frame") => UNCHANGED frameVars
    BY DEF Still
  <2> QED
    BY <2>1, <2>2, <2>3
<1> QED
  BY <1>1, <1>2

(* What types every part: the types of each, with the invariant of the     *)
(* part where a type follows from it or is kept because of it.             *)
Recognizes == part \in {"overlap", "install", "upgrade"}
SeesFrames == part \in {"latency", "frame"}
ExeTypes == ExeFlags /\ ExeDeaths /\ ExeFragments /\ ExeAnswersType
SceneTypes ==
  /\ part = "focus" => FocusTypeOK
  /\ part = "events" => SceneFlags /\ OnlyOpenScenes
  /\ part = "battery" => BatteryInv
  /\ part = "soc" => SocExeInv
  /\ part = "startup" => StartupTypes
  /\ part = "slide" => SlideInv /\ SlideFields /\ SlideFlags
  /\ Recognizes => OverlapTypes /\ InstallTypes /\ UpgradeTypes
  /\ SeesFrames => LatencyInv /\ LatencyTypes /\ FrameEventTypes
WatcherTypes ==
  /\ part = "observers" => ObserversInv /\ ObserverTypes /\ ObserverSets
  /\ part = "common" => CommonEventsInv /\ CesCounts /\ CesFlags /\ CesReports
  /\ part = "device" => DeviceInv /\ DeviceFlags /\ DeviceTold
  /\ part = "audio" => AudioInv /\ AudioTypes
  /\ part = "state" => AppStateInv /\ AppFlags /\ AppFields
  /\ part = "cgroup" => CgInv /\ CgBound
  /\ part = "suspend" => SuspendInv
ServiceTypes ==
  /\ part = "oobe" => OobeInv /\ OobeFlags /\ OobeFields
  /\ part = "limit" => LimitInv /\ LimitFlags /\ LimitFields
  /\ part = "sync" => SyncInv /\ SyncFields /\ CacheRight(permissionCache)
  /\ part = "executor" => ExecutorInv /\ ExeTypes
  /\ part = "config" => ConfigInv
  /\ part = "js" => JsInv /\ JsLevels
  /\ part = "kill" => KillInv /\ KillFlags /\ KillFields

LEMMA SceneTypesStart == PartsInit => SceneTypes
<1> SUFFICES ASSUME PartsInit PROVE SceneTypes
  OBVIOUS
<1>1. /\ FocusInit /\ EventsInit /\ BatteryInit /\ SocExeInit /\ StartupInit /\ SlideInit
      /\ OverlapInit /\ InstallInit /\ UpgradeInit /\ LatencyInit /\ FrameInit
  BY Zenon DEF PartsInit
<1>2. SceneFlags /\ OnlyOpenScenes
  <2>1. SceneFlags
    BY <1>1, Zenon DEF EventsInit, SceneFlags
  <2>2. OnlyOpenScenes
    BY <1>1 DEF EventsInit, OnlyOpenScenes
  <2> QED
    BY <2>1, <2>2
<1>3. FocusTypeOK /\ BatteryInv /\ SocExeInv /\ StartupTypes /\ SlideInv /\ SlideFields /\ SlideFlags
  BY <1>1, FocusStartType, BatteryStart, SocExeInvFirst, StartupStartType, SlideStart,
     SlideStartType, Zenon
<1>4. /\ OverlapTypes /\ InstallTypes /\ UpgradeTypes
      /\ LatencyInv /\ LatencyTypes /\ FrameEventTypes
  BY <1>1, RecognizersStartType, LatencyStart, FrameStartType, Zenon
<1> QED
  BY <1>2, <1>3, <1>4, Zenon DEF SceneTypes

LEMMA WatcherTypesStart == PartsInit => WatcherTypes
<1> SUFFICES ASSUME PartsInit PROVE WatcherTypes
  OBVIOUS
<1>1. /\ ObserversInit /\ CommonEventsInit /\ DeviceInit /\ AudioInit /\ AppStateInit
      /\ CgStatesInit /\ SuspendInit
  BY Zenon DEF PartsInit
<1>2. /\ ObserversInv /\ ObserverTypes /\ ObserverSets
      /\ CommonEventsInv /\ CesCounts /\ CesFlags /\ CesReports
      /\ DeviceInv /\ DeviceFlags /\ DeviceTold
  BY <1>1, ObserversStart, ObserversStartType, CommonEventsStart, CommonEventsStartType,
     DeviceStart, DeviceStartType, Zenon
<1>3. /\ AudioInv /\ AudioTypes /\ AppStateInv /\ AppFlags /\ AppFields
      /\ CgInv /\ CgBound /\ SuspendInv
  BY <1>1, AudioStart, AudioStartType, AppStateStart, AppStateStartType, CgStart, CgStartType,
     SuspendStart, Zenon
<1> QED
  BY <1>2, <1>3, Zenon DEF WatcherTypes

LEMMA ServiceTypesStart == PartsInit => ServiceTypes
<1> SUFFICES ASSUME PartsInit PROVE ServiceTypes
  OBVIOUS
<1>1. /\ OobeInit /\ LimitInit /\ SyncInit /\ ExecutorInitially /\ ConfigInit /\ JsInit
      /\ KillInit
  BY Zenon DEF PartsInit
<1>2. /\ OobeInv /\ OobeFlags /\ OobeFields /\ LimitInv /\ LimitFlags /\ LimitFields
      /\ SyncInv /\ SyncFields /\ CacheRight(permissionCache)
  BY <1>1, OobeStart, OobeStartType, LimitStart, LimitStartType, SyncStart, SyncStartType, Zenon
<1>3. /\ ExecutorInv /\ ExeTypes /\ ConfigInv /\ JsInv /\ JsLevels
      /\ KillInv /\ KillFlags /\ KillFields
  BY <1>1, ExecutorStart, ExecutorStartType, ConfigInitInv, JsStart, JsStartType, KillStart,
     KillStartType, Zenon DEF ExeTypes
<1> QED
  BY <1>2, <1>3, Zenon DEF ServiceTypes

LEMMA SceneTypesStep ==
  ASSUME SceneTypes, [PartsNext]_partsVars
  PROVE  SceneTypes'
<1>1. part' = part /\ Recognizes' = Recognizes /\ SeesFrames' = SeesFrames
  BY PartTakesSteps DEF Recognizes, SeesFrames
<1>2. part = "focus" => FocusTypeOK'
  BY PartTakesSteps, FocusStepType, Zenon DEF SceneTypes
<1>3. part = "events" => SceneFlags' /\ OnlyOpenScenes'
  BY PartTakesSteps, EventsStepType, EventsStep, Zenon DEF SceneTypes
<1>4. part = "battery" => BatteryInv'
  BY PartTakesSteps, BatteryStep, Zenon DEF SceneTypes
<1>5. part = "soc" => SocExeInv'
  BY PartTakesSteps, SocExeInvNext, Zenon DEF SceneTypes
<1>6. part = "startup" => StartupTypes'
  BY PartTakesSteps, StartupStepType, Zenon DEF SceneTypes
<1>7. part = "slide" => SlideInv' /\ SlideFields' /\ SlideFlags'
  <2>1. part = "slide" => SlideInv'
    BY PartTakesSteps, SlideStep, Zenon DEF SceneTypes
  <2>2. part = "slide" => (SlideFields /\ SlideFlags)'
    BY PartTakesSteps, SlideStepFields, Zenon DEF SceneTypes
  <2> QED
    BY <2>1, <2>2, Zenon
<1>8. Recognizes => OverlapTypes' /\ InstallTypes' /\ UpgradeTypes'
  BY RecognizerTakesSteps, OverlapStepType, InstallStepType, UpgradeStepType, Zenon
     DEF SceneTypes, Recognizes
<1>9. SeesFrames => LatencyInv' /\ LatencyTypes' /\ FrameEventTypes'
  BY FrameAwareTakesSteps, LatencyStep, LatencyStepType, FrameStepType, Zenon
     DEF SceneTypes, SeesFrames
<1> QED
  BY <1>1, <1>2, <1>3, <1>4, <1>5, <1>6, <1>7, <1>8, <1>9, Zenon DEF SceneTypes

LEMMA WatcherTypesStep ==
  ASSUME WatcherTypes, [PartsNext]_partsVars
  PROVE  WatcherTypes'
<1>1. part' = part
  BY PartTakesSteps
<1>2. part = "observers" => ObserversInv' /\ ObserverTypes' /\ ObserverSets'
  BY PartTakesSteps, ObserversStep, ObserversStepFlags, ObserversStepSets, Zenon
     DEF WatcherTypes
<1>3. part = "common" => CommonEventsInv' /\ CesCounts' /\ CesFlags' /\ CesReports'
  <2> SUFFICES ASSUME part = "common"
               PROVE  CommonEventsInv' /\ CesCounts' /\ CesFlags' /\ CesReports'
    OBVIOUS
  <2>1. /\ CommonEventsInv /\ CesCounts /\ CesFlags /\ CesReports
        /\ [CommonEventsNext]_commonEventVars
    BY PartTakesSteps, Zenon DEF WatcherTypes
  <2>2. CommonEventsInv'
    BY <2>1, NoticesStep, HearStep, Zenon DEF CommonEventsInv
  <2> QED
    BY <2>1, <2>2, CommonEventsStepType, Zenon
<1>4. part = "device" => DeviceInv' /\ DeviceFlags' /\ DeviceTold'
  BY PartTakesSteps, DeviceStep, DeviceStepFlags, DeviceStepTold, Zenon DEF WatcherTypes
<1>5. part = "audio" => AudioInv' /\ AudioTypes'
  BY PartTakesSteps, AudioStep, AudioStepType, Zenon DEF WatcherTypes
<1>6. part = "state" => AppStateInv' /\ AppFlags' /\ AppFields'
  BY PartTakesSteps, AppStateStep, AppStateStepType, Zenon DEF WatcherTypes
<1>7. part = "cgroup" => CgInv' /\ CgBound'
  BY PartTakesSteps, CgStep, CgStepType, Zenon DEF WatcherTypes
<1>8. part = "suspend" => SuspendInv'
  BY PartTakesSteps, SuspendStep, Zenon DEF WatcherTypes
<1> QED
  BY <1>1, <1>2, <1>3, <1>4, <1>5, <1>6, <1>7, <1>8, Zenon DEF WatcherTypes

LEMMA ServiceTypesStep ==
  ASSUME ServiceTypes, [PartsNext]_partsVars
  PROVE  ServiceTypes'
<1>1. part' = part
  BY PartTakesSteps
<1>2. part = "oobe" => OobeInv' /\ OobeFlags' /\ OobeFields'
  BY PartTakesSteps, OobeStep, OobeStepFlags, OobeStepFields, Zenon DEF ServiceTypes
<1>3. part = "limit" => LimitInv' /\ LimitFlags' /\ LimitFields'
  BY PartTakesSteps, LimitStep, LimitStepFlags, LimitStepFields, Zenon DEF ServiceTypes
<1>4. part = "sync" => SyncInv' /\ SyncFields' /\ CacheRight(permissionCache)'
  BY PartTakesSteps, SyncStep, SyncStepType, Zenon DEF ServiceTypes
<1>5. part = "executor" => ExecutorInv' /\ ExeTypes'
  BY PartTakesSteps, ExecutorStep, ExecutorStepType, Zenon
     DEF ServiceTypes, ExecutorInv, ExeTypes
<1>6. part = "config" => ConfigInv'
  BY PartTakesSteps, ConfigNextInv, Zenon DEF ServiceTypes
<1>7. part = "js" => JsInv' /\ JsLevels'
  BY PartTakesSteps, JsStep, JsStepType, Zenon DEF ServiceTypes
<1>8. part = "kill" => KillInv' /\ KillFlags' /\ KillFields'
  BY PartTakesSteps, KillStep, KillStepFlags, KillStepFields, Zenon DEF ServiceTypes
<1> QED
  BY <1>1, <1>2, <1>3, <1>4, <1>5, <1>6, <1>7, <1>8, Zenon DEF ServiceTypes

LEMMA PartsTyped ==
  ASSUME part \in Parts, SceneTypes, WatcherTypes, ServiceTypes
  PROVE  PartsTypeOK
<1>1. /\ part = "focus" => FocusTypeOK
      /\ part = "events" => EventsTypeOK
      /\ part = "battery" => BatteryTypeOK
      /\ part = "soc" => SocExeTypeOK
      /\ part = "startup" => StartupTypeOK
      /\ part = "slide" => SlideTypeOK
      /\ Recognizes => RecognizersTypeOK
      /\ SeesFrames => FrameAwareTypeOK
  <2>1. BatteryInv => BatteryTypeOK
    BY Zenon DEF BatteryInv
  <2>2. SocExeInv => SocExeTypeOK
    BY Zenon DEF SocExeInv
  <2> QED
    BY <2>1, <2>2, EventsTyped, StartupTyped, SlideTyped, RecognizersTyped, FrameAwareTyped, Zenon
       DEF SceneTypes
<1>2. /\ part = "observers" => ObserversTypeOK
      /\ part = "common" => CommonEventsTypeOK
      /\ part = "device" => DeviceTypeOK
      /\ part = "audio" => AudioTypeOK
      /\ part = "state" => AppStateTypeOK
      /\ part = "cgroup" => CgStatesTypeOK
      /\ part = "suspend" => SuspendTypeOK
  <2>1. SuspendInv => SuspendTypeOK
    BY Zenon DEF SuspendInv
  <2> QED
    BY <2>1, ObserversTyped, CommonEventsTyped, DeviceTyped, AudioTyped, AppStateTyped, CgTyped,
       Zenon DEF WatcherTypes
<1>3. /\ part = "oobe" => OobeTypeOK
      /\ part = "limit" => LimitTypeOK
      /\ part = "sync" => SyncTypeOK
      /\ part = "executor" => ExecutorTypeOK
      /\ part = "config" => ConfigTypeOK
      /\ part = "js" => JsTypeOK
      /\ part = "kill" => KillTypeOK
  BY OobeTyped, LimitTyped, SyncTyped, ExecutorTyped, ConfigTyped, JsTyped, KillTyped, Zenon
     DEF ServiceTypes, ExecutorInv, ExeTypes
<1> QED
  BY <1>1, <1>2, <1>3, Zenon DEF PartsTypeOK, Recognizes, SeesFrames

(* PartsTypeOK in every behaviour of PartsSpec, for any values of the      *)
(* constants: the variables of each part stay of their types and within    *)
(* the bounds of the code, among them the cache of permissions within its  *)
(* capacity and without a token twice, the retries of CheckOobeValue, the  *)
(* counts of KillEventListener within its cache, the fragments the         *)
(* executor holds within those that are sent, and the request counters     *)
(* within their limits.                                                    *)
THEOREM PartsTypes == PartsSpec => []PartsTypeOK
<1> DEFINE Inv == part \in Parts /\ SceneTypes /\ WatcherTypes /\ ServiceTypes
<1>1. PartsInit => Inv
  <2>1. PartsInit => part \in Parts
    BY Zenon DEF PartsInit
  <2> QED
    BY <2>1, SceneTypesStart, WatcherTypesStart, ServiceTypesStart, Zenon
<1>2. Inv /\ [PartsNext]_partsVars => Inv'
  <2> SUFFICES ASSUME Inv, [PartsNext]_partsVars PROVE Inv'
    OBVIOUS
  <2>1. part' \in Parts
    BY PartTakesSteps
  <2> QED
    BY <2>1, SceneTypesStep, WatcherTypesStep, ServiceTypesStep, Zenon
<1>3. Inv => PartsTypeOK
  BY PartsTyped, Zenon
<1> QED
  BY <1>1, <1>2, <1>3, PTL DEF PartsSpec
=============================================================================
