---------------------------- MODULE SyncDelivery ----------------------------
(***************************************************************************)
(* ResSchedService::ReportSyncEvent past the request limit: the check that *)
(* the caller may report the type, with its cache of token permissions,    *)
(* and PluginMgr::DeliverResource, which calls the one plugin subscribed   *)
(* to the type and returns its answer.  Binder threads read the            *)
(* subscription and the plugin under two locks and call it under none,     *)
(* while plugins subscribe, unsubscribe, are banned, and the manager stops.*)
(***************************************************************************)
EXTENDS Naturals, FiniteSets, Sequences

CONSTANTS
  BinderThreads,  \* threads that take requests
  SyncPlugins,    \* plugins
  Granted,        \* native callers with REPORT_RESOURCE_SCHEDULE_EVENT
  CACHE_CAPACITY  \* permissionCache_

(* One type of each list InitAllowIpcReportRes fills: for SceneBoard, for  *)
(* all apps, for foreground apps, for all native services, for some uids,  *)
(* and one a plugin adds to the list of all native services.               *)
SyncTypes == {"scb", "app", "fg_app", "sa", "some_sa", "ext_sa"}
(* Callers: SceneBoard, apps, native services, the last of a listed uid.   *)
SyncCallers == {"sceneboard", "fg_hap", "bg_hap", "native", "native2", "listed_native"}
NoPlugin == "no_plugin"

ASSUME SyncAssumption ==
  /\ Granted \subseteq SyncCallers /\ CACHE_CAPACITY \in Nat \ {0}
  /\ NoPlugin \notin SyncPlugins

VARIABLES
  extAdded,        \* a plugin called AddAllowAllSAReportResExt
  allowAllSA,      \* allowAllSAReportRes_ once InitAllowIpcReportRes ran
  permissionCache, \* tokens in the order of their use, newest first
  pluginLibMap,    \* plugins loaded and not banned
  resTypeLibSync,  \* resTypeLibSyncMap_
  wanted,          \* history: last plugin to subscribe, until it unsubscribes
  syncRequest,     \* what each binder thread is at
  subscribedSince, \* history: subscribers of its type since the request began
  loadedSince      \* history: plugins loaded since the request began

syncVars == <<extAdded, allowAllSA, permissionCache, pluginLibMap, resTypeLibSync,
              wanted, syncRequest, subscribedSince, loadedSince>>
pluginSyncVars == <<pluginLibMap, resTypeLibSync, wanted>>
requestVars == <<syncRequest, subscribedSince, loadedSince>>
allowVars == <<extAdded, allowAllSA, permissionCache>>

SyncIdle == [phase |-> "idle", type |-> "app", lib |-> NoPlugin]
SyncTypeOK ==
  /\ extAdded \in BOOLEAN /\ allowAllSA \subseteq SyncTypes
  /\ Len(permissionCache) <= CACHE_CAPACITY
  /\ \A i, j \in DOMAIN permissionCache :
       permissionCache[i] = permissionCache[j] => i = j
  /\ pluginLibMap \subseteq SyncPlugins
  /\ resTypeLibSync \in [SyncTypes -> SyncPlugins \cup {NoPlugin}]
  /\ wanted \in [SyncTypes -> SyncPlugins \cup {NoPlugin}]
  /\ syncRequest \in [BinderThreads ->
       [phase : {"idle", "begun", "looked", "found"}, type : SyncTypes,
        lib : SyncPlugins \cup {NoPlugin}]]
  /\ subscribedSince \in [BinderThreads -> SUBSET SyncPlugins]
  /\ loadedSince \in [BinderThreads -> SUBSET SyncPlugins]

SyncInit ==
  /\ extAdded = FALSE /\ allowAllSA = {} /\ permissionCache = <<>>
  /\ pluginLibMap = SyncPlugins
  /\ resTypeLibSync = [t \in SyncTypes |-> NoPlugin]
  /\ wanted = [t \in SyncTypes |-> NoPlugin]
  /\ syncRequest = [r \in BinderThreads |-> SyncIdle]
  /\ subscribedSince = [r \in BinderThreads |-> {}]
  /\ loadedSince = [r \in BinderThreads |-> {}]

-----------------------------------------------------------------------------
(* The lists: a plugin adds its types to ResSchedMgr, and                  *)
(* InitAllowIpcReportRes copies them once.                                 *)
AddAllowAllSAReportResExt ==
  /\ ~extAdded /\ extAdded' = TRUE
  /\ UNCHANGED <<allowAllSA, permissionCache, pluginSyncVars, requestVars>>
InitAllowIpcReportRes ==
  /\ allowAllSA = {}
  /\ allowAllSA' = {"sa"} \cup (IF extAdded THEN {"ext_sa"} ELSE {})
  /\ UNCHANGED <<extAdded, permissionCache, pluginSyncVars, requestVars>>

IsHap(c) == c \in {"sceneboard", "fg_hap", "bg_hap"}
IsSBDResType(t, c) == t = "scb" /\ c = "sceneboard"
IsThirdPartType(t, c) ==
  /\ t \in {"app", "fg_app"} /\ IsHap(c)
  /\ t = "fg_app" => c # "bg_hap"

(* The cache of permissions: a token used again moves to the front, a new  *)
(* one puts the oldest out.  The tokens before the place that comes free   *)
(* move back by one.                                                       *)
CacheAfter(c) ==
  LET n == Len(permissionCache)
      held == {i \in 1..n : permissionCache[i] = c}
      free == IF held # {} THEN CHOOSE i \in held : TRUE
              ELSE IF n >= CACHE_CAPACITY THEN n ELSE n + 1
  IN  [i \in 1..(IF free > n THEN free ELSE n) |->
         IF i = 1 THEN c ELSE IF i <= free THEN permissionCache[i - 1] ELSE permissionCache[i]]
(* A listed type is for its uids only, another for every native service.   *)
AsksPermission(t, c) ==
  /\ IF t = "some_sa" THEN c = "listed_native" ELSE t \in allowAllSA
  /\ ~IsHap(c)
IsHasPermission(t, c) == AsksPermission(t, c) /\ c \in Granted
CheckSyncParcel(t, c) ==
  IsSBDResType(t, c) \/ IsThirdPartType(t, c) \/ IsHasPermission(t, c)

ReportSyncEvent(r, t, c) ==
  /\ syncRequest[r].phase = "idle"
  /\ permissionCache' = IF ~IsSBDResType(t, c) /\ ~IsThirdPartType(t, c) /\ AsksPermission(t, c)
                          THEN CacheAfter(c) ELSE permissionCache
  /\ IF CheckSyncParcel(t, c)
       THEN /\ syncRequest' = [syncRequest EXCEPT ![r] =
                                 [phase |-> "begun", type |-> t, lib |-> NoPlugin]]
            /\ subscribedSince' = [subscribedSince EXCEPT ![r] = {wanted[t]} \ {NoPlugin}]
            /\ loadedSince' = [loadedSince EXCEPT ![r] = pluginLibMap]
       ELSE UNCHANGED requestVars
  /\ UNCHANGED <<extAdded, allowAllSA, pluginSyncVars>>

(* DeliverResource: the subscriber, then the plugin, then the call.        *)
Answered(r) ==
  /\ syncRequest' = [syncRequest EXCEPT ![r] = SyncIdle]
  /\ subscribedSince' = [subscribedSince EXCEPT ![r] = {}]
  /\ loadedSince' = [loadedSince EXCEPT ![r] = {}]
FindSubscriber(r) ==
  /\ syncRequest[r].phase = "begun"
  /\ LET lib == resTypeLibSync[syncRequest[r].type]
     IN  IF lib = NoPlugin THEN Answered(r)
         ELSE /\ syncRequest' = [syncRequest EXCEPT ![r].phase = "looked", ![r].lib = lib]
              /\ UNCHANGED <<subscribedSince, loadedSince>>
  /\ UNCHANGED <<allowVars, pluginSyncVars>>
(* Mutant: a plugin that is gone from the map is called.                   *)
IsLoadedAny(lib) == TRUE
IsLoaded(lib) == lib \in pluginLibMap
FindPlugin(r) ==
  /\ syncRequest[r].phase = "looked"
  /\ IF ~IsLoaded(syncRequest[r].lib) THEN Answered(r)
     ELSE /\ syncRequest' = [syncRequest EXCEPT ![r].phase = "found"]
          /\ UNCHANGED <<subscribedSince, loadedSince>>
  /\ UNCHANGED <<allowVars, pluginSyncVars>>
DeliverResource(r) ==
  /\ syncRequest[r].phase = "found"
  /\ Answered(r)
  /\ UNCHANGED <<allowVars, pluginSyncVars>>

(* Plugins.  A subscription replaces another plugin's; an unsubscription   *)
(* erases whatever plugin is subscribed.                                   *)
Subscribers(now) ==
  subscribedSince' = [r \in BinderThreads |->
    subscribedSince[r] \cup (IF syncRequest[r].phase = "idle" THEN {}
                             ELSE {now[syncRequest[r].type]} \ {NoPlugin})]
SubscribeSyncResource(p, t) ==
  /\ p \in pluginLibMap
  /\ resTypeLibSync' = [resTypeLibSync EXCEPT ![t] = p]
  /\ wanted' = [wanted EXCEPT ![t] = p]
  /\ Subscribers([wanted EXCEPT ![t] = p])
  /\ UNCHANGED <<allowVars, pluginLibMap, syncRequest, loadedSince>>
UnSubscribeSyncResource(p, t) ==
  /\ p \in pluginLibMap /\ resTypeLibSync[t] # NoPlugin
  /\ resTypeLibSync' = [resTypeLibSync EXCEPT ![t] = NoPlugin]
  /\ wanted' = IF wanted[t] = p THEN [wanted EXCEPT ![t] = NoPlugin] ELSE wanted
  /\ UNCHANGED <<allowVars, pluginLibMap, requestVars>>
(* RepairPlugin's ban takes the plugin out and leaves its subscriptions;   *)
(* OnDestroy takes all out and then clears the subscriptions.              *)
BanPlugin(p) ==
  /\ p \in pluginLibMap /\ pluginLibMap' = pluginLibMap \ {p}
  /\ UNCHANGED <<allowVars, resTypeLibSync, wanted, requestVars>>
UnLoadAll ==
  /\ pluginLibMap # {} /\ pluginLibMap' = {}
  /\ UNCHANGED <<allowVars, resTypeLibSync, wanted, requestVars>>
ClearSyncResource ==
  /\ pluginLibMap = {} /\ resTypeLibSync # [t \in SyncTypes |-> NoPlugin]
  /\ resTypeLibSync' = [t \in SyncTypes |-> NoPlugin]
  /\ wanted' = [t \in SyncTypes |-> NoPlugin]
  /\ UNCHANGED <<allowVars, pluginLibMap, requestVars>>

SyncNext ==
  \/ AddAllowAllSAReportResExt \/ InitAllowIpcReportRes
  \/ \E r \in BinderThreads :
       \/ FindSubscriber(r) \/ FindPlugin(r) \/ DeliverResource(r)
       \/ \E t \in SyncTypes, c \in SyncCallers : ReportSyncEvent(r, t, c)
  \/ \E p \in SyncPlugins :
       \/ BanPlugin(p)
       \/ \E t \in {"sa", "ext_sa"} : SubscribeSyncResource(p, t) \/ UnSubscribeSyncResource(p, t)
  \/ UnLoadAll \/ ClearSyncResource

-----------------------------------------------------------------------------
(* A synchronous event is handed to a plugin only if, at some moment since *)
(* the event arrived, that plugin held the subscription to its type, and   *)
(* at some moment since then was loaded and not banned: the lookups        *)
(* DeliverResource makes under different locks return nothing older than   *)
(* the event.                                                              *)
SyncCallsLive ==
  \A r \in BinderThreads :
    syncRequest[r].phase = "found" =>
      syncRequest[r].lib \in subscribedSince[r] \cap loadedSince[r]
=============================================================================
