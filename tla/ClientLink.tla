----------------------------- MODULE ClientLink -----------------------------
(***************************************************************************)
(* The client library's link to the service, and the event listeners on    *)
(* both sides: ResSchedClient with its InnerEventListener in one client    *)
(* process, EventListenerMgr in the service.  The service dies and is      *)
(* started again; the client process dies and its pid is taken by another. *)
(* The notices of these events (death recipients, the ability manager's    *)
(* OnAddSystemAbility) come late and in no fixed order.                    *)
(*                                                                         *)
(* Every client operation holds mutex_; OnAddSystemAbility takes it twice. *)
(* The service's notifier of the system load is seen here from the client; *)
(* Systemload models the service's side of it.                             *)
(***************************************************************************)
EXTENDS Naturals, FiniteSets

CONSTANTS
  EventTypes, ListenerGroups,
  LinkListeners,      \* listener objects of the client process
  MaxServiceDeaths,   \* bound: deaths of the service
  MaxClientDeaths     \* bound: deaths of the client process

EventKeys == EventTypes \X ListenerGroups
SystemloadKey == <<"systemload", "systemload">>   \* the notifier is no event listener
NoObject == MaxClientDeaths + 1

ASSUME LinkAssumption ==
  /\ MaxServiceDeaths \in Nat /\ MaxClientDeaths \in Nat
  /\ SystemloadKey \notin EventKeys

VARIABLES
  serviceUp, serviceDeaths, clientDeaths,
  rss,               \* proxy: "null", "live", or "dead" when its service died
  deathNotice,       \* the death recipient of rss is still to be called
  addNotice,         \* OnAddSystemAbility is still to be called
  connecting,        \* OnAddSystemAbility is between its two locks
  statusListener,    \* resSchedSvcStatusListener_ is subscribed
  eventListeners,    \* of InnerEventListener: <<key, listener>>
  registeredEvents,  \* registeredInnerEvents
  resTypeList,       \* "unset", "fetched", or "empty": fetched from a dead proxy
  eventListenerMap,  \* of the service: <<key, object>>; an object is the
                     \* number of deaths its client process had behind it
  listenerDeath,     \* objects whose death the service is not told of yet
  systemloadCbs,     \* systemloadLevelCbs_, the level listeners of the client
  systemloadRegistered, \* systemloadCbRegistered_
  notifierObject,    \* of the service: the client's notifier, NoObject if none
  queuedEvents,      \* eventSenderQueue_: <<key, object>> to be called
  refusedKeys,       \* history: keys the request limit refused
  staleConnect       \* history: OnAddSystemAbility met a dead proxy

systemloadVars == <<systemloadCbs, systemloadRegistered, notifierObject>>
processVars == <<serviceUp, serviceDeaths, clientDeaths>>
clientVars == <<rss, deathNotice, connecting, statusListener, eventListeners,
                registeredEvents, resTypeList>>
serviceVars == <<eventListenerMap, listenerDeath, queuedEvents>>
linkVars == <<processVars, addNotice, clientVars, systemloadVars, serviceVars,
              refusedKeys, staleConnect>>

Objects == 0..MaxClientDeaths
LinkTypeOK ==
  /\ serviceUp \in BOOLEAN /\ serviceDeaths \in 0..MaxServiceDeaths
  /\ clientDeaths \in Objects /\ rss \in {"null", "live", "dead"}
  /\ deathNotice \in BOOLEAN /\ addNotice \in BOOLEAN /\ connecting \in BOOLEAN
  /\ statusListener \in BOOLEAN
  /\ eventListeners \subseteq EventKeys \X LinkListeners
  /\ registeredEvents \subseteq EventKeys
  /\ resTypeList \in {"unset", "fetched", "empty"}
  /\ eventListenerMap \subseteq EventKeys \X Objects
  /\ systemloadCbs \subseteq LinkListeners /\ systemloadRegistered \in BOOLEAN
  /\ notifierObject \in Objects \cup {NoObject}
  /\ queuedEvents \subseteq EventKeys \X Objects
  /\ listenerDeath \subseteq Objects
  /\ refusedKeys \subseteq EventKeys \cup {SystemloadKey}
  /\ staleConnect \in BOOLEAN

LinkInit ==
  /\ serviceUp \in BOOLEAN /\ serviceDeaths = 0 /\ clientDeaths = 0
  /\ rss = "null" /\ deathNotice = FALSE /\ addNotice = FALSE
  /\ connecting = FALSE /\ statusListener = FALSE /\ eventListeners = {}
  /\ registeredEvents = {} /\ resTypeList = "unset" /\ eventListenerMap = {}
  /\ systemloadCbs = {} /\ systemloadRegistered = FALSE /\ notifierObject = NoObject
  /\ queuedEvents = {} /\ listenerDeath = {} /\ refusedKeys = {}
  /\ staleConnect = FALSE

-----------------------------------------------------------------------------
(* EventListenerMgr: one entry per type and pid, with its groups.  A pid   *)
(* that has an entry adds a group to it and keeps the entry's listener.    *)
EntryObject(type) ==
  LET entry == {e \in eventListenerMap : e[1][1] = type}
  IN  IF entry = {} THEN clientDeaths ELSE (CHOOSE e \in entry : TRUE)[2]
Registered(keys) == eventListenerMap \cup {<<k, EntryObject(k[1])>> : k \in keys}
UnRegistered(k) == {e \in eventListenerMap : e[1] # k}

(* OnRemoteListenerDied, RemoveListenerLock: the entries of the object.    *)
(* The notifier has a death recipient of its own (NotifierMgr).            *)
OnRemoteListenerDied(o) ==
  /\ o \in listenerDeath /\ listenerDeath' = listenerDeath \ {o}
  /\ eventListenerMap' = {e \in eventListenerMap : e[2] # o}
  /\ notifierObject' = IF notifierObject = o THEN NoObject ELSE notifierObject
  /\ UNCHANGED <<processVars, addNotice, clientVars, systemloadCbs,
                 systemloadRegistered, queuedEvents, refusedKeys, staleConnect>>

(* SendEvent: the listeners of the type and group are collected under the  *)
(* lock and called from the sender queue.  Bound: the queue holds the      *)
(* calls of one event at a time.                                           *)
SendEventLock(k) == {e \in eventListenerMap : e[1] = k}
HandleSendEvent(listeners) == queuedEvents' = queuedEvents \cup listeners
SendEvent(k) ==
  /\ serviceUp /\ queuedEvents = {} /\ HandleSendEvent(SendEventLock(k))
  /\ UNCHANGED <<processVars, addNotice, clientVars, systemloadVars,
                 eventListenerMap, listenerDeath, refusedKeys, staleConnect>>
(* OnReceiveEvent in the client: the listeners of the key are called, none *)
(* if the key has none any more.                                           *)
OnReceiveEvent(e) ==
  /\ e \in queuedEvents /\ queuedEvents' = queuedEvents \ {e}
  /\ UNCHANGED <<processVars, addNotice, clientVars, systemloadVars,
                 eventListenerMap, listenerDeath, refusedKeys, staleConnect>>

-----------------------------------------------------------------------------
(* The client.  Subscribing to the ability manager, which calls back at    *)
(* once when the service is up, may fail and is then tried again.          *)
AddResSaListenerLocked ==
  \/ UNCHANGED <<statusListener, addNotice>>
  \/ ~statusListener /\ statusListener' = TRUE /\ addNotice' = serviceUp

Connected == serviceUp \/ rss # "null"
TryConnect ==
  IF rss # "null" \/ ~serviceUp THEN UNCHANGED <<rss, statusListener, addNotice>>
  ELSE rss' = "live" /\ AddResSaListenerLocked

IsInnerEventMapEmpty(listeners, k) == \A e \in listeners : e[1] # k

(* ReportData asks for the list of types once, whether or not the call     *)
(* reaches the service.  The other calls (ReportSyncEvent, KillProcess,    *)
(* GetSystemloadLevel, IsAllowedAppPreload, IsAllowedLinkJump) only        *)
(* connect.                                                                *)
ReportDataFromClient ==
  /\ TryConnect
  /\ resTypeList' = IF Connected /\ resTypeList = "unset"
                      THEN IF rss # "dead" THEN "fetched" ELSE "empty"
                      ELSE resTypeList
  /\ UNCHANGED <<processVars, deathNotice, connecting, eventListeners,
                 registeredEvents, systemloadVars, serviceVars, refusedKeys,
                 staleConnect>>
QueryFromClient ==
  /\ TryConnect
  /\ UNCHANGED <<processVars, deathNotice, connecting, eventListeners,
                 registeredEvents, resTypeList, systemloadVars, serviceVars,
                 refusedKeys, staleConnect>>

(* RegisterEventListener: the service's answer is not looked at; the       *)
(* request limit may refuse, a dead proxy does nothing.                    *)
RegisterEventListener(k, l) ==
  /\ eventListeners' = eventListeners \cup {<<k, l>>}
  /\ IF k \notin registeredEvents /\ rss # "null"
       THEN /\ registeredEvents' = registeredEvents \cup {k}
            /\ \/ /\ rss = "live"
                  /\ eventListenerMap' = Registered({k})
                  /\ refusedKeys' = refusedKeys \ {k}
               \/ /\ rss = "live" /\ refusedKeys' = refusedKeys \cup {k}
                  /\ UNCHANGED eventListenerMap
               \/ rss = "dead" /\ UNCHANGED <<eventListenerMap, refusedKeys>>
       ELSE UNCHANGED <<registeredEvents, eventListenerMap, refusedKeys>>
  /\ AddResSaListenerLocked
  /\ UNCHANGED <<processVars, rss, deathNotice, connecting, resTypeList,
                 systemloadVars, listenerDeath, queuedEvents, staleConnect>>

(* Mutant: the last listener of a key leaves the service's entry.          *)
UnRegisterEventListenerLockedKeeps(listeners, k) ==
  UNCHANGED <<registeredEvents, eventListenerMap>>
UnRegisterEventListenerLocked(listeners, k) ==
  IF IsInnerEventMapEmpty(listeners, k) /\ rss # "null"
    THEN /\ registeredEvents' = registeredEvents \ {k}
         /\ eventListenerMap' = IF rss = "live" THEN UnRegistered(k) ELSE eventListenerMap
    ELSE UNCHANGED <<registeredEvents, eventListenerMap>>
UnRegisterEventListener(k, l) ==
  /\ eventListeners' = eventListeners \ {<<k, l>>}
  /\ UnRegisterEventListenerLocked(eventListeners', k)
  /\ UNCHANGED <<processVars, addNotice, rss, deathNotice, connecting,
                 statusListener, resTypeList, systemloadVars, listenerDeath,
                 queuedEvents, refusedKeys, staleConnect>>

(* The callbacks of the system load: one notifier for all of them.  The    *)
(* service keeps the entry a pid has.                                      *)
NotifyFrom(cbs) ==
  IF cbs = {} \/ systemloadRegistered \/ rss = "null"
    THEN UNCHANGED <<systemloadRegistered, notifierObject>> /\ refusedKeys' = refusedKeys
    ELSE /\ systemloadRegistered' = TRUE
         /\ \/ /\ rss = "live" /\ refusedKeys' = refusedKeys \ {SystemloadKey}
               /\ notifierObject' = IF notifierObject = NoObject THEN clientDeaths
                                                                 ELSE notifierObject
            \/ /\ rss = "live" /\ refusedKeys' = refusedKeys \cup {SystemloadKey}
               /\ UNCHANGED notifierObject
            \/ rss = "dead" /\ UNCHANGED <<notifierObject, refusedKeys>>
RegisterSystemloadNotifier(l) ==
  /\ systemloadCbs' = systemloadCbs \cup {l}
  /\ NotifyFrom(systemloadCbs')
  /\ AddResSaListenerLocked
  /\ UNCHANGED <<processVars, rss, deathNotice, connecting, eventListeners,
                 registeredEvents, resTypeList, serviceVars, staleConnect>>
UnRegisterSystemloadNotifier(l) ==
  /\ systemloadCbs' = systemloadCbs \ {l}
  /\ IF systemloadCbs' = {} /\ rss # "null"
       THEN /\ systemloadRegistered' = FALSE
            /\ notifierObject' = IF rss = "live" THEN NoObject ELSE notifierObject
       ELSE UNCHANGED <<systemloadRegistered, notifierObject>>
  /\ UNCHANGED <<processVars, addNotice, clientVars, serviceVars, refusedKeys,
                 staleConnect>>

StopRemoteObject ==
  /\ deathNotice /\ deathNotice' = FALSE
  /\ rss' = "null" /\ registeredEvents' = {} /\ systemloadRegistered' = FALSE
  /\ UNCHANGED <<processVars, addNotice, connecting, statusListener, eventListeners,
                 resTypeList, systemloadCbs, notifierObject, serviceVars, refusedKeys,
                 staleConnect>>

(* OnAddSystemAbility: connect, then, under the lock again, register every *)
(* key that has listeners, and the notifier.                               *)
OnAddSystemAbilityConnects ==
  /\ addNotice /\ ~connecting
  /\ addNotice' = FALSE /\ connecting' = Connected
  /\ rss' = IF rss = "null" /\ serviceUp THEN "live" ELSE rss
  /\ staleConnect' = (rss = "dead")
  /\ UNCHANGED <<processVars, deathNotice, statusListener, eventListeners,
                 registeredEvents, resTypeList, systemloadVars, serviceVars,
                 refusedKeys>>
(* Mutant: only keys that never were registered are.                       *)
ToRecoverNew == {e[1] : e \in eventListeners} \ {k \in EventKeys : serviceDeaths > 0}
ToRecover == {e[1] : e \in eventListeners}
NotifierToRecover ==
  IF systemloadCbs # {} /\ ~systemloadRegistered THEN {SystemloadKey} ELSE {}
RecoverEventListener ==
  /\ connecting /\ connecting' = FALSE
  /\ IF rss = "null"
       THEN UNCHANGED <<registeredEvents, systemloadRegistered, eventListenerMap,
                        notifierObject, refusedKeys>>
     ELSE /\ registeredEvents' = registeredEvents \cup ToRecover
          /\ systemloadRegistered' = (systemloadRegistered \/ NotifierToRecover # {})
          /\ IF rss = "dead" THEN UNCHANGED <<eventListenerMap, notifierObject, refusedKeys>>
             ELSE \E denied \in SUBSET (ToRecover \cup NotifierToRecover) :
                    /\ eventListenerMap' = Registered(ToRecover \ denied)
                    /\ notifierObject' = IF /\ NotifierToRecover \ denied # {}
                                            /\ notifierObject = NoObject
                                           THEN clientDeaths ELSE notifierObject
                    /\ refusedKeys' = (refusedKeys \ (ToRecover \cup NotifierToRecover))
                                        \cup denied
  /\ UNCHANGED <<processVars, addNotice, rss, deathNotice, statusListener,
                 eventListeners, resTypeList, systemloadCbs, listenerDeath,
                 queuedEvents, staleConnect>>

-----------------------------------------------------------------------------
(* The processes (external).                                               *)
ServiceDies ==
  /\ serviceUp /\ serviceDeaths < MaxServiceDeaths
  /\ serviceUp' = FALSE /\ serviceDeaths' = serviceDeaths + 1
  /\ eventListenerMap' = {} /\ listenerDeath' = {} /\ queuedEvents' = {}
  /\ notifierObject' = NoObject
  /\ rss' = IF rss = "live" THEN "dead" ELSE rss
  /\ deathNotice' = (deathNotice \/ rss = "live") /\ addNotice' = FALSE
  /\ UNCHANGED <<clientDeaths, connecting, statusListener, eventListeners,
                 registeredEvents, resTypeList, systemloadCbs, systemloadRegistered,
                 refusedKeys, staleConnect>>
ServiceStarts ==
  /\ ~serviceUp /\ serviceUp' = TRUE /\ addNotice' = statusListener
  /\ UNCHANGED <<serviceDeaths, clientDeaths, clientVars, systemloadVars, serviceVars,
                 refusedKeys, staleConnect>>
ClientDies ==
  /\ clientDeaths < MaxClientDeaths /\ clientDeaths' = clientDeaths + 1
  /\ listenerDeath' = IF \/ \E e \in eventListenerMap : e[2] = clientDeaths
                         \/ notifierObject = clientDeaths
                        THEN listenerDeath \cup {clientDeaths} ELSE listenerDeath
  /\ rss' = "null" /\ deathNotice' = FALSE /\ addNotice' = FALSE /\ connecting' = FALSE
  /\ statusListener' = FALSE /\ eventListeners' = {} /\ registeredEvents' = {}
  /\ systemloadCbs' = {} /\ systemloadRegistered' = FALSE
  /\ resTypeList' = "unset" /\ refusedKeys' = {} /\ staleConnect' = FALSE
  /\ UNCHANGED <<serviceUp, serviceDeaths, eventListenerMap, notifierObject, queuedEvents>>

LinkNext ==
  \/ \E k \in EventKeys, l \in LinkListeners :
       RegisterEventListener(k, l) \/ UnRegisterEventListener(k, l)
  \/ \E l \in LinkListeners :
       RegisterSystemloadNotifier(l) \/ UnRegisterSystemloadNotifier(l)
  \/ ReportDataFromClient \/ QueryFromClient
  \/ StopRemoteObject \/ OnAddSystemAbilityConnects \/ RecoverEventListener
  \/ \E o \in Objects : OnRemoteListenerDied(o)
  \/ \E k \in EventKeys : SendEvent(k)
  \/ \E e \in queuedEvents : OnReceiveEvent(e)
  \/ ServiceDies \/ ServiceStarts \/ ClientDies

LinkSpec == LinkInit /\ [][LinkNext]_linkVars

-----------------------------------------------------------------------------
(* The keys the client process is served: entries that hold its object.    *)
LinkKeys == EventKeys \cup {SystemloadKey}
Served ==
  {e[1] : e \in {f \in eventListenerMap : f[2] = clientDeaths}}
    \cup (IF notifierObject = clientDeaths THEN {SystemloadKey} ELSE {})
Wanted ==
  {e[1] : e \in eventListeners}
    \cup (IF systemloadCbs # {} THEN {SystemloadKey} ELSE {})

(* Client and service together keep the promise of ListenerRegistry: the   *)
(* service's entries for a process never name a key the process has no     *)
(* listener for, across restarts of either side and late notices.          *)
Registry == INSTANCE ListenerRegistry WITH
  RegistryKeys <- LinkKeys, want <- Wanted, serve <- Served
RegistryKept == Registry!RegistrySpec

(* A listener is served again after the service restarted: a key with      *)
(* listeners, and the notifier with callbacks, is at length registered     *)
(* with the service, unless the limit refused it, the ability manager      *)
(* refused the status listener, the add notice met the proxy of the dead   *)
(* service, or an entry of a dead process with the same pid stood in the   *)
(* way.                                                                    *)
ListenersRecover ==
  \A k \in LinkKeys :
    (k \in Wanted) ~>
      \/ k \in Served \/ k \notin Wanted \/ k \in refusedKeys
      \/ ~statusListener \/ staleConnect \/ clientDeaths > 0
=============================================================================
