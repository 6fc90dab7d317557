-------------------------- MODULE ClientLinkProofs --------------------------
(***************************************************************************)
(* Proofs about ClientLink for any event types, groups and listeners and   *)
(* for any number of deaths of the service and of the client process: type *)
(* correctness, and that client and service together implement             *)
(* ListenerRegistry.  The types of MCProgress, the link and the screen     *)
(* requests side by side, close the module.                                *)
(***************************************************************************)
EXTENDS MCProgress, SocPerfProofs, TLAPS

(* An entry of a type has an object of this or an earlier client process.  *)
LEMMA EntryObjectType ==
  ASSUME LinkTypeOK, NEW type
  PROVE  /\ EntryObject(type) \in Objects
         /\ \/ EntryObject(type) = clientDeaths
            \/ \E e \in eventListenerMap : EntryObject(type) = e[2]
<1> DEFINE entry == {e \in eventListenerMap : e[1][1] = type}
<1>1. CASE entry = {}
  BY <1>1 DEF EntryObject, LinkTypeOK
<1>2. CASE entry # {}
  <2> DEFINE chosen == CHOOSE e \in entry : TRUE
  <2>1. chosen \in entry
    BY <1>2
  <2>2. chosen \in eventListenerMap /\ EntryObject(type) = chosen[2]
    BY <1>2, <2>1 DEF EntryObject
  <2> HIDE DEF chosen
  <2>3. chosen[2] \in Objects
    BY <2>2 DEF LinkTypeOK
  <2> QED
    BY <2>2, <2>3
<1> QED
  BY <1>1, <1>2

(* Registering keys adds entries for these keys only.                      *)
LEMMA RegisteredEntries ==
  ASSUME LinkTypeOK, NEW keys \in SUBSET EventKeys
  PROVE  /\ Registered(keys) \in SUBSET (EventKeys \X Objects)
         /\ eventListenerMap \subseteq Registered(keys)
         /\ \A e \in Registered(keys) :
              \/ e \in eventListenerMap
              \/ \E k \in keys : e = <<k, EntryObject(k[1])>>
<1>1. \A k \in keys : <<k, EntryObject(k[1])>> \in EventKeys \X Objects
  BY EntryObjectType
<1> QED
  BY <1>1 DEF Registered, LinkTypeOK

(* The Boolean variables and the others.                                    *)
LinkFlags ==
  /\ serviceUp \in BOOLEAN /\ deathNotice \in BOOLEAN /\ addNotice \in BOOLEAN
  /\ connecting \in BOOLEAN /\ statusListener \in BOOLEAN
  /\ systemloadRegistered \in BOOLEAN /\ staleConnect \in BOOLEAN
LinkData ==
  /\ serviceDeaths \in 0..MaxServiceDeaths
  /\ clientDeaths \in Objects /\ rss \in {"null", "live", "dead"}
  /\ eventListeners \subseteq EventKeys \X LinkListeners
  /\ registeredEvents \subseteq EventKeys
  /\ resTypeList \in {"unset", "fetched", "empty"}
  /\ eventListenerMap \subseteq EventKeys \X Objects
  /\ systemloadCbs \subseteq LinkListeners
  /\ notifierObject \in Objects \cup {NoObject}
  /\ queuedEvents \subseteq EventKeys \X Objects
  /\ listenerDeath \subseteq Objects
  /\ refusedKeys \subseteq EventKeys \cup {SystemloadKey}

LEMMA LinkParts == (LinkTypeOK <=> LinkFlags /\ LinkData) /\ (LinkTypeOK' <=> LinkFlags' /\ LinkData')
  BY DEF LinkTypeOK, LinkFlags, LinkData

(* Every step keeps the types of the Boolean variables.                     *)
LEMMA LinkStepFlags ==
  ASSUME LinkFlags, [LinkNext]_linkVars
  PROVE  LinkFlags'
<1> USE DEF processVars, clientVars, systemloadVars, serviceVars, LinkFlags
<1>1. ASSUME NEW k \in EventKeys, NEW l \in LinkListeners, RegisterEventListener(k, l)
      PROVE  LinkFlags'
  BY <1>1, Zenon DEF RegisterEventListener, AddResSaListenerLocked
<1>2. ASSUME NEW k \in EventKeys, NEW l \in LinkListeners, UnRegisterEventListener(k, l)
      PROVE  LinkFlags'
  BY <1>2, Zenon DEF UnRegisterEventListener
<1>3. ASSUME NEW l \in LinkListeners, RegisterSystemloadNotifier(l)
      PROVE  LinkFlags'
  BY <1>3, Zenon DEF RegisterSystemloadNotifier, NotifyFrom, AddResSaListenerLocked
<1>4. ASSUME NEW l \in LinkListeners, UnRegisterSystemloadNotifier(l)
      PROVE  LinkFlags'
  BY <1>4, Zenon DEF UnRegisterSystemloadNotifier
<1>5. CASE ReportDataFromClient \/ QueryFromClient
  BY <1>5, Zenon DEF ReportDataFromClient, QueryFromClient, TryConnect, AddResSaListenerLocked
<1>6. CASE StopRemoteObject \/ OnAddSystemAbilityConnects
  BY <1>6, Zenon DEF StopRemoteObject, OnAddSystemAbilityConnects, Connected
<1>7. CASE RecoverEventListener
  BY <1>7, Zenon DEF RecoverEventListener
<1>8. ASSUME NEW o \in Objects, OnRemoteListenerDied(o) PROVE LinkFlags'
  BY <1>8, Zenon DEF OnRemoteListenerDied
<1>9. ASSUME NEW k \in EventKeys, SendEvent(k) PROVE LinkFlags'
  BY <1>9, Zenon DEF SendEvent
<1>10. ASSUME NEW e \in queuedEvents, OnReceiveEvent(e) PROVE LinkFlags'
  BY <1>10, Zenon DEF OnReceiveEvent
<1>11. CASE ServiceDies
  BY <1>11, Zenon DEF ServiceDies
<1>12. CASE ServiceStarts
  BY <1>12, Zenon DEF ServiceStarts
<1>13. CASE ClientDies
  BY <1>13, Zenon DEF ClientDies
<1>14. CASE UNCHANGED linkVars
  BY <1>14, Zenon DEF linkVars
<1> QED
  BY <1>1, <1>2, <1>3, <1>4, <1>5, <1>6, <1>7, <1>8, <1>9, <1>10, <1>11, <1>12, <1>13, <1>14
  DEF LinkNext

(* Every step keeps the types of the other variables.                       *)
LEMMA LinkStepData ==
  ASSUME LinkTypeOK, [LinkNext]_linkVars
  PROVE  LinkData'
<1> USE DEF processVars, clientVars, systemloadVars, serviceVars, LinkData
<1>0. LinkData
  BY LinkParts
<1>1. ASSUME NEW k \in EventKeys, NEW l \in LinkListeners, RegisterEventListener(k, l)
      PROVE  LinkData'
  <2>1. Registered({k}) \in SUBSET (EventKeys \X Objects)
    BY RegisteredEntries
  <2>2. eventListenerMap' \subseteq EventKeys \X Objects
    BY <1>0, <1>1, <2>1 DEF RegisterEventListener
  <2>3. eventListeners' \subseteq EventKeys \X LinkListeners
    BY <1>0, <1>1 DEF RegisterEventListener
  <2>4. refusedKeys' \subseteq EventKeys \cup {SystemloadKey} /\ registeredEvents' \subseteq EventKeys
    BY <1>0, <1>1 DEF RegisterEventListener
  <2> QED
    BY <1>0, <1>1, <2>2, <2>3, <2>4 DEF RegisterEventListener
<1>2. ASSUME NEW k \in EventKeys, NEW l \in LinkListeners, UnRegisterEventListener(k, l)
      PROVE  LinkData'
  BY <1>0, <1>2 DEF UnRegisterEventListener, UnRegisterEventListenerLocked, UnRegistered
<1>3. ASSUME NEW l \in LinkListeners, RegisterSystemloadNotifier(l)
      PROVE  LinkData'
  BY <1>0, <1>3 DEF RegisterSystemloadNotifier, NotifyFrom
<1>4. ASSUME NEW l \in LinkListeners, UnRegisterSystemloadNotifier(l)
      PROVE  LinkData'
  BY <1>0, <1>4 DEF UnRegisterSystemloadNotifier
<1>5. CASE ReportDataFromClient \/ QueryFromClient
  BY <1>0, <1>5 DEF ReportDataFromClient, QueryFromClient, TryConnect
<1>6. CASE StopRemoteObject \/ OnAddSystemAbilityConnects
  BY <1>0, <1>6 DEF StopRemoteObject, OnAddSystemAbilityConnects
<1>7. CASE RecoverEventListener
  <2>0. ToRecover \in SUBSET EventKeys /\ NotifierToRecover \subseteq {SystemloadKey}
    BY <1>0 DEF ToRecover, NotifierToRecover
  <2>1. \A denied : Registered(ToRecover \ denied) \in SUBSET (EventKeys \X Objects)
    <3> TAKE denied
    <3>1. ToRecover \ denied \in SUBSET EventKeys
      BY <2>0
    <3> QED
      BY <3>1, RegisteredEntries
  <2>2. eventListenerMap' \subseteq EventKeys \X Objects
    <3>1. \/ eventListenerMap' = eventListenerMap
          \/ \E denied : eventListenerMap' = Registered(ToRecover \ denied)
      BY <1>7 DEF RecoverEventListener
    <3> QED
      BY <1>0, <2>1, <3>1
  <2>3. notifierObject' \in Objects \cup {NoObject}
    BY <1>0, <1>7 DEF RecoverEventListener
  <2>4. refusedKeys' \subseteq EventKeys \cup {SystemloadKey} /\ registeredEvents' \subseteq EventKeys
    BY <1>0, <1>7, <2>0 DEF RecoverEventListener
  <2> QED
    BY <1>0, <1>7, <2>2, <2>3, <2>4 DEF RecoverEventListener
<1>8. ASSUME NEW o \in Objects, OnRemoteListenerDied(o) PROVE LinkData'
  BY <1>0, <1>8 DEF OnRemoteListenerDied
<1>9. ASSUME NEW k \in EventKeys, SendEvent(k) PROVE LinkData'
  BY <1>0, <1>9 DEF SendEvent, HandleSendEvent, SendEventLock
<1>10. ASSUME NEW e \in queuedEvents, OnReceiveEvent(e) PROVE LinkData'
  BY <1>0, <1>10 DEF OnReceiveEvent
<1>11. CASE ServiceDies
  BY <1>0, <1>11, LinkAssumption DEF ServiceDies
<1>12. CASE ServiceStarts
  BY <1>0, <1>12 DEF ServiceStarts
<1>13. CASE ClientDies
  <2>1. clientDeaths' \in Objects /\ listenerDeath' \subseteq Objects
    BY <1>0, <1>13, LinkAssumption DEF ClientDies, Objects
  <2> QED
    BY <1>0, <1>13, <2>1 DEF ClientDies
<1>14. CASE UNCHANGED linkVars
  BY <1>0, <1>14 DEF linkVars
<1> QED
  BY <1>1, <1>2, <1>3, <1>4, <1>5, <1>6, <1>7, <1>8, <1>9, <1>10, <1>11, <1>12, <1>13, <1>14
  DEF LinkNext

LEMMA LinkStepType ==
  ASSUME LinkTypeOK, [LinkNext]_linkVars
  PROVE  LinkTypeOK'
<1>1. LinkFlags'
  BY LinkParts, LinkStepFlags
<1> QED
  BY <1>1, LinkParts, LinkStepData

LEMMA LinkStart == LinkInit => LinkTypeOK
<1>1. LinkInit => LinkFlags
  BY Zenon DEF LinkInit, LinkFlags
<1>2. LinkInit => LinkData
  BY LinkAssumption DEF LinkInit, LinkData, Objects
<1> QED
  BY <1>1, <1>2, LinkParts

(* Type correctness: every variable of the link keeps its type; the service *)
(* holds no object of a client process that does not exist yet.             *)
THEOREM LinkTypes == LinkSpec => []LinkTypeOK
  BY LinkStart, LinkStepType, PTL DEF LinkSpec
-----------------------------------------------------------------------------
(* The refinement.  What the service holds for the living client process it *)
(* was given over a live proxy and the client still has listeners for; a    *)
(* death notice belongs to a dead proxy; no object is younger than the      *)
(* process.                                                                 *)
LinkInv ==
  /\ \A k \in EventKeys : <<k, clientDeaths>> \in eventListenerMap
       => rss = "live" /\ \E l \in LinkListeners : <<k, l>> \in eventListeners
  /\ notifierObject = clientDeaths => rss = "live" /\ systemloadCbs # {}
  /\ deathNotice => rss = "dead"
  /\ \A e \in eventListenerMap : e[2] <= clientDeaths
  /\ notifierObject <= clientDeaths \/ notifierObject = NoObject

(* The first elements of the pairs of a set.                                *)
LEMMA FirstElements ==
  ASSUME NEW A, NEW B, NEW S \in SUBSET (A \X B)
  PROVE  \A k : k \in {e[1] : e \in S} <=> k \in A /\ \E l \in B : <<k, l>> \in S
<1>1. \A e \in S : e = <<e[1], e[2]>> /\ e[1] \in A /\ e[2] \in B
  OBVIOUS
<1>2. ASSUME NEW k, k \in {e[1] : e \in S} PROVE k \in A /\ \E l \in B : <<k, l>> \in S
  <2>1. PICK e \in S : k = e[1]
    BY <1>2
  <2>2. <<k, e[2]>> \in S
    BY <1>1, <2>1
  <2> QED
    BY <1>1, <2>1, <2>2
<1>3. ASSUME NEW k, k \in A, NEW l \in B, <<k, l>> \in S PROVE k \in {e[1] : e \in S}
  BY <1>3
<1> QED
  BY <1>2, <1>3

(* The keys of the refinement mapping, before and after a step.             *)
LEMMA MappedKeys ==
  ASSUME LinkTypeOK, LinkTypeOK'
  PROVE  /\ \A k : k \in Served <=> \/ k \in EventKeys /\ <<k, clientDeaths>> \in eventListenerMap
                                    \/ k = SystemloadKey /\ notifierObject = clientDeaths
         /\ \A k : k \in Served' <=> \/ k \in EventKeys /\ <<k, clientDeaths'>> \in eventListenerMap'
                                     \/ k = SystemloadKey /\ notifierObject' = clientDeaths'
         /\ \A k : k \in Wanted <=> \/ k \in EventKeys /\ \E l \in LinkListeners : <<k, l>> \in eventListeners
                                    \/ k = SystemloadKey /\ systemloadCbs # {}
         /\ \A k : k \in Wanted' <=> \/ k \in EventKeys /\ \E l \in LinkListeners : <<k, l>> \in eventListeners'
                                     \/ k = SystemloadKey /\ systemloadCbs' # {}
<1>1. /\ eventListenerMap \subseteq EventKeys \X Objects /\ eventListenerMap' \subseteq EventKeys \X Objects
      /\ eventListeners \subseteq EventKeys \X LinkListeners
      /\ eventListeners' \subseteq EventKeys \X LinkListeners
  BY DEF LinkTypeOK
<1>2. \A k : k \in Served <=> \/ k \in EventKeys /\ <<k, clientDeaths>> \in eventListenerMap
                              \/ k = SystemloadKey /\ notifierObject = clientDeaths
  BY <1>1 DEF Served
<1>3. \A k : k \in Served' <=> \/ k \in EventKeys /\ <<k, clientDeaths'>> \in eventListenerMap'
                               \/ k = SystemloadKey /\ notifierObject' = clientDeaths'
  BY <1>1 DEF Served
<1>4. \A k : k \in Wanted <=> \/ k \in EventKeys /\ \E l \in LinkListeners : <<k, l>> \in eventListeners
                              \/ k = SystemloadKey /\ systemloadCbs # {}
  <2>1. \A k : k \in {e[1] : e \in eventListeners}
                  <=> k \in EventKeys /\ \E l \in LinkListeners : <<k, l>> \in eventListeners
    BY <1>1, FirstElements
  <2> QED
    BY <2>1 DEF Wanted
<1>5. \A k : k \in Wanted' <=> \/ k \in EventKeys /\ \E l \in LinkListeners : <<k, l>> \in eventListeners'
                               \/ k = SystemloadKey /\ systemloadCbs' # {}
  <2>1. \A k : k \in {e[1] : e \in eventListeners'}
                  <=> k \in EventKeys /\ \E l \in LinkListeners : <<k, l>> \in eventListeners'
    BY <1>1, FirstElements
  <2> QED
    BY <2>1 DEF Wanted
<1> QED
  BY <1>2, <1>3, <1>4, <1>5
(* Objects are numbers, and no object is the number of none.                *)
LEMMA ObjectNumbers ==
  ASSUME LinkTypeOK
  PROVE  /\ clientDeaths \in Nat /\ clientDeaths # NoObject
         /\ \A e \in eventListenerMap : e[1] \in EventKeys /\ e[2] \in Nat /\ e = <<e[1], e[2]>>
         /\ \A e \in eventListeners : e[1] \in EventKeys /\ e[2] \in LinkListeners /\ e = <<e[1], e[2]>>
  BY LinkAssumption DEF LinkTypeOK, Objects, NoObject

(* Entries the service adds for keys that the client has listeners for keep *)
(* what LinkInv says of the entries.                                        *)
LEMMA RegisteredFresh ==
  ASSUME LinkTypeOK, LinkInv, NEW keys \in SUBSET EventKeys
  PROVE  /\ \A e \in Registered(keys) : e[2] <= clientDeaths
         /\ \A k \in EventKeys :
              <<k, clientDeaths>> \in Registered(keys)
                => <<k, clientDeaths>> \in eventListenerMap \/ k \in keys
<1>1. \A e \in Registered(keys) : e[2] <= clientDeaths
  <2> TAKE e \in Registered(keys)
  <2>1. CASE e \in eventListenerMap
    BY <2>1 DEF LinkInv
  <2>2. ASSUME NEW k \in keys, e = <<k, EntryObject(k[1])>> PROVE e[2] <= clientDeaths
    <3>1. e[2] = EntryObject(k[1])
      BY <2>2
    <3> QED
      BY <3>1, EntryObjectType, ObjectNumbers DEF LinkInv
  <2> QED
    BY <2>1, <2>2, RegisteredEntries
<1>2. ASSUME NEW k \in EventKeys, <<k, clientDeaths>> \in Registered(keys)
      PROVE  <<k, clientDeaths>> \in eventListenerMap \/ k \in keys
  <2>1. \/ <<k, clientDeaths>> \in eventListenerMap
        \/ \E j \in keys : <<k, clientDeaths>> = <<j, EntryObject(j[1])>>
    BY <1>2, RegisteredEntries
  <2> QED
    BY <2>1
<1> QED
  BY <1>1, <1>2

(* Every step keeps LinkInv.                                                *)
LEMMA LinkStepInv ==
  ASSUME LinkTypeOK, LinkTypeOK', LinkInv, [LinkNext]_linkVars
  PROVE  LinkInv'
<1> USE DEF processVars, clientVars, systemloadVars, serviceVars
<1>1. ASSUME NEW k \in EventKeys, NEW l \in LinkListeners, RegisterEventListener(k, l)
      PROVE  LinkInv'
  <2>1. UNCHANGED <<rss, deathNotice, clientDeaths, notifierObject, systemloadCbs>>
        /\ eventListeners' = eventListeners \cup {<<k, l>>}
    BY <1>1 DEF RegisterEventListener
  <2>2. eventListenerMap' = eventListenerMap \/ (rss = "live" /\ eventListenerMap' = Registered({k}))
    BY <1>1 DEF RegisterEventListener
  <2>3. CASE eventListenerMap' = eventListenerMap
    BY <2>1, <2>3 DEF LinkInv
  <2>4. CASE rss = "live" /\ eventListenerMap' = Registered({k})
    <3>1. /\ \A e \in eventListenerMap' : e[2] <= clientDeaths
          /\ \A j \in EventKeys : <<j, clientDeaths>> \in eventListenerMap'
                                    => <<j, clientDeaths>> \in eventListenerMap \/ j = k
      BY <2>4, RegisteredFresh
    <3> QED
      BY <2>1, <2>4, <3>1 DEF LinkInv
  <2> QED
    BY <2>2, <2>3, <2>4
<1>2. ASSUME NEW k \in EventKeys, NEW l \in LinkListeners, UnRegisterEventListener(k, l)
      PROVE  LinkInv'
  <2>1. UNCHANGED <<rss, deathNotice, clientDeaths, notifierObject, systemloadCbs>>
        /\ eventListeners' = eventListeners \ {<<k, l>>} /\ eventListenerMap' \subseteq eventListenerMap
    BY <1>2 DEF UnRegisterEventListener, UnRegisterEventListenerLocked, UnRegistered
  <2>2. ASSUME NEW j \in EventKeys, <<j, clientDeaths>> \in eventListenerMap'
        PROVE  rss = "live" /\ \E i \in LinkListeners : <<j, i>> \in eventListeners'
    <3>1. rss = "live" /\ \E i \in LinkListeners : <<j, i>> \in eventListeners
      BY <2>1, <2>2 DEF LinkInv
    <3>2. CASE j # k
      BY <2>1, <3>1, <3>2
    <3>3. CASE j = k
      <4>1. ~IsInnerEventMapEmpty(eventListeners', k)
        BY <1>2, <2>2, <3>1, <3>3
        DEF UnRegisterEventListener, UnRegisterEventListenerLocked, UnRegistered
      <4>2. PICK e \in eventListeners' : e[1] = k
        BY <4>1 DEF IsInnerEventMapEmpty
      <4>3. e = <<k, e[2]>> /\ e[2] \in LinkListeners
        BY <2>1, <4>2, ObjectNumbers
      <4> QED
        BY <3>1, <3>3, <4>2, <4>3
    <3> QED
      BY <3>2, <3>3
  <2> QED
    BY <2>1, <2>2 DEF LinkInv
<1>3. ASSUME NEW l \in LinkListeners, RegisterSystemloadNotifier(l)
      PROVE  LinkInv'
  <2>1. /\ UNCHANGED <<rss, deathNotice, clientDeaths, eventListeners, eventListenerMap>>
        /\ systemloadCbs' # {}
        /\ \/ notifierObject' = notifierObject
           \/ rss = "live" /\ notifierObject' = clientDeaths
    BY <1>3 DEF RegisterSystemloadNotifier, NotifyFrom
  <2>2. clientDeaths <= clientDeaths
    BY ObjectNumbers
  <2> QED
    BY <2>1, <2>2 DEF LinkInv
<1>4. ASSUME NEW l \in LinkListeners, UnRegisterSystemloadNotifier(l)
      PROVE  LinkInv'
  <2>1. /\ UNCHANGED <<rss, deathNotice, clientDeaths, eventListeners, eventListenerMap>>
        /\ \/ notifierObject' = notifierObject /\ (rss = "live" => systemloadCbs' # {})
           \/ notifierObject' = NoObject
    BY <1>4 DEF UnRegisterSystemloadNotifier
  <2> QED
    BY <2>1, ObjectNumbers DEF LinkInv
<1>5. CASE ReportDataFromClient \/ QueryFromClient
  <2>1. /\ UNCHANGED <<deathNotice, clientDeaths, eventListeners, eventListenerMap, notifierObject,
                       systemloadCbs>>
        /\ rss' = rss \/ rss = "null"
    BY <1>5 DEF ReportDataFromClient, QueryFromClient, TryConnect
  <2> QED
    BY <2>1 DEF LinkInv
<1>6. CASE StopRemoteObject
  BY <1>6 DEF StopRemoteObject, LinkInv
<1>7. CASE OnAddSystemAbilityConnects
  <2>1. /\ UNCHANGED <<deathNotice, clientDeaths, eventListeners, eventListenerMap, notifierObject,
                       systemloadCbs>>
        /\ rss' = rss \/ rss = "null"
    BY <1>7 DEF OnAddSystemAbilityConnects
  <2> QED
    BY <2>1 DEF LinkInv
<1>8. CASE RecoverEventListener
  <2>1. UNCHANGED <<rss, deathNotice, clientDeaths, systemloadCbs, eventListeners>>
    BY <1>8 DEF RecoverEventListener
  <2>2. \/ UNCHANGED <<eventListenerMap, notifierObject>>
        \/ /\ rss = "live"
           /\ \E denied : eventListenerMap' = Registered(ToRecover \ denied)
           /\ \/ notifierObject' = notifierObject
              \/ notifierObject' = clientDeaths /\ NotifierToRecover # {}
    BY <1>8 DEF RecoverEventListener, LinkTypeOK
  <2>3. CASE UNCHANGED <<eventListenerMap, notifierObject>>
    BY <2>1, <2>3 DEF LinkInv
  <2>4. ASSUME rss = "live", NEW denied, eventListenerMap' = Registered(ToRecover \ denied),
               \/ notifierObject' = notifierObject
               \/ notifierObject' = clientDeaths /\ NotifierToRecover # {}
        PROVE  LinkInv'
    <3>1. \A k : k \in ToRecover <=> k \in EventKeys /\ \E l \in LinkListeners : <<k, l>> \in eventListeners
      <4>1. eventListeners \in SUBSET (EventKeys \X LinkListeners)
        BY DEF LinkTypeOK
      <4> QED
        BY <4>1, FirstElements DEF ToRecover
    <3>2. ToRecover \ denied \in SUBSET EventKeys
      BY <3>1
    <3>3. /\ \A e \in eventListenerMap' : e[2] <= clientDeaths
          /\ \A k \in EventKeys : <<k, clientDeaths>> \in eventListenerMap'
                => <<k, clientDeaths>> \in eventListenerMap \/ k \in ToRecover
      BY <2>4, <3>2, RegisteredFresh
    <3>4. NotifierToRecover # {} => systemloadCbs # {}
      BY DEF NotifierToRecover
    <3>5. clientDeaths <= clientDeaths
      BY ObjectNumbers
    <3> QED
      BY <2>1, <2>4, <3>1, <3>3, <3>4, <3>5 DEF LinkInv
  <2> QED
    BY <2>2, <2>3, <2>4
<1>9. ASSUME NEW o \in Objects, OnRemoteListenerDied(o) PROVE LinkInv'
  BY <1>9, ObjectNumbers DEF OnRemoteListenerDied, LinkInv
<1>10. ASSUME NEW k \in EventKeys, SendEvent(k) PROVE LinkInv'
  BY <1>10 DEF SendEvent, LinkInv
<1>11. ASSUME NEW e \in queuedEvents, OnReceiveEvent(e) PROVE LinkInv'
  BY <1>11 DEF OnReceiveEvent, LinkInv
<1>12. CASE ServiceDies
  BY <1>12, ObjectNumbers DEF ServiceDies, LinkInv
<1>13. CASE ServiceStarts
  BY <1>13 DEF ServiceStarts, LinkInv
<1>14. CASE ClientDies
  <2>1. /\ clientDeaths' = clientDeaths + 1 /\ UNCHANGED <<eventListenerMap, notifierObject>>
        /\ ~deathNotice' /\ clientDeaths < MaxClientDeaths
    BY <1>14 DEF ClientDies
  <2>2. \A e \in eventListenerMap : e[2] <= clientDeaths' /\ e[2] # clientDeaths'
    BY <2>1, ObjectNumbers DEF LinkInv
  <2>3. notifierObject # clientDeaths' /\ (notifierObject <= clientDeaths' \/ notifierObject = NoObject)
    BY <2>1, LinkAssumption DEF LinkInv, LinkTypeOK, Objects, NoObject
  <2> QED
    BY <2>1, <2>2, <2>3 DEF LinkInv
<1>15. CASE UNCHANGED linkVars
  BY <1>15 DEF linkVars, LinkInv
<1> QED
  BY <1>1, <1>2, <1>3, <1>4, <1>5, <1>6, <1>7, <1>8, <1>9, <1>10, <1>11, <1>12, <1>13, <1>14, <1>15
  DEF LinkNext
(* Every step is a step of ListenerRegistry under the mapping, or changes   *)
(* nothing there.                                                           *)
LEMMA RegistryStep ==
  ASSUME LinkTypeOK, LinkTypeOK', LinkInv, LinkInv', [LinkNext]_linkVars
  PROVE  [Registry!RegistryNext]_<<Wanted, Served>>
<1> USE DEF processVars, clientVars, systemloadVars, serviceVars
<1>0. Served \subseteq Wanted /\ Served' \subseteq Wanted' /\ SystemloadKey \notin EventKeys
  BY MappedKeys, LinkAssumption DEF LinkInv
<1>s. ASSUME UNCHANGED <<eventListenerMap, clientDeaths, notifierObject, eventListeners, systemloadCbs>>
      PROVE  UNCHANGED <<Wanted, Served>>
  BY <1>s DEF Wanted, Served
<1>1. ASSUME NEW k \in EventKeys, NEW l \in LinkListeners, RegisterEventListener(k, l)
      PROVE  Registry!Add(k)
  <2>1. /\ UNCHANGED <<clientDeaths, notifierObject, systemloadCbs>>
        /\ eventListeners' = eventListeners \cup {<<k, l>>}
    BY <1>1 DEF RegisterEventListener
  <2>2. Wanted' = Wanted \cup {k}
    BY <2>1, MappedKeys
  <2>3. \/ eventListenerMap' = eventListenerMap
        \/ eventListenerMap' = Registered({k})
    BY <1>1 DEF RegisterEventListener
  <2>4. \A j \in EventKeys :
          /\ <<j, clientDeaths>> \in eventListenerMap' => <<j, clientDeaths>> \in eventListenerMap \/ j = k
          /\ <<j, clientDeaths>> \in eventListenerMap => <<j, clientDeaths>> \in eventListenerMap'
    <3>1. {k} \in SUBSET EventKeys
      OBVIOUS
    <3>2. /\ eventListenerMap \subseteq Registered({k})
          /\ \A j \in EventKeys : <<j, clientDeaths>> \in Registered({k})
                                    => <<j, clientDeaths>> \in eventListenerMap \/ j = k
      BY <3>1, RegisteredFresh, RegisteredEntries
    <3> QED
      BY <2>3, <3>2
  <2>5. Served' = Served \/ Served' = Served \cup {k}
    <3>1. CASE <<k, clientDeaths>> \in eventListenerMap'
      <4>1. Served' = Served \cup {k}
        BY <2>1, <2>4, <3>1, MappedKeys
      <4> QED
        BY <4>1
    <3>2. CASE <<k, clientDeaths>> \notin eventListenerMap'
      <4>1. Served' = Served
        BY <2>1, <2>4, <3>2, MappedKeys
      <4> QED
        BY <4>1
    <3> QED
      BY <3>1, <3>2
  <2> QED
    BY <2>2, <2>5 DEF Registry!Add
<1>2. ASSUME NEW k \in EventKeys, NEW l \in LinkListeners, UnRegisterEventListener(k, l)
      PROVE  Registry!Remove(k) \/ UNCHANGED <<Wanted, Served>>
  <2>1. /\ UNCHANGED <<clientDeaths, notifierObject, systemloadCbs, rss>>
        /\ eventListeners' = eventListeners \ {<<k, l>>}
        /\ eventListenerMap' = eventListenerMap \/ eventListenerMap' = UnRegistered(k)
    BY <1>2 DEF UnRegisterEventListener, UnRegisterEventListenerLocked
  <2>2. /\ \A j : j # k => (j \in Wanted' <=> j \in Wanted)
        /\ \A j : j # k => (j \in Served' <=> j \in Served)
        /\ k \in Wanted' => k \in Wanted
    BY <2>1, MappedKeys DEF UnRegistered
  <2>3. CASE k \in Wanted'
    <3>1. ~IsInnerEventMapEmpty(eventListeners', k)
      BY <1>0, <2>3, MappedKeys DEF IsInnerEventMapEmpty
    <3>2. eventListenerMap' = eventListenerMap
      BY <1>2, <3>1 DEF UnRegisterEventListener, UnRegisterEventListenerLocked
    <3>3. k \in Served' <=> k \in Served
      BY <2>1, <3>2, MappedKeys
    <3>4. Wanted' = Wanted /\ Served' = Served
      BY <2>2, <2>3, <3>3
    <3> QED
      BY <3>4
  <2>4. CASE k \notin Wanted'
    <3>1. k \notin Served'
      BY <1>0, <2>4
    <3>2. Wanted' = Wanted \ {k} /\ Served' = Served \ {k}
      BY <2>2, <2>4, <3>1
    <3>3. CASE k \in Wanted
      BY <3>2, <3>3 DEF Registry!Remove
    <3>4. CASE k \notin Wanted
      BY <1>0, <3>2, <3>4
    <3> QED
      BY <3>3, <3>4
  <2> QED
    BY <2>3, <2>4
<1>3. ASSUME NEW l \in LinkListeners, RegisterSystemloadNotifier(l)
      PROVE  Registry!Add(SystemloadKey)
  <2>1. /\ UNCHANGED <<clientDeaths, eventListeners, eventListenerMap>>
        /\ systemloadCbs' # {}
        /\ notifierObject' = notifierObject \/ notifierObject' = clientDeaths
    BY <1>3 DEF RegisterSystemloadNotifier, NotifyFrom
  <2>2. Wanted' = Wanted \cup {SystemloadKey}
    BY <2>1, MappedKeys
  <2>3. Served' = Served \/ Served' = Served \cup {SystemloadKey}
    <3>1. CASE notifierObject' = notifierObject
      BY <2>1, <3>1 DEF Served
    <3>2. CASE notifierObject' = clientDeaths
      <4>1. Served' = Served \cup {SystemloadKey}
        BY <2>1, <3>2, MappedKeys
      <4> QED
        BY <4>1
    <3> QED
      BY <2>1, <3>1, <3>2
  <2> QED
    BY <2>2, <2>3 DEF Registry!Add
<1>4. ASSUME NEW l \in LinkListeners, UnRegisterSystemloadNotifier(l)
      PROVE  Registry!Remove(SystemloadKey) \/ UNCHANGED <<Wanted, Served>>
  <2>1. /\ UNCHANGED <<clientDeaths, eventListeners, eventListenerMap>>
        /\ systemloadCbs' = systemloadCbs \ {l}
        /\ systemloadCbs' # {} => notifierObject' = notifierObject
        /\ notifierObject' = notifierObject \/ notifierObject' = NoObject
    BY <1>4 DEF UnRegisterSystemloadNotifier
  <2>2. CASE systemloadCbs' # {}
    <3>1. systemloadCbs # {}
      BY <2>1, <2>2
    <3>2. Wanted' = Wanted
      BY <2>1, <2>2, <3>1, MappedKeys
    <3>3. Served' = Served
      BY <2>1, <2>2 DEF Served
    <3> QED
      BY <3>2, <3>3
  <2>3. CASE systemloadCbs' = {}
    <3>1. SystemloadKey \notin Wanted' /\ SystemloadKey \notin Served'
      BY <1>0, <2>3, MappedKeys
    <3>2. /\ \A j : j # SystemloadKey => (j \in Wanted' <=> j \in Wanted)
          /\ \A j : j # SystemloadKey => (j \in Served' <=> j \in Served)
      <4>1. \A j : j # SystemloadKey => (j \in Wanted' <=> j \in Wanted)
        BY <2>1 DEF Wanted
      <4>2. \A j : j # SystemloadKey => (j \in Served' <=> j \in Served)
        BY <2>1 DEF Served
      <4> QED
        BY <4>1, <4>2
    <3>3. Wanted' = Wanted \ {SystemloadKey} /\ Served' = Served \ {SystemloadKey}
      BY <3>1, <3>2
    <3>4. CASE SystemloadKey \in Wanted
      BY <3>3, <3>4 DEF Registry!Remove
    <3>5. CASE SystemloadKey \notin Wanted
      BY <1>0, <3>3, <3>5
    <3> QED
      BY <3>4, <3>5
  <2> QED
    BY <2>2, <2>3
<1>5. CASE ReportDataFromClient \/ QueryFromClient \/ StopRemoteObject \/ OnAddSystemAbilityConnects
  BY <1>5, <1>s DEF ReportDataFromClient, QueryFromClient, StopRemoteObject,
     OnAddSystemAbilityConnects
<1>6. CASE RecoverEventListener
  <2>1. UNCHANGED <<clientDeaths, eventListeners, systemloadCbs>>
    BY <1>6 DEF RecoverEventListener
  <2>2. Wanted' = Wanted
    BY <2>1 DEF Wanted
  <2>3. /\ eventListenerMap \subseteq eventListenerMap'
        /\ notifierObject' = notifierObject \/ notifierObject' = clientDeaths
    <3>1. \A denied : eventListenerMap \subseteq Registered(ToRecover \ denied)
      BY DEF Registered
    <3>2. \/ UNCHANGED <<eventListenerMap, notifierObject>>
          \/ /\ \E denied : eventListenerMap' = Registered(ToRecover \ denied)
             /\ notifierObject' = notifierObject \/ notifierObject' = clientDeaths
      BY <1>6 DEF RecoverEventListener
    <3> QED
      BY <3>1, <3>2
  <2>4. Served \subseteq Served'
    BY <2>1, <2>3, MappedKeys
  <2>5. Registry!Restore
    BY <1>0, <2>2, <2>4 DEF Registry!Restore
  <2> QED
    BY <2>5 DEF Registry!RegistryNext
<1>7. ASSUME UNCHANGED <<clientDeaths, eventListeners, systemloadCbs>>,
             eventListenerMap' \subseteq eventListenerMap,
             notifierObject' = notifierObject \/ notifierObject' = NoObject
      PROVE  Registry!Lose
  <2>1. Wanted' = Wanted
    BY <1>7 DEF Wanted
  <2>2. Served' \subseteq Served
    BY <1>7, MappedKeys, ObjectNumbers
  <2> QED
    BY <2>1, <2>2 DEF Registry!Lose
<1>8. ASSUME NEW o \in Objects, OnRemoteListenerDied(o) PROVE Registry!Lose
  BY <1>7, <1>8 DEF OnRemoteListenerDied
<1>9. ASSUME NEW k \in EventKeys, SendEvent(k) PROVE UNCHANGED <<Wanted, Served>>
  BY <1>9, <1>s DEF SendEvent
<1>10. ASSUME NEW e \in queuedEvents, OnReceiveEvent(e) PROVE UNCHANGED <<Wanted, Served>>
  BY <1>10, <1>s DEF OnReceiveEvent
<1>11. CASE ServiceDies
  BY <1>7, <1>11 DEF ServiceDies, Registry!RegistryNext
<1>12. CASE ServiceStarts
  BY <1>12, <1>s DEF ServiceStarts
<1>13. CASE ClientDies
  <2>1. eventListeners' = {} /\ systemloadCbs' = {}
    BY <1>13 DEF ClientDies
  <2>2. Wanted' = {}
    BY <2>1 DEF Wanted
  <2>3. Served' = {}
    BY <1>0, <2>2
  <2> QED
    BY <2>2, <2>3 DEF Registry!End, Registry!RegistryNext
<1>14. CASE UNCHANGED linkVars
  BY <1>14, <1>s DEF linkVars
<1>15. EventKeys \subseteq LinkKeys /\ SystemloadKey \in LinkKeys
  BY DEF LinkKeys
<1> QED
  BY <1>1, <1>2, <1>3, <1>4, <1>5, <1>6, <1>8, <1>9, <1>10, <1>11, <1>12, <1>13, <1>14, <1>15
  DEF LinkNext, Registry!RegistryNext

(* The link implements ListenerRegistry: through deaths and restarts of     *)
(* service and client, refused and repeated registrations and late notices, *)
(* the service never sends a process an event that it does not listen to,   *)
(* and a listener that is removed is not served again.                      *)
THEOREM LinkKeepsRegistry == LinkSpec => RegistryKept
<1>1. LinkInit => LinkInv
  <2>1. LinkInit => eventListenerMap = {} /\ notifierObject # clientDeaths /\ ~deathNotice
                    /\ notifierObject = NoObject
    BY LinkAssumption DEF LinkInit, NoObject
  <2> QED
    BY <2>1 DEF LinkInv
<1>2. LinkInit => Registry!RegistryInit
  <2>1. LinkInit => /\ eventListenerMap = {} /\ eventListeners = {} /\ systemloadCbs = {}
                    /\ notifierObject # clientDeaths
    BY LinkAssumption DEF LinkInit, NoObject
  <2> QED
    BY <2>1 DEF Registry!RegistryInit, Wanted, Served
<1>3. LinkTypeOK /\ LinkTypeOK' /\ LinkInv /\ [LinkNext]_linkVars => LinkInv'
  BY LinkStepInv
<1>4. LinkTypeOK /\ LinkTypeOK' /\ LinkInv /\ LinkInv' /\ [LinkNext]_linkVars
        => [Registry!RegistryNext]_<<Wanted, Served>>
  BY RegistryStep
<1>5. LinkSpec => []LinkInv
  BY <1>1, <1>3, LinkTypes, PTL DEF LinkSpec
<1> QED
  BY <1>2, <1>4, <1>5, LinkTypes, PTL DEF LinkSpec, RegistryKept, Registry!RegistrySpec

-----------------------------------------------------------------------------
(* Types in every behaviour of ProgressSpec: the link of a client and the  *)
(* screen requests of SocPerfPlugin (ScreenTypes, which rests on requests  *)
(* that agree), whichever of the two takes its steps.                      *)
THEOREM ProgressTypes == ProgressSpec => []ProgressTypeOK
<1> DEFINE Inv == ProgressTypeOK /\ ScreenRequestsAgree
<1>1. ProgressInit => Inv
  BY ScreenInitially, LinkStart DEF ProgressInit, ProgressTypeOK
<1>2. Inv /\ [ProgressNext]_progressVars => Inv'
  <2> SUFFICES ASSUME Inv, [ProgressNext]_progressVars PROVE Inv'
    OBVIOUS
  <2>1. part' = part /\ [ScreenNext]_ssVars /\ [LinkNext]_linkVars
    BY DEF ProgressNext, ScreenAlone, LinkAlone, progressVars
  <2>2. ScreenTypeOK' /\ ScreenRequestsAgree'
    BY <2>1, ScreenStepType, RequestsStep DEF ProgressTypeOK
  <2>3. LinkTypeOK'
    BY <2>1, LinkStepType DEF ProgressTypeOK
  <2> QED
    BY <2>1, <2>2, <2>3 DEF ProgressTypeOK
<1>3. Inv => ProgressTypeOK
  OBVIOUS
<1> QED
  BY <1>1, <1>2, <1>3, PTL DEF ProgressSpec
=============================================================================
