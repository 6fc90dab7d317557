-------------------------- MODULE SuspendObservers --------------------------
(***************************************************************************)
(* The suspend manager base: SuspendManagerBaseClient in the processes     *)
(* that register an observer and SuspendManagerBaseObserver in the         *)
(* service.  The list of observers and the map of death recipients have a  *)
(* lock each, and every operation takes first the one and then the other.  *)
(* A client makes one call at a time (mutex_); a client that dies leaves   *)
(* its call to be served, beside the notice of its death.  Each client has *)
(* one observer and is named by it.                                        *)
(***************************************************************************)
EXTENDS Naturals

CONSTANTS
  SuspendClients,
  MaxSuspendDeaths    \* bound: deaths of the service

ASSUME SuspendAssumption == MaxSuspendDeaths \in Nat

VARIABLES
  suspendObservers,    \* the list (an observer is never in it twice)
  recipientMap,        \* observers with a death recipient
  suspendCall,         \* how far the service is with the call of a client
  observerLife,        \* "alive", "dead", "removing" (OnObserverDied has
                       \* taken it from the list) or "handled"
  suspendProxy,        \* suspendManagerBaseProxy_: "none", "live" or "stale"
  suspendDeaths,
  returned,            \* what the last call of the client returned ERR_OK for
  unserved,            \* history: clients whose registration met no service
                       \* or was lost with it
  overlapped            \* history: clients whose call was served while their
                       \* death was handled

suspendVars == <<suspendObservers, recipientMap, suspendCall, observerLife, suspendProxy,
                 suspendDeaths, returned, unserved, overlapped>>

CallSteps == {"none", "register", "add", "rollback", "unregister", "remove"}
SuspendTypeOK ==
  /\ suspendObservers \subseteq SuspendClients /\ recipientMap \subseteq SuspendClients
  /\ suspendCall \in [SuspendClients -> CallSteps]
  /\ observerLife \in [SuspendClients -> {"alive", "dead", "removing", "handled"}]
  /\ suspendProxy \in [SuspendClients -> {"none", "live", "stale"}]
  /\ suspendDeaths \in 0..MaxSuspendDeaths
  /\ returned \in [SuspendClients -> {"nothing", "register", "unregister"}]
  /\ unserved \subseteq SuspendClients /\ overlapped \subseteq SuspendClients

SuspendInit ==
  /\ suspendObservers = {} /\ recipientMap = {} /\ suspendDeaths = 0
  /\ suspendCall = [o \in SuspendClients |-> "none"]
  /\ observerLife = [o \in SuspendClients |-> "alive"]
  /\ suspendProxy = [o \in SuspendClients |-> "none"]
  /\ returned = [o \in SuspendClients |-> "nothing"]
  /\ unserved = {} /\ overlapped = {}

-----------------------------------------------------------------------------
(* The client.  The service is started on demand, so the proxy it gets is  *)
(* live; it keeps the proxy until ResetClient.  The result of the IPC is   *)
(* not looked at: a call on a stale proxy returns ERR_OK.  The service     *)
(* refuses a caller without the permission (CheckSuspendPermission).       *)
GetSuspendManagerProxy(o) ==
  IF suspendProxy[o] = "none" THEN [suspendProxy EXCEPT ![o] = "live"] ELSE suspendProxy

SuspendObserverCall(o, op, permitted) ==
  /\ observerLife[o] = "alive" /\ suspendCall[o] = "none"
  /\ suspendProxy' = GetSuspendManagerProxy(o)
  /\ \/ /\ suspendProxy'[o] = "stale"
        /\ returned' = [returned EXCEPT ![o] = op]
        /\ unserved' = unserved \cup {o}
        /\ UNCHANGED suspendCall
     \/ /\ suspendProxy'[o] = "live" /\ permitted
        /\ suspendCall' = [suspendCall EXCEPT ![o] = op]
        /\ UNCHANGED <<returned, unserved>>
     \/ /\ suspendProxy'[o] = "live" /\ ~permitted
        /\ UNCHANGED <<suspendCall, returned, unserved>>
  /\ UNCHANGED <<suspendObservers, recipientMap, observerLife, suspendDeaths, overlapped>>

ResetClient(o) ==
  /\ suspendProxy[o] = "stale" /\ suspendCall[o] = "none"
  /\ suspendProxy' = [suspendProxy EXCEPT ![o] = "none"]
  /\ UNCHANGED <<suspendObservers, recipientMap, suspendCall, observerLife, suspendDeaths,
                 returned, unserved, overlapped>>

-----------------------------------------------------------------------------
(* The service.                                                            *)
Overlaps(o) == overlapped' = IF observerLife[o] = "removing" THEN overlapped \cup {o} ELSE overlapped
NextSuspendStep(o, step) == suspendCall' = [suspendCall EXCEPT ![o] = step]
Succeeds(o, op) ==
  /\ returned' = [returned EXCEPT ![o] = op]
  /\ unserved' = unserved \ {o}
  /\ NextSuspendStep(o, "none")
unchangedByCalls == <<observerLife, suspendProxy, suspendDeaths>>

RegisterSuspendObserverInner(o) ==
  /\ suspendCall[o] = "register"
  /\ suspendObservers' = suspendObservers \cup {o}
  /\ NextSuspendStep(o, "add") /\ Overlaps(o)
  /\ UNCHANGED <<recipientMap, returned, unserved, unchangedByCalls>>

(* Adding a recipient to a remote object fails once the object is known to *)
(* be dead; before, the notice comes at once.                              *)
AddDeathRecipient(o) ==
  CASE observerLife[o] = "alive" -> {TRUE}
    [] observerLife[o] = "dead" -> {TRUE, FALSE}
    [] OTHER -> {FALSE}
AddObserverDeathRecipient(o) ==
  /\ suspendCall[o] = "add" /\ Overlaps(o)
  /\ \/ o \in recipientMap /\ Succeeds(o, "register") /\ UNCHANGED recipientMap
     \/ /\ o \notin recipientMap /\ TRUE \in AddDeathRecipient(o)
        /\ recipientMap' = recipientMap \cup {o} /\ Succeeds(o, "register")
     \/ /\ o \notin recipientMap /\ FALSE \in AddDeathRecipient(o)
        /\ NextSuspendStep(o, "rollback") /\ UNCHANGED <<recipientMap, returned, unserved>>
  /\ UNCHANGED <<suspendObservers, unchangedByCalls>>

(* Mutant: a registration without a recipient is kept.                     *)
RegisterSuspendObserverKeeps(o) ==
  /\ suspendCall[o] = "rollback" /\ NextSuspendStep(o, "none") /\ Overlaps(o)
  /\ UNCHANGED <<suspendObservers, recipientMap, returned, unserved, unchangedByCalls>>
(* The end of a registration that got no recipient.                        *)
RegisterSuspendObserver(o) ==
  /\ suspendCall[o] = "rollback" /\ NextSuspendStep(o, "none") /\ Overlaps(o)
  /\ suspendObservers' = suspendObservers \ {o}
  /\ UNCHANGED <<recipientMap, returned, unserved, unchangedByCalls>>

UnregisterSuspendObserverInner(o) ==
  /\ suspendCall[o] = "unregister"
  /\ suspendObservers' = suspendObservers \ {o}
  /\ NextSuspendStep(o, "remove") /\ Overlaps(o)
  /\ UNCHANGED <<recipientMap, returned, unserved, unchangedByCalls>>
RemoveObserverDeathRecipient(o) ==
  /\ suspendCall[o] = "remove" /\ Overlaps(o)
  /\ recipientMap' = recipientMap \ {o} /\ Succeeds(o, "unregister")
  /\ UNCHANGED <<suspendObservers, unchangedByCalls>>

(* A death recipient that is in the map is told of the death, once.        *)
OnObserverDied(o) ==
  /\ \/ /\ observerLife[o] = "dead" /\ o \in recipientMap
        /\ observerLife' = [observerLife EXCEPT ![o] = "removing"]
        /\ suspendObservers' = suspendObservers \ {o}
        /\ overlapped' = IF suspendCall[o] # "none" THEN overlapped \cup {o} ELSE overlapped
        /\ UNCHANGED recipientMap
     \/ /\ observerLife[o] = "removing"
        /\ observerLife' = [observerLife EXCEPT ![o] = "handled"]
        /\ recipientMap' = recipientMap \ {o}
        /\ UNCHANGED <<suspendObservers, overlapped>>
  /\ UNCHANGED <<suspendCall, suspendProxy, suspendDeaths, returned, unserved>>

SuspendClientDies(o) ==
  /\ observerLife[o] = "alive" /\ observerLife' = [observerLife EXCEPT ![o] = "dead"]
  /\ UNCHANGED <<suspendObservers, recipientMap, suspendCall, suspendProxy, suspendDeaths,
                 returned, unserved, overlapped>>

(* The service dies with its lists; a call it was serving returns ERR_OK.  *)
(* Nothing in the client registers the observer again.                     *)
SuspendServiceDies ==
  /\ suspendDeaths < MaxSuspendDeaths /\ suspendDeaths' = suspendDeaths + 1
  /\ suspendObservers' = {} /\ recipientMap' = {}
  /\ suspendProxy' = [o \in SuspendClients |->
                        IF suspendProxy[o] = "none" THEN "none" ELSE "stale"]
  /\ returned' = [o \in SuspendClients |->
                    CASE suspendCall[o] \in {"register", "add", "rollback"} -> "register"
                      [] suspendCall[o] \in {"unregister", "remove"} -> "unregister"
                      [] OTHER -> returned[o]]
  /\ suspendCall' = [o \in SuspendClients |-> "none"]
  /\ observerLife' = [o \in SuspendClients |->
                        IF observerLife[o] = "removing" THEN "handled" ELSE observerLife[o]]
  /\ unserved' = SuspendClients
  /\ UNCHANGED overlapped

SuspendNext ==
  \/ \E o \in SuspendClients, op \in {"register", "unregister"}, permitted \in BOOLEAN :
       SuspendObserverCall(o, op, permitted)
  \/ \E o \in SuspendClients :
       \/ ResetClient(o)
       \/ RegisterSuspendObserverInner(o)
       \/ AddObserverDeathRecipient(o)
       \/ RegisterSuspendObserver(o)
       \/ UnregisterSuspendObserverInner(o)
       \/ RemoveObserverDeathRecipient(o)
       \/ OnObserverDied(o)
       \/ SuspendClientDies(o)
  \/ SuspendServiceDies

-----------------------------------------------------------------------------
(* UpdateSuspendObserver calls every observer of the list.  When the calls *)
(* and notices of an observer are done:                                    *)
(*   - it is in the list only with a death recipient, so that its death    *)
(*     takes it out, and a dead one is not in the list, unless a call was  *)
(*     served while the death was handled: a registration between the two  *)
(*     removals of OnObserverDied finds the old recipient and stays;       *)
(*   - a living one is called exactly when its client was last told that   *)
(*     it is registered, unless the call met no service.                   *)
CallsDone(o) == suspendCall[o] = "none"
NoticesDone(o) == observerLife[o] # "removing" /\ (observerLife[o] = "dead" => o \notin recipientMap)
SuspendObserversRight ==
  \A o \in SuspendClients : CallsDone(o) /\ NoticesDone(o) =>
    /\ o \in suspendObservers /\ o \notin overlapped =>
         o \in recipientMap /\ observerLife[o] = "alive"
    /\ observerLife[o] = "alive" /\ o \notin unserved =>
         (o \in suspendObservers <=> returned[o] = "register")
=============================================================================
