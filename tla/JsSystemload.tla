---------------------------- MODULE JsSystemload ----------------------------
(***************************************************************************)
(* systemLoad.on and off of the JavaScript kit.  A level passes from the   *)
(* binder thread, which copies the list of listeners, through the          *)
(* thread-safe function of each listener to the JavaScript thread, which   *)
(* looks up the callback again, and through the event queue to the call.   *)
(* on and off run on the JavaScript thread between any two of these steps. *)
(* The link to the service is that of ClientLink; each callback is given   *)
(* to on as a function object, which may be registered again after off.    *)
(***************************************************************************)
EXTENDS Naturals, Sequences

CONSTANTS
  JsFunctions,
  MaxLoadLevel,     \* levels are 0..MaxLoadLevel
  MaxLoadChanges,   \* bound: levels the service sends
  MaxJsListeners    \* bound: listeners made by on

ASSUME JsSystemloadAssumption ==
  MaxLoadLevel \in Nat /\ MaxLoadChanges \in Nat /\ MaxJsListeners \in Nat \ {0}

JsListeners == 1..MaxJsListeners
NoJsListener == 0
LoadLevels == 0..MaxLoadLevel
NoLoadLevel == MaxLoadLevel + 1

VARIABLES
  jsCallBackMap,    \* function -> its listener
  jsOwner,          \* listener -> function; listeners are made in order
  binderLevels,     \* one-way calls of the service that were not taken yet
  notifyList,       \* listeners the binder thread still has to call
  notifyLevel,      \* and with what
  safeCalls,        \* of each listener: levels given to its thread-safe function
  jsEvents,         \* the event queue: <<function, level>>
  jsCalled,         \* of each function: the level it was last called with
  jsDue,            \* history: the level last sent while it was registered
  jsLate,           \* history: how many events were queued before the last off
                    \* of a function and are not handled
  jsUnsure,         \* history: functions registered again while a call for an
                    \* earlier listener was under way, or whose event was refused
  loadLevel, loadChanges

jsVars == <<jsCallBackMap, jsOwner, binderLevels, notifyList, notifyLevel, safeCalls,
            jsEvents, jsCalled, jsDue, jsLate, jsUnsure, loadLevel, loadChanges>>

JsTypeOK ==
  /\ jsCallBackMap \in [JsFunctions -> JsListeners \cup {NoJsListener}]
  /\ jsOwner \in Seq(JsFunctions) /\ Len(jsOwner) <= MaxJsListeners
  /\ \A f \in JsFunctions : jsCallBackMap[f] # NoJsListener => jsOwner[jsCallBackMap[f]] = f
  /\ binderLevels \in Seq(LoadLevels) /\ notifyList \subseteq DOMAIN jsOwner
  /\ notifyLevel \in LoadLevels \cup {NoLoadLevel}
  /\ safeCalls \in [JsListeners -> Seq(LoadLevels)]
  /\ jsEvents \in Seq(JsFunctions \X LoadLevels)
  /\ jsCalled \in [JsFunctions -> LoadLevels \cup {NoLoadLevel}]
  /\ jsDue \in [JsFunctions -> LoadLevels \cup {NoLoadLevel}]
  /\ jsLate \in [JsFunctions -> Nat] /\ jsUnsure \subseteq JsFunctions
  /\ loadLevel \in LoadLevels /\ loadChanges \in 0..MaxLoadChanges

JsInit ==
  /\ jsCallBackMap = [f \in JsFunctions |-> NoJsListener] /\ jsOwner = <<>>
  /\ binderLevels = <<>> /\ notifyList = {} /\ notifyLevel = NoLoadLevel
  /\ safeCalls = [l \in JsListeners |-> <<>>] /\ jsEvents = <<>>
  /\ jsCalled = [f \in JsFunctions |-> NoLoadLevel]
  /\ jsDue = [f \in JsFunctions |-> NoLoadLevel]
  /\ jsLate = [f \in JsFunctions |-> 0] /\ jsUnsure = {}
  /\ loadLevel = 0 /\ loadChanges = 0

IsOn(f) == jsCallBackMap[f] # NoJsListener
(* systemloadLevelCbs_ of the client.                                      *)
SystemloadLevelCbs == {jsCallBackMap[f] : f \in {g \in JsFunctions : IsOn(g)}}

-----------------------------------------------------------------------------
(* The JavaScript thread.  A function that is registered stays with its    *)
(* listener.                                                               *)
UnderWay(f) ==
  \E l \in DOMAIN jsOwner : jsOwner[l] = f /\ (l \in notifyList \/ safeCalls[l] # <<>>)
RegisterSystemloadCallback(f) ==
  /\ ~IsOn(f) /\ Len(jsOwner) < MaxJsListeners
  /\ jsOwner' = Append(jsOwner, f)
  /\ jsCallBackMap' = [jsCallBackMap EXCEPT ![f] = Len(jsOwner')]
  /\ jsUnsure' = IF UnderWay(f) THEN jsUnsure \cup {f} ELSE jsUnsure \ {f}
  /\ UNCHANGED <<binderLevels, notifyList, notifyLevel, safeCalls, jsEvents, jsCalled,
                 jsDue, jsLate, loadLevel, loadChanges>>

UnRegisterSystemloadCallback(f) ==
  /\ IsOn(f) /\ jsCallBackMap' = [jsCallBackMap EXCEPT ![f] = NoJsListener]
  /\ jsDue' = [jsDue EXCEPT ![f] = NoLoadLevel]
  /\ jsLate' = [jsLate EXCEPT ![f] = Len(jsEvents)]
  /\ UNCHANGED <<jsOwner, binderLevels, notifyList, notifyLevel, safeCalls, jsEvents,
                 jsCalled, jsUnsure, loadLevel, loadChanges>>

(* Mutant: the callback is not looked up again.                            *)
OnSystemloadLevelAny(f, level, sent) ==
  /\ jsEvents' = IF sent THEN Append(jsEvents, <<f, level>>) ELSE jsEvents
  /\ jsUnsure' = IF ~sent THEN jsUnsure \cup {f} ELSE jsUnsure
(* The callback that is called is looked up by the function object.        *)
OnSystemloadLevel(f, level, sent) ==
  /\ jsEvents' = IF IsOn(f) /\ sent THEN Append(jsEvents, <<f, level>>) ELSE jsEvents
  /\ jsUnsure' = IF IsOn(f) /\ ~sent THEN jsUnsure \cup {f} ELSE jsUnsure
ThreadSafeCallBack(l, sent) ==
  /\ safeCalls[l] # <<>> /\ safeCalls' = [safeCalls EXCEPT ![l] = Tail(@)]
  /\ OnSystemloadLevel(jsOwner[l], Head(safeCalls[l]), sent)
  /\ UNCHANGED <<jsCallBackMap, jsOwner, binderLevels, notifyList, notifyLevel, jsCalled,
                 jsDue, jsLate, loadLevel, loadChanges>>

CompleteCb ==
  /\ jsEvents # <<>> /\ jsEvents' = Tail(jsEvents)
  /\ jsCalled' = [jsCalled EXCEPT ![Head(jsEvents)[1]] = Head(jsEvents)[2]]
  /\ jsLate' = [f \in JsFunctions |-> IF jsLate[f] > 0 THEN jsLate[f] - 1 ELSE 0]
  /\ UNCHANGED <<jsCallBackMap, jsOwner, binderLevels, notifyList, notifyLevel, safeCalls,
                 jsDue, jsUnsure, loadLevel, loadChanges>>

-----------------------------------------------------------------------------
(* The binder thread of the client: one-way calls to one object are taken  *)
(* one after the other.                                                    *)
CopyListeners ==
  /\ notifyList = {} /\ binderLevels # <<>>
  /\ binderLevels' = Tail(binderLevels)
  /\ notifyList' = SystemloadLevelCbs /\ notifyLevel' = Head(binderLevels)
  /\ UNCHANGED <<jsCallBackMap, jsOwner, safeCalls, jsEvents, jsCalled, jsDue, jsLate,
                 jsUnsure, loadLevel, loadChanges>>
ListenerOnSystemloadLevel(l) ==
  /\ l \in notifyList /\ notifyList' = notifyList \ {l}
  /\ safeCalls' = [safeCalls EXCEPT ![l] = Append(@, notifyLevel)]
  /\ UNCHANGED <<jsCallBackMap, jsOwner, binderLevels, notifyLevel, jsEvents, jsCalled,
                 jsDue, jsLate, jsUnsure, loadLevel, loadChanges>>

(* The service (external) tells a client that has listeners.               *)
ServiceSendsLevel(level) ==
  /\ level # loadLevel /\ loadLevel' = level
  /\ loadChanges < MaxLoadChanges /\ loadChanges' = loadChanges + 1
  /\ binderLevels' = IF SystemloadLevelCbs = {} THEN binderLevels ELSE Append(binderLevels, level)
  /\ jsDue' = [f \in JsFunctions |-> IF IsOn(f) THEN level ELSE jsDue[f]]
  /\ UNCHANGED <<jsCallBackMap, jsOwner, notifyList, notifyLevel, safeCalls, jsEvents,
                 jsCalled, jsLate, jsUnsure>>

JsNext ==
  \/ \E f \in JsFunctions : RegisterSystemloadCallback(f)
  \/ \E f \in JsFunctions : UnRegisterSystemloadCallback(f)
  \/ \E l \in JsListeners, sent \in BOOLEAN : ThreadSafeCallBack(l, sent)
  \/ CompleteCb
  \/ CopyListeners
  \/ \E l \in JsListeners : ListenerOnSystemloadLevel(l)
  \/ \E level \in LoadLevels : ServiceSendsLevel(level)

-----------------------------------------------------------------------------
(* Once everything under way has arrived, a callback that is on was last   *)
(* called with the level last sent to it, unless it was registered again   *)
(* while a call for its earlier listener was under way, which may then     *)
(* arrive after a newer one; and a callback that is off is called by no    *)
(* event that was not in the queue when off was called.                    *)
JsArrived ==
  binderLevels = <<>> /\ notifyList = {} /\ jsEvents = <<>>
    /\ \A l \in JsListeners : safeCalls[l] = <<>>
JsCallbacksRight ==
  /\ JsArrived => \A f \in JsFunctions \ jsUnsure :
       IsOn(f) /\ jsDue[f] # NoLoadLevel => jsCalled[f] = jsDue[f]
  /\ \A f \in JsFunctions : ~IsOn(f) =>
       \A i \in DOMAIN jsEvents : jsEvents[i][1] = f => i <= jsLate[f]
=============================================================================
