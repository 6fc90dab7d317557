----------------------------- MODULE Observers -----------------------------
(***************************************************************************)
(* ObserverManager and EventController: which observers the service has    *)
(* registered with another system ability while that ability dies and      *)
(* comes back.  Abilities share no observer, so a behaviour follows one    *)
(* ability, chosen initially (for the data service see OobeManager).  An   *)
(* object (a pointer of ObserverManager, a subscriber of EventController)  *)
(* may carry several registrations.                                        *)
(***************************************************************************)
EXTENDS Naturals, Sequences

CONSTANT MaxDeaths  \* how often the followed ability dies

ASSUME ObserversAssumption == MaxDeaths \in Nat

Abilities ==
  {"HISYSEVENT", "MMI", "TELEPHONY", "AUDIO", "DISPLAY", "DISPLAY_SA",
   "ABILITY_MGR", "DOWNLOAD", "AVSESSION", "ACCOUNT", "WINDOW", "APP_MGR",
   "DISTRIBUTED_SCHED", "COMMON_EVENT"}

VARIABLES
  ability,          \* the ability that is followed
  isFoldable,       \* DisplayManager::IsFoldable
  isNeedReport,     \* isNeedReport_: answer of the cgroup extension
  sysAbilityListener, \* the listener is subscribed to the ability
  callbacks,        \* "unset", "set", or "cleared" when the service stopped
  up,               \* the ability runs (external)
  deaths,
  notices,          \* its additions and removals still to be delivered
  objects,          \* objects that exist in this service
  registered,       \* registrations the ability has (external)
  refused,          \* history: registrations refused at the last addition
  toFetch,          \* values an addition under way has still to fetch
  reading,          \* the value it fetched and has still to report
  readingOld,        \* that value changed since it was fetched
  fresh,            \* registrations whose present value was reported last
  outdated          \* history: those whose fetched value was reported after a
                    \* newer one, which their callback had told

obVars == <<ability, isFoldable, isNeedReport, sysAbilityListener, callbacks,
            up, deaths, notices, objects, registered, refused, toFetch, reading,
            readingOld, fresh, outdated>>
toldVars == <<reading, readingOld, fresh, outdated>>

(* Registrations with each ability; the audio ones belong to one object,   *)
(* every other one to an object of its own.                                *)
AudioCallbacks == {"renderer", "capturer", "ringer", "volumeKey", "scene",
                   "outputDevice"}
WindowListeners == {"focus", "visibility", "drawing", "windowMode", "pip"}
EventSubscribers == {"events", "lockScreen", "cloneState", "mediaCtrl"}

(* What the code registers once the ability was added.                     *)
Expected ==
  CASE ability = "MMI" -> {"powerKey"} \cup (IF isNeedReport THEN {"mmi"} ELSE {})
    [] ability = "AUDIO" -> AudioCallbacks
    [] ability = "DISPLAY" -> IF isFoldable THEN {"displayMode"} ELSE {}
    [] ability = "DISPLAY_SA" ->
         {"displayPower"} \cup (IF isFoldable THEN {"orientation"} ELSE {})
    [] ability = "WINDOW" -> WindowListeners \cup {"style"}
    [] ability = "COMMON_EVENT" -> EventSubscribers
    [] OTHER -> {ability}

(* Registrations with a value that is fetched and reported when they are   *)
(* made; renderer and capturer by AudioObserver::Init.                     *)
Stateful == {"mmi", "displayMode", "style", "renderer", "capturer"}
NoValue == "none"

State(objs, regs, fetches) == [objects |-> objs, registered |-> regs, toFetch |-> fetches]
Now == State(objects, registered, toFetch)

ObserversTypeOK ==
  /\ ability \in Abilities /\ isFoldable \in BOOLEAN /\ isNeedReport \in BOOLEAN
  /\ sysAbilityListener \in BOOLEAN /\ up \in BOOLEAN
  /\ callbacks \in {"unset", "set", "cleared"}
  /\ deaths \in 0..MaxDeaths
  /\ notices \in Seq({"add", "remove"})
  /\ registered \subseteq Expected /\ refused \subseteq Expected
  /\ toFetch \subseteq Stateful /\ reading \in Stateful \cup {NoValue} /\ readingOld \in BOOLEAN
  /\ fresh \subseteq Stateful /\ outdated \subseteq Stateful

-----------------------------------------------------------------------------
(* The patterns of the Init and Disable functions.  ok is the set of calls *)
(* the ability accepts.                                                    *)

(* The object is made when there is none and registered again every time.  *)
Register(s, o, ok) ==
  State(s.objects \cup {o}, s.registered \cup ({o} \cap ok), s.toFetch)

(* As Register, but an object that was refused is given up.                *)
RegisterOrDrop(s, o, ok) ==
  IF o \in ok THEN Register(s, o, ok) ELSE State(s.objects \ {o}, s.registered, s.toFetch)

(* Only an object made now is registered.                                  *)
RegisterNew(s, o, ok) == IF o \in s.objects THEN s ELSE Register(s, o, ok)

(* The object is given up whatever the ability says.                       *)
Unregister(s, o, ok) ==
  IF o \notin s.objects THEN s
  ELSE State(s.objects \ {o}, s.registered \ ({o} \cap ok), s.toFetch)

(* An object the ability refuses to unregister is kept.                    *)
UnregisterIfOk(s, o, ok) ==
  IF o \in s.objects /\ o \in ok
    THEN State(s.objects \ {o}, s.registered \ {o}, s.toFetch) ELSE s

(* The present value is to be fetched and reported, after the last of the  *)
(* registrations.                                                          *)
Fetch(s, regs) == State(s.objects, s.registered, s.toFetch \cup regs)

InitHiSysEventObserver(s, ok) == Register(s, "HISYSEVENT", ok)
DisableHiSysEventObserver(s, ok) == Unregister(s, "HISYSEVENT", ok)

InitTelephonyObserver(s, ok) == Register(s, "TELEPHONY", ok)
DisableTelephonyObserver(s, ok) == Unregister(s, "TELEPHONY", ok)

InitAudioEventListener(s, ok) ==
  State(s.objects, s.registered \cup ({"renderer", "capturer"} \cap ok), s.toFetch)
InitAudioObserver(s, ok) ==
  LET made == State(s.objects \cup {"AUDIO"}, s.registered, s.toFetch)
      listening == InitAudioEventListener(made, ok)
      all == State(listening.objects,
                   listening.registered \cup (AudioCallbacks \cap ok),
                   listening.toFetch)
  IN  Fetch(all, {"renderer", "capturer"})
(* The output device callback is not unset.                                *)
DisableAudioObserver(s, ok) ==
  IF "AUDIO" \notin s.objects THEN s
  ELSE State(s.objects \ {"AUDIO"},
             s.registered \ ((AudioCallbacks \ {"outputDevice"}) \cap ok),
             s.toFetch)

GetAllMmiStatusData(s) == Fetch(s, {"mmi"})
InitMMiEventObserver(s, ok) ==
  LET keyed == State(s.objects, s.registered \cup ({"powerKey"} \cap ok), s.toFetch)
      observed == Register(keyed, "mmi", ok)
  IN  IF ~isNeedReport THEN keyed
      ELSE IF "mmi" \in ok THEN GetAllMmiStatusData(observed) ELSE observed
DisableMMiEventObserver(s, ok) ==
  Unregister(State(s.objects, s.registered \ ({"powerKey"} \cap ok), s.toFetch),
             "mmi", ok)

(* Mutant: the present mode is not fetched.                                *)
InitDisplayModeObserverSilent(s, ok) ==
  IF isFoldable THEN RegisterOrDrop(s, "displayMode", ok) ELSE s
InitDisplayModeObserver(s, ok) ==
  IF ~isFoldable THEN s
  ELSE LET done == RegisterOrDrop(s, "displayMode", ok)
       IN  IF "displayMode" \in ok THEN Fetch(done, {"displayMode"}) ELSE done
DisableDisplayModeObserver(s, ok) == UnregisterIfOk(s, "displayMode", ok)

InitDisplayOrientationObserver(s, ok) ==
  IF isFoldable THEN RegisterOrDrop(s, "orientation", ok) ELSE s
DisableDisplayOrientationObserver(s, ok) == UnregisterIfOk(s, "orientation", ok)
InitDisplayPowerEventObserver(s, ok) == RegisterOrDrop(s, "displayPower", ok)
DisableDisplayPowerEventObserver(s, ok) == UnregisterIfOk(s, "displayPower", ok)
InitDisplayManagerServiceSAObserver(s, ok) ==
  InitDisplayPowerEventObserver(InitDisplayOrientationObserver(s, ok), ok)
DisableDisplayManagerServiceSAObserver(s, ok) ==
  DisableDisplayPowerEventObserver(DisableDisplayOrientationObserver(s, ok), ok)

InitConnectionSubscriber(s, ok) == Register(s, "ABILITY_MGR", ok)
DisableConnectionSubscriber(s, ok) == Unregister(s, "ABILITY_MGR", ok)
InitContinuationObserver(s, ok) == Register(s, "DISTRIBUTED_SCHED", ok)
DisableContinuationObserver(s, ok) == Unregister(s, "DISTRIBUTED_SCHED", ok)

InitAVSessionStateChangeListener(s, ok) == Register(s, "AVSESSION", ok)
(* The object is given up without being unregistered.                      *)
DisableAVSessionStateChangeListener(s, ok) ==
  State(s.objects \ {"AVSESSION"}, s.registered, s.toFetch)
InitDownloadUploadObserver(s, ok) == Register(s, "DOWNLOAD", ok)
DisableDownloadUploadObserver(s, ok) ==
  State(s.objects \ {"DOWNLOAD"}, s.registered \ ({"DOWNLOAD"} \cap ok), s.toFetch)
InitAccountObserver(s, ok) == Register(s, "ACCOUNT", ok)
DisableAccountObserver(s, ok) == s

SubscribeWindowModeChange(s, ok) == RegisterNew(s, "windowMode", ok)
SubscribePipChange(s, ok) == RegisterNew(s, "pip", ok)
InitWindowStyleObserver(s, ok) ==
  LET done == Register(s, "style", ok)
  IN  IF "style" \in ok THEN Fetch(done, {"style"}) ELSE done
InitWindowStateObserver(s, ok) ==
  LET focused == RegisterNew(s, "focus", ok)
      visible == RegisterNew(focused, "visibility", ok)
      drawn == RegisterNew(visible, "drawing", ok)
  IN  InitWindowStyleObserver(
        SubscribePipChange(SubscribeWindowModeChange(drawn, ok), ok), ok)
UnsubscribeWindowModeChange(s, ok) == Unregister(s, "windowMode", ok)
UnsubscribePipChange(s, ok) == Unregister(s, "pip", ok)
DisableWindowStyleObserver(s, ok) == UnregisterIfOk(s, "style", ok)
(* Mutant: a listener the ability refuses to unregister is kept, although  *)
(* InitWindowStateObserver registers new ones only.                        *)
DisableWindowStateObserverKeeps(s, ok) ==
  UnregisterIfOk(UnregisterIfOk(UnregisterIfOk(s, "focus", ok), "visibility", ok),
                 "drawing", ok)
DisableWindowStateObserver(s, ok) ==
  LET unfocused == Unregister(s, "focus", ok)
      unseen == Unregister(unfocused, "visibility", ok)
      undrawn == Unregister(unseen, "drawing", ok)
  IN  DisableWindowStyleObserver(
        UnsubscribePipChange(UnsubscribeWindowModeChange(undrawn, ok), ok), ok)

(* A new object replaces the old one, which is not unregistered.           *)
SubscribeAppState(s, ok) == RegisterOrDrop(s, "APP_MGR", ok)
UnsubscribeAppState(s, ok) == Unregister(s, "APP_MGR", ok)

(* EventController: four new subscribers, dropped when the event service   *)
(* goes away.                                                              *)
SubscribeLockScreenCommonEvent(s, ok) == Register(s, "lockScreen", ok)
SubscribeCloneStateCommonEvent(s, ok) == Register(s, "cloneState", ok)
SubscribeMediaCtrlCommonEvent(s, ok) == Register(s, "mediaCtrl", ok)
AddEventSubscribers(s, ok) ==
  SubscribeMediaCtrlCommonEvent(SubscribeCloneStateCommonEvent(
    SubscribeLockScreenCommonEvent(Register(s, "events", ok), ok), ok), ok)
RemoveEventSubscribers(s, ok) ==
  State(s.objects \ EventSubscribers, s.registered, s.toFetch)
StopEventSubscribers(s, ok) ==
  State(s.objects \ EventSubscribers,
        s.registered \ (EventSubscribers \cap s.objects \cap ok), s.toFetch)

-----------------------------------------------------------------------------
(* handleObserverMap_ and removeObserverMap_.                              *)
InitObserverCbMap(s, ok) ==
  CASE ability = "HISYSEVENT" -> InitHiSysEventObserver(s, ok)
    [] ability = "MMI" -> InitMMiEventObserver(s, ok)
    [] ability = "TELEPHONY" -> InitTelephonyObserver(s, ok)
    [] ability = "AUDIO" -> InitAudioObserver(s, ok)
    [] ability = "DISPLAY" -> InitDisplayModeObserver(s, ok)
    [] ability = "DISPLAY_SA" -> InitDisplayManagerServiceSAObserver(s, ok)
    [] ability = "ABILITY_MGR" -> InitConnectionSubscriber(s, ok)
    [] ability = "DOWNLOAD" -> InitDownloadUploadObserver(s, ok)
    [] ability = "AVSESSION" -> InitAVSessionStateChangeListener(s, ok)
    [] ability = "ACCOUNT" -> InitAccountObserver(s, ok)
    [] ability = "WINDOW" -> InitWindowStateObserver(s, ok)
    [] ability = "APP_MGR" -> SubscribeAppState(s, ok)
    [] ability = "DISTRIBUTED_SCHED" -> InitContinuationObserver(s, ok)
    [] ability = "COMMON_EVENT" -> AddEventSubscribers(s, ok)

InitRemoveObserverCbMap(s, ok) ==
  CASE ability = "HISYSEVENT" -> DisableHiSysEventObserver(s, ok)
    [] ability = "MMI" -> DisableMMiEventObserver(s, ok)
    [] ability = "TELEPHONY" -> DisableTelephonyObserver(s, ok)
    [] ability = "AUDIO" -> DisableAudioObserver(s, ok)
    [] ability = "DISPLAY" -> DisableDisplayModeObserver(s, ok)
    [] ability = "DISPLAY_SA" -> DisableDisplayManagerServiceSAObserver(s, ok)
    [] ability = "ABILITY_MGR" -> DisableConnectionSubscriber(s, ok)
    [] ability = "DOWNLOAD" -> DisableDownloadUploadObserver(s, ok)
    [] ability = "AVSESSION" -> DisableAVSessionStateChangeListener(s, ok)
    [] ability = "ACCOUNT" -> DisableAccountObserver(s, ok)
    [] ability = "WINDOW" -> DisableWindowStateObserver(s, ok)
    [] ability = "APP_MGR" -> UnsubscribeAppState(s, ok)
    [] ability = "DISTRIBUTED_SCHED" -> DisableContinuationObserver(s, ok)
    [] ability = "COMMON_EVENT" -> RemoveEventSubscribers(s, ok)

Apply(s) ==
  /\ objects' = s.objects /\ registered' = s.registered /\ toFetch' = s.toFetch
Static == UNCHANGED <<ability, isFoldable>>
(* An addition is handled to its end before the next notice.               *)
Handling == toFetch # {} \/ reading # NoValue

ObserversInit ==
  /\ ability \in Abilities /\ isFoldable \in BOOLEAN /\ isNeedReport = FALSE
  /\ sysAbilityListener = FALSE /\ callbacks = "unset"
  /\ up \in BOOLEAN /\ deaths = 0 /\ notices = <<>>
  /\ objects = {} /\ registered = {} /\ refused = {}
  /\ toFetch = {} /\ reading = NoValue /\ readingOld = FALSE /\ fresh = {} /\ outdated = {}

(* GetReportFunc: the library may lack the function, or answer no.         *)
GetReportFunc == isNeedReport' \in BOOLEAN

(* One SubscribeSystemAbility call; an ability that already runs is        *)
(* announced at once.  A refusal also drops the listener, so that every    *)
(* later call of InitSysAbilityListener is made without one and refused.   *)
AddItemToSysAbilityListener(ok) ==
  /\ sysAbilityListener' = ok
  /\ notices' = IF ok /\ up THEN <<"add">> ELSE <<>>

InitSysAbilityListener ==
  /\ ability # "COMMON_EVENT" /\ callbacks = "unset" /\ callbacks' = "set"
  /\ GetReportFunc
  /\ \E ok \in BOOLEAN : AddItemToSysAbilityListener(ok)
  /\ UNCHANGED <<up, deaths, objects, registered, refused, toFetch, toldVars>> /\ Static

(* EventController::Init.                                                  *)
EventControllerInit ==
  /\ ability = "COMMON_EVENT" /\ callbacks = "unset" /\ callbacks' = "set"
  /\ \E ok \in BOOLEAN : AddItemToSysAbilityListener(ok)
  /\ UNCHANGED <<isNeedReport, up, deaths, objects, registered, refused, toFetch, toldVars>>
  /\ Static

OnAddSystemAbility ==
  /\ ~Handling /\ notices # <<>> /\ Head(notices) = "add" /\ notices' = Tail(notices)
  /\ \E ok \in SUBSET Expected :
       LET accepted == IF up THEN ok ELSE {}
       IN  IF callbacks = "set"
             THEN Apply(InitObserverCbMap(Now, accepted))
                  /\ refused' = Expected \ accepted
             ELSE UNCHANGED <<objects, registered, toFetch, refused>>
  /\ UNCHANGED <<isNeedReport, sysAbilityListener, callbacks, up, deaths, toldVars>> /\ Static

(* Its end: each value is fetched, and in a step of its own reported; the  *)
(* callbacks come in between.                                              *)
FetchValue(e) ==
  /\ e \in toFetch /\ reading = NoValue /\ (e = "capturer" => "renderer" \notin toFetch)
  /\ toFetch' = toFetch \ {e} /\ reading' = e /\ readingOld' = ~up
  /\ UNCHANGED <<isNeedReport, sysAbilityListener, callbacks, up, deaths, notices, objects,
                 registered, refused, fresh, outdated>>
  /\ Static
ReportValue ==
  /\ reading # NoValue /\ reading' = NoValue /\ readingOld' = FALSE
  /\ fresh' = IF readingOld THEN fresh \ {reading} ELSE fresh \cup {reading}
  /\ outdated' = IF readingOld THEN outdated \cup {reading} ELSE outdated \ {reading}
  /\ UNCHANGED <<isNeedReport, sysAbilityListener, callbacks, up, deaths, notices, objects,
                 registered, refused, toFetch>>
  /\ Static

OnRemoveSystemAbility ==
  /\ ~Handling /\ notices # <<>> /\ Head(notices) = "remove" /\ notices' = Tail(notices)
  /\ \E ok \in {{}, Expected} \cup {{e} : e \in Expected} :
       IF callbacks = "set"
         THEN Apply(InitRemoveObserverCbMap(Now, ok))
         ELSE UNCHANGED <<objects, registered, toFetch>>
  /\ UNCHANGED <<isNeedReport, sysAbilityListener, callbacks, up, deaths, refused, toldVars>>
  /\ Static

(* ResSchedServiceAbility::OnStop.  ObserverManager empties its maps and   *)
(* gives up the HiSysEvent and telephony observers only; EventController   *)
(* unsubscribes.                                                           *)
ObserversStop ==
  /\ callbacks = "set" /\ callbacks' = "cleared" /\ sysAbilityListener' = FALSE
  /\ \E ok \in {{}, Expected} :
       Apply(IF ability = "COMMON_EVENT"
               THEN IF sysAbilityListener THEN StopEventSubscribers(Now, ok) ELSE Now
               ELSE DisableTelephonyObserver(DisableHiSysEventObserver(Now, ok), ok))
  /\ UNCHANGED <<isNeedReport, up, deaths, notices, refused, toldVars>> /\ Static

-----------------------------------------------------------------------------
(* The ability (external): it loses its registrations when it dies, and    *)
(* its values change; a registered observer is told of the change.         *)
AbilityDies ==
  /\ up /\ deaths < MaxDeaths /\ deaths' = deaths + 1
  /\ up' = FALSE /\ registered' = {} /\ fresh' = {} /\ outdated' = {}
  /\ readingOld' = (reading # NoValue)
  /\ notices' = IF sysAbilityListener THEN Append(notices, "remove") ELSE notices
  /\ UNCHANGED <<isNeedReport, sysAbilityListener, callbacks, objects, refused, toFetch, reading>>
  /\ Static
AbilityStarts ==
  /\ ~up /\ up' = TRUE
  /\ notices' = IF sysAbilityListener THEN Append(notices, "add") ELSE notices
  /\ UNCHANGED <<isNeedReport, sysAbilityListener, callbacks, deaths, objects,
                 registered, refused, toFetch, toldVars>>
  /\ Static
ValueChanges(e) ==
  /\ up /\ e \in Expected
  /\ fresh' = IF e \in registered THEN fresh \cup {e} ELSE fresh \ {e}
  /\ outdated' = IF e \in registered THEN outdated \ {e} ELSE outdated
  /\ readingOld' = (readingOld \/ reading = e)
  /\ UNCHANGED <<isNeedReport, sysAbilityListener, callbacks, up, deaths, notices,
                 objects, registered, refused, toFetch, reading>>
  /\ Static

ObserversNext ==
  \/ InitSysAbilityListener \/ EventControllerInit
  \/ OnAddSystemAbility \/ ReportValue \/ OnRemoveSystemAbility \/ ObserversStop
  \/ AbilityDies \/ AbilityStarts
  \/ \E e \in Stateful : FetchValue(e) \/ ValueChanges(e)

-----------------------------------------------------------------------------
(* Once the additions and removals of a running ability are handled, each  *)
(* observer is registered with it unless it was refused at the last        *)
(* addition, whatever registrations and unregistrations failed before: the *)
(* observers that keep their object on a failure are registered again each *)
(* time, those that are registered only when made are always given up.     *)
ObserversListen ==
  sysAbilityListener /\ up /\ notices = <<>> =>
    Expected \ registered \subseteq refused

(* The value of a registered observer was the last thing reported of it,   *)
(* or the addition under way will report it: none of its changes falls     *)
(* between registration and fetch.  One between the fetch and its report   *)
(* does: the older value is reported after the newer, until the next one.  *)
ObserversKnow ==
  registered \cap Stateful \subseteq fresh \cup toFetch \cup {reading} \cup outdated
============================================================================
