----------------------------- MODULE CommonEvents -----------------------------
(***************************************************************************)
(* EventController: the subscription to common events, which comes and     *)
(* goes with the common event service, and the table of what each event is *)
(* reported as.  The listener keeps four subscribers, made and dropped     *)
(* together; one resource type is watched, with the subscriber that hears  *)
(* its events.  Every behaviour watches one type of Watched.               *)
(***************************************************************************)
EXTENDS Naturals, Sequences

CONSTANTS
  Watched,      \* resource types some behaviour watches
  MaxSubs,      \* bound: subscriptions made
  MaxCesDeaths, \* bound: deaths of the common event service
  MaxInbox      \* bound: events on their way to a subscriber

ASSUME CommonEventsAssumption ==
  MaxSubs \in Nat /\ MaxCesDeaths \in Nat /\ MaxInbox \in Nat

(* What OnReceiveEvent and the handlers it calls report.                   *)
Report(type, value) == [type |-> type, value |-> value]
HandlePkgCommonEvent == [
  PACKAGE_REMOVED |-> Report("APP_INSTALL_UNINSTALL", "APP_UNINSTALL"),
  PACKAGE_INSTALLATION_STARTED |-> Report("APP_INSTALL_UNINSTALL", "APP_INSTALL_START"),
  PACKAGE_ADDED |-> Report("APP_INSTALL_UNINSTALL", "APP_INSTALL_END"),
  PACKAGE_CHANGED |-> Report("APP_INSTALL_UNINSTALL", "APP_CHANGED"),
  PACKAGE_REPLACED |-> Report("APP_INSTALL_UNINSTALL", "APP_REPLACED"),
  PACKAGE_FULLY_REMOVED |-> Report("APP_INSTALL_UNINSTALL", "APP_FULLY_REMOVED"),
  BUNDLE_REMOVED |-> Report("APP_INSTALL_UNINSTALL", "BUNDLE_REMOVED")]
ReceivedEvent == [
  SCREEN_ON |-> Report("SCREEN_STATUS", "SCREEN_ON"),
  SCREEN_OFF |-> Report("SCREEN_STATUS", "SCREEN_OFF"),
  CONNECTIVITY_CHANGE |-> Report("WIFI_CONNECT_STATE_CHANGE", "code"),
  USER_SWITCHED |-> Report("USER_SWITCH", "code"),
  USER_REMOVED |-> Report("USER_REMOVE", "code"),
  UNLOCK_SCREEN |-> Report("SCREEN_LOCK", "SCREEN_UNLOCK"),
  LOCK_SCREEN |-> Report("SCREEN_LOCK", "SCREEN_LOCK"),
  CALL_STATE_CHANGED |-> Report("CALL_STATE_CHANGED", "code"),
  DATA_SHARE_READY |-> Report("OOBE_MANAGER", "ready")]
handleEvent == [
  TIMEZONE_CHANGED |-> Report("TIMEZONE_CHANGED", "TIMEZONE_CHANGED"),
  TIME_CHANGED |-> Report("TIME_CHANGED", "code"),
  NITZ_TIME_CHANGED |-> Report("NITZ_TIME_CHANGED", "code"),
  NITZ_TIMEZONE_CHANGED |-> Report("NITZ_TIMEZONE_CHANGED", "code"),
  CHARGING |-> Report("CHARGING_DISCHARGING", "EVENT_CHARGING"),
  DISCHARGING |-> Report("CHARGING_DISCHARGING", "EVENT_DISCHARGING"),
  USB_DEVICE_ATTACHED |-> Report("USB_DEVICE", "USB_DEVICE_ATTACHED"),
  USB_DEVICE_DETACHED |-> Report("USB_DEVICE", "USB_DEVICE_DETACHED"),
  WIFI_P2P_STATE_CHANGED |-> Report("WIFI_P2P_STATE_CHANGED", "code"),
  POWER_SAVE_MODE_CHANGED |-> Report("POWER_MODE_CHANGED", "code"),
  WIFI_POWER_STATE |-> Report("WIFI_POWER_STATE_CHANGE", "code")]
handleOtherEvent == [
  BOOT_COMPLETED |-> Report("BOOT_COMPLETED", "START_BOOT_COMPLETED"),
  POWER_CONNECTED |-> Report("DEVICE_MODE_STATUS", "powerConnected"),
  POWER_DISCONNECTED |-> Report("DEVICE_MODE_STATUS", "powerDisConnected"),
  CAMERA_STATUS |-> Report("REPORT_CAMERA_STATE", "cameraState"),
  GAME_STATUS |-> Report("REPORT_GAME_STATE_CHANGE", "type"),
  CONFIG_UPDATED |-> Report("PARAM_UPDATE_EVENT", "code"),
  USER_UNLOCKED |-> Report("USER_UNLOCKED", "type")]
handleLeftEvent == [
  USER_SLEEP_STATE_CHANGED |-> Report("USER_NOT_CARE_CHARGE_SLEEP", "isSleep"),
  BATTERY_CHANGED |-> Report("REPORT_BATTERY_STATUS_CHANGE", "soc"),
  BATTERY_LOW |-> Report("BATTERY_LOW", "1"),
  BATTERY_OKAY |-> Report("BATTERY_LOW", "0"),
  MEDIA_CTRL_EVENT |-> Report("MEDIA_CTRL_EVENT", "0"),
  AUDIO_FOCUS_CHANGE |-> Report("AUDIO_FOCUS_CHANGE_EVENT", "0"),
  CLONE |-> Report("OOBE_CLONE", "cloneState"),
  USB_STATE |-> Report("USB_DEVICE", "USB_DEVICE_STATE"),
  CLONE_STATE |-> Report("DATA_CLONE_STATE", "cloneState"),
  NEARLINK_HOST_STATE_UPDATE |-> Report("NEARLINK_SERVICE_EVENT", "NL_SWITCH_STATE")]

(* These are looked at before they are reported: a network that is not     *)
(* Wi-Fi, a command that is not OnPlay, a hint or a clone state out of     *)
(* range is dropped.                                                       *)
HandleConnectivityChange(valid) == valid
HandleMediaCtrlEvent(valid) == valid
HandleAudioFocusChangeEvent(valid) == valid
HandleCloneStateEvent(valid) == valid
Accepted(e) ==
  CASE e.action = "CONNECTIVITY_CHANGE" -> HandleConnectivityChange(e.valid)
    [] e.action = "MEDIA_CTRL_EVENT" -> HandleMediaCtrlEvent(e.valid)
    [] e.action = "AUDIO_FOCUS_CHANGE" -> HandleAudioFocusChangeEvent(e.valid)
    [] e.action = "CLONE_STATE" -> HandleCloneStateEvent(e.valid)
    [] OTHER -> TRUE

EventTables == <<HandlePkgCommonEvent, ReceivedEvent, handleEvent, handleOtherEvent,
                 handleLeftEvent>>
CommonActions == UNION {DOMAIN EventTables[i] : i \in DOMAIN EventTables}
ReportOf(action) ==
  LET i == CHOOSE i \in DOMAIN EventTables : action \in DOMAIN EventTables[i]
  IN  EventTables[i][action]
EventsOf(type) ==
  [action : {a \in CommonActions : ReportOf(a).type = type}, valid : BOOLEAN]
AllReports == {ReportOf(a) : a \in CommonActions}

VARIABLES
  watched,
  ceState,       \* of the controller: it starts once and stops once
  cesUp, cesDeaths,
  cesNotices,    \* notices of the service manager on their way to the listener
  subCount, subscriber,   \* subscriptions made; the one the listener knows, or 0
  liveSubs,      \* those the common event service serves
  inbox,         \* events on their way, for each subscription
  published,     \* the last event worth a report, as it is reported
  eventHeard,    \* the last report
  eventMissed,   \* history: it was published when nobody listened
  crossed,       \* history: a notice was handled when a newer one had been sent,
                 \* or after the controller had dropped the subscribers
  subFailed,     \* history: the last subscription was refused
  eventLate      \* history: the last report is of a subscriber the listener has dropped

commonEventVars == <<watched, ceState, cesUp, cesDeaths, cesNotices, subCount, subscriber,
                     liveSubs, inbox, published, eventHeard, eventMissed, crossed, subFailed,
                     eventLate>>

NothingYet == Report("none", "none")
CommonEventsTypeOK ==
  /\ watched \in Watched /\ ceState \in {"new", "on", "stopping", "off"}
  /\ cesUp \in BOOLEAN /\ cesDeaths \in 0..MaxCesDeaths
  /\ cesNotices \in Seq({"add", "remove"})
  /\ subCount \in 0..MaxSubs /\ subscriber \in 0..MaxSubs /\ liveSubs \subseteq 1..MaxSubs
  /\ inbox \in [1..MaxSubs -> Seq(AllReports)]
  /\ {published, eventHeard} \subseteq AllReports \cup {NothingYet}
  /\ {eventMissed, crossed, subFailed, eventLate} \subseteq BOOLEAN

CommonEventsInit ==
  /\ watched \in Watched /\ ceState = "new" /\ cesUp \in BOOLEAN /\ cesDeaths = 0
  /\ cesNotices = <<>> /\ subCount = 0 /\ subscriber = 0 /\ liveSubs = {}
  /\ inbox = [s \in 1..MaxSubs |-> <<>>]
  /\ published = NothingYet /\ eventHeard = NothingYet
  /\ eventMissed = FALSE /\ crossed = FALSE /\ subFailed = FALSE
  /\ eventLate = FALSE

cesVars == <<cesUp, cesDeaths>>
reportVars == <<published, eventHeard, eventMissed, eventLate>>
subVars == <<subCount, subscriber, liveSubs, inbox, crossed, subFailed>>

(* A new listener is told of a service that is up.  Without the            *)
(* subscription there is no listener.                                      *)
ControllerInit(subscribes) ==
  /\ ceState = "new" /\ ceState' = IF subscribes THEN "on" ELSE "off"
  /\ cesNotices' = IF subscribes /\ cesUp THEN <<"add">> ELSE <<>>
  /\ UNCHANGED <<watched, cesVars, subVars, reportVars>>

(* Stop: the listener unsubscribes, and then is unsubscribed itself.       *)
(* Mutant: the subscriber is forgotten, not unsubscribed.                  *)
ListenerStopForgets ==
  /\ ceState = "on" /\ ceState' = "stopping" /\ subscriber' = 0
  /\ UNCHANGED <<watched, cesVars, cesNotices, subCount, liveSubs, inbox, crossed, subFailed,
                 reportVars>>
ListenerStop ==
  /\ ceState = "on" /\ ceState' = "stopping"
  /\ liveSubs' = liveSubs \ {subscriber} /\ subscriber' = 0
  /\ UNCHANGED <<watched, cesVars, cesNotices, subCount, inbox, crossed, subFailed, reportVars>>
ControllerStop ==
  /\ ceState = "stopping" /\ ceState' = "off"
  /\ UNCHANGED <<watched, cesVars, cesNotices, subVars, reportVars>>

Crossing == Len(cesNotices) > 1 \/ ceState \in {"stopping", "off"}
(* The notices, each handled whole under subscriberMutex_.  The subscriber *)
(* is replaced whether or not it is accepted.                              *)
OnCesAdded(accepted) ==
  /\ cesNotices # <<>> /\ Head(cesNotices) = "add" /\ cesNotices' = Tail(cesNotices)
  /\ subCount < MaxSubs /\ subCount' = subCount + 1 /\ subscriber' = subCount'
  /\ accepted => cesUp
  /\ liveSubs' = IF accepted THEN liveSubs \cup {subCount'} ELSE liveSubs
  /\ subFailed' = ~accepted /\ crossed' = (crossed \/ Crossing)
  /\ UNCHANGED <<watched, ceState, cesVars, inbox, reportVars>>
OnCesRemoved ==
  /\ cesNotices # <<>> /\ Head(cesNotices) = "remove" /\ cesNotices' = Tail(cesNotices)
  /\ subscriber' = 0 /\ crossed' = (crossed \/ Crossing)
  /\ UNCHANGED <<watched, ceState, cesVars, subCount, liveSubs, inbox, subFailed, reportVars>>

(* Reported once for every subscription that hears it.                     *)
OnReceiveCommonEvent(s) ==
  /\ inbox[s] # <<>>
  /\ eventHeard' = Head(inbox[s]) /\ inbox' = [inbox EXCEPT ![s] = Tail(@)]
  /\ eventLate' = (s # subscriber)
  /\ UNCHANGED <<watched, ceState, cesVars, cesNotices, subCount, subscriber, liveSubs,
                 crossed, subFailed, published, eventMissed>>

(* The world (external).  An event that is not accepted changes nothing.   *)
EventPublished(e) ==
  /\ e \in EventsOf(watched) /\ Accepted(e)
  /\ \A s \in liveSubs : Len(inbox[s]) < MaxInbox
  /\ published' = ReportOf(e.action)
  /\ inbox' = [s \in DOMAIN inbox |->
                 IF cesUp /\ s \in liveSubs THEN Append(inbox[s], ReportOf(e.action)) ELSE inbox[s]]
  /\ eventMissed' = ~(cesUp /\ liveSubs # {})
  /\ UNCHANGED <<watched, ceState, cesVars, cesNotices, subCount, subscriber, liveSubs,
                 crossed, subFailed, eventHeard, eventLate>>
Notify(n) == cesNotices' = IF ceState \in {"on", "stopping"} THEN Append(cesNotices, n) ELSE cesNotices
CesDies ==
  /\ cesUp /\ cesDeaths < MaxCesDeaths
  /\ cesUp' = FALSE /\ cesDeaths' = cesDeaths + 1 /\ liveSubs' = {} /\ Notify("remove")
  /\ UNCHANGED <<watched, ceState, subCount, subscriber, inbox, crossed, subFailed, reportVars>>
CesComesUp ==
  /\ ~cesUp /\ cesUp' = TRUE /\ Notify("add")
  /\ UNCHANGED <<watched, ceState, cesDeaths, subVars, reportVars>>

CommonEventsNext ==
  \/ \E subscribes \in BOOLEAN : ControllerInit(subscribes)
  \/ ListenerStop \/ ControllerStop
  \/ \E accepted \in BOOLEAN : OnCesAdded(accepted)
  \/ OnCesRemoved
  \/ \E s \in 1..MaxSubs : OnReceiveCommonEvent(s)
  \/ \E e \in EventsOf(watched) : EventPublished(e)
  \/ CesDies \/ CesComesUp

CommonEventsSpec == CommonEventsInit /\ [][CommonEventsNext]_commonEventVars

-----------------------------------------------------------------------------
(* While the controller runs and has no notice to handle, the service has  *)
(* one subscription, the one the listener knows and can end, or none when  *)
(* it is down or refused; after Stop it has none.  A notice that crosses a *)
(* newer one or Stop can leave a subscription nobody knows: every event is *)
(* then reported twice, or reported after Stop.                            *)
SubscriptionKnown ==
  ~crossed =>
    /\ liveSubs \subseteq {subscriber}
    /\ ceState = "on" /\ cesNotices = <<>> /\ cesUp => subFailed \/ subscriber \in liveSubs
    /\ ceState = "off" => liveSubs = {}

(* When all events have been handled, the plugins have heard of the last   *)
(* one, unless nobody listened when it was published, or an older event    *)
(* came later through a subscriber of the time before a restart.           *)
LastEventHeard ==
  (\A s \in DOMAIN inbox : inbox[s] = <<>>) => eventHeard = published \/ eventMissed \/ eventLate

CommonEventsRight == SubscriptionKnown /\ LastEventHeard
=============================================================================
