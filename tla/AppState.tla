------------------------------ MODULE AppState ------------------------------
(***************************************************************************)
(* What the service knows of the applications: the foreground processes    *)
(* ResSchedMgr keeps for its permission checks, fed by the callbacks of    *)
(* RmsApplicationStateObserver and by the list it asks for when the        *)
(* application manager appears.                                            *)
(*                                                                         *)
(* The application manager is external: it keeps the state of every        *)
(* process and owes the observer one notice per change, in order.          *)
(***************************************************************************)
EXTENDS Naturals, FiniteSets

CONSTANTS
  Pids,              \* application processes, each of a uid of its own
  InvalidPids,       \* those whose data the validation refuses
  MaxManagerDeaths   \* bound: deaths of the application manager

ASSUME AppStateAssumption ==
  /\ InvalidPids \subseteq Pids
  /\ MaxManagerDeaths \in Nat

AppStates == {"APP_STATE_READY", "APP_STATE_FOREGROUND", "APP_STATE_FOCUS",
              "APP_STATE_BACKGROUND", "APP_STATE_TERMINATED"}
NoNotice == "no_notice"

VARIABLES
  appState,       \* state of each process (external)
  managerUp, managerDeaths,
  subscribed,     \* the observer is registered with the application manager
  appNotice,      \* change of a process the observer is not told of yet
  fgapplist,      \* list InitForegroundAppInfo holds, {} when it runs not
  initializing,   \* InitForegroundAppInfo is between its read and its merge
  foregroundPids, \* ResSchedMgr::foregroundPids_
  heard,          \* history: processes whose last change the service was told
  listCrossed,    \* history: those it was told had left the foreground while
                  \* the list not yet merged says they are there
  dispatched      \* last report handed to PluginMgr and SceneRecognizerMgr

managerVars == <<appState, managerUp, managerDeaths, subscribed, appNotice,
                 fgapplist, initializing, foregroundPids, heard, listCrossed>>
appStateVars == <<managerVars, dispatched>>

AppReports == {"none", "APP_STATE_CHANGE", "PROCESS_STATE_CHANGE",
  "ON_APP_STATE_CHANGED", "KEY_PERF_SCENE", "PROCESS_PRE_FOREGROUND_CHANGE",
  "APP_STOPPED", "PAGE_CHANGE"}

AppStateTypeOK ==
  /\ appState \in [Pids -> AppStates] /\ managerUp \in BOOLEAN
  /\ managerDeaths \in 0..MaxManagerDeaths
  /\ subscribed \in BOOLEAN /\ appNotice \in [Pids -> AppStates \cup {NoNotice}]
  /\ fgapplist \subseteq Pids /\ initializing \in BOOLEAN
  /\ foregroundPids \subseteq Pids /\ heard \subseteq Pids /\ listCrossed \subseteq Pids
  /\ dispatched \in AppReports

(* The service starts beside a running application manager.                *)
AppStateInit ==
  /\ appState = [p \in Pids |-> "APP_STATE_TERMINATED"] /\ managerUp = TRUE
  /\ managerDeaths = 0 /\ subscribed = FALSE
  /\ appNotice = [p \in Pids |-> NoNotice]
  /\ fgapplist = {} /\ initializing = FALSE /\ foregroundPids = {}
  /\ heard = {} /\ listCrossed = {} /\ dispatched = "none"

-----------------------------------------------------------------------------
(* ResSchedMgr.  ReportData dispatches to the plugins and the recognizers. *)
ReportDataInner(report) == dispatched' = report

Foreground(s) == s \in {"APP_STATE_FOREGROUND", "APP_STATE_FOCUS"}

(* Mutant: a process that ends in the foreground stays there.              *)
OnApplicationStateChangeNoEnd(state, p) ==
  foregroundPids' =
    IF state = "APP_STATE_FOREGROUND" THEN foregroundPids \cup {p}
    ELSE IF state = "APP_STATE_BACKGROUND" THEN foregroundPids \ {p}
    ELSE foregroundPids
(* OnApplicationStateChange: READY and FOCUS change nothing.               *)
OnApplicationStateChange(state, p) ==
  foregroundPids' =
    IF state = "APP_STATE_FOREGROUND" THEN foregroundPids \cup {p}
    ELSE IF state \in {"APP_STATE_BACKGROUND", "APP_STATE_TERMINATED"}
      THEN foregroundPids \ {p}
    ELSE foregroundPids
ReportAppStateInProcess(state, p) == OnApplicationStateChange(state, p)
ReportProcessStateInProcess(state, p) == OnApplicationStateChange(state, p)

IsForegroundApp(p) == p \in foregroundPids

(* GetForegroundApplications, and later the merge under the lock.  An error *)
(* or a missing manager ends it before the merge.                          *)
InitForegroundAppInfo ==
  /\ managerUp /\ ~initializing
  /\ initializing' = TRUE
  /\ fgapplist' = {p \in Pids : Foreground(appState[p])}
  /\ UNCHANGED <<appState, managerUp, managerDeaths, subscribed, appNotice,
                 foregroundPids, heard, listCrossed, dispatched>>
MergeForegroundApps ==
  /\ initializing
  /\ initializing' = FALSE /\ fgapplist' = {}
  /\ foregroundPids' = foregroundPids \cup fgapplist
  /\ LET right == {p \in fgapplist : Foreground(appState[p]) /\ appNotice[p] = NoNotice}
     IN  heard' = heard \cup right /\ listCrossed' = listCrossed \ right
  /\ UNCHANGED <<appState, managerUp, managerDeaths, subscribed, appNotice,
                 dispatched>>

-----------------------------------------------------------------------------
(* RmsApplicationStateObserver: the callbacks with a change of state.      *)
ValidateAppStateData(p) == p \notin InvalidPids
ValidateProcessData(p) == p \notin InvalidPids

(* The service is told of a change.                                        *)
Told(p, state) ==
  IF state \in {"APP_STATE_FOREGROUND", "APP_STATE_BACKGROUND", "APP_STATE_TERMINATED"}
    THEN /\ heard' = heard \cup {p}
         /\ listCrossed' = IF state # "APP_STATE_FOREGROUND" /\ p \in fgapplist
                         THEN listCrossed \cup {p} ELSE listCrossed \ {p}
    ELSE UNCHANGED <<heard, listCrossed>>

OnApplicationStateChanged(p) ==
  /\ ReportDataInner("APP_STATE_CHANGE")
  /\ ReportAppStateInProcess(appNotice[p], p)
OnAppStateChanged(p) ==
  /\ ReportDataInner("ON_APP_STATE_CHANGED")
  /\ ReportAppStateInProcess(appNotice[p], p)
OnProcessStateChanged(p) ==
  /\ ReportDataInner("PROCESS_STATE_CHANGE")
  /\ ReportProcessStateInProcess(appNotice[p], p)
(* PROCESS_DIED has the number of APP_STATE_TERMINATED.                    *)
OnProcessDied(p) ==
  /\ appNotice[p] = "APP_STATE_TERMINATED"
  /\ ReportDataInner("PROCESS_STATE_CHANGE")
  /\ ReportProcessStateInProcess("APP_STATE_TERMINATED", p)

Notified(p) ==
  /\ appNotice[p] # NoNotice
  /\ appNotice' = [appNotice EXCEPT ![p] = NoNotice]
  /\ \/ /\ ~ValidateAppStateData(p)
        /\ UNCHANGED <<foregroundPids, heard, listCrossed, dispatched>>
     \/ /\ ValidateAppStateData(p) /\ ValidateProcessData(p)
        /\ \/ OnApplicationStateChanged(p)
           \/ OnAppStateChanged(p)
           \/ OnProcessStateChanged(p)
           \/ OnProcessDied(p)
        /\ Told(p, appNotice[p])
  /\ UNCHANGED <<appState, managerUp, managerDeaths, subscribed, fgapplist,
                 initializing>>

(* The callbacks that only report.                                         *)
OnForegroundApplicationChanged == ReportDataInner("APP_STATE_CHANGE")
OnProcessCreated == ReportDataInner("PROCESS_STATE_CHANGE")
OnAppCacheStateChanged == ReportDataInner("KEY_PERF_SCENE")
OnProcessPreForegroundChanged == ReportDataInner("PROCESS_PRE_FOREGROUND_CHANGE")
OnAppStopped == ReportDataInner("APP_STOPPED")
OnPageShow == ReportDataInner("PAGE_CHANGE")
OnlyReported(p) ==
  /\ subscribed /\ ValidateAppStateData(p)
  /\ \/ OnForegroundApplicationChanged \/ OnProcessCreated
     \/ OnAppCacheStateChanged \/ OnProcessPreForegroundChanged
     \/ OnAppStopped \/ OnPageShow
  /\ UNCHANGED managerVars

-----------------------------------------------------------------------------
(* The application manager (external).                                     *)
NextAppState(s) ==
  CASE s = "APP_STATE_TERMINATED" -> {"APP_STATE_READY"}
    [] s = "APP_STATE_READY" -> {"APP_STATE_FOREGROUND", "APP_STATE_TERMINATED"}
    [] s = "APP_STATE_FOREGROUND" -> {"APP_STATE_FOCUS", "APP_STATE_BACKGROUND",
                                      "APP_STATE_TERMINATED"}
    [] s = "APP_STATE_FOCUS" -> {"APP_STATE_FOREGROUND", "APP_STATE_BACKGROUND",
                                 "APP_STATE_TERMINATED"}
    [] OTHER -> {"APP_STATE_FOREGROUND", "APP_STATE_TERMINATED"}
AppChanges(p) ==
  /\ managerUp /\ appNotice[p] = NoNotice
  /\ \E s \in NextAppState(appState[p]) :
       /\ appState' = [appState EXCEPT ![p] = s]
       /\ appNotice' = IF subscribed THEN [appNotice EXCEPT ![p] = s] ELSE appNotice
  /\ heard' = IF subscribed THEN heard ELSE heard \ {p}
  /\ UNCHANGED <<managerUp, managerDeaths, subscribed, fgapplist, initializing,
                 foregroundPids, listCrossed, dispatched>>
ManagerDies ==
  /\ managerUp /\ managerDeaths < MaxManagerDeaths
  /\ managerUp' = FALSE /\ managerDeaths' = managerDeaths + 1 /\ subscribed' = FALSE
  /\ appState' = [p \in Pids |-> "APP_STATE_TERMINATED"]
  /\ appNotice' = [p \in Pids |-> NoNotice] /\ heard' = {} /\ listCrossed' = {}
  /\ UNCHANGED <<fgapplist, initializing, foregroundPids, dispatched>>
ManagerStarts ==
  /\ ~managerUp /\ managerUp' = TRUE
  /\ UNCHANGED <<appState, managerDeaths, subscribed, appNotice, fgapplist,
                 initializing, foregroundPids, heard, listCrossed, dispatched>>
SubscribesAppState ==
  /\ managerUp /\ ~subscribed /\ subscribed' = TRUE
  /\ UNCHANGED <<appState, managerUp, managerDeaths, appNotice, fgapplist,
                 initializing, foregroundPids, heard, listCrossed, dispatched>>

AppStateNext ==
  \/ InitForegroundAppInfo \/ MergeForegroundApps
  \/ \E p \in Pids :
       \/ Notified(p) \/ OnlyReported(p) \/ AppChanges(p)
  \/ ManagerDies \/ ManagerStarts \/ SubscribesAppState

-----------------------------------------------------------------------------
(* The permission check of a foreground-only type knows every process      *)
(* whose last change reached the service (foregroundPids_): one in the     *)
(* foreground counts as such, and one that counts is there.  Exempt from   *)
(* the second half is a process that left while InitForegroundAppInfo held *)
(* an older list with it: the merge puts it back, and it counts until it   *)
(* is heard of again.                                                      *)
ForegroundKnown ==
  \A p \in heard \ InvalidPids :
    appNotice[p] = NoNotice =>
      /\ Foreground(appState[p]) => IsForegroundApp(p)
      /\ IsForegroundApp(p) => Foreground(appState[p]) \/ p \in listCrossed
=============================================================================
