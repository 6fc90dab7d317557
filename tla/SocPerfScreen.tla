--------------------------- MODULE SocPerfScreen ---------------------------
(***************************************************************************)
(* The part of the SocPerf plugin that follows the screen: status, wake-up *)
(* with its timeout, display mode, orientation and performance mode.  The  *)
(* plugin turns requests of the SocPerf service on and off.  Handlers run  *)
(* on the dispatcher thread; the delayed tasks of the ffrt build run on    *)
(* other threads, under the same mutex, in any order.                      *)
(***************************************************************************)
EXTENDS Naturals, Sequences

CONSTANTS
  DeviceModes,   \* values of the payload of RES_TYPE_DEVICE_MODE_STATUS
  Orientations,  \* the same of RES_TYPE_DEVICE_ORIENTATION_STATUS
  MaxDelayed     \* bound of the model on delayed tasks and undelivered events

ASSUME ScreenAssumption == MaxDelayed \in Nat

VARIABLES
  ssFfrt,            \* is this the build with ffrt?
  screenStatus, performanceMode, deviceMode, deviceOrientation,
  ssOn,              \* requests that are on at the SocPerf service (external)
  offTasks,          \* delayed HandleScreenOff tasks
  wakeUpTimeOutTask, \* is the timeout task pending?
  wakeReports,       \* reports of WAKE_UP_TIMEOUT not yet dispatched
  powerOn,           \* PowerMgrClient::IsScreenOn (external)
  ssEvents           \* screen status events not yet dispatched (external)

ssVars == <<ssFfrt, screenStatus, performanceMode, deviceMode, deviceOrientation, ssOn,
            offTasks, wakeUpTimeOutTask, wakeReports, powerOn, ssEvents>>
ssTasks == <<offTasks, wakeUpTimeOutTask, wakeReports>>
ssEnv == <<ssFfrt, powerOn, ssEvents>>

Display == {"MODE_MAIN", "MODE_FULL", "GLOBAL_L", "GLOBAL_P"}
ScreenRequests ==
  Display \cup {"SCREEN_ON", "SCREEN_OFF", "ON_PERFORMANCE", "OFF_PERFORMANCE", "SWITCHED"}

ScreenTypeOK ==
  /\ ssFfrt \in BOOLEAN /\ wakeUpTimeOutTask \in BOOLEAN /\ powerOn \in BOOLEAN
  /\ screenStatus \in {"ON", "OFF"} /\ performanceMode \in {"NORMAL", "PERFORMANCE"}
  /\ deviceMode \in DeviceModes \cup {""} /\ deviceOrientation \in Orientations \cup {""}
  /\ ssOn \subseteq ScreenRequests
  /\ offTasks \in 0..MaxDelayed /\ wakeReports \in 0..MaxDelayed
  /\ ssEvents \in Seq({"ON", "OFF"}) /\ Len(ssEvents) <= MaxDelayed

ScreenInit ==
  /\ ssFfrt \in BOOLEAN
  /\ screenStatus = "ON" /\ performanceMode = "NORMAL"
  /\ deviceMode = "" /\ deviceOrientation = "" /\ ssOn = {}
  /\ offTasks = 0 /\ wakeUpTimeOutTask = FALSE /\ wakeReports = 0
  /\ powerOn = TRUE /\ ssEvents = <<>>

-----------------------------------------------------------------------------
(* Of two requests for one thing, one is turned off and the other on.      *)
Swapped(on, off, to) == (on \ {off}) \cup {to}

(* GLOBAL_FULL asks for the request of the orientation instead of all      *)
(* other display requests; with another orientation nothing changes.       *)
GlobalDisplay(on) ==
  CASE deviceOrientation' = "LANDSCAPE" -> (on \ Display) \cup {"GLOBAL_L"}
    [] deviceOrientation' = "PORTRAIT"  -> (on \ Display) \cup {"GLOBAL_P"}
    [] OTHER -> on

(* MODE_FULL and MODE_MAIN are added: nothing is turned off here.          *)
HandleScreenOn(on) ==
  LET plain == Swapped(on, "SCREEN_OFF", "SCREEN_ON")
      perf == IF performanceMode = "PERFORMANCE"
                THEN Swapped(plain, "OFF_PERFORMANCE", "ON_PERFORMANCE") ELSE plain
  IN  CASE deviceMode = "FULL" -> perf \cup {"MODE_FULL"}
        [] deviceMode = "MAIN" -> perf \cup {"MODE_MAIN"}
        [] deviceMode = "GLOBAL_FULL" -> GlobalDisplay(perf)
        [] OTHER -> perf

(* Mutant: the status is not read again when the task runs.                *)
HandleScreenOffBlind(on, status) ==
  LET plain == Swapped(on, "SCREEN_ON", "SCREEN_OFF") \ Display
  IN  IF performanceMode = "PERFORMANCE"
        THEN plain \cup {"OFF_PERFORMANCE"} ELSE plain

HandleScreenOff(on, status) ==
  LET plain == Swapped(on, "SCREEN_ON", "SCREEN_OFF") \ Display
  IN  CASE status # "OFF" -> on
        [] performanceMode = "PERFORMANCE" ->
             Swapped(plain, "ON_PERFORMANCE", "OFF_PERFORMANCE")
        [] OTHER -> plain

(* Mutant: the ffrt build forgets to submit the task.                      *)
HandleScreenStatusAnalysisNoTask ==
  /\ ssEvents # <<>>
  /\ screenStatus' = Head(ssEvents) /\ ssEvents' = Tail(ssEvents)
  /\ wakeUpTimeOutTask' = (wakeUpTimeOutTask /\ Head(ssEvents) # "ON")
  /\ UNCHANGED <<ssOn, offTasks, wakeReports, performanceMode, deviceMode,
                 deviceOrientation, ssFfrt, powerOn>>

(* SCREEN_ON only cancels the timeout of the wake-up; SCREEN_OFF turns the *)
(* requests off, five seconds later in the ffrt build.                     *)
HandleScreenStatusAnalysis ==
  /\ ssEvents # <<>>
  /\ screenStatus' = Head(ssEvents) /\ ssEvents' = Tail(ssEvents)
  /\ IF screenStatus' = "ON"
       THEN wakeUpTimeOutTask' = FALSE /\ UNCHANGED <<ssOn, offTasks>>
       ELSE /\ UNCHANGED wakeUpTimeOutTask
            /\ IF ssFfrt THEN /\ offTasks < MaxDelayed /\ offTasks' = offTasks + 1
                              /\ UNCHANGED ssOn
                         ELSE ssOn' = HandleScreenOff(ssOn, "OFF") /\ UNCHANGED offTasks
  /\ UNCHANGED <<wakeReports, performanceMode, deviceMode, deviceOrientation, ssFfrt,
                 powerOn>>

(* The delayed task of HandleScreenStatusAnalysis.                         *)
ScreenOffTask ==
  /\ offTasks > 0 /\ offTasks' = offTasks - 1
  /\ ssOn' = HandleScreenOff(ssOn, screenStatus)
  /\ UNCHANGED <<screenStatus, performanceMode, deviceMode, deviceOrientation,
                 wakeUpTimeOutTask, wakeReports, ssEnv>>

(* WAKE_UP_START replaces a pending timeout task by a new one.             *)
WakeUpStart ==
  /\ UNCHANGED <<screenStatus, performanceMode, deviceMode, deviceOrientation, offTasks,
                 wakeReports, ssEnv>>
  /\ ssOn' = HandleScreenOn(ssOn)
  /\ wakeUpTimeOutTask' = ssFfrt

WakeUpTimeOut ==
  /\ wakeUpTimeOutTask /\ wakeUpTimeOutTask' = FALSE
  /\ IF powerOn THEN UNCHANGED wakeReports
                ELSE wakeReports < MaxDelayed /\ wakeReports' = wakeReports + 1
  /\ UNCHANGED <<screenStatus, performanceMode, deviceMode, deviceOrientation, offTasks,
                 ssOn, ssEnv>>

HandleWakeUpTimeOut ==
  /\ wakeReports > 0 /\ wakeReports' = wakeReports - 1
  /\ ssOn' = HandleScreenOff(ssOn, screenStatus)
  /\ UNCHANGED <<screenStatus, performanceMode, deviceMode, deviceOrientation, offTasks,
                 wakeUpTimeOutTask, ssEnv>>

HandleSceenModeBoost ==
  LET boosted == CASE screenStatus # "ON" -> ssOn
                   [] deviceMode' = "FULL" -> (ssOn \ Display) \cup {"MODE_FULL"}
                   [] deviceMode' = "MAIN" -> (ssOn \ Display) \cup {"MODE_MAIN"}
                   [] deviceMode' = "GLOBAL_FULL" -> GlobalDisplay(ssOn)
                   [] OTHER -> ssOn
  IN  ssOn' = IF deviceMode' \in {"FULL", "MAIN", "GLOBAL_FULL"}
                THEN boosted \cup {"SWITCHED"} ELSE boosted

(* The mode is stored whatever its type is and whether it is entered or    *)
(* left; only the display mode type touches the requests of the screen.    *)
HandleDeviceModeStatusChange(isDisplay, mode) ==
  /\ deviceMode' = mode
  /\ UNCHANGED <<screenStatus, performanceMode, deviceOrientation, ssTasks, ssEnv>>
  /\ IF isDisplay THEN HandleSceenModeBoost ELSE UNCHANGED ssOn

HandleSceenOrientationBoost ==
  ssOn' = IF deviceMode = "GLOBAL_FULL" /\ screenStatus = "ON"
            THEN GlobalDisplay(ssOn) ELSE ssOn

(* Mutant: the orientation is stored as the device mode.                   *)
HandleDeviceOrientationStatusChangeMode(isOrientation, orientation) ==
  /\ deviceMode' = orientation
  /\ UNCHANGED <<screenStatus, performanceMode, deviceOrientation, ssTasks, ssEnv, ssOn>>

HandleDeviceOrientationStatusChange(isOrientation, orientation) ==
  /\ deviceOrientation' = orientation
  /\ UNCHANGED <<screenStatus, performanceMode, deviceMode, ssTasks, ssEnv>>
  /\ IF isOrientation THEN HandleSceenOrientationBoost ELSE UNCHANGED ssOn

HandlePerformanceModeChange(mode) ==
  LET none == ssOn \ {"ON_PERFORMANCE", "OFF_PERFORMANCE"}
  IN  /\ performanceMode' = mode
      /\ ssOn' = CASE mode = "PERFORMANCE" /\ screenStatus = "ON" ->
                        none \cup {"ON_PERFORMANCE"}
                   [] mode = "PERFORMANCE" /\ screenStatus = "OFF" ->
                        none \cup {"OFF_PERFORMANCE"}
                   [] mode = "NORMAL" /\ screenStatus = "ON" ->
                        Swapped(none, "SCREEN_OFF", "SCREEN_ON")
                   [] OTHER -> Swapped(none, "SCREEN_ON", "SCREEN_OFF")
      /\ UNCHANGED <<screenStatus, deviceMode, deviceOrientation, ssTasks, ssEnv>>

(* External: the power service turns the screen on or off and reports it.  *)
ScreenTurns ==
  /\ Len(ssEvents) < MaxDelayed
  /\ powerOn' = ~powerOn
  /\ ssEvents' = Append(ssEvents, IF powerOn' THEN "ON" ELSE "OFF")
  /\ UNCHANGED <<ssFfrt, screenStatus, performanceMode, deviceMode, deviceOrientation, ssOn,
                 ssTasks>>

ScreenNext ==
  \/ HandleScreenStatusAnalysis
  \/ ScreenOffTask
  \/ WakeUpStart
  \/ WakeUpTimeOut
  \/ HandleWakeUpTimeOut
  \/ \E d \in BOOLEAN, m \in DeviceModes : HandleDeviceModeStatusChange(d, m)
  \/ \E d \in BOOLEAN, o \in Orientations : HandleDeviceOrientationStatusChange(d, o)
  \/ \E m \in {"NORMAL", "PERFORMANCE"} : HandlePerformanceModeChange(m)
  \/ ScreenTurns

ScreenSpec == ScreenInit /\ [][ScreenNext]_ssVars

-----------------------------------------------------------------------------
(* The requests never contradict each other, although five handlers and    *)
(* two delayed tasks change them: not on and off at once, in either mode,  *)
(* not landscape and portrait at once, and those of performance mode are   *)
(* only on in performance mode (HandleScreenOn, HandleScreenOff, which     *)
(* reads screenStatus_ again when its delay is over, and                   *)
(* HandlePerformanceModeChange).                                           *)
ScreenRequestsAgree ==
  /\ ~ {"SCREEN_ON", "SCREEN_OFF"} \subseteq ssOn
  /\ ~ {"ON_PERFORMANCE", "OFF_PERFORMANCE"} \subseteq ssOn
  /\ ~ {"GLOBAL_L", "GLOBAL_P"} \subseteq ssOn
  /\ performanceMode = "NORMAL" => ssOn \cap {"ON_PERFORMANCE", "OFF_PERFORMANCE"} = {}

(* In the ffrt build a screen that is reported off ends in the requests of *)
(* a screen that is off unless it is reported on: also when a wake-up that *)
(* never got the screen on, or a change of mode, turned them over.         *)
ScreenOffApplied ==
  ssFfrt /\ screenStatus = "OFF" ~> (screenStatus = "ON" \/ "SCREEN_OFF" \in ssOn)
=============================================================================
