---------------------------- MODULE StartupScene ----------------------------
(***************************************************************************)
(* AppStartupSceneRec: the continuous startup scene, recognized from the   *)
(* abilities RmsApplicationStateObserver sees created, and ended by a      *)
(* delayed task that every start cancels and submits again.                *)
(***************************************************************************)
EXTENDS Naturals, FiniteSets

CONSTANTS
  StartApps,                 \* applications, each of a uid of its own
  MAX_CONTINUOUS_START_NUM,  \* starts that make a continuous startup
  MAX_NO_REPEAT_APP_COUNT,   \* different uids among them
  MaxTasks                   \* bound: timer tasks alive at once

ASSUME StartupAssumption ==
  /\ MAX_CONTINUOUS_START_NUM \in Nat \ {0}
  /\ MAX_NO_REPEAT_APP_COUNT \in Nat \ {0}
  /\ MaxTasks \in Nat \ {0}

VARIABLES
  sceneReport,    \* last report of this part
  appStartCount, startPkgs, startUidSet,
  isReportContinuousStartup,
  sinceStart,     \* "short", or "long": the timeout passed since a start
  exitTask,       \* exitContinuousStartupTask: "null", or "set" to the newest
  newestTask,     \* newest timer task: "none", "waiting" or "running"
  orphanTasks,    \* older tasks that wait and that no handle names
  runningTasks,   \* older tasks that began and wait for mutex_
  startTasks,     \* RecordIsContinuousStartup calls submitted to ffrt
  queueUp,        \* ffrtQueue_ exists
  crashed         \* the process ended on a null ffrtQueue_

recordVars == <<appStartCount, startPkgs, startUidSet, isReportContinuousStartup>>
timerVars == <<sinceStart, exitTask, newestTask, orphanTasks, runningTasks, queueUp, crashed>>
startupVars == <<recordVars, timerVars, sceneReport, startTasks>>

StartupTypeOK ==
  /\ sceneReport \in {"none", "ABILITY_STATE_CHANGE", "EXTENSION_STATE_CHANGE",
                      "START_CONTINUOUS_STARTUP", "STOP_CONTINUOUS_STARTUP"}
  /\ appStartCount \in Nat /\ startPkgs \in 0..MAX_CONTINUOUS_START_NUM + 1
  /\ startUidSet \subseteq StartApps /\ isReportContinuousStartup \in BOOLEAN
  /\ sinceStart \in {"short", "long"} /\ exitTask \in {"null", "set"}
  /\ newestTask \in {"none", "waiting", "running"}
  /\ orphanTasks \in 0..MaxTasks /\ runningTasks \in 0..MaxTasks
  /\ startTasks \subseteq StartApps /\ queueUp \in BOOLEAN /\ crashed \in BOOLEAN

StartupInit ==
  /\ sceneReport = "none"
  /\ appStartCount = 0 /\ startPkgs = 0 /\ startUidSet = {}
  /\ isReportContinuousStartup = FALSE /\ sinceStart = "long"
  /\ exitTask = "null" /\ newestTask = "none" /\ orphanTasks = 0
  /\ runningTasks = 0 /\ startTasks = {} /\ queueUp = TRUE /\ crashed = FALSE

-----------------------------------------------------------------------------
(* An ability or extension: a UI extension is reported as an ability of    *)
(* the state extensionStateToAbilityState_ gives, an inner notice of an    *)
(* ability not at all.  A created ability is a start.                      *)
ReportScene(report) == sceneReport' = report
AbilityKinds == {"ability", "ui_extension", "extension"}
AbilityStates == {"create", "other", "unmapped"}
IsUIExtensionAbilityStateChanged(kind, state) ==
  kind = "ui_extension" /\ state # "unmapped"
IsAppStartUp(state) == state = "create"
OnAbilityStateChanged(p, state) ==
  /\ ReportScene("ABILITY_STATE_CHANGE")
  /\ startTasks' = IF IsAppStartUp(state) THEN startTasks \cup {p} ELSE startTasks
OnExtensionStateChanged(p, kind, state) ==
  IF IsUIExtensionAbilityStateChanged(kind, state)
    THEN OnAbilityStateChanged(p, state)
    ELSE ReportScene("EXTENSION_STATE_CHANGE") /\ UNCHANGED startTasks
AbilityNotified(p, kind, state) ==
  /\ p \notin startTasks
  /\ \/ kind = "ability" /\ OnAbilityStateChanged(p, state)
     \/ kind \in {"ui_extension", "extension"} /\ OnExtensionStateChanged(p, kind, state)
  /\ UNCHANGED <<recordVars, timerVars>>

-----------------------------------------------------------------------------
(* AppStartupSceneRec.  Every call below holds mutex_.                     *)
CleanRecordSceneData ==
  /\ appStartCount' = 0 /\ startPkgs' = 0 /\ startUidSet' = {}
  /\ exitTask' = "null" /\ isReportContinuousStartup' = FALSE
  /\ IF isReportContinuousStartup
       THEN ReportScene("STOP_CONTINUOUS_STARTUP") ELSE UNCHANGED sceneReport

(* UpdateAppStartupNum on the data a timeout may just have cleared: a      *)
(* reported startup counts no more packages.                               *)
UpdateAppStartupNum(p, clean) ==
  LET on == isReportContinuousStartup /\ ~clean
  IN  [count |-> (IF clean THEN 0 ELSE appStartCount) + 1,
       pkgs  |-> (IF clean THEN 0 ELSE startPkgs) + (IF on THEN 0 ELSE 1),
       uids  |-> (IF clean THEN {} ELSE startUidSet) \cup (IF on THEN {} ELSE {p}),
       on    |-> on]
IsContinuousStartup(data) ==
  /\ data.pkgs >= MAX_CONTINUOUS_START_NUM
  /\ Cardinality(data.uids) >= MAX_NO_REPEAT_APP_COUNT

(* Mutant: a start within a reported startup renews no timer.              *)
RenewTimerOnce ==
  IF isReportContinuousStartup
    THEN /\ newestTask' = (IF exitTask = "set" /\ newestTask = "waiting" THEN "none"
                           ELSE newestTask)
         /\ exitTask' = "null" /\ UNCHANGED <<orphanTasks, runningTasks>>
    ELSE exitTask' = "set" /\ newestTask' = "waiting" /\ UNCHANGED <<orphanTasks, runningTasks>>
(* The timer task of the handle is cancelled unless it began, and a new    *)
(* one submitted.  A waiting task without handle stays.                    *)
RenewTimer ==
  /\ exitTask' = "set" /\ newestTask' = "waiting"
  /\ orphanTasks' = orphanTasks
       + (IF newestTask = "waiting" /\ exitTask = "null" THEN 1 ELSE 0)
  /\ runningTasks' = runningTasks + (IF newestTask = "running" THEN 1 ELSE 0)

(* After Deinit the submission of the new task ends the process.           *)
RecordIsContinuousStartup(p) ==
  /\ p \in startTasks /\ appStartCount < MAX_CONTINUOUS_START_NUM + 1
  /\ orphanTasks + runningTasks < MaxTasks
  /\ startTasks' = startTasks \ {p}
  /\ LET clean == sinceStart = "long"
         data == UpdateAppStartupNum(p, clean)
         start == IsContinuousStartup(data) /\ ~data.on
     IN  /\ appStartCount' = data.count /\ startPkgs' = data.pkgs
         /\ startUidSet' = data.uids
         /\ isReportContinuousStartup' = (data.on \/ start)
         /\ \/ start /\ ReportScene("START_CONTINUOUS_STARTUP")
            \/ ~start /\ clean /\ isReportContinuousStartup
               /\ ReportScene("STOP_CONTINUOUS_STARTUP")
            \/ ~start /\ ~(clean /\ isReportContinuousStartup) /\ UNCHANGED sceneReport
  /\ sinceStart' = "short"
  /\ IF queueUp THEN RenewTimer
                ELSE UNCHANGED <<exitTask, newestTask, orphanTasks, runningTasks>>
  /\ crashed' = ~queueUp
  /\ UNCHANGED queueUp

(* The delay of the newest task is the timeout of a start; an older task   *)
(* may be due before.  The queue is serial: one task is begun at a time.   *)
TimePasses ==
  /\ sinceStart = "short" /\ sinceStart' = "long"
  /\ UNCHANGED <<recordVars, sceneReport, startTasks, exitTask, newestTask,
                 orphanTasks, runningTasks, queueUp, crashed>>
TimerBegins ==
  /\ queueUp /\ newestTask # "running" /\ runningTasks = 0
  /\ \/ /\ newestTask = "waiting" /\ sinceStart = "long"
        /\ newestTask' = "running" /\ UNCHANGED <<orphanTasks, runningTasks>>
     \/ /\ orphanTasks > 0
        /\ orphanTasks' = orphanTasks - 1
        /\ runningTasks' = runningTasks + 1 /\ UNCHANGED newestTask
  /\ UNCHANGED <<recordVars, sceneReport, startTasks, sinceStart, exitTask, queueUp, crashed>>
TimerRuns ==
  /\ \/ newestTask = "running" /\ newestTask' = "none" /\ UNCHANGED runningTasks
     \/ runningTasks > 0 /\ runningTasks' = runningTasks - 1 /\ UNCHANGED newestTask
  /\ CleanRecordSceneData
  /\ UNCHANGED <<startTasks, sinceStart, orphanTasks, queueUp, crashed>>

(* Deinit, when the observers are disabled: the service is about to stop.  *)
Deinit ==
  /\ queueUp /\ queueUp' = FALSE
  /\ newestTask' = (IF exitTask = "set" /\ newestTask = "waiting" THEN "none" ELSE newestTask)
  /\ exitTask' = "null" /\ startPkgs' = 0 /\ startUidSet' = {}
  /\ UNCHANGED <<sceneReport, startTasks, appStartCount, isReportContinuousStartup,
                 sinceStart, orphanTasks, runningTasks, crashed>>

StartupNext ==
  /\ ~crashed
  /\ \/ \E p \in StartApps :
          \/ RecordIsContinuousStartup(p)
          \/ \E kind \in AbilityKinds, state \in AbilityStates :
               AbilityNotified(p, kind, state)
     \/ TimePasses \/ TimerBegins \/ TimerRuns \/ Deinit

-----------------------------------------------------------------------------
(* A reported continuous startup ends: while START_CONTINUOUS_STARTUP      *)
(* stands, a timer task that will report STOP is waiting or running, even  *)
(* when cancelling the old one came too late and its handle was lost.      *)
StartupEnds ==
  (isReportContinuousStartup /\ queueUp) =>
     newestTask # "none" \/ orphanTasks > 0 \/ runningTasks > 0
=============================================================================
