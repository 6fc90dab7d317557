--------------------------- MODULE SceneRecognizers ---------------------------
(***************************************************************************)
(* The recognizers of SceneRecognizerMgr other than the slides: background *)
(* tasks that overlap, continuous installs, the first boot after an        *)
(* upgrade.  They share no state, so each has a next-state relation of its *)
(* own.  The events of a recognizer run one after the other in the queue   *)
(* of the manager; only the exit task of an install runs elsewhere.        *)
(***************************************************************************)
EXTENDS Naturals, FiniteSets

CONSTANTS
  TaskPids,       \* pids of applications, of the scene board, and NoPid
  NoPid,          \* -1: the initial pid, and what an unreadable pid becomes
  SystemVersions, \* fingerprints a device may have
  MaxExits,       \* bound: exit tasks of installs that run at a time
  MaxBoots        \* bound: starts of the service

ASSUME RecognizersAssumption ==
  /\ NoPid \in TaskPids
  /\ MaxExits \in Nat \ {0} /\ MaxBoots \in Nat

VARIABLES
  perceivableTasks, foregroundPid, sceneboardPid,
  isInBackgroundPerceivableScene,
  unjudged,        \* history: a task ended, or the scene board got another
                   \* pid, after the rules were last looked at
  exitAppInstall,  \* the handle of the last exit task
  exitsBegun,      \* exit tasks that have begun and not reported STOP
  exitsRunning,    \* exit tasks that have reported STOP and not cleared the flag
  isInContinuousInstall,
  installStep,     \* what the handler of a start does next
  installTold,     \* the last report: an install runs
  installing,      \* history: the last event was the start of an install
  startMet,        \* history: a start met an exit task that had begun, and none
                   \* was reported since with no such task left
  systemVersion, fingerprintFile, isSystemUpgraded, serviceBoots,
  upgradeTold,     \* versions whose first boot was reported
  cutShort         \* history: versions whose mark was written by a service that
                   \* died before it heard of the completed boot

overlapVars == <<perceivableTasks, foregroundPid, sceneboardPid,
                 isInBackgroundPerceivableScene, unjudged>>
installVars == <<exitAppInstall, exitsBegun, exitsRunning, isInContinuousInstall,
                 installStep, installTold, installing, startMet>>
upgradeVars == <<systemVersion, fingerprintFile, isSystemUpgraded, serviceBoots,
                 upgradeTold, cutShort>>

NoFile == "empty"
RecognizersTypeOK ==
  /\ perceivableTasks \subseteq TaskPids
  /\ {foregroundPid, sceneboardPid} \subseteq TaskPids
  /\ isInBackgroundPerceivableScene \in BOOLEAN /\ unjudged \in BOOLEAN
  /\ exitAppInstall \in {"null", "pending", "done"}
  /\ exitsBegun \in 0..MaxExits /\ exitsRunning \in 0..MaxExits
  /\ installStep \in {"none", "load", "report", "store"}
  /\ {isInContinuousInstall, installTold, installing, startMet} \subseteq BOOLEAN
  /\ systemVersion \in SystemVersions /\ fingerprintFile \in SystemVersions \cup {NoFile}
  /\ isSystemUpgraded \in {"yes", "no", "down"} /\ serviceBoots \in 0..MaxBoots
  /\ upgradeTold \subseteq SystemVersions /\ cutShort \subseteq SystemVersions

-----------------------------------------------------------------------------
(* BackgroundSensitiveTaskOverlappingSceneRecognizer                       *)

OverlapInit ==
  /\ perceivableTasks = {} /\ foregroundPid = NoPid /\ sceneboardPid = NoPid
  /\ isInBackgroundPerceivableScene = FALSE /\ unjudged = FALSE

(* The two rules of the comment on CheckEnterScene.                        *)
OverlapRules(tasks, front) ==
  /\ front # sceneboardPid
  /\ Cardinality(tasks) > 1 \/ (tasks # {} /\ front \notin tasks)
CheckEnterScene(tasks, front) ==
  ~isInBackgroundPerceivableScene /\ OverlapRules(tasks, front)
EnterSceneIf(c) == isInBackgroundPerceivableScene' = (isInBackgroundPerceivableScene \/ c)
ExitSceneIf(c) == isInBackgroundPerceivableScene' = (isInBackgroundPerceivableScene /\ ~c)

(* perceivable: some type of the task is one of PERCEIVABLE_MODES.         *)
HandleTaskStart(pid, perceivable) ==
  /\ perceivable
  /\ perceivableTasks' = perceivableTasks \cup {pid}
  /\ unjudged' = (unjudged /\ isInBackgroundPerceivableScene)
  /\ EnterSceneIf(CheckEnterScene(perceivableTasks', foregroundPid))
  /\ UNCHANGED <<foregroundPid, sceneboardPid>>
(* CheckEnterScene never holds inside the scene: the end of any task       *)
(* leaves it.                                                              *)
TaskEnds(pid) ==
  /\ perceivableTasks' = perceivableTasks \ {pid} /\ unjudged' = TRUE
  /\ ExitSceneIf(~CheckEnterScene(perceivableTasks', foregroundPid))
  /\ UNCHANGED <<foregroundPid, sceneboardPid>>
HandleTaskUpdate(pid, perceivable) ==
  IF perceivable THEN HandleTaskStart(pid, TRUE) ELSE TaskEnds(pid)
(* Mutant: the scene outlives its tasks.                                   *)
HandleTaskStopStays(pid) ==
  /\ pid \in perceivableTasks
  /\ perceivableTasks' = perceivableTasks \ {pid} /\ unjudged' = TRUE
  /\ UNCHANGED <<foregroundPid, sceneboardPid, isInBackgroundPerceivableScene>>
HandleTaskStop(pid) == pid \in perceivableTasks /\ TaskEnds(pid)
HandleContinuousTask(status, pid, perceivable) ==
  \/ status = "START" /\ HandleTaskStart(pid, perceivable)
  \/ status = "UPDATE" /\ HandleTaskUpdate(pid, perceivable)
  \/ status = "END" /\ HandleTaskStop(pid)
(* A pid that cannot be read leaves the foreground as it was, and the      *)
(* scene is judged again.                                                  *)
HandleForeground(pid) ==
  /\ foregroundPid' = IF pid = NoPid THEN foregroundPid ELSE pid
  /\ unjudged' = FALSE
  /\ IF foregroundPid' = sceneboardPid
       THEN ExitSceneIf(TRUE)
       ELSE EnterSceneIf(CheckEnterScene(perceivableTasks, foregroundPid'))
  /\ UNCHANGED <<perceivableTasks, sceneboardPid>>
ReportSceneBoard(pid) ==
  /\ pid # NoPid /\ sceneboardPid' = pid /\ unjudged' = TRUE
  /\ UNCHANGED <<perceivableTasks, foregroundPid, isInBackgroundPerceivableScene>>

OverlapNext ==
  \E pid \in TaskPids :
    \/ \E status \in {"START", "UPDATE", "END"}, perceivable \in BOOLEAN :
         HandleContinuousTask(status, pid, perceivable)
    \/ HandleForeground(pid)
    \/ ReportSceneBoard(pid)

(* The scene is entered and left as the two rules of CheckEnterScene say:  *)
(* plugins are in the scene only while some task is perceivable and the    *)
(* scene board is not in front, and out of it only while neither rule      *)
(* holds.  The exceptions are a task that ended (the scene is left even if *)
(* another task would keep it) and a scene board that got another pid,     *)
(* until the rules are looked at again; inside the scene only a foreground *)
(* change does that.                                                       *)
OverlapSceneRight ==
  /\ isInBackgroundPerceivableScene =>
       perceivableTasks # {} /\ (foregroundPid # sceneboardPid \/ unjudged)
  /\ OverlapRules(perceivableTasks, foregroundPid) =>
       isInBackgroundPerceivableScene \/ unjudged

-----------------------------------------------------------------------------
(* ContinuousAppInstallRecognizer                                          *)

InstallInit ==
  /\ exitAppInstall = "null" /\ exitsBegun = 0 /\ exitsRunning = 0
  /\ isInContinuousInstall = FALSE /\ installStep = "none"
  /\ installTold = FALSE /\ installing = FALSE /\ startMet = FALSE

(* ffrt::skip of a task that has begun does nothing.                       *)
SkipExit == IF exitAppInstall = "pending" THEN "done" ELSE exitAppInstall

(* APP_INSTALL_START: skip, the load of the flag, the report and the store *)
(* are one after the other, and an exit task that has begun runs beside.   *)
AppInstallStart ==
  /\ installStep = "none" /\ installStep' = "load"
  /\ exitAppInstall' = SkipExit /\ installing' = TRUE
  /\ startMet' = (startMet \/ exitsBegun + exitsRunning > 0)
  /\ UNCHANGED <<exitsBegun, exitsRunning, isInContinuousInstall, installTold>>
AppInstallLoads ==
  /\ installStep = "load"
  /\ installStep' = IF isInContinuousInstall THEN "none" ELSE "report"
  /\ UNCHANGED <<exitAppInstall, exitsBegun, exitsRunning, isInContinuousInstall, installTold,
                 installing, startMet>>
AppInstallReports ==
  /\ installStep = "report" /\ installStep' = "store"
  /\ installTold' = TRUE
  /\ startMet' = (startMet /\ exitsBegun + exitsRunning > 0)
  /\ UNCHANGED <<exitAppInstall, exitsBegun, exitsRunning, isInContinuousInstall, installing>>
AppInstallStores ==
  /\ installStep = "store" /\ installStep' = "none"
  /\ isInContinuousInstall' = TRUE
  /\ UNCHANGED <<exitAppInstall, exitsBegun, exitsRunning, installTold, installing, startMet>>

(* Mutant: the end of an install arms its exit only once.                  *)
AppInstallEndOnce ==
  /\ installStep = "none"
  /\ exitAppInstall' = IF exitAppInstall = "null" THEN "pending" ELSE SkipExit
  /\ installing' = FALSE
  /\ UNCHANGED <<exitsBegun, exitsRunning, isInContinuousInstall, installStep, installTold,
                 startMet>>
AppInstallEnd ==
  /\ installStep = "none"
  /\ exitAppInstall' = "pending" /\ installing' = FALSE
  /\ UNCHANGED <<exitsBegun, exitsRunning, isInContinuousInstall, installStep, installTold,
                 startMet>>

(* The exit task begins, reports, and clears the flag; older ones that     *)
(* were not skipped in time may still be running.                          *)
ExitInstallBegins ==
  /\ exitAppInstall = "pending" /\ exitAppInstall' = "done"
  /\ exitsBegun + exitsRunning < MaxExits /\ exitsBegun' = exitsBegun + 1
  /\ UNCHANGED <<exitsRunning, isInContinuousInstall, installStep, installTold, installing,
                 startMet>>
ExitInstallReports ==
  /\ exitsBegun > 0 /\ exitsBegun' = exitsBegun - 1
  /\ exitsRunning' = exitsRunning + 1 /\ installTold' = FALSE
  /\ UNCHANGED <<exitAppInstall, isInContinuousInstall, installStep, installing, startMet>>
ExitInstallClears ==
  /\ exitsRunning > 0 /\ exitsRunning' = exitsRunning - 1
  /\ isInContinuousInstall' = FALSE
  /\ UNCHANGED <<exitAppInstall, exitsBegun, installStep, installTold, installing, startMet>>

InstallNext ==
  \/ AppInstallStart \/ AppInstallLoads \/ AppInstallReports \/ AppInstallStores
  \/ AppInstallEnd
  \/ ExitInstallBegins \/ ExitInstallReports \/ ExitInstallClears

(* Once its start is handled, plugins are told of an install that runs,    *)
(* unless a start met an exit task that had begun: that task reports STOP  *)
(* after it, or leaves the flag as it was, until a start is reported that  *)
(* meets none.  The STOP of an install that is over is always on its way.  *)
InstallSceneRight ==
  /\ installing /\ installStep = "none" => installTold \/ startMet
  /\ installTold => installing \/ exitAppInstall = "pending" \/ exitsBegun > 0

-----------------------------------------------------------------------------
(* SystemUpgradeSceneRecognizer, over starts of the service and updates of *)
(* the system.                                                             *)

UpgradeInit ==
  /\ systemVersion \in SystemVersions /\ fingerprintFile = NoFile
  /\ isSystemUpgraded = "down" /\ serviceBoots = 0 /\ upgradeTold = {} /\ cutShort = {}

(* SaveStringToFile may fail; the result is not looked at.                 *)
(* Mutant: a device without a mark is not an upgraded one.                 *)
RecognizerInitMarked(saved) ==
  /\ isSystemUpgraded = "down" /\ serviceBoots < MaxBoots
  /\ serviceBoots' = serviceBoots + 1
  /\ isSystemUpgraded' =
       IF fingerprintFile \notin {NoFile, systemVersion} THEN "yes" ELSE "no"
  /\ fingerprintFile' = IF saved THEN systemVersion ELSE fingerprintFile
  /\ UNCHANGED <<systemVersion, upgradeTold, cutShort>>
RecognizerInit(saved) ==
  /\ isSystemUpgraded = "down" /\ serviceBoots < MaxBoots
  /\ serviceBoots' = serviceBoots + 1
  /\ LET upgraded == fingerprintFile # systemVersion
     IN  /\ isSystemUpgraded' = IF upgraded THEN "yes" ELSE "no"
         /\ fingerprintFile' = IF upgraded /\ saved THEN systemVersion ELSE fingerprintFile
  /\ UNCHANGED <<systemVersion, upgradeTold, cutShort>>
BootCompleted ==
  /\ isSystemUpgraded # "down"
  /\ upgradeTold' = IF isSystemUpgraded = "yes" THEN upgradeTold \cup {systemVersion}
                                                ELSE upgradeTold
  /\ UNCHANGED <<systemVersion, fingerprintFile, isSystemUpgraded, serviceBoots, cutShort>>
(* The service ends; the device may come back with another version.        *)
ServiceEnds(version) ==
  /\ isSystemUpgraded # "down" /\ isSystemUpgraded' = "down"
  /\ systemVersion' = version
  /\ cutShort' = IF isSystemUpgraded = "yes" /\ systemVersion \notin upgradeTold
                   THEN cutShort \cup {systemVersion} ELSE cutShort
  /\ UNCHANGED <<fingerprintFile, serviceBoots, upgradeTold>>

UpgradeNext ==
  \/ \E saved \in BOOLEAN : RecognizerInit(saved)
  \/ BootCompleted
  \/ \E version \in SystemVersions : ServiceEnds(version)

(* A version whose mark is on disk had its first boot reported, will have  *)
(* it reported by the service that runs now, or was started by a service   *)
(* that ended before the boot completed: its report is lost for good.      *)
UpgradeReported ==
  fingerprintFile # NoFile =>
    \/ fingerprintFile \in upgradeTold \cup cutShort
    \/ isSystemUpgraded = "yes" /\ fingerprintFile = systemVersion

ScenesRight == OverlapSceneRight /\ InstallSceneRight /\ UpgradeReported
=============================================================================
