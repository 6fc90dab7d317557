---------------------------- MODULE CgroupStates ----------------------------
(***************************************************************************)
(* SchedController and the part of CgroupEventHandler that keeps what the  *)
(* processes of an application are doing: locks they hold, camera, codec,  *)
(* wifi and bluetooth use, tasks, capture, video, input and drawing.  A    *)
(* report of a subscribed type is turned into a task of the plugin's       *)
(* serial queue, which finds the record of the process and stores the      *)
(* value.  The reporters know nothing of each other: a report can come     *)
(* before the creation or after the death of its process.  Each behaviour  *)
(* follows one resource type of CgStates for the processes of one uid; a   *)
(* process has one lock, codec, window and continuous task here.           *)
(***************************************************************************)
EXTENDS Naturals, Sequences

CONSTANTS
  CgProcs,     \* the processes of the uid
  CgReporters, \* those whose state changes
  MaxPosted    \* bound: tasks in the queue of the plugin

ASSUME CgStatesAssumption ==
  CgProcs # {} /\ CgReporters \subseteq CgProcs /\ MaxPosted \in Nat \ {0}

(* InitResTypes and InitResTypeWithVal, of the types followed here.        *)
ResTypesCg == {
  "RUNNINGLOCK_STATE", "REPORT_SCENE_BOARD", "WEBVIEW_VIDEO_STATUS_CHANGE",
  "SYSTEM_ABILITY_STATUS_CHANGE", "MMI_STATUS_CHANGE", "REPORT_CAMERA_STATE",
  "BLUETOOTH_A2DP_CONNECT_STATE_CHANGE", "WIFI_CONNECT_STATE_CHANGE",
  "MMI_INPUT_STATE", "REPORT_SCREEN_CAPTURE", "AV_CODEC_STATE",
  "PROCESS_STATE_CHANGE", "WINDOW_DRAWING_CONTENT_CHANGE", "CONTINUOUS_TASK"}
ResTypeWithValCg == {<<"TRANSIENT_TASK", TRUE>>, <<"TRANSIENT_TASK", FALSE>>}

(* The types dispatchResFuncMap_ has a handler for, and those that         *)
(* DispatchOtherResource hands on.                                         *)
DispatchResFuncs == {
  "RUNNINGLOCK_STATE", "REPORT_SCENE_BOARD", "REPORT_SCREEN_CAPTURE",
  "WEBVIEW_VIDEO_STATUS_CHANGE", "SYSTEM_ABILITY_STATUS_CHANGE", "MMI_STATUS_CHANGE"}
AddDispatchResFuncs == {
  "PROCESS_STATE_CHANGE", "WINDOW_DRAWING_CONTENT_CHANGE", "TRANSIENT_TASK",
  "CONTINUOUS_TASK"}
(* Mutant: the codec state is not handed on.                               *)
DispatchOtherResourceNoCodec == {
  "REPORT_CAMERA_STATE", "WIFI_CONNECT_STATE_CHANGE", "MMI_INPUT_STATE",
  "BLUETOOTH_A2DP_CONNECT_STATE_CHANGE"}
DispatchOtherResource == {
  "REPORT_CAMERA_STATE", "WIFI_CONNECT_STATE_CHANGE", "MMI_INPUT_STATE",
  "BLUETOOTH_A2DP_CONNECT_STATE_CHANGE", "AV_CODEC_STATE"}

CgStates == {
  "RUNNINGLOCK_STATE", "REPORT_SCENE_BOARD", "REPORT_SCREEN_CAPTURE",
  "WEBVIEW_VIDEO_STATUS_CHANGE", "MMI_STATUS_CHANGE", "WINDOW_DRAWING_CONTENT_CHANGE",
  "TRANSIENT_TASK", "CONTINUOUS_TASK", "REPORT_CAMERA_STATE", "WIFI_CONNECT_STATE_CHANGE",
  "MMI_INPUT_STATE", "BLUETOOTH_A2DP_CONNECT_STATE_CHANGE", "AV_CODEC_STATE"}

VARIABLES
  cgState,     \* the type this behaviour follows
  cgPlugin,    \* "on", "stopping" (Disable waits for the queue) or "off"
  cgQueue,     \* tasks of cgroupEventQueue_
  cgApp,       \* does the uid have an Application?
  cgRecords,   \* processes with a ProcessRecord
  cgValue,     \* the state in the record; of a scene board, in sceneBoardUidPid_
  cgLife,      \* of each process: "new", "started", "told" (creation was
               \* reported), "dead", "gone" (death was reported)
  cgTruth,     \* the state of each process (external)
  cgMissed     \* history: processes whose last report did not reach a record

recordsCg == <<cgApp, cgRecords, cgValue, cgMissed>>
outsideCg == <<cgLife, cgTruth>>
cgVars == <<cgState, cgPlugin, cgQueue, recordsCg, outsideCg>>

Task(op, p, v) == [op |-> op, pid |-> p, value |-> v]
TaskOps == CgStates \cup {"created", "died", "app_mgr", "power_mgr",
                          "app_mgr_added", "power_mgr_added"}

CgStatesTypeOK ==
  /\ cgState \in CgStates /\ cgPlugin \in {"on", "stopping", "off"}
  /\ cgQueue \in Seq([op : TaskOps, pid : CgProcs, value : BOOLEAN])
  /\ Len(cgQueue) <= MaxPosted
  /\ cgApp \in BOOLEAN /\ cgRecords \subseteq CgProcs
  /\ cgRecords # {} => cgApp
  /\ cgValue \in [CgProcs -> BOOLEAN] /\ cgTruth \in [CgProcs -> BOOLEAN]
  /\ cgLife \in [CgProcs -> {"new", "started", "told", "dead", "gone"}]
  /\ cgMissed \subseteq CgProcs

CgStatesInit ==
  /\ cgState \in CgStates /\ cgPlugin = "on" /\ cgQueue = <<>>
  /\ cgApp = FALSE /\ cgRecords = {} /\ cgMissed = {}
  /\ cgValue = [p \in CgProcs |-> FALSE] /\ cgTruth = [p \in CgProcs |-> FALSE]
  /\ cgLife = [p \in CgProcs |-> "new"]

-----------------------------------------------------------------------------
(* The handlers: each looks up the record in its own way.                  *)
Stored(p, v) == cgValue' = [cgValue EXCEPT ![p] = v] /\ UNCHANGED cgMissed
Newer(p) == \E i \in 2..Len(cgQueue) : cgQueue[i].op = cgState /\ cgQueue[i].pid = p
CgDropped(p) ==
  /\ cgMissed' = IF Newer(p) THEN cgMissed ELSE cgMissed \cup {p}
  /\ UNCHANGED cgValue

KnownProcess(p, v) ==
  /\ IF p \in cgRecords THEN Stored(p, v) ELSE CgDropped(p)
  /\ UNCHANGED <<cgApp, cgRecords>>
HandleReportRunningLockEvent(p, v) == KnownProcess(p, v)
HandleReportBluetoothConnectState(p, v) == KnownProcess(p, v)
HandleReportHisysEvent(p, v) == KnownProcess(p, v)
HandleReportScreenCaptureEvent(p, v) == KnownProcess(p, v)
HandleReportAvCodecEvent(p, v) == KnownProcess(p, v)
HandleDrawingContentChangeWindow(p, v) == KnownProcess(p, v)
UpdateMmiStatus(p, v) == KnownProcess(p, v)

(* GetProcInfoByPayload makes a record in an application that is known.    *)
HandleReportWebviewVideoState(p, v) ==
  /\ IF cgApp THEN Stored(p, v) /\ cgRecords' = cgRecords \cup {p}
              ELSE CgDropped(p) /\ UNCHANGED cgRecords
  /\ UNCHANGED cgApp
(* The handlers of tasks make an application even without a process.       *)
HandleTransientTaskStatus(p, v) ==
  /\ IF p \in cgRecords THEN Stored(p, v) ELSE CgDropped(p)
  /\ cgApp' = TRUE /\ UNCHANGED cgRecords
HandleContinuousTaskStatus(p, v) ==
  /\ cgApp' = TRUE
  /\ IF v \/ p \in cgRecords THEN Stored(p, v) ELSE CgDropped(p)
  /\ cgRecords' = IF v THEN cgRecords \cup {p} ELSE cgRecords
(* The pair of uid and pid is kept beside the records.                     *)
HandleSceneBoardState(p) == Stored(p, TRUE) /\ UNCHANGED <<cgApp, cgRecords>>

ProcessCreated(p) ==
  /\ cgApp' = TRUE /\ cgRecords' = cgRecords \cup {p}
  /\ UNCHANGED <<cgValue, cgMissed>>
(* Mutant: the last process leaves its application behind.                 *)
ProcessDiedKeepsApp(p) ==
  /\ cgRecords' = cgRecords \ {p} /\ UNCHANGED cgApp
  /\ cgValue' = [cgValue EXCEPT ![p] = cgValue[p] /\ ~cgApp]
  /\ UNCHANGED cgMissed
(* Without an application nothing is cleared.                              *)
ProcessDied(p) ==
  /\ cgRecords' = cgRecords \ {p}
  /\ cgApp' = (cgRecords' # {})
  /\ cgValue' = [cgValue EXCEPT ![p] = cgValue[p] /\ ~cgApp]
  /\ UNCHANGED cgMissed

(* InitSuperVisorContent makes a record of each process that runs.         *)
Alive == {p \in CgProcs : cgLife[p] \in {"started", "told"}}
InitSuperVisorContent ==
  /\ cgRecords' = cgRecords \cup Alive /\ cgApp' = (cgApp \/ Alive # {})
  /\ UNCHANGED <<cgValue, cgMissed>>
(* GetRunningLockState adds the locks that are held, to new records if     *)
(* need be, and clears none.                                               *)
GetRunningLockState ==
  LET locked == {p \in CgProcs : cgTruth[p]}
  IN  /\ cgRecords' = cgRecords \cup locked /\ cgApp' = (cgApp \/ locked # {})
      /\ cgValue' = [p \in CgProcs |-> p \in locked \/ cgValue[p]]
      /\ cgMissed' = cgMissed \ {p \in locked : ~Newer(p)}

HandleState(p, v) ==
  CASE cgState = "RUNNINGLOCK_STATE" -> HandleReportRunningLockEvent(p, v)
    [] cgState = "REPORT_SCENE_BOARD" -> HandleSceneBoardState(p)
    [] cgState = "REPORT_SCREEN_CAPTURE" -> HandleReportScreenCaptureEvent(p, v)
    [] cgState = "WEBVIEW_VIDEO_STATUS_CHANGE" -> HandleReportWebviewVideoState(p, v)
    [] cgState = "MMI_STATUS_CHANGE" -> UpdateMmiStatus(p, v)
    [] cgState = "WINDOW_DRAWING_CONTENT_CHANGE" -> HandleDrawingContentChangeWindow(p, v)
    [] cgState = "TRANSIENT_TASK" -> HandleTransientTaskStatus(p, v)
    [] cgState = "CONTINUOUS_TASK" -> HandleContinuousTaskStatus(p, v)
    [] cgState = "BLUETOOTH_A2DP_CONNECT_STATE_CHANGE" -> HandleReportBluetoothConnectState(p, v)
    [] cgState = "AV_CODEC_STATE" -> HandleReportAvCodecEvent(p, v)
    [] OTHER -> HandleReportHisysEvent(p, v)

(* The queue is serial.  ReportAbilityStatus posts the handling of an      *)
(* added ability as a further task, behind what was posted meanwhile.      *)
CgReportAbilityStatus(t, rest) ==
  /\ cgQueue' = Append(rest, Task(IF t.op = "app_mgr" THEN "app_mgr_added"
                                                     ELSE "power_mgr_added", t.pid, TRUE))
  /\ UNCHANGED recordsCg
HandleAbilityAdded(t) ==
  \/ t.op = "app_mgr_added" /\ InitSuperVisorContent
  \/ t.op = "power_mgr_added" /\ GetRunningLockState
HandleProcessStateChangedEx(t) ==
  \/ t.op = "created" /\ ProcessCreated(t.pid)
  \/ t.op = "died" /\ ProcessDied(t.pid)
RunTask ==
  /\ cgQueue # <<>>
  /\ LET t == Head(cgQueue)
         rest == Tail(cgQueue)
     IN  \/ t.op \in {"app_mgr", "power_mgr"} /\ CgReportAbilityStatus(t, rest)
         \/ HandleAbilityAdded(t) /\ cgQueue' = rest
         \/ HandleProcessStateChangedEx(t) /\ cgQueue' = rest
         \/ t.op \in CgStates /\ HandleState(t.pid, t.value) /\ cgQueue' = rest
  /\ UNCHANGED <<cgState, cgPlugin, outsideCg>>

-----------------------------------------------------------------------------
(* DispatchResource: a type without a handler posts a task that does       *)
(* nothing.  While the plugin is off it is not subscribed.                 *)
CgTaken(type, v) ==
  /\ cgPlugin = "on"
  /\ type \in ResTypesCg \/ <<type, v>> \in ResTypeWithValCg
  /\ type \in DispatchResFuncs \cup AddDispatchResFuncs \cup DispatchOtherResource
CgDispatchResource(type, t, v) ==
  /\ Len(cgQueue) < MaxPosted
  /\ cgQueue' = IF CgTaken(type, v) THEN Append(cgQueue, t) ELSE cgQueue

(* A reporter (external) tells that the state of p is now v; a payload     *)
(* without its numbers is refused by ParsePayload or ParseValue.           *)
StateChanges(p, v, ok) ==
  /\ cgLife[p] # "new" /\ v # cgTruth[p]
  /\ cgState = "REPORT_SCENE_BOARD" => v /\ cgLife[p] \in {"started", "told"}
  /\ cgTruth' = [cgTruth EXCEPT ![p] = v]
  /\ IF ok THEN CgDispatchResource(cgState, Task(cgState, p, v), v) ELSE UNCHANGED cgQueue
  /\ cgMissed' = IF ok /\ cgPlugin = "on" THEN cgMissed \ {p} ELSE cgMissed \cup {p}
  /\ UNCHANGED <<cgState, cgPlugin, cgApp, cgRecords, cgValue, cgLife>>

ProcessStarts(p) ==
  /\ cgLife[p] = "new" /\ cgLife' = [cgLife EXCEPT ![p] = "started"]
  /\ UNCHANGED <<cgState, cgPlugin, cgQueue, recordsCg, cgTruth>>
ProcessDies(p) ==
  /\ cgLife[p] = "told" /\ cgLife' = [cgLife EXCEPT ![p] = "dead"]
  /\ UNCHANGED <<cgState, cgPlugin, cgQueue, recordsCg, cgTruth>>
LifeReported(p) ==
  /\ \/ /\ cgLife[p] = "started" /\ cgLife' = [cgLife EXCEPT ![p] = "told"]
        /\ CgDispatchResource("PROCESS_STATE_CHANGE", Task("created", p, TRUE), TRUE)
     \/ /\ cgLife[p] = "dead" /\ cgLife' = [cgLife EXCEPT ![p] = "gone"]
        /\ CgDispatchResource("PROCESS_STATE_CHANGE", Task("died", p, FALSE), FALSE)
  /\ UNCHANGED <<cgState, cgPlugin, recordsCg, cgTruth>>

(* The application manager or the power manager started again; the locks   *)
(* of the old power manager ended without a report, and nothing else       *)
(* depends on it.                                                          *)
AnyProcess == CHOOSE p \in CgProcs : TRUE
AbilityRestarts(sa) ==
  /\ sa = "power_mgr" => cgState = "RUNNINGLOCK_STATE"
  /\ CgDispatchResource("SYSTEM_ABILITY_STATUS_CHANGE", Task(sa, AnyProcess, TRUE), TRUE)
  /\ IF sa = "power_mgr"
       THEN /\ cgTruth' = [p \in CgProcs |-> FALSE]
            /\ cgMissed' = cgMissed \cup {p \in CgProcs : cgTruth[p]}
       ELSE UNCHANGED <<cgTruth, cgMissed>>
  /\ UNCHANGED <<cgState, cgPlugin, cgApp, cgRecords, cgValue, cgLife>>

-----------------------------------------------------------------------------
(* Disable unsubscribes, waits for the queue and drops the records; Init   *)
(* starts with none.                                                       *)
SchedControllerDisable ==
  \/ /\ cgPlugin = "on" /\ cgPlugin' = "stopping"
     /\ UNCHANGED <<cgState, cgQueue, recordsCg, outsideCg>>
  \/ /\ cgPlugin = "stopping" /\ cgQueue = <<>> /\ cgPlugin' = "off"
     /\ cgApp' = FALSE /\ cgRecords' = {} /\ cgValue' = [p \in CgProcs |-> FALSE]
     /\ cgMissed' = {p \in CgProcs : cgTruth[p]}
     /\ UNCHANGED <<cgState, cgQueue, outsideCg>>
SchedControllerInit ==
  /\ cgPlugin = "off" /\ cgPlugin' = "on"
  /\ UNCHANGED <<cgState, cgQueue, recordsCg, outsideCg>>

CgStatesNext ==
  \/ RunTask
  \/ \E p \in CgReporters, v, ok \in BOOLEAN : StateChanges(p, v, ok)
  \/ \E p \in CgProcs : ProcessStarts(p) \/ ProcessDies(p) \/ LifeReported(p)
  \/ \E sa \in {"app_mgr", "power_mgr"} : AbilityRestarts(sa)
  \/ SchedControllerDisable
  \/ SchedControllerInit

-----------------------------------------------------------------------------
(* Once the tasks are done, the record of a living process holds its       *)
(* state, unless the last report came without its numbers, before the      *)
(* record or while the plugin was off, or the power manager died; the      *)
(* records made anew after a repair start without the states that are on.  *)
StatesFollowed ==
  cgPlugin = "on" /\ cgQueue = <<>> =>
    \A p \in (cgRecords \cap Alive) \ cgMissed : cgValue[p] = cgTruth[p]

(* Records go with their processes: when all reports are handled, a dead   *)
(* process has a record only if a late report made it again, which three   *)
(* types can, and the application stands without a record only if a task   *)
(* handler made it.                                                        *)
RecordsEnd ==
  cgPlugin = "on" /\ cgQueue = <<>> =>
    /\ \A p \in cgRecords : cgLife[p] # "gone" \/ cgState \in
         {"WEBVIEW_VIDEO_STATUS_CHANGE", "CONTINUOUS_TASK", "RUNNINGLOCK_STATE"}
    /\ cgApp /\ cgRecords = {} => cgState \in {"TRANSIENT_TASK", "CONTINUOUS_TASK"}
CgroupStatesRight == StatesFollowed /\ RecordsEnd
=============================================================================
