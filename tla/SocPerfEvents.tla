--------------------------- MODULE SocPerfEvents ---------------------------
(***************************************************************************)
(* The SocPerf plugin as a table: what it subscribes to, the handler of    *)
(* each type, and the handlers that turn one request on when a scene       *)
(* begins and off when it ends.  The handlers with a state of their own    *)
(* are in SocPerfScreen, SocPerfFocus and SocPerfBattery.                  *)
(* A value of a report is "begin", "end" or "other".  A request made with  *)
(* PerfRequest ends by itself and is not tracked.                          *)
(***************************************************************************)
EXTENDS Naturals, FiniteSets

CONSTANT
  MaxScenes   \* bound of the model on scenes that are not over

VARIABLES
  inited,              \* functionMap is filled and the types are subscribed
  seOn,                \* requests that are on (external)
  begun,               \* history: scenes whose end was not reported yet
  lost                 \* history: scenes whose end was reported to no handler

seVars == <<inited, seOn, begun, lost>>

-----------------------------------------------------------------------------
(* The handlers: the requests that are on after a report with value v.     *)

OnOff(on, c, v) == CASE v = "begin" -> on \cup {c}
                     [] v = "end" -> on \ {c}
                     [] OTHER -> on

(* The begin is a request that ends by itself, the end turns it off.       *)
OnlyOff(on, c, v) == IF v = "end" THEN on \ {c} ELSE on

(* Mutant: the end of a page load turns another request off.               *)
HandleLoadPageWrong(on, v) ==
  IF v = "end" THEN on \ {"LOAD_PAGE_COMPLETE"} ELSE OnOff(on, "LOAD_PAGE_START", v)

HandleLoadPage(on, v) == OnOff(on, "LOAD_PAGE_START", v)
HandleSocperfSceneBoard(on, v) == OnOff(on, "REMOTE_ANIMATION", v)
HandleCrownRotation(on, v) == OnOff(on, "CROWN_ROTATION", v)
HandleResTypeCreateLivingApp(on, v) ==
  OnOff(on, "IMAGE_WORK", IF v = "begin" THEN v ELSE "end")
HandleEventWebGesture(on, v) == OnOff(on, "WEB_GESTURE", v)
HandleResizeWindow(on, v) == OnlyOff(on, "RESIZE_WINDOW", v)
HandleMoveWindow(on, v) == OnlyOff(on, "MOVE_WINDOW", v)
HandleRemoteAnimation(on, v) == OnOff(on, "REMOTE_ANIMATION", v)
HandleRemoteUnlock(on, v) == OnOff(on, "REMOTE_UNLOCK", v)
HandleDragStatusBar(on, v) == OnlyOff(on, "DRAG_STATUS_BAR", v)
HandleWebGestureMove(on, v) == OnOff(on, "WEB_GESTURE_MOVE", v)
HandleWebSlideNormal(on, v) == OnOff(on, "WEB_SLIDE_NORMAL", v)
HandleAppColdStartEx(on, v) == OnOff(on, "APP_START", v)
HandleSceneRotation(on, v) == OnOff(on, "ROTATION", v)
HandleBmmMoniterStatus(on, v) == OnOff(on, "BMM_MONITER_START", v)
HandleWebDragResize(on, v) == OnlyOff(on, "WEB_DRAG_RESIZE", v)
HandleFileCopyStatus(on, v) == OnOff(on, "FILE_COPY", v)
HandleWebSildeScroll(on, v) == OnOff(on, "WEB_SLIDE_SCROLL", v)
HandleRecentBuild(on, v) == OnOff(on, "RECENT_BUILD", v)
HandleLiveBroadcast(on, v) == OnOff(on, "LIVE_BROADCAST", v)
HandleOobeClone(on, v) == OnOff(on, "OOBE_CLONE", v)
HandleCustEventBegin(on, v) == OnOff(on, "CUST", "begin")
HandleCustEventEnd(on, v) == OnOff(on, "CUST", "end")

(* Requests that nothing turns off: the service lets them run out.         *)
HandleSocperfAccountActivating(on, v) ==
  IF v = "begin" THEN on \cup {"ACCOUNT_ACTIVATING"} ELSE on
HandleRgmBootingStatus(on, v) == IF v = "begin" THEN on \cup {"RGM_BOOTING_START"} ELSE on
HandleGameBoost(on, v) == IF v = "other" THEN on ELSE on \cup {"GAME_BOOST"}

(* Those, and the ones whose begin and end are types of their own.         *)
RunOut == {"ACCOUNT_ACTIVATING", "RGM_BOOTING_START", "GAME_BOOST", "CUST"}

-----------------------------------------------------------------------------
(* The tables                                                              *)

(* functionMap: the requests that are on after a report of type t.         *)
AddOtherEventToFunctionMap(t, on, v) ==
  CASE t = "RECENT_BUILD" -> HandleRecentBuild(on, v)
    [] t = "HIGH_FREQUENCE_LOAD_SCENE" -> HandleLiveBroadcast(on, v)
    [] t = "OOBE_CLONE" -> HandleOobeClone(on, v)
    [] t = "CREATE_LIVING_APP_PROCESS" -> HandleResTypeCreateLivingApp(on, v)

AddEventToFunctionMap(t, on, v) ==
  CASE t = "SOCPERF_CUST_EVENT_BEGIN" -> HandleCustEventBegin(on, v)
    [] t = "SOCPERF_CUST_EVENT_END" -> HandleCustEventEnd(on, v)
    [] t = "ONLY_PERF_APP_COLD_START" -> HandleAppColdStartEx(on, v)
    [] t = "SCENE_ROTATION" -> HandleSceneRotation(on, v)
    [] t = "BMM_MONITER_CHANGE_EVENT" -> HandleBmmMoniterStatus(on, v)
    [] t = "APP_GAME_BOOST_EVENT" -> HandleGameBoost(on, v)
    [] t = "CROWN_ROTATION_STATUS" -> HandleCrownRotation(on, v)
    [] t = "SCENE_BOARD_ID" -> HandleSocperfSceneBoard(on, v)
    [] t = "RGM_BOOTING_STATUS" -> HandleRgmBootingStatus(on, v)
    [] OTHER -> AddOtherEventToFunctionMap(t, on, v)

FunctionMap(t, on, v) ==
  CASE t = "LOAD_PAGE" -> HandleLoadPage(on, v)
    [] t = "WEB_GESTURE" -> HandleEventWebGesture(on, v)
    [] t = "RESIZE_WINDOW" -> HandleResizeWindow(on, v)
    [] t = "MOVE_WINDOW" -> HandleMoveWindow(on, v)
    [] t = "SHOW_REMOTE_ANIMATION" -> HandleRemoteAnimation(on, v)
    [] t = "SHOW_REMOTE_UNLOCK" -> HandleRemoteUnlock(on, v)
    [] t = "DRAG_STATUS_BAR" -> HandleDragStatusBar(on, v)
    [] t = "WEB_GESTURE_MOVE" -> HandleWebGestureMove(on, v)
    [] t = "WEB_SLIDE_NORMAL" -> HandleWebSlideNormal(on, v)
    [] t = "ACCOUNT_ACTIVATING" -> HandleSocperfAccountActivating(on, v)
    [] t = "WEB_DRAG_RESIZE" -> HandleWebDragResize(on, v)
    [] t = "FILE_COPY_STATUS" -> HandleFileCopyStatus(on, v)
    [] t = "WEB_SLIDE_SCROLL" -> HandleWebSildeScroll(on, v)
    [] OTHER -> AddEventToFunctionMap(t, on, v)

(* SHOW_REMOTE_UNLOCK stands for the unlock values of SHOW_REMOTE_ANIMATION. *)
ResTypes ==
  {"WEB_GESTURE", "RESIZE_WINDOW", "MOVE_WINDOW", "SHOW_REMOTE_ANIMATION",
   "SHOW_REMOTE_UNLOCK", "DRAG_STATUS_BAR", "WEB_GESTURE_MOVE", "WEB_SLIDE_NORMAL",
   "ACCOUNT_ACTIVATING", "SOCPERF_CUST_EVENT_BEGIN", "SOCPERF_CUST_EVENT_END",
   "ONLY_PERF_APP_COLD_START", "SCENE_ROTATION", "APP_GAME_BOOST_EVENT",
   "CROWN_ROTATION_STATUS", "WEB_DRAG_RESIZE", "FILE_COPY_STATUS", "WEB_SLIDE_SCROLL",
   "HIGH_FREQUENCE_LOAD_SCENE", "OOBE_CLONE"}

OtherResTypes ==
  {"RECENT_BUILD", "CREATE_LIVING_APP_PROCESS", "SCENE_BOARD_ID", "RGM_BOOTING_STATUS"}

(* Mutant: the end of the background memory monitor is not subscribed.     *)
ResTypeWithValNoClose ==
  {"LOAD_PAGE", "SCENE_BOARD_ID"} \X {"begin", "end"}
    \cup {<<"BMM_MONITER_CHANGE_EVENT", "begin">>}

ResTypeWithVal ==
  {"LOAD_PAGE", "SCENE_BOARD_ID", "BMM_MONITER_CHANGE_EVENT"} \X {"begin", "end"}

Scenes == ResTypes \cup OtherResTypes \cup {"LOAD_PAGE", "BMM_MONITER_CHANGE_EVENT"}

-----------------------------------------------------------------------------
EventRequests == UNION {FunctionMap(t, {}, "begin") : t \in Scenes}

EventsTypeOK ==
  /\ inited \in BOOLEAN
  /\ seOn \subseteq EventRequests
  /\ begun \subseteq Scenes /\ lost \subseteq Scenes

EventsInit ==
  /\ inited = FALSE /\ seOn = {} /\ begun = {} /\ lost = {}

PluginInit ==
  /\ ~inited /\ inited' = TRUE
  /\ UNCHANGED <<seOn, begun, lost>>

(* Disable clears the tables only: requests stay on.                       *)
PluginDisable ==
  /\ inited /\ inited' = FALSE
  /\ UNCHANGED <<seOn, begun, lost>>

Delivered(t, v) ==
  inited /\ (t \in ResTypes \cup OtherResTypes \/ <<t, v>> \in ResTypeWithVal)

(* One report.  Scenes begin and end in any order and nest in any way; the *)
(* bound keeps requests that run out from piling up.                       *)
DispatchResource(t, v) ==
  /\ v = "begin" => /\ Cardinality(begun \cup lost \cup {t}) <= MaxScenes
                    /\ seOn \cap RunOut = {}
  /\ begun' = CASE v = "begin" -> begun \cup {t}
                [] v = "end" -> begun \ {t}
                [] OTHER -> begun
  /\ seOn' = IF Delivered(t, v) THEN FunctionMap(t, seOn, v) ELSE seOn
  /\ lost' = CASE v = "end" /\ t \in begun /\ ~inited -> lost \cup {t}
               [] v = "end" /\ inited -> lost \ {t}
               [] OTHER -> lost
  /\ UNCHANGED inited

EventsNext ==
  \/ PluginInit
  \/ PluginDisable
  \/ \E t \in Scenes, v \in {"begin", "end", "other"} : DispatchResource(t, v)

EventsSpec == EventsInit /\ [][EventsNext]_seVars

-----------------------------------------------------------------------------
(* Requests that no scene explains: those of scenes that are not over, of  *)
(* scenes whose end came while the plugin was disabled, and those that run *)
(* out by themselves.                                                      *)
Explained ==
  (UNION {FunctionMap(t, {}, "begin") : t \in begun \cup lost}) \cup RunOut

(* A boost does not outlive its scene: for every type, the end that the    *)
(* reporter sends is subscribed, reaches its handler and turns off the     *)
(* request that its begin turned on, in whatever order scenes overlap and  *)
(* the plugin is repaired (InitResTypes, InitResTypeWithVal, functionMap). *)
OnlyOpenScenes == seOn \subseteq Explained
=============================================================================
