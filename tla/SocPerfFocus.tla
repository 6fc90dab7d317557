---------------------------- MODULE SocPerfFocus ----------------------------
(***************************************************************************)
(* The part of the SocPerf plugin that follows the applications in focus:  *)
(* their types, which it asks a library for and remembers per uid, the     *)
(* game flag that suppresses boosts on input, the weak action mode, and    *)
(* the requests for fling, drag, move event and camera.  All handlers run  *)
(* on the dispatcher thread.  Requests that end by themselves              *)
(* (PerfRequest) leave no state.  An application has one process here, so  *)
(* that a pid and a uid are the same value.                                *)
(***************************************************************************)
EXTENDS Naturals, FiniteSets

CONSTANTS
  Uids,            \* applications
  AppTypeOf,       \* what reqAppTypeFunc_ answers for each (external), or NoType
  NoType,          \* INVALID_APP_TYPE
  KeyTypes,        \* types that may be configured as keyAppType_
  KeyNames,        \* applications in keyAppName_ whose signature is right
  MoveApps,        \* the same of appNameMoveEvent_
  CameraApps,      \* applications in appNameUseCamera_
  CustGames        \* applications that report themselves as custom games

ASSUME FocusAssumption ==
  /\ AppTypeOf \in [Uids -> {"GAME", "OTHER", NoType}]
  /\ KeyNames \subseteq Uids /\ MoveApps \subseteq Uids /\ CameraApps \subseteq Uids
  /\ KeyTypes \subseteq {"GAME", "OTHER"} /\ CustGames \subseteq Uids

VARIABLES
  reqAppTypeFunc,   \* was the library that knows the types found?
  socperfGameBoostSwitch,
  focusAppUids,
  known,            \* keys of uidToAppMsgMap_; the type is AppTypeOf
  pidToAppType,     \* keys of pidToAppTypeMap_ that hold a type
  isFocusAppsGameType,
  custGameUids,     \* focusCustGameUids_
  custGameState,
  weakActionEnable, weakActionStatus, keyAppType,
  flingExceptionFlag,
  lastStatus,       \* the static of HandleContinuousDrag: is a drag going on?
  sfOn              \* requests that are on (external)

libState == <<reqAppTypeFunc, socperfGameBoostSwitch>>
focusState == <<libState, focusAppUids, known, pidToAppType, isFocusAppsGameType>>
custState == <<custGameUids, custGameState>>
weakState == <<weakActionEnable, keyAppType>>
sfVars == <<focusState, custState, weakState, weakActionStatus, flingExceptionFlag,
            lastStatus, sfOn>>

FocusTypeOK ==
  /\ focusAppUids \subseteq Uids /\ known \subseteq Uids /\ pidToAppType \subseteq Uids
  /\ custGameUids \subseteq Uids /\ keyAppType \subseteq KeyTypes
  /\ {reqAppTypeFunc, socperfGameBoostSwitch, isFocusAppsGameType, custGameState,
      weakActionEnable, weakActionStatus, flingExceptionFlag} \subseteq BOOLEAN
  /\ lastStatus \in {"BEGIN", "END"}
  /\ sfOn \subseteq {"FLING", "DRAG", "MOVE", "CAMERA"}

FocusInit ==
  /\ reqAppTypeFunc \in BOOLEAN /\ socperfGameBoostSwitch = TRUE
  /\ focusAppUids = {} /\ known = {} /\ pidToAppType = {} /\ isFocusAppsGameType = FALSE
  /\ custGameUids = {} /\ custGameState = FALSE
  /\ weakActionEnable = TRUE /\ weakActionStatus = TRUE /\ keyAppType = {}
  /\ flingExceptionFlag = FALSE /\ lastStatus = "END" /\ sfOn = {}

-----------------------------------------------------------------------------
(* Weak action mode                                                         *)

IsKeyApp(u) == u \in known /\ (u \in KeyNames \/ AppTypeOf[u] \in keyAppType')

(* Mutant: a custom game in focus is not looked at.                         *)
UpdateWeakActionStatusNoCust ==
  weakActionStatus' = (weakActionEnable' /\ ~ \E u \in focusAppUids' : IsKeyApp(u))

(* What is remembered of the applications is read as it is before the      *)
(* calling handler remembers more.                                          *)
UpdateWeakActionStatus ==
  weakActionStatus' = /\ weakActionEnable'
                      /\ ~ \E u \in focusAppUids' : IsKeyApp(u)
                      /\ ~custGameState'

-----------------------------------------------------------------------------
(* Focus                                                                    *)

IsFocusAppsAllGame(focus) ==
  /\ focus # {} /\ known # {}
  /\ \A u \in focus : u \in known /\ AppTypeOf[u] = "GAME"

(* Mutant: the type of the last application decides alone.                  *)
UpdatesFocusAppsTypeLast(type) == type = "GAME"

UpdatesFocusAppsType(type) ==
  /\ type = "GAME"
  /\ Cardinality(focusAppUids') # 1 => isFocusAppsGameType

Remembered(u, pidKnown) ==
  /\ known' = known \cup {u}
  /\ pidToAppType' = IF pidKnown THEN pidToAppType \cup {u} ELSE pidToAppType

(* The window focus event without a uid in its payload changes nothing.     *)
UpdateFocusAppType(u, pidKnown) ==
  /\ focusAppUids' = focusAppUids \cup {u}
  /\ UNCHANGED <<libState, custState, weakState, flingExceptionFlag, lastStatus,
                 sfOn>>
  /\ UpdateWeakActionStatus
  /\ \/ /\ u \in known \/ (reqAppTypeFunc /\ AppTypeOf[u] # NoType)
        /\ Remembered(u, pidKnown)
        /\ isFocusAppsGameType' = UpdatesFocusAppsType(AppTypeOf[u])
     \/ /\ u \notin known /\ reqAppTypeFunc /\ AppTypeOf[u] = NoType
        /\ isFocusAppsGameType' = FALSE
        /\ UNCHANGED <<known, pidToAppType>>
     \/ /\ u \notin known /\ ~reqAppTypeFunc
        /\ UNCHANGED <<known, pidToAppType, isFocusAppsGameType>>

HandleWindowUnfocus(u) ==
  /\ focusAppUids' = focusAppUids \ {u}
  /\ UNCHANGED <<libState, known, pidToAppType, custState, weakState, flingExceptionFlag,
                 lastStatus, sfOn>>
  /\ UpdateWeakActionStatus
  /\ isFocusAppsGameType' = IsFocusAppsAllGame(focusAppUids')

(* A cold start asks for the type again, also of a known application.       *)
HandleAppAbilityStart(u) ==
  /\ reqAppTypeFunc /\ AppTypeOf[u] # NoType
  /\ known' = known \cup {u}
  /\ UNCHANGED <<libState, focusAppUids, pidToAppType, isFocusAppsGameType, custState, weakState,
                 weakActionStatus, flingExceptionFlag, lastStatus, sfOn>>

(* Creation of a process with a UI extension that is not preloaded.         *)
HandleAppStateChange(u) ==
  /\ u \notin known
  /\ HandleAppAbilityStart(u)

HandleUninstallEvent(u) ==
  /\ known' = known \ {u}
  /\ UNCHANGED <<libState, focusAppUids, pidToAppType, isFocusAppsGameType, custState, weakState,
                 weakActionStatus, flingExceptionFlag, lastStatus, sfOn>>

HandleDeadProcess(u) ==
  /\ pidToAppType' = pidToAppType \ {u}
  /\ UNCHANGED <<libState, focusAppUids, known, isFocusAppsGameType, custState, weakState,
                 weakActionStatus, flingExceptionFlag, lastStatus, sfOn>>

(* Mutant: losing the focus ends the state although another game has it.    *)
UpdateCustGameStateAny(u, focus) ==
  /\ custGameUids' = IF focus THEN custGameUids \cup {u} ELSE custGameUids \ {u}
  /\ custGameState' = focus

UpdateCustGameState(u, focus) ==
  /\ custGameUids' = IF focus THEN custGameUids \cup {u} ELSE custGameUids \ {u}
  /\ custGameState' = CASE focus -> TRUE
                        [] custGameUids' = {} -> FALSE
                        [] OTHER -> custGameState

HandleGameStateChange(u, focus) ==
  /\ UpdateCustGameState(u, focus)
  /\ UNCHANGED <<focusState, weakState, flingExceptionFlag, lastStatus, sfOn>>
  /\ UpdateWeakActionStatus

(* LoadWeakInterAction of an update from the cloud: the switch is applied   *)
(* when it is met, before or after the types that are added.                *)
HandleRssCloudConfigUpdate(enable, types, enableFirst) ==
  /\ weakActionEnable' = enable
  /\ UNCHANGED <<focusState, custState, flingExceptionFlag, lastStatus, sfOn>>
  /\ keyAppType' = keyAppType \cup types
  /\ IF enableFirst
       THEN weakActionStatus' = /\ enable /\ ~custGameState
                                /\ \A u \in focusAppUids \cap known :
                                     u \notin KeyNames /\ AppTypeOf[u] \notin keyAppType
       ELSE UpdateWeakActionStatus

(* The SocPerf service is there (again).                                    *)
ReportAbilityStatus ==
  /\ UNCHANGED <<focusState, custState, weakState, flingExceptionFlag, lastStatus, sfOn>>
  /\ UpdateWeakActionStatus

(* The plugin manager disables the plugin and initialises it again.  The    *)
(* fields of the object survive, but the configuration was removed when it  *)
(* was read first, so that InitFeatureSwitch finds no switch.               *)
InitFeatureSwitch ==
  /\ socperfGameBoostSwitch' = FALSE
  /\ UNCHANGED <<reqAppTypeFunc, focusAppUids, known, pidToAppType, isFocusAppsGameType,
                 custState, weakState, weakActionStatus, flingExceptionFlag, lastStatus, sfOn>>

-----------------------------------------------------------------------------
(* Input                                                                    *)

IsGameEvent(u) == u \in pidToAppType /\ AppTypeOf[u] = "GAME"

InputIsBoosted(u) ==
  /\ ~(socperfGameBoostSwitch /\ (isFocusAppsGameType \/ IsGameEvent(u)))
  /\ ~custGameState

HandleMoveEventBoost(on, u, isSet) ==
  CASE u \notin MoveApps -> on
    [] isSet -> on \cup {"MOVE"}
    [] OTHER -> on \ {"MOVE"}

OnlyRequests ==
  UNCHANGED <<focusState, custState, weakState, weakActionStatus, flingExceptionFlag,
              lastStatus>>

(* TOUCH_EVENT_UP is the only click event that is more than a short boost.  *)
HandleEventClick(u) ==
  /\ InputIsBoosted(u)
  /\ sfOn' = HandleMoveEventBoost(sfOn, u, FALSE)
  /\ OnlyRequests

(* Whether TIME_INTERVAL went by since the last request is left open.       *)
HandleContinuousDrag(on, status) ==
  \/ lastStatus = "END" /\ status = "MOVE" /\ sfOn' = on /\ UNCHANGED lastStatus
  \/ status = "END" /\ sfOn' = on \ {"DRAG"} /\ lastStatus' = "END"
  \/ /\ status # "END" /\ ~(lastStatus = "END" /\ status = "MOVE")
     /\ sfOn' = on \cup {"DRAG"} /\ lastStatus' = "BEGIN"

HandleEventSlide(u, status) ==
  /\ InputIsBoosted(u)
  /\ UNCHANGED <<focusState, custState, weakState, weakActionStatus, flingExceptionFlag>>
  /\ \/ status = "ON" /\ sfOn' = sfOn \cup {"FLING"} /\ UNCHANGED lastStatus
     \/ status = "OFF" /\ sfOn' = sfOn \ {"FLING"} /\ UNCHANGED lastStatus
     \/ /\ status = "FLING_END" /\ ~flingExceptionFlag
        /\ sfOn' = sfOn \ {"FLING"} /\ UNCHANGED lastStatus
     \/ status \in {"BEGIN", "END"} /\ HandleContinuousDrag(sfOn, status)
     \/ /\ status = "MOVE"
        /\ HandleContinuousDrag(HandleMoveEventBoost(sfOn, u, TRUE), status)

HandleSwiperFlingEndEx(flag) ==
  /\ flingExceptionFlag' = flag
  /\ UNCHANGED <<focusState, custState, weakState, weakActionStatus, lastStatus, sfOn>>

IsAllowBoostScene == focusAppUids \cap known \cap CameraApps # {}

HandleCameraStateChange(connect) ==
  /\ connect => IsAllowBoostScene
  /\ sfOn' = IF connect THEN sfOn \cup {"CAMERA"} ELSE sfOn \ {"CAMERA"}
  /\ OnlyRequests

FocusNext ==
  \/ \E u \in Uids, p \in BOOLEAN : UpdateFocusAppType(u, p)
  \/ \E u \in Uids : HandleWindowUnfocus(u)
  \/ \E u \in Uids : HandleAppAbilityStart(u)
  \/ \E u \in Uids : HandleAppStateChange(u)
  \/ \E u \in Uids : HandleUninstallEvent(u)
  \/ \E u \in Uids : HandleDeadProcess(u)
  \/ \E u \in CustGames, f \in BOOLEAN : HandleGameStateChange(u, f)
  \/ \E e, f \in BOOLEAN, ts \in SUBSET KeyTypes : HandleRssCloudConfigUpdate(e, ts, f)
  \/ ReportAbilityStatus
  \/ InitFeatureSwitch
  \/ \E u \in Uids : HandleEventClick(u)
  \/ \E u \in Uids, s \in {"ON", "OFF", "FLING_END", "BEGIN", "END", "MOVE"} :
       HandleEventSlide(u, s)
  \/ \E f \in BOOLEAN : HandleSwiperFlingEndEx(f)
  \/ \E c \in BOOLEAN : HandleCameraStateChange(c)

FocusSpec == FocusInit /\ [][FocusNext]_sfVars

-----------------------------------------------------------------------------
(* Input is suppressed for games only: when the flag is set, every          *)
(* application in focus is a game, whatever the order in which several get  *)
(* and lose the focus and are installed or removed                          *)
(* (UpdatesFocusAppsType, IsFocusAppsAllGame).                              *)
GameFlagSound ==
  isFocusAppsGameType => /\ focusAppUids # {}
                         /\ \A u \in focusAppUids : AppTypeOf[u] = "GAME"

(* The custom game state stands exactly while some custom game has the      *)
(* focus, and the weak action mode is off then: no focus event, update from *)
(* the cloud or restart of the SocPerf service turns it on again.           *)
WeakOffInCustGame ==
  /\ custGameState <=> custGameUids # {}
  /\ custGameState => ~weakActionStatus
=============================================================================
