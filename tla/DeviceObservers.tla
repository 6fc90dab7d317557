---------------------------- MODULE DeviceObservers ----------------------------
(***************************************************************************)
(* The observers that turn callbacks of the window manager, the display    *)
(* manager and the system event service into resource reports: window      *)
(* mode, fold mode and window style, which are also read once when the     *)
(* observer is set up and so race with the callbacks, the orientation,     *)
(* system events, and the callbacks that are handed on as they come.  One  *)
(* topic moves in each behaviour.                                          *)
(***************************************************************************)
EXTENDS Naturals, Sequences

CONSTANT MaxCallbacks    \* bound: callbacks of a topic on their way

VARIABLES
  topic,         \* what this behaviour is about
  truth,         \* the state of the device
  callbacksSent, \* states on their way to the observer
  setUp,         \* the setup of the observer: where it stands, and what it read
  last,          \* what the observer remembers
  told,          \* what the plugins were told last
  silent,        \* history: the setup stored a state it did not report
  backward       \* history: a state the setup read was used after a newer one

deviceVars == <<topic, truth, callbacksSent, setUp, last, told, silent, backward>>

-----------------------------------------------------------------------------
(* The states of each topic.                                               *)

WindowModes == {"SPLIT", "FLOATING", "FULLSCREEN_FLOATING", "SPLIT_FLOATING", "OTHER"}
FoldModes == {"FULL", "SUB", "MAIN", "GLOBAL_FULL", "COORDINATION"}
DisplayShapes == {"PORTRAIT", "LANDSCAPE"}
NoMode == "unknown"

(* The bits of RSSWindowMode: 1 when split, or floating, is off.           *)
Bits(split, floating) == [split |-> split, floating |-> floating]
MarshallingWindowModeType(mode) ==
  CASE mode = "SPLIT" -> Bits(0, 1)
    [] mode \in {"FLOATING", "FULLSCREEN_FLOATING"} -> Bits(1, 0)
    [] mode = "SPLIT_FLOATING" -> Bits(0, 0)
    [] OTHER -> Bits(1, 1)
FoldModeEntered(mode) == IF mode = "COORDINATION" THEN NoMode ELSE mode

(* System events, and the callbacks handed on as they come: the report of  *)
(* each, in states of the thing it is about.                               *)
ProcessAvCodecEvent == [CODEC_START_INFO |-> "start", CODEC_STOP_INFO |-> "stop"]
ProcessRunningLockEvent ==
  [DISABLE |-> "disable", ENABLE |-> "enable", PROXIED |-> "proxied",
   UNPROXIED_RESTORE |-> "proxied"]
ProcessCameraEvent == [CAMERA_CONNECT |-> "connect", CAMERA_DISCONNECT |-> "disconnect"]
ProcessWifiEvent ==
  [WIFI_CONNECTED |-> "connected", WIFI_DISCONNECTED |-> "disconnected", WIFI_SCAN |-> "scan"]
OnFocusChanged == [FOCUSED |-> "focus", UNFOCUSED |-> "unfocus"]
OnWindowVisibilityChanged ==
  [NO_OCCLUSION |-> "visible", PARTLY_OCCLUSION |-> "visible", TOTALLY_OCCUSION |-> "invisible"]
OnWindowDrawingContentChanged == [DRAWING |-> "drawing", NOT_DRAWING |-> "not_drawing"]
OnPiPStateChanged == [PIP_FOREGROUND |-> "foreground", PIP_BACKGROUND |-> "background"]
OnWindowStyleUpdate == [FREE_MULTI_WINDOW |-> "free", OTHER_STYLE |-> "other"]
OnConnectionChanged ==
  [EXTENSION_CONNECTED |-> "connected", EXTENSION_DISCONNECTED |-> "disconnected",
   EXTENSION_SUSPENDED |-> "suspended", EXTENSION_RESUMED |-> "resumed"]
OnDlpAbilityChanged == [DLP_OPENED |-> "opened", DLP_CLOSED |-> "closed"]

ProcessHiSysEvent ==
  [codec |-> ProcessAvCodecEvent, lock |-> ProcessRunningLockEvent,
   camera |-> ProcessCameraEvent, wifi |-> ProcessWifiEvent]
Passed ==
  [focus |-> OnFocusChanged, visibility |-> OnWindowVisibilityChanged,
   drawing |-> OnWindowDrawingContentChanged, pip |-> OnPiPStateChanged,
   style |-> OnWindowStyleUpdate, connection |-> OnConnectionChanged, dlp |-> OnDlpAbilityChanged]
HandedOn(t) == t \in DOMAIN ProcessHiSysEvent \cup DOMAIN Passed
TableOf(t) == IF t \in DOMAIN Passed THEN Passed[t] ELSE ProcessHiSysEvent[t]
DeviceTopics == {"window", "fold", "orientation"} \cup DOMAIN ProcessHiSysEvent \cup DOMAIN Passed

StatesOf(t) ==
  CASE t = "window" -> WindowModes [] t = "fold" -> FoldModes
    [] t = "orientation" -> DisplayShapes [] OTHER -> DOMAIN TableOf(t)
(* The report of a state when it is the last thing plugins hear.           *)
TellOf(t, state) ==
  CASE t = "window" -> MarshallingWindowModeType(state)
    [] t = "fold" -> FoldModeEntered(state)
    [] t = "orientation" -> state
    [] OTHER -> TableOf(t)[state]
UntoldOf(t) == IF t = "window" THEN Bits(1, 1) ELSE NoMode
TellsOf(t) == {TellOf(t, state) : state \in StatesOf(t)} \cup {UntoldOf(t)}

DeviceTypeOK ==
  /\ topic \in DeviceTopics /\ truth \in StatesOf(topic)
  /\ callbacksSent \in Seq(StatesOf(topic))
  /\ setUp \in [at : {"before", "listening", "read", "done"}, read : StatesOf(topic)]
  /\ {last, told} \subseteq TellsOf(topic)
  /\ silent \in BOOLEAN /\ backward \in BOOLEAN

DeviceInit ==
  /\ topic \in DeviceTopics /\ truth \in StatesOf(topic)
  /\ callbacksSent = <<>> /\ setUp = [at |-> "before", read |-> truth]
  /\ last = UntoldOf(topic) /\ told = UntoldOf(topic)
  /\ silent = FALSE /\ backward = FALSE

-----------------------------------------------------------------------------
(* Mutant: a change of both bits is reported as a change of the split.     *)
OnWindowModeUpdateOne(mode) ==
  LET now == MarshallingWindowModeType(mode)
  IN  /\ last' = now
      /\ told' = IF now.split # last.split THEN [told EXCEPT !.split = now.split]
                 ELSE [told EXCEPT !.floating = now.floating]
(* WindowModeObserver: only the bits that differ from the remembered mode  *)
(* are reported.                                                           *)
OnWindowModeUpdate(mode) ==
  LET now == MarshallingWindowModeType(mode)
  IN  /\ last' = now
      /\ told' = [bit \in DOMAIN told |-> IF now[bit] # last[bit] THEN now[bit] ELSE told[bit]]
(* FoldDisplayModeObserver: a mode that is not displayed quits the one     *)
(* remembered.                                                             *)
OnDisplayModeChanged(mode) ==
  /\ last' = FoldModeEntered(mode)
  /\ told' = IF FoldModeEntered(mode) # NoMode THEN FoldModeEntered(mode)
             ELSE IF told = last THEN NoMode ELSE told
(* FoldDisplayOrientationObserver reads the display, not the callback.     *)
OnDisplayChange ==
  /\ last' = truth
  /\ told' = IF truth # last THEN truth ELSE told
(* HiSysEventObserver::OnEvent, and the callbacks handed on.               *)
OnHandedOn(state) == told' = TableOf(topic)[state] /\ last' = last

(* A callback arrives; formed: the record of a system event is short       *)
(* enough, is read, and has its domain, name, uid, pid and state; the      *)
(* information of the others is not null.  A style is always handed on.    *)
OnEvent(formed) ==
  /\ callbacksSent # <<>> /\ callbacksSent' = Tail(callbacksSent)
  /\ LET state == Head(callbacksSent)
     IN  IF HandedOn(topic) /\ topic # "style" /\ ~formed
           THEN /\ UNCHANGED <<last, told>> /\ silent' = TRUE
           ELSE /\ CASE topic = "window" -> OnWindowModeUpdate(state)
                     [] topic = "fold" -> OnDisplayModeChanged(state)
                     [] topic = "orientation" -> OnDisplayChange
                     [] OTHER -> OnHandedOn(state)
                /\ silent' = (silent /\ topic = "window" /\ last' # told')
  /\ backward' = FALSE
  /\ UNCHANGED <<topic, truth, setUp>>

(* The setup: callbacks come from the registration on, and only then the   *)
(* state is read and, in a second step, used.                              *)
ReadTopics == {"window", "fold", "style"}
RegisterDevice ==
  /\ setUp.at = "before"
  /\ setUp' = [setUp EXCEPT !.at = IF topic \in ReadTopics THEN "listening" ELSE "done"]
  /\ silent' = (topic \notin ReadTopics)
  /\ UNCHANGED <<topic, truth, callbacksSent, last, told, backward>>
ReadState ==
  /\ setUp.at = "listening" /\ setUp' = [at |-> "read", read |-> truth]
  /\ UNCHANGED <<topic, truth, callbacksSent, last, told, silent, backward>>
(* InitWindowMode stores the mode, if it could be read, without a report;  *)
(* the fold mode goes through OnDisplayModeChanged, the style through      *)
(* OnWindowStyleUpdate.                                                    *)
InitWindowMode(ok) ==
  /\ topic = "window" /\ setUp.at = "read"
  /\ last' = IF ok THEN MarshallingWindowModeType(setUp.read) ELSE last
  /\ silent' = (~ok \/ last' # told) /\ UNCHANGED told
InitFoldMode ==
  topic = "fold" /\ setUp.at = "read" /\ OnDisplayModeChanged(setUp.read) /\ UNCHANGED silent
InitWindowStyle ==
  topic = "style" /\ setUp.at = "read" /\ OnHandedOn(setUp.read) /\ silent' = FALSE
UseState(ok) ==
  /\ InitWindowMode(ok) \/ (ok /\ (InitFoldMode \/ InitWindowStyle))
  /\ setUp' = [setUp EXCEPT !.at = "done"]
  /\ backward' = (setUp.read # truth)
  /\ UNCHANGED <<topic, truth, callbacksSent>>

(* The device changes (external); before the registration nobody is told.  *)
DeviceChanges(state) ==
  /\ state # truth /\ truth' = state
  /\ Len(callbacksSent) < MaxCallbacks
  /\ callbacksSent' = IF setUp.at = "before" THEN callbacksSent ELSE Append(callbacksSent, state)
  /\ UNCHANGED <<topic, setUp, last, told, silent, backward>>

DeviceNext ==
  \/ RegisterDevice \/ ReadState
  \/ \E ok \in BOOLEAN : UseState(ok)
  \/ \E formed \in BOOLEAN : OnEvent(formed)
  \/ \E state \in StatesOf(topic) : DeviceChanges(state)

-----------------------------------------------------------------------------
(* Once the observer is set up and has handled every callback, the plugins *)
(* know the state of the device.  They do not when the setup of the window *)
(* mode stored a mode it did not report, when the setup used a state that  *)
(* a callback had overtaken, or when the last system event was dropped.    *)
DeviceStateTold ==
  setUp.at = "done" /\ callbacksSent = <<>> =>
    told = TellOf(topic, truth) \/ silent \/ backward
=============================================================================
