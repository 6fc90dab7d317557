------------------------------- MODULE MCParts -------------------------------
(***************************************************************************)
(* The parts of the service that share no state, checked one after the     *)
(* other: part is chosen at the start, the part takes its steps and the    *)
(* others stay as they start.  The states of the parts add up instead of   *)
(* multiplying, and each part is checked as if it were alone.              *)
(***************************************************************************)
EXTENDS SocPerfFocus, SocPerfEvents, SocPerfBattery, Observers, OobeManager,
        AudioObserver, AppState, StartupScene, RequestLimit, SyncDelivery,
        ExecutorInit, SocPerfExecutor, ConfigLoad, SlideScene,
        SceneRecognizers, FrameAware, CommonEvents, DeviceObservers,
        CgroupStates, SuspendObservers, JsSystemload, KillReasons, TLC

CONSTANTS
  g1, g2, other, s1, s2,
  MaxRefused,  \* bound: registrations refused at one addition, unless all are
  MaxLost      \* bound: scenes of SocPerfEvents whose end met no handler

FocusTypes == (g1 :> "GAME") @@ (other :> "OTHER") @@ (g2 :> NoType)
AudioPidOf == (s1 :> 1) @@ (s2 :> 1)
WatchedEvents == {"SCREEN_STATUS", "USB_DEVICE"}

(* Configuration files of the SocPerf executor plugin: every pair of nine  *)
(* groups, in one file and in two.                                         *)
Declared(gov, id, def, levels) == [gov |-> gov, id |-> id, report |-> FALSE, def |-> def, levels |-> levels, pair |-> INVALID_VALUE, tag |-> TRUE, contents |-> TRUE]
SocGroups ==
  LET res == Declared(FALSE, 1, 5, {5, 6})
      gov == Declared(TRUE, 2, 5, {5, 6})
  IN  {[gov |-> FALSE, decls |-> <<res>>],
       [gov |-> FALSE, decls |-> <<[res EXCEPT !.def = 7]>>],
       [gov |-> FALSE, decls |-> <<[res EXCEPT !.pair = 2]>>],
       [gov |-> FALSE, decls |-> <<[res EXCEPT !.report = TRUE], [res EXCEPT !.tag = FALSE]>>],
       [gov |-> TRUE, decls |-> <<gov>>],
       [gov |-> TRUE, decls |-> <<[gov EXCEPT !.levels = {}]>>],
       [gov |-> TRUE, decls |-> <<[gov EXCEPT !.def = 7]>>],
       [gov |-> TRUE, decls |-> <<[gov EXCEPT !.contents = FALSE]>>],
       [gov |-> TRUE, decls |-> <<[gov EXCEPT !.id = 1, !.levels = {5}]>>]}
SocConfigs == {<<<<g>>, <<h>>>> : g, h \in SocGroups} \cup {<<<<g, h>>>> : g, h \in SocGroups}

(* Files of the plugin configuration and of the plugin switch.             *)
CfgItem(k, v) == [key |-> k, value |-> v]
CfgItems == {CfgItem(k, v) : k \in {"type", "other", "path", "game_boost", "enable", "capacity",
                                    "m1", "m2"}, v \in {0, 1, 2, 3, 4, 5, 7, 10, 20}}
  \cup {CfgItem(k, v) : k \in {"mode", "bundle", "camera", "info"}, v \in {"m1", "m2", "b", "e"}}
CfgGroup(t, n, is) == [tag |-> t, name |-> n, items |-> is]
CfgNode(t, p, cs) == [tag |-> t, plugin |-> p, configs |-> cs]
CfgFile(x, ns) == [xml |-> x, nodes |-> ns]
CfgSoc(cs) == CfgNode("plugin", "SocPerfPlugin", cs)
CfgFiles == {
  CfgFile(TRUE, <<CfgSoc(<<CfgGroup("config", "event_id", <<CfgItem("type", 1)>>),
                    CfgGroup("config", "event_id", <<CfgItem("type", 2), CfgItem("other", 3)>>),
                    CfgGroup("config", "policy_mode", <<CfgItem("mode", "m1")>>),
                    CfgGroup("config", "limit_policy", <<CfgItem("m2", 0), CfgItem("m1", 1), CfgItem("m1", 0)>>)>>),
                 CfgNode("comment", "none", <<>>)>>),
  CfgFile(TRUE, <<CfgSoc(<<CfgGroup("config", "event_id", <<CfgItem("type", 4)>>),
                    CfgGroup("config", "crucial", <<CfgItem("path", 1)>>),
                    CfgGroup("config", "feature_switch", <<CfgItem("game_boost", 1)>>)>>),
                 CfgSoc(<<CfgGroup("config", "weak", <<CfgItem("enable", 1), CfgItem("bundle", "b")>>),
                    CfgGroup("config", "event_id", <<>>), CfgGroup("other", "weak", <<CfgItem("enable", 0)>>)>>)>>),
  CfgFile(TRUE, <<CfgSoc(<<CfgGroup("config", "event_id", <<CfgItem("type", 5)>>)>>), CfgNode("other", "none", <<>>)>>),
  CfgFile(TRUE, <<CfgNode("plugin", "Other", <<CfgGroup("config", "weak", <<CfgItem("enable", 1)>>)>>),
                 CfgSoc(<<CfgGroup("config", "event_id", <<>>),
                    CfgGroup("config", "policy_mode", <<CfgItem("mode", "m2")>>),
                    CfgGroup("config", "none", <<CfgItem("type", 7)>>),
                    CfgGroup("config", "battery", <<CfgItem("capacity", 20), CfgItem("capacity", 10)>>),
                    CfgGroup("config", "boost_list", <<CfgItem("camera", "b")>>),
                    CfgGroup("config", "extension", <<CfgItem("info", "e")>>)>>)>>),
  CfgFile(FALSE, <<>>) }
CfgStrings == {<<>>} \cup (CfgFiles \X CfgFiles)  \cup (CfgFiles \X CfgFiles \X CfgFiles)
SwNode(t, l, e, s) == [tag |-> t, lib |-> l, exeLib |-> e, switch |-> s]
SwFiles == {
  CfgFile(TRUE, <<SwNode("plugin", "soc", "none", "1"), SwNode("plugin", "oth", "oth", "1")>>),
  CfgFile(TRUE, <<SwNode("comment", "none", "none", ""), SwNode("plugin", "oth", "bad", "0"),
                 SwNode("other", "none", "none", ""), SwNode("plugin", "soc", "oth", "0")>>) }
SwStrings == {<<f>> : f \in SwFiles} \cup (SwFiles \X SwFiles)
SwLibs == [l \in {"soc", "oth", "bad"} |-> IF l = "bad" THEN "no_symbol" ELSE "ok"]

-----------------------------------------------------------------------------
VARIABLE part

Parts == {"focus", "events", "battery", "observers", "oobe", "audio",
          "state", "startup", "limit", "sync", "executor", "soc", "config",
          "slide", "overlap", "install", "upgrade", "latency", "frame",
          "common", "device", "cgroup", "suspend", "js", "kill"}

(* The steps of no part but p change anything.                             *)
Still(q) ==
  CASE q = "focus" -> UNCHANGED sfVars
    [] q = "events" -> UNCHANGED seVars
    [] q = "battery" -> UNCHANGED batteryVars
    [] q = "observers" -> UNCHANGED obVars
    [] q = "oobe" -> UNCHANGED oobeVars
    [] q = "audio" -> UNCHANGED audioVars
    [] q = "state" -> UNCHANGED appStateVars
    [] q = "startup" -> UNCHANGED startupVars
    [] q = "limit" -> UNCHANGED limitVars
    [] q = "sync" -> UNCHANGED syncVars
    [] q = "executor" -> UNCHANGED executorInitVars
    [] q = "soc" -> UNCHANGED socExeVars
    [] q = "config" -> UNCHANGED configVars
    [] q = "slide" -> UNCHANGED slideVars
    [] q = "overlap" -> UNCHANGED overlapVars
    [] q = "install" -> UNCHANGED installVars
    [] q = "upgrade" -> UNCHANGED upgradeVars
    [] q = "latency" -> UNCHANGED latencyVars
    [] q = "frame" -> UNCHANGED frameVars
    [] q = "common" -> UNCHANGED commonEventVars
    [] q = "device" -> UNCHANGED deviceVars
    [] q = "cgroup" -> UNCHANGED cgVars
    [] q = "suspend" -> UNCHANGED suspendVars
    [] q = "js" -> UNCHANGED jsVars
    [] q = "kill" -> UNCHANGED killVars
Alone(p) == part = p /\ part' = p /\ \A q \in Parts \ {p} : Still(q)

(* Only the part that runs chooses how it starts.                           *)
Choosing(p, fixed) == part = p \/ fixed
One(S) == CHOOSE x \in S : TRUE

(* Bounds of the instance, on top of those of the parts.                    *)
FewRefused == Cardinality(refused') <= MaxRefused \/ refused' = Expected
FewLost == Cardinality(lost') <= MaxLost

PartsInit ==
  /\ part \in Parts
  /\ Choosing("focus", reqAppTypeFunc = TRUE) /\ FocusInit
  /\ Choosing("observers", ability = One(Abilities) /\ isFoldable = TRUE /\ up = TRUE)
  /\ ObserversInit
  /\ Choosing("oobe", agreed = TRUE /\ oobeValue = "INVALID" /\ isConnectDataShareSucc = TRUE)
  /\ OobeInit
  /\ Choosing("executor", fragments = One(FragmentCounts) /\ oversize = TRUE /\ exeUp = TRUE)
  /\ ExecutorInitially
  /\ Choosing("soc", socFiles = One(ConfigFiles)) /\ SocExeInit
  /\ Choosing("config", configStrs = One(ConfigStrings) /\ switchStrs = One(SwitchStrings)
                          /\ isRssExe = TRUE)
  /\ ConfigInit
  /\ Choosing("upgrade", systemVersion = One(SystemVersions)) /\ UpgradeInit
  /\ Choosing("common", watched = One(Watched) /\ cesUp = TRUE) /\ CommonEventsInit
  /\ Choosing("device", topic = One(DeviceTopics) /\ truth = One(StatesOf(topic)))
  /\ DeviceInit
  /\ Choosing("cgroup", cgState = One(CgStates)) /\ CgStatesInit
  /\ EventsInit /\ BatteryInit /\ AudioInit /\ AppStateInit /\ StartupInit
  /\ LimitInit /\ SyncInit /\ SlideInit /\ OverlapInit /\ InstallInit
  /\ LatencyInit /\ FrameInit /\ SuspendInit /\ JsInit /\ KillInit

PartsNext ==
  \/ Alone("focus") /\ FocusNext
  \/ Alone("events") /\ EventsNext /\ FewLost
  \/ Alone("battery") /\ BatteryNext
  \/ Alone("observers") /\ ObserversNext /\ FewRefused
  \/ Alone("oobe") /\ OobeNext
  \/ Alone("audio") /\ AudioNext
  \/ Alone("state") /\ AppStateNext
  \/ Alone("startup") /\ StartupNext
  \/ Alone("limit") /\ LimitNext
  \/ Alone("sync") /\ SyncNext
  \/ Alone("executor") /\ ExecutorInitNext
  \/ Alone("soc") /\ SocExeNext
  \/ Alone("config") /\ ConfigNext
  \/ Alone("slide") /\ SlideNext
  \/ Alone("overlap") /\ OverlapNext
  \/ Alone("install") /\ InstallNext
  \/ Alone("upgrade") /\ UpgradeNext
  \/ Alone("latency") /\ LatencyNext
  \/ Alone("frame") /\ FrameNext
  \/ Alone("common") /\ CommonEventsNext
  \/ Alone("device") /\ DeviceNext
  \/ Alone("cgroup") /\ CgStatesNext
  \/ Alone("suspend") /\ SuspendNext
  \/ Alone("js") /\ JsNext
  \/ Alone("kill") /\ KillNext

partsVars == <<part, sfVars, seVars, batteryVars, obVars, oobeVars, audioVars, appStateVars,
              startupVars, limitVars, syncVars, executorInitVars, socExeVars,
              configVars, slideVars, overlapVars, installVars, upgradeVars,
              latencyVars, frameVars, commonEventVars, deviceVars, cgVars,
              suspendVars, jsVars, killVars>>

(* What tells two states apart: the variables of the part that runs, since  *)
(* those of the others never change.                                        *)
PartView ==
  CASE part = "focus" -> <<part, sfVars>>
    [] part = "events" -> <<part, seVars>>
    [] part = "battery" -> <<part, batteryVars>>
    [] part = "observers" -> <<part, obVars>>
    [] part = "oobe" -> <<part, oobeVars>>
    [] part = "audio" -> <<part, audioVars>>
    [] part = "state" -> <<part, appStateVars>>
    [] part = "startup" -> <<part, startupVars>>
    [] part = "limit" -> <<part, limitVars>>
    [] part = "sync" -> <<part, syncVars>>
    [] part = "executor" -> <<part, executorInitVars>>
    [] part = "soc" -> <<part, socExeVars>>
    [] part = "config" -> <<part, configVars>>
    [] part = "slide" -> <<part, slideVars>>
    [] part = "overlap" -> <<part, overlapVars>>
    [] part = "install" -> <<part, installVars>>
    [] part = "upgrade" -> <<part, upgradeVars>>
    [] part = "latency" -> <<part, latencyVars>>
    [] part = "frame" -> <<part, frameVars>>
    [] part = "common" -> <<part, commonEventVars>>
    [] part = "device" -> <<part, deviceVars>>
    [] part = "cgroup" -> <<part, cgVars>>
    [] part = "suspend" -> <<part, suspendVars>>
    [] part = "js" -> <<part, jsVars>>
    [] part = "kill" -> <<part, killVars>>

PartsSpec == PartsInit /\ [][PartsNext]_partsVars

-----------------------------------------------------------------------------
(* The type invariants of the parts.  A part that does not run stays as it  *)
(* starts, so each is checked where it runs; so are the properties below.   *)
PartsTypeOK ==
  /\ part \in Parts
  /\ part = "focus" => FocusTypeOK
  /\ part = "events" => EventsTypeOK
  /\ part = "battery" => BatteryTypeOK
  /\ part = "observers" => ObserversTypeOK
  /\ part = "common" => CommonEventsTypeOK
  /\ part = "device" => DeviceTypeOK
  /\ part = "audio" => AudioTypeOK
  /\ part = "oobe" => OobeTypeOK
  /\ part = "state" => AppStateTypeOK
  /\ part = "limit" => LimitTypeOK
  /\ part = "sync" => SyncTypeOK
  /\ part = "executor" => ExecutorTypeOK
  /\ part = "soc" => SocExeTypeOK
  /\ part = "config" => ConfigTypeOK
  /\ part = "startup" => StartupTypeOK
  /\ part = "slide" => SlideTypeOK
  /\ part \in {"overlap", "install", "upgrade"} => RecognizersTypeOK
  /\ part \in {"latency", "frame"} => FrameAwareTypeOK
  /\ part = "cgroup" => CgStatesTypeOK
  /\ part = "suspend" => SuspendTypeOK
  /\ part = "js" => JsTypeOK
  /\ part = "kill" => KillTypeOK

(* What SocPerfPlugin asks for is right: input is suppressed for games      *)
(* only and the weak mode is off in a custom game, whatever gets the focus; *)
(* no boost that has an end outlives its scene, unless the end came while   *)
(* the plugin was disabled.                                                 *)
SocPerfRight ==
  /\ part = "focus" => GameFlagSound /\ WeakOffInCustGame
  /\ part = "events" => OnlyOpenScenes

(* The limits are kept: ResSchedService lets no more requests through in a  *)
(* span of time than twice its limits, and the frequency limit of           *)
(* SocPerfPlugin is that of the battery level.                              *)
LimitsRight ==
  /\ part = "limit" => LimitHolds
  /\ part = "battery" => BatteryLimitRight

(* The observers are registered and have told the state: every observer is  *)
(* registered with its running ability unless it was refused; it misses no  *)
(* change of its value between registration and fetch, but may report a     *)
(* value it fetched before a change after that change; the plugins know the *)
(* state of the device once the callbacks are handled, but for such an      *)
(* older value, an unreported first mode and a dropped event; and the       *)
(* observers of suspend states that the service calls are the living ones   *)
(* that registered, but for a registration served during a death.           *)
ObserversRight ==
  /\ part = "observers" => ObserversListen /\ ObserversKnow
  /\ part = "device" => DeviceStateTold
  /\ part = "suspend" => SuspendObserversRight

(* A task that waits for the user's agreement runs once and only after it,  *)
(* and a registration put off until the data service is ready is not        *)
(* forgotten (OobeManager).                                                 *)
OobeRight == part = "oobe" => OobeTasksRun /\ OobeNotForgotten

(* The scenes the recognizers report are the scenes there are: a continuous *)
(* startup and a fling end unless a slide or an older OFF cut the fling     *)
(* off, the frames of a slide are reported unless a fling ended while it    *)
(* was being detected, and the overlap, install and upgrade scenes are      *)
(* reported when they begin and end, but for an install that began while    *)
(* the exit task of another ran, and the first boot of a version whose      *)
(* service ended before it.                                                 *)
RecognizedRight ==
  /\ part = "startup" => StartupEnds
  /\ part = "slide" => SlideSound
  /\ part \in {"overlap", "install", "upgrade"} => ScenesRight

(* What the service knows of the processes is so: the pids it takes for     *)
(* foreground are those of the application manager and those an older list  *)
(* put back, and the records of the cgroup plugin hold what their processes *)
(* do and end with them; and the client library knows which kills are       *)
(* configured, but for a configuration that was overtaken or not pushed,    *)
(* and counts those it is asked about.                                      *)
ProcessesKnown ==
  /\ part = "state" => ForegroundKnown
  /\ part = "cgroup" => CgroupStatesRight
  /\ part = "kill" => KillReasonsRight

(* Calls reach who asked for them: a synchronous request is handed to a     *)
(* plugin that was subscribed and loaded at some moment since it arrived,   *)
(* and a JavaScript callback ends with the newest level, unless it was      *)
(* registered again while an older call was under way, and is not called    *)
(* again after off but for what was already queued.                         *)
CallsRight ==
  /\ part = "sync" => SyncCallsLive
  /\ part = "js" => JsCallbacksRight
=============================================================================
