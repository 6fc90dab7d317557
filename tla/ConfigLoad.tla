----------------------------- MODULE ConfigLoad -----------------------------
(***************************************************************************)
(* How the plugin manager reads its configuration: ConfigReader and        *)
(* PluginSwitch merge the files of all configuration directories,          *)
(* LoadPlugin opens the plugins that are switched on, and the SocPerf      *)
(* plugin takes its settings, each of which it removes from the reader     *)
(* once it has read it.  The plugin may be disabled and initialised again. *)
(*                                                                         *)
(* A file is [xml, nodes]: xml says that it parses and has the right root. *)
(* A node of a configuration file has a tag, a plugin name and its         *)
(* configs, each [tag, name, items]; a node of a switch file has a tag,    *)
(* the libraries for the service and for the executor and a switch.        *)
(***************************************************************************)
EXTENDS Integers, FiniteSets, SequencesExt

CONSTANTS
  ConfigItems,     \* items of the configs: [key, value]
  ConfigStrings,   \* sequences of configuration files
  SwitchStrings,   \* sequences of switch files
  SocPerfLib,      \* library of the SocPerf plugin
  LibStates        \* library -> "ok", "no_file", "no_symbol" or "init_fails"

NoName == "none"   \* an attribute that a node does not have
PluginConfigs == [tag : STRING, name : STRING, items : Seq(ConfigItems)]
PluginNodes == [tag : STRING, plugin : STRING, configs : Seq(PluginConfigs)]
SwitchNodes == [tag : STRING, lib : STRING, exeLib : STRING, switch : STRING]
ASSUME ConfigAssumption ==
  /\ ConfigStrings \subseteq Seq([xml : BOOLEAN, nodes : Seq(PluginNodes)])
  /\ SwitchStrings \subseteq Seq([xml : BOOLEAN, nodes : Seq(SwitchNodes)])
  /\ LibStates \in [DOMAIN LibStates -> {"ok", "no_file", "no_symbol", "init_fails"}]
  /\ NoName \notin DOMAIN LibStates

SocPerfName == "SocPerfPlugin"

VARIABLES
  configStrs, switchStrs, isRssExe,
  configParsed, switchParsed,
  allPluginConfigs,   \* plugin -> config name -> items
  pluginSwitchMap,    \* library -> switch
  loadedLibs,
  socSettings,        \* the settings the SocPerf plugin has read
  socEnabled, reqFunc,  \* of the SocPerf plugin
  removedConfigs,     \* history: what was removed from the reader
  reopenFailed        \* history: dlopen failed at a second initialisation

readerVars == <<configStrs, switchStrs, isRssExe, configParsed, switchParsed,
                pluginSwitchMap, loadedLibs>>
configVars == <<readerVars, allPluginConfigs, socSettings, socEnabled, reqFunc,
                removedConfigs, reopenFailed>>

NoSettings == [eventId |-> 0, extensions |-> {}, boostApps |-> {}, keyApps |-> {},
               battery |-> {}, powerLimit |-> -1, weakEnable |-> 0, reqPath |-> 0,
               gameBoost |-> 0]

ConfigTypeOK ==
  /\ configStrs \in ConfigStrings /\ switchStrs \in SwitchStrings /\ isRssExe \in BOOLEAN
  /\ configParsed \in BOOLEAN /\ switchParsed \in BOOLEAN
  /\ \A p \in DOMAIN allPluginConfigs : \A n \in DOMAIN allPluginConfigs[p] :
       Len(allPluginConfigs[p][n]) \in Nat
  /\ \A l \in DOMAIN pluginSwitchMap : pluginSwitchMap[l] \in BOOLEAN
  /\ loadedLibs \subseteq DOMAIN pluginSwitchMap
  /\ DOMAIN socSettings = DOMAIN NoSettings /\ socEnabled \in BOOLEAN
  /\ reqFunc \in {"null", "valid", "dangling"} /\ reopenFailed \in BOOLEAN

NoConfigs == [p \in {} |-> [n \in {} |-> <<>>]]
ConfigInit ==
  /\ configStrs \in ConfigStrings /\ switchStrs \in SwitchStrings /\ isRssExe \in BOOLEAN
  /\ configParsed = FALSE /\ switchParsed = FALSE
  /\ allPluginConfigs = NoConfigs /\ pluginSwitchMap = [l \in {} |-> FALSE]
  /\ loadedLibs = {} /\ socSettings = NoSettings
  /\ socEnabled = FALSE /\ reqFunc = "null"
  /\ removedConfigs = {} /\ reopenFailed = FALSE

-----------------------------------------------------------------------------
(* ConfigReader                                                            *)

Entry(f, x, none) == IF x \in DOMAIN f THEN f[x] ELSE none
Put(f, x, v) == [y \in DOMAIN f \cup {x} |-> IF y = x THEN v ELSE f[y]]

(* Configs of the same name in one file are one list of items.             *)
ParseItem(config, items) == items \o config.items
ParseConfig(node, configMap) ==
  FoldLeft(LAMBDA m, c : IF c.tag # "config" \/ c.name = NoName THEN m
                         ELSE Put(m, c.name, ParseItem(c, Entry(m, c.name, <<>>))),
           configMap, node.configs)
ParsePluginConfig(node, configs) ==
  Put(configs, node.plugin, ParseConfig(node, Entry(configs, node.plugin, [n \in {} |-> <<>>])))

(* Mutant: what an earlier file says stays.                                *)
MergePluginConfigMapFirst(cur, next) ==
  [n \in DOMAIN cur \cup DOMAIN next |-> IF n \in DOMAIN cur THEN cur[n] ELSE next[n]]
MergePluginConfigMap(cur, next) ==
  [n \in DOMAIN cur \cup DOMAIN next |-> IF n \in DOMAIN next THEN next[n] ELSE cur[n]]
MergeConfigList(all, new) ==
  [p \in DOMAIN all \cup DOMAIN new |->
     CASE p \notin DOMAIN all -> new[p]
       [] p \in DOMAIN all \cap DOMAIN new -> MergePluginConfigMap(all[p], new[p])
       [] OTHER -> all[p]]

(* A comment is passed over; any other node that is no plugin with a name  *)
(* makes the whole file fail.                                              *)
ConfigNodeWrong(node) == node.tag # "comment" /\ (node.tag # "plugin" \/ node.plugin = NoName)
LoadFromConfigContent(all, file) ==
  IF ~file.xml \/ \E i \in DOMAIN file.nodes : ConfigNodeWrong(file.nodes[i]) THEN all
  ELSE MergeConfigList(all,
         FoldLeft(LAMBDA m, n : IF n.tag = "comment" THEN m ELSE ParsePluginConfig(n, m),
                  NoConfigs, file.nodes))

GetConfig(all, p, n) == IF p \notin DOMAIN all THEN <<>> ELSE Entry(all[p], n, <<>>)
Without(f, x) == [y \in DOMAIN f \ {x} |-> f[y]]
RemoveConfig(all, p, n) ==
  IF p \notin DOMAIN all \/ n \notin DOMAIN Entry(all, p, NoConfigs) THEN all
  ELSE IF DOMAIN all[p] = {n} THEN Without(all, p)
  ELSE Put(all, p, Without(all[p], n))

ParseConfigReader ==
  /\ ~configParsed /\ configParsed' = TRUE
  /\ allPluginConfigs' = FoldLeft(LoadFromConfigContent, allPluginConfigs, configStrs)
  /\ UNCHANGED <<configStrs, switchStrs, isRssExe, switchParsed, pluginSwitchMap,
                 loadedLibs, socSettings, socEnabled, reqFunc, removedConfigs,
                 reopenFailed>>
(* RemovePluginConfig, of a plugin that is done with its configuration.    *)
RemovePluginConfig(p) ==
  /\ switchParsed /\ p # SocPerfName /\ p \in DOMAIN allPluginConfigs
  /\ allPluginConfigs' = Without(allPluginConfigs, p)
  /\ removedConfigs' = removedConfigs \cup {<<p, n>> : n \in DOMAIN allPluginConfigs[p]}
  /\ UNCHANGED <<readerVars, socSettings, socEnabled, reqFunc, reopenFailed>>

-----------------------------------------------------------------------------
(* The settings of the SocPerf plugin.  Those kept in fields only change   *)
(* by what the configuration says; a list that is read again grows.        *)
LastOf(items, key, old) ==
  FoldLeft(LAMBDA v, i : IF i.key = key THEN i.value ELSE v, old, items)
AllOf(items, key) == {i.value : i \in {j \in Range(items) : j.key = key}}

InitEventId(s, items) == [s EXCEPT !.eventId = LastOf(items, "type", @)]
InitFeatureSwitchFrom(s, items) ==
  LET asked == SelectSeq(items, LAMBDA i : i.key = "game_boost")
  IN  [s EXCEPT !.gameBoost = IF asked = <<>> THEN 0 ELSE Head(asked).value]
LoadSpecialExtension(s, items) == [s EXCEPT !.extensions = @ \cup AllOf(items, "info")]
InitPerfCrucialSo(s, items) == [s EXCEPT !.reqPath = LastOf(items, "path", @)]
InitBundleNameBoostLists(s, items) == [s EXCEPT !.boostApps = @ \cup AllOf(items, "camera")]
LoadWeakInterAction(s, items) ==
  [s EXCEPT !.weakEnable = LastOf(items, "enable", @), !.keyApps = @ \cup AllOf(items, "bundle")]
InitBatteryCapacityLimitFreq(s, items) ==
  [s EXCEPT !.battery = @ \cup AllOf(items, "capacity")]
(* The limits of the policy mode: the first item that is for it.           *)
GetPolicyMode(items) == LastOf(items, "mode", NoName)
InitPolicyMode(s, policy, limits) ==
  LET found == SelectSeq(limits, LAMBDA i : i.key = GetPolicyMode(policy))
  IN  IF policy = <<>> \/ found = <<>> THEN s
      ELSE [s EXCEPT !.powerLimit = Head(found).value]

SocPerfConfigs == {"event_id", "feature_switch", "extension", "crucial", "boost_list",
                   "weak", "battery", "policy_mode", "limit_policy"}
(* items[n]: what the reader gives for the config n.                       *)
SocSettingsFrom(s, items) ==
  LET switched == InitFeatureSwitchFrom(InitEventId(s, items["event_id"]),
                                        items["feature_switch"])
      extended == InitPerfCrucialSo(LoadSpecialExtension(switched, items["extension"]),
                                    items["crucial"])
      listed == LoadWeakInterAction(InitBundleNameBoostLists(extended, items["boost_list"]),
                                    items["weak"])
  IN  InitPolicyMode(InitBatteryCapacityLimitFreq(listed, items["battery"]),
                     items["policy_mode"], items["limit_policy"])

(* dlopen and dlsym of the library for application types.                  *)
InitPerfCrucialFunc(path, opens, found) ==
  IF path = 0 \/ ~opens THEN reqFunc ELSE IF found THEN "valid" ELSE "null"

ReadSettings(opens, found) ==
  LET read == SocSettingsFrom(socSettings,
                [n \in SocPerfConfigs |-> GetConfig(allPluginConfigs, SocPerfName, n)])
  IN  /\ socSettings' = read
      /\ reqFunc' = InitPerfCrucialFunc(read.reqPath, opens, found)
      /\ reopenFailed' = (reopenFailed \/ (reqFunc = "dangling" /\ ~opens))
      /\ allPluginConfigs' = FoldSet(LAMBDA n, all : RemoveConfig(all, SocPerfName, n),
                                     allPluginConfigs, SocPerfConfigs)
      /\ removedConfigs' = removedConfigs \cup {<<SocPerfName, n>> : n \in SocPerfConfigs}

-----------------------------------------------------------------------------
(* PluginSwitch and LoadPlugin                                             *)

FillinPluginInfo(node) == IF isRssExe THEN node.exeLib ELSE node.lib
SwitchNodeWrong(node) == node.tag \notin {"comment", "plugin"}
(* The nodes before a wrong one have been taken.                           *)
LoadSwitchContent(map, file) ==
  IF ~file.xml THEN map
  ELSE FoldLeft(LAMBDA r, n :
         IF ~r.ok \/ n.tag = "comment" THEN r
         ELSE IF SwitchNodeWrong(n) THEN [r EXCEPT !.ok = FALSE]
         ELSE IF FillinPluginInfo(n) = NoName THEN r
         ELSE [r EXCEPT !.map = Put(@, FillinPluginInfo(n), n.switch = "1")],
         [map |-> map, ok |-> TRUE], file.nodes).map

CheckValidPlugin(lib) == LibStates[lib] \notin {"no_symbol", "init_fails"}
LoadOnePlugin(lib) == LibStates[lib] # "no_file" /\ CheckValidPlugin(lib)
LoadPlugin(switches) == {l \in DOMAIN switches : switches[l] /\ LoadOnePlugin(l)}

ParsePluginSwitch(opens, found) ==
  /\ configParsed /\ ~switchParsed /\ switchParsed' = TRUE
  /\ pluginSwitchMap' = FoldLeft(LoadSwitchContent, pluginSwitchMap, switchStrs)
  /\ loadedLibs' = LoadPlugin(pluginSwitchMap')
  /\ socEnabled' = (SocPerfLib \in loadedLibs')
  /\ IF socEnabled' THEN ReadSettings(opens, found)
     ELSE UNCHANGED <<allPluginConfigs, socSettings, reqFunc, removedConfigs, reopenFailed>>
  /\ UNCHANGED <<configStrs, switchStrs, isRssExe, configParsed>>

(* The plugin manager disables the plugin and initialises it again.        *)
SocPerfDisable ==
  /\ socEnabled /\ socEnabled' = FALSE
  /\ reqFunc' = IF reqFunc = "valid" THEN "dangling" ELSE reqFunc
  /\ UNCHANGED <<readerVars, allPluginConfigs, socSettings, removedConfigs, reopenFailed>>
SocPerfInitAgain(opens, found) ==
  /\ switchParsed /\ SocPerfLib \in loadedLibs /\ ~socEnabled /\ socEnabled' = TRUE
  /\ ReadSettings(opens, found) /\ UNCHANGED readerVars

ConfigNext ==
  \/ ParseConfigReader
  \/ \E p \in DOMAIN allPluginConfigs : RemovePluginConfig(p)
  \/ \E opens, found \in BOOLEAN : ParsePluginSwitch(opens, found)
  \/ SocPerfDisable
  \/ \E opens, found \in BOOLEAN : SocPerfInitAgain(opens, found)

ConfigSpec == ConfigInit /\ [][ConfigNext]_configVars

-----------------------------------------------------------------------------
(* The reference: what the files say, without the folds and merges.        *)

ConfigFileGood(file) ==
  file.xml /\ \A i \in DOMAIN file.nodes : ~ConfigNodeWrong(file.nodes[i])
(* The j-th config of a node gives config n of plugin p.                   *)
Gives(node, j, p, n) ==
  /\ node.tag = "plugin" /\ node.plugin = p
  /\ node.configs[j].tag = "config" /\ node.configs[j].name = n
Named(file, p, n) ==
  \E i \in DOMAIN file.nodes : \E j \in DOMAIN file.nodes[i].configs : Gives(file.nodes[i], j, p, n)
(* The items a file has for config n of plugin p, in their order.          *)
ItemsOf(node, p, n) ==
  FlattenSeq([j \in DOMAIN node.configs |->
                IF Gives(node, j, p, n) THEN node.configs[j].items ELSE <<>>])
ItemsIn(file, p, n) == FlattenSeq([i \in DOMAIN file.nodes |-> ItemsOf(file.nodes[i], p, n)])
Giving(p, n) == {f \in DOMAIN configStrs :
                   ConfigFileGood(configStrs[f]) /\ Named(configStrs[f], p, n)}
Configured(p, n) ==
  IF Giving(p, n) = {} THEN <<>> ELSE ItemsIn(configStrs[Max(Giving(p, n))], p, n)

Earlier(a, b) == a[1] < b[1] \/ (a[1] = b[1] /\ a[2] < b[2])
(* Nodes <<file, node>> that switch a library, those before a wrong node.  *)
Switching(lib) ==
  {q \in UNION {{f} \X DOMAIN switchStrs[f].nodes : f \in DOMAIN switchStrs} :
     /\ switchStrs[q[1]].xml
     /\ \A j \in 1..q[2] : ~SwitchNodeWrong(switchStrs[q[1]].nodes[j])
     /\ switchStrs[q[1]].nodes[q[2]].tag = "plugin"
     /\ FillinPluginInfo(switchStrs[q[1]].nodes[q[2]]) = lib}
SwitchedOn(lib) ==
  \E q \in Switching(lib) : /\ \A r \in Switching(lib) : r = q \/ Earlier(r, q)
                            /\ switchStrs[q[1]].nodes[q[2]].switch = "1"

(* What a plugin gets for a config it has not removed is what the last     *)
(* good file that names it says.                                           *)
ConfigIsLast ==
  configParsed => \A p \in {SocPerfName} \cup DOMAIN allPluginConfigs, n \in SocPerfConfigs :
    GetConfig(allPluginConfigs, p, n) =
      IF <<p, n>> \in removedConfigs THEN <<>> ELSE Configured(p, n)
(* A plugin is loaded exactly if the last node for its library switches it *)
(* on and the library works.                                               *)
PluginsAsSwitched ==
  switchParsed => \A l \in DOMAIN LibStates :
    l \in loadedLibs <=> SwitchedOn(l) /\ LibStates[l] = "ok"
(* However often the plugin is disabled and initialised again, with its    *)
(* configuration long removed, its settings are those of the files; only   *)
(* the game boost switch is lost.                                          *)
SettingsKept ==
  LET items == [n \in SocPerfConfigs |-> Configured(SocPerfName, n)]
  IN  socEnabled => [socSettings EXCEPT !.gameBoost = 0] =
                    [SocSettingsFrom(NoSettings, items) EXCEPT !.gameBoost = 0]
(* Reading the configuration: the last good file counts, the right plugins *)
(* are loaded, repairs keep the settings, and the plugin that runs never   *)
(* holds a function of a closed library unless opening it again failed.    *)
ConfigRight ==
  /\ ConfigIsLast /\ PluginsAsSwitched /\ SettingsKept
  /\ socEnabled /\ reqFunc = "dangling" => reopenFailed
=============================================================================
