---------------------------- MODULE ExecutorInit ----------------------------
(***************************************************************************)
(* The executor process and how the service gives it its plugins:          *)
(* ResSchedMgr::InitExecutorPlugin and ResSchedExeClient in the service,   *)
(* ResSchedExeService and ResSchedExeMgr in the executor.  The plugin      *)
(* configuration goes over in one request, or in numbered fragments when   *)
(* it is too long for one.  It is sent when the service starts, and each   *)
(* time the ability manager says that the executor has started.            *)
(***************************************************************************)
EXTENDS Naturals, FiniteSets

CONSTANTS
  FragmentCounts,  \* numbers of fragments a configuration may need, 1: not split
  ExeSenders,      \* threads of the service that send the configuration
  StartSender,     \* the one that runs OnStart
  MaxExeDeaths,    \* bound: deaths of the executor
  MaxRssDeaths     \* bound: deaths of the service

Gone == "gone"   \* a send that ended before its last fragment

ASSUME ExecutorAssumption ==
  /\ FragmentCounts \subseteq Nat \ {0} /\ StartSender \in ExeSenders
  /\ Gone \notin ExeSenders
  /\ MaxExeDeaths \in Nat /\ MaxRssDeaths \in Nat

VARIABLES
  fragments,     \* number of fragments of the configuration
  oversize,      \* a configuration string is above MAX_CONFIG_SIZE
  exeUp, exeDeaths, rssDeaths,
  resSchedExe,   \* the service's proxy: "null", "live" or "dead"
  exeObituary,   \* the proxy's death recipient is to be called
  listening,     \* OnStart has added the listener of the executor's ability
  exeAdded,      \* OnAddSystemAbility calls still to come
  sending,       \* per thread: the next fragment to send, 0 when idle
  isInit, pluginsLoaded, ipcNumber, ipcMessage,   \* of the executor
  exeReply,      \* what the last other request got
  collectedFrom, \* history: the sends whose fragments ipcMessage holds
  delivered,     \* history: fragments of a send this executor has taken
  wholeSent,     \* history: this executor took every fragment of one send
  mixed          \* history: it collected fragments of several sends

senderVars == <<resSchedExe, exeObituary, listening, exeAdded, sending>>
executorVars == <<isInit, pluginsLoaded, ipcNumber, ipcMessage>>
sendHistory == <<collectedFrom, delivered, wholeSent, mixed>>
executorInitVars == <<fragments, oversize, exeUp, exeDeaths, rssDeaths, senderVars,
                      executorVars, exeReply, sendHistory>>

ExeReplies == {"none", "connect_fail", "failed_call", "cgroup", "plugin", "empty", "killed"}

ExecutorTypeOK ==
  /\ fragments \in FragmentCounts /\ oversize \in BOOLEAN
  /\ exeUp \in BOOLEAN /\ exeDeaths \in 0..MaxExeDeaths /\ rssDeaths \in 0..MaxRssDeaths
  /\ resSchedExe \in {"null", "live", "dead"} /\ exeObituary \in BOOLEAN
  /\ listening \in BOOLEAN /\ exeAdded \in 0..(MaxExeDeaths + 1)
  /\ sending \in [ExeSenders -> 0..fragments]
  /\ isInit \in BOOLEAN /\ pluginsLoaded \in BOOLEAN
  /\ ipcNumber \in 0..(fragments - 1) /\ ipcMessage \subseteq 1..fragments
  /\ exeReply \in ExeReplies
  /\ collectedFrom \subseteq ExeSenders \cup {Gone}
  /\ delivered \in [ExeSenders -> 0..fragments]
  /\ wholeSent \in BOOLEAN /\ mixed \in BOOLEAN

(* OnStart is sending; the executor may be up or not.                      *)
ExecutorInitially ==
  /\ fragments \in FragmentCounts /\ oversize \in BOOLEAN
  /\ exeUp \in BOOLEAN /\ exeDeaths = 0 /\ rssDeaths = 0
  /\ resSchedExe = "null" /\ exeObituary = FALSE /\ listening = FALSE /\ exeAdded = 0
  /\ sending = [s \in ExeSenders |-> IF s = StartSender THEN 1 ELSE 0]
  /\ isInit = FALSE /\ pluginsLoaded = FALSE /\ ipcNumber = 0 /\ ipcMessage = {}
  /\ exeReply = "none" /\ collectedFrom = {}
  /\ delivered = [s \in ExeSenders |-> 0] /\ wholeSent = FALSE /\ mixed = FALSE

-----------------------------------------------------------------------------
(* The executor.  The text of all fragments, in order, is the payload;     *)
(* of fewer it does not parse.                                             *)
StringToJson(pieces) == pieces = 1..fragments
(* isInit is set before the sizes are looked at.                           *)
InitPluginMgr(parsed) ==
  /\ isInit' = parsed
  /\ pluginsLoaded' = (parsed /\ ~oversize)

Collects(s) ==
  /\ collectedFrom' = collectedFrom \cup {s}
  /\ mixed' = (mixed \/ collectedFrom \ {s} # {})
Taken(s, k) ==
  /\ delivered' = [delivered EXCEPT ![s] = @ + 1]
  /\ wholeSent' = (wholeSent \/ (k = fragments /\ delivered[s] + 1 = fragments))

(* Mutant: the fragment that arrives is counted twice.                     *)
LastFragmentEarly == ipcNumber + 2 = fragments
LastFragment == ipcNumber + 1 = fragments
InitPluginMgrPretreatment(s, k) ==
  IF isInit THEN UNCHANGED <<executorVars, collectedFrom, mixed>>
  ELSE IF fragments = 1
    THEN InitPluginMgr(TRUE) /\ UNCHANGED <<ipcNumber, ipcMessage, collectedFrom, mixed>>
  ELSE IF LastFragment
    THEN /\ InitPluginMgr(StringToJson(ipcMessage \cup {k}))
         /\ ipcNumber' = 0 /\ ipcMessage' = {} /\ collectedFrom' = {}
         /\ mixed' = (mixed \/ collectedFrom \ {s} # {})
  ELSE /\ ipcMessage' = ipcMessage \cup {k} /\ ipcNumber' = ipcNumber + 1
       /\ Collects(s) /\ UNCHANGED <<isInit, pluginsLoaded>>

-----------------------------------------------------------------------------
(* The service.                                                            *)
Reachable == resSchedExe # "null" \/ exeUp
TryConnectExe ==
  resSchedExe' = IF resSchedExe = "null" /\ exeUp THEN "live" ELSE resSchedExe
ExeAnswers == resSchedExe = "live" \/ (resSchedExe = "null" /\ exeUp)

(* The send ends; OnStart then adds the listener, which the ability        *)
(* manager calls at once when the executor is up.                          *)
EndSend(s) ==
  /\ sending' = [sending EXCEPT ![s] = 0]
  /\ listening' = (listening \/ s = StartSender)
  /\ exeAdded' = IF ~listening /\ s = StartSender /\ exeUp THEN exeAdded + 1 ELSE exeAdded
NextFragment(s) ==
  IF sending[s] = fragments THEN EndSend(s)
  ELSE /\ sending' = [sending EXCEPT ![s] = @ + 1] /\ UNCHANGED <<listening, exeAdded>>

(* SendRequestInner for one fragment.  A call that fails leaves funcResult *)
(* unset, and the loop goes on or ends by what it holds.                   *)
SendRequestInner(s) ==
  /\ sending[s] > 0 /\ TryConnectExe
  /\ \/ /\ ~Reachable /\ EndSend(s) /\ UNCHANGED <<executorVars, sendHistory>>
     \/ /\ ExeAnswers
        /\ InitPluginMgrPretreatment(s, sending[s]) /\ Taken(s, sending[s])
        /\ NextFragment(s)
     \/ /\ resSchedExe = "dead" /\ (EndSend(s) \/ NextFragment(s))
        /\ UNCHANGED <<executorVars, sendHistory>>
  /\ UNCHANGED <<fragments, oversize, exeUp, exeDeaths, rssDeaths, exeObituary,
                 exeReply>>

(* OnAddSystemAbility of the executor: InitExecutorPlugin again.           *)
InitExecutorPlugin(s) ==
  /\ exeAdded > 0 /\ exeAdded' = exeAdded - 1
  /\ sending[s] = 0 /\ sending' = [sending EXCEPT ![s] = 1]
  /\ delivered' = [delivered EXCEPT ![s] = 0]
  /\ collectedFrom' = IF s \in collectedFrom
                        THEN (collectedFrom \ {s}) \cup {Gone} ELSE collectedFrom
  /\ UNCHANGED <<fragments, oversize, exeUp, exeDeaths, rssDeaths, resSchedExe,
                 exeObituary, listening, executorVars, exeReply, wholeSent, mixed>>

StopRemoteExe ==
  /\ exeObituary /\ exeObituary' = FALSE /\ resSchedExe' = "null"
  /\ UNCHANGED <<fragments, oversize, exeUp, exeDeaths, rssDeaths, listening, exeAdded,
                 sending, executorVars, exeReply, sendHistory>>

(* The other requests.  The executor answers those for cgroups itself, the *)
(* rest go to its plugins; of an asynchronous one the caller learns        *)
(* nothing.  A common type must name its extended type in the payload.     *)
ExeRequests == [type : {"cgroup", "plugin", "common", "unknown"}, parsed : BOOLEAN,
                ext : BOOLEAN, tooLong : BOOLEAN]
IsTypeVaild(q) == q.type # "unknown"
GetExtResType(q) == q.type = "common" => q.ext
ServiceTakes(q) == IsTypeVaild(q) /\ ~q.tooLong /\ GetExtResType(q)
HandleRequestForCgroup(q) == IF q.parsed THEN "cgroup" ELSE "empty"
SendRequestSync(q) ==
  CASE ~ServiceTakes(q) -> "failed_call"
    [] q.type = "cgroup" -> HandleRequestForCgroup(q)
    [] OTHER -> IF pluginsLoaded THEN "plugin" ELSE "empty"

ExeRequest(answer) ==
  /\ TryConnectExe
  /\ exeReply' = CASE ~Reachable -> "connect_fail"
                   [] ExeAnswers -> answer
                   [] OTHER -> "failed_call"
  /\ UNCHANGED <<fragments, oversize, exeUp, exeDeaths, rssDeaths, exeObituary,
                 listening, exeAdded, sending, executorVars, sendHistory>>
RequestSync == \E q \in ExeRequests : ExeRequest(SendRequestSync(q))
RequestAsync == ExeRequest("none")
KillProcess(pid) == ExeRequest(IF pid = 0 THEN "failed_call" ELSE "killed")

-----------------------------------------------------------------------------
(* The processes (external).                                               *)
ExeDies ==
  /\ exeUp /\ exeDeaths < MaxExeDeaths
  /\ exeUp' = FALSE /\ exeDeaths' = exeDeaths + 1
  /\ isInit' = FALSE /\ pluginsLoaded' = FALSE /\ ipcNumber' = 0 /\ ipcMessage' = {}
  /\ collectedFrom' = {} /\ delivered' = [s \in ExeSenders |-> 0]
  /\ wholeSent' = FALSE /\ mixed' = FALSE
  /\ resSchedExe' = IF resSchedExe = "live" THEN "dead" ELSE resSchedExe
  /\ exeObituary' = (exeObituary \/ resSchedExe = "live")
  /\ UNCHANGED <<fragments, oversize, rssDeaths, listening, exeAdded, sending, exeReply>>
ExeStarts ==
  /\ ~exeUp /\ exeUp' = TRUE
  /\ exeAdded' = IF listening THEN exeAdded + 1 ELSE exeAdded
  /\ UNCHANGED <<fragments, oversize, exeDeaths, rssDeaths, resSchedExe, exeObituary,
                 listening, sending, executorVars, exeReply, sendHistory>>
(* The service dies and is started again.                                  *)
RssDies ==
  /\ rssDeaths < MaxRssDeaths /\ rssDeaths' = rssDeaths + 1
  /\ resSchedExe' = "null" /\ exeObituary' = FALSE /\ listening' = FALSE /\ exeAdded' = 0
  /\ sending' = [s \in ExeSenders |-> IF s = StartSender THEN 1 ELSE 0]
  /\ delivered' = [s \in ExeSenders |-> 0]
  /\ collectedFrom' = IF collectedFrom = {} THEN {} ELSE {Gone}
  /\ UNCHANGED <<fragments, oversize, exeUp, exeDeaths, executorVars, exeReply,
                 wholeSent, mixed>>

ExecutorInitNext ==
  \/ \E s \in ExeSenders : SendRequestInner(s) \/ InitExecutorPlugin(s)
  \/ StopRemoteExe
  \/ RequestSync \/ RequestAsync \/ \E pid \in 0..1 : KillProcess(pid)
  \/ ExeDies \/ ExeStarts \/ RssDies

ExecutorInitSpec == ExecutorInitially /\ [][ExecutorInitNext]_executorInitVars

-----------------------------------------------------------------------------
(* An executor that took every fragment of one send has its plugins, across *)
(* deaths of both processes, sends that overlap and calls that fail, unless *)
(* it had counted fragments of another send too or a configuration string   *)
(* is too long.                                                             *)
ExecutorHasPlugins == wholeSent /\ ~mixed /\ ~oversize => pluginsLoaded
=============================================================================
