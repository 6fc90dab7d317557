---------------------------- MODULE KillReasons -----------------------------
(***************************************************************************)
(* KillEventListener of the client library: which reasons for a kill are   *)
(* configured, asked for once and then pushed by the service, and how      *)
(* often each was used, reported once a day.  IsAllowedKill is called by   *)
(* any thread and takes five locks one after the other; the pushes come on *)
(* a binder thread.  A kind of kill is the pair of its caller and reason.  *)
(***************************************************************************)
EXTENDS Naturals, Sequences, FiniteSets, Functions

CONSTANTS
  KillKinds, KillThreads,
  MAX_CACHE_REASON_COUNT,
  MaxKillConfigs,   \* bound: configurations the service gets
  MaxKills          \* bound: calls of IsAllowedKill

NoKind == "no kind"     \* of a call of Init

ASSUME KillAssumption ==
  /\ NoKind \notin KillKinds /\ IsFiniteSet(KillThreads)
  /\ MAX_CACHE_REASON_COUNT \in Nat \ {0} /\ MaxKillConfigs \in Nat /\ MaxKills \in Nat

Malformed == {"malformed"}
KillConfigs == (SUBSET KillKinds) \cup {Malformed}

VARIABLES
  isKillRegister, isConfigInited, isTaskSubmit,
  killReasonMap,     \* the kinds that are configured
  killCountMap,      \* <<kind, allowed>> -> count
  killCall,          \* of each thread: where it is in IsAllowedKill
  killsAsked, killsReported, killsUncounted,
  servedConfig,      \* what the service answers with (external)
  servedConfigs,     \* how many it has had
  pushedConfigs,     \* pushes under way
  killLink,          \* the listener in the client library: "off", "stored"
                     \* there only, or "served": registered with the service
  configOvertaken,   \* history: a reply was stored after a newer push
  configUnpushed     \* history: the last configuration was not pushed, or
                     \* its push was lost

killHistory == <<killsAsked, killsReported, killsUncounted>>
servedVars == <<servedConfig, servedConfigs, pushedConfigs>>
registration == <<isKillRegister, killLink>>
configHistory == <<configOvertaken, configUnpushed>>
killVars == <<registration, isConfigInited, isTaskSubmit, killReasonMap, killCountMap,
              killCall, killHistory, servedVars, configHistory>>

CountSum(counts) == SumFunction(counts)
CallAt(step, kind, x) == [at |-> step, kind |-> kind, with |-> x]
NoKill == [at |-> "none"]
KillTypeOK ==
  /\ {isKillRegister, isConfigInited, isTaskSubmit, configOvertaken, configUnpushed}
       \subseteq BOOLEAN
  /\ killLink \in {"off", "stored", "served"}
  /\ killReasonMap \subseteq KillKinds
  /\ DOMAIN killCountMap \subseteq KillKinds \X BOOLEAN
  /\ Cardinality(DOMAIN killCountMap) <= MAX_CACHE_REASON_COUNT
  /\ \A k \in DOMAIN killCountMap : killCountMap[k] \in Nat \ {0}
  /\ \A t \in KillThreads : killCall[t].at \in
       {"none", "init", "asking", "parse", "decide", "count", "submit"}
  /\ {killsAsked, killsReported, killsUncounted} \subseteq 0..MaxKills
  /\ servedConfig \in KillConfigs /\ servedConfigs \in 0..MaxKillConfigs
  /\ pushedConfigs \in Seq(KillConfigs)

KillInit ==
  /\ isKillRegister = FALSE /\ isConfigInited = FALSE /\ isTaskSubmit = FALSE
  /\ killReasonMap = {} /\ killCountMap = [k \in {} |-> 0]
  /\ killCall = [t \in KillThreads |-> NoKill]
  /\ killsAsked = 0 /\ killsReported = 0 /\ killsUncounted = 0
  /\ servedConfig = {} /\ servedConfigs = 0 /\ pushedConfigs = <<>>
  /\ killLink = "off" /\ configOvertaken = FALSE /\ configUnpushed = FALSE

-----------------------------------------------------------------------------
(* Mutant: what is no longer configured stays.                             *)
ParseKillConfigAdds(config) ==
  IF config = Malformed THEN killReasonMap ELSE killReasonMap \cup config
(* A configuration without a result array leaves the map as it is.         *)
ParseKillConfig(config) == IF config = Malformed THEN killReasonMap ELSE config

Step(t, call) == killCall' = [killCall EXCEPT ![t] = call]

(* Mutant: the listener is registered by Init only.                        *)
RegisterKillConfigUpdateNever == UNCHANGED registration
(* RegisterEventListener of the client library: without a connection it    *)
(* only stores the listener.                                               *)
RegisterKillConfigUpdate ==
  /\ isKillRegister' = TRUE
  /\ IF isKillRegister THEN UNCHANGED killLink ELSE killLink' \in {"stored", "served"}
IsAllowedKill(t, kind) ==
  /\ killCall[t] = NoKill /\ killsAsked < MaxKills
  /\ RegisterKillConfigUpdate
  /\ Step(t, CallAt("init", kind, FALSE)) /\ killsAsked' = killsAsked + 1
  /\ UNCHANGED <<isConfigInited, isTaskSubmit, killReasonMap, killCountMap, killsReported,
                 killsUncounted, servedVars, configHistory>>

(* Init, when the process starts to follow the configuration.              *)
KillListenerInit(t) ==
  /\ killCall[t] = NoKill /\ ~isConfigInited
  /\ RegisterKillConfigUpdate
  /\ Step(t, CallAt("init", NoKind, FALSE))
  /\ UNCHANGED <<isConfigInited, isTaskSubmit, killReasonMap, killCountMap, killHistory,
                 servedVars, configHistory>>

(* InitKillConfig holds its lock while it asks the service.  A reply that  *)
(* is malformed still counts as the configuration.                         *)
AfterInit(kind) == IF kind = NoKind THEN NoKill ELSE CallAt("decide", kind, FALSE)
InitLockFree == \A t \in KillThreads : killCall[t].at \notin {"asking", "parse"}
InitKillConfig(t) ==
  /\ LET kind == killCall[t].kind IN
       \/ /\ killCall[t].at = "init" /\ InitLockFree
          /\ Step(t, IF isConfigInited THEN AfterInit(kind) ELSE CallAt("asking", kind, FALSE))
          /\ UNCHANGED <<isConfigInited, killReasonMap, configHistory>>
       \/ /\ killCall[t].at = "parse"
          /\ Step(t, AfterInit(kind))
          /\ killReasonMap' = ParseKillConfig(killCall[t].with)
          /\ configOvertaken' = (killCall[t].with # servedConfig /\ pushedConfigs = <<>>)
          /\ configUnpushed' =
               (configUnpushed /\ (killCall[t].with # servedConfig \/ pushedConfigs # <<>>))
          /\ isConfigInited' = TRUE
  /\ UNCHANGED <<registration, isTaskSubmit, killCountMap, killHistory, servedVars>>

(* The service (external) answers or the call fails.                       *)
ServiceAnswersKill(t, ok) ==
  /\ killCall[t].at = "asking"
  /\ Step(t, IF ok THEN CallAt("parse", killCall[t].kind, servedConfig)
                   ELSE AfterInit(killCall[t].kind))
  /\ UNCHANGED <<registration, isConfigInited, isTaskSubmit, killReasonMap, killCountMap,
                 killHistory, servedVars, configHistory>>

IsConfigKillReason(t) ==
  /\ killCall[t].at = "decide"
  /\ Step(t, CallAt("count", killCall[t].kind, killCall[t].kind \in killReasonMap))
  /\ UNCHANGED <<registration, isConfigInited, isTaskSubmit, killReasonMap, killCountMap,
                 killHistory, servedVars, configHistory>>

CacheFull(key) ==
  /\ Cardinality(DOMAIN killCountMap) >= MAX_CACHE_REASON_COUNT
  /\ key \notin DOMAIN killCountMap
UpdateKillCount(t) ==
  LET key == <<killCall[t].kind, killCall[t].with>>
      known == DOMAIN killCountMap
  IN  /\ killCall[t].at = "count"
      /\ Step(t, CallAt("submit", killCall[t].kind, FALSE))
      /\ IF CacheFull(key)
           THEN killsUncounted' = killsUncounted + 1 /\ UNCHANGED killCountMap
           ELSE /\ killCountMap' = [k \in known \cup {key} |->
                     IF k \in known THEN killCountMap[k] + (IF k = key THEN 1 ELSE 0) ELSE 1]
                /\ UNCHANGED killsUncounted
      /\ UNCHANGED <<registration, isConfigInited, isTaskSubmit, killReasonMap, killsAsked,
                     killsReported, servedVars, configHistory>>

(* The first call submits the task; whatever is in the configuration, the  *)
(* call allows the kill.                                                   *)
ReportKillEvent(t) ==
  /\ killCall[t].at = "submit" /\ Step(t, NoKill)
  /\ isTaskSubmit' = TRUE
  /\ UNCHANGED <<registration, isConfigInited, killReasonMap, killCountMap, killHistory,
                 servedVars, configHistory>>
(* The task submits itself again.                                          *)
ReportKillEventPeriod ==
  /\ isTaskSubmit /\ killCountMap # [k \in {} |-> 0]
  /\ killsReported' = killsReported + CountSum(killCountMap)
  /\ killCountMap' = [k \in {} |-> 0]
  /\ UNCHANGED <<registration, isConfigInited, isTaskSubmit, killReasonMap, killCall,
                 killsAsked, killsUncounted, servedVars, configHistory>>

-----------------------------------------------------------------------------
(* The service (external) gets a configuration and pushes it to the        *)
(* listeners.                                                              *)
ServiceConfigured(config) ==
  /\ servedConfigs < MaxKillConfigs /\ servedConfigs' = servedConfigs + 1
  /\ config # servedConfig /\ servedConfig' = config
  /\ pushedConfigs' = IF killLink = "served" THEN Append(pushedConfigs, config) ELSE pushedConfigs
  /\ configUnpushed' = (killLink = "stored")
  /\ UNCHANGED <<registration, isConfigInited, isTaskSubmit, killReasonMap, killCountMap,
                 killCall, killHistory, configOvertaken>>
OnReceiveEvent ==
  /\ pushedConfigs # <<>> /\ pushedConfigs' = Tail(pushedConfigs)
  /\ killReasonMap' = ParseKillConfig(Head(pushedConfigs))
  /\ configOvertaken' = (configOvertaken /\ Head(pushedConfigs) = Malformed)
  /\ UNCHANGED <<registration, isConfigInited, isTaskSubmit, killCountMap, killCall,
                 killHistory, servedConfig, servedConfigs, configUnpushed>>

(* The service dies, with the pushes it had not sent; when it is back, the *)
(* client library registers what it stored.                                *)
KillServiceRestarts ==
  /\ killLink = "served" /\ killLink' = "stored"
  /\ \E sent \in 0..Len(pushedConfigs) :
       /\ pushedConfigs' = SubSeq(pushedConfigs, 1, sent)
       /\ configUnpushed' = (configUnpushed \/ sent < Len(pushedConfigs))
  /\ UNCHANGED <<isKillRegister, isConfigInited, isTaskSubmit, killReasonMap, killCountMap,
                 killCall, killHistory, servedConfig, servedConfigs, configOvertaken>>
RecoverKillListener ==
  /\ killLink = "stored" /\ killLink' = "served"
  /\ UNCHANGED <<isKillRegister, isConfigInited, isTaskSubmit, killReasonMap, killCountMap,
                 killCall, killHistory, servedVars, configHistory>>

KillNext ==
  \/ \E t \in KillThreads, kind \in KillKinds : IsAllowedKill(t, kind)
  \/ \E t \in KillThreads : KillListenerInit(t)
  \/ \E t \in KillThreads : InitKillConfig(t)
  \/ \E t \in KillThreads, ok \in BOOLEAN : ServiceAnswersKill(t, ok)
  \/ \E t \in KillThreads : IsConfigKillReason(t)
  \/ \E t \in KillThreads : UpdateKillCount(t)
  \/ \E t \in KillThreads : ReportKillEvent(t)
  \/ ReportKillEventPeriod
  \/ \E config \in KillConfigs : ServiceConfigured(config)
  \/ OnReceiveEvent \/ KillServiceRestarts \/ RecoverKillListener

-----------------------------------------------------------------------------
(* Once the configuration was asked for and no push is under way, the map  *)
(* is the last well-formed configuration of the service.  Exempt: a reply  *)
(* to InitKillConfig that was stored after a newer push, and a             *)
(* configuration that was not pushed, because the listener was only stored *)
(* or the service died with it; nothing asks a second time.                *)
KillConfigKnown ==
  isConfigInited /\ InitLockFree /\ pushedConfigs = <<>> /\ servedConfig # Malformed =>
    configOvertaken \/ configUnpushed \/ killReasonMap = servedConfig
(* Every kill that was asked about is in the counts, in a report, or was   *)
(* left out because the map was full; what is counted will be reported.    *)
KillsCounted ==
  (\A t \in KillThreads : killCall[t] = NoKill) =>
    /\ killsAsked = CountSum(killCountMap) + killsReported + killsUncounted
    /\ DOMAIN killCountMap # {} => isTaskSubmit
KillReasonsRight == KillConfigKnown /\ KillsCounted
=============================================================================
