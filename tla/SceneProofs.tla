----------------------------- MODULE SceneProofs -----------------------------
(***************************************************************************)
(* Proofs about the scenes.  FrameAware, for any identities of requests:   *)
(* the latency is low exactly while somebody asks for it, every request    *)
(* has a timeout, and the frame scheduler is given the numbers of the      *)
(* events.  StartupScene, SlideScene and SceneRecognizers, for any         *)
(* applications, pids, versions and limits: what a recognizer has reported *)
(* begins and ends as the events say.  And the types of the four modules.  *)
(***************************************************************************)
EXTENDS FrameAware, StartupScene, SlideScene, SceneRecognizers, TLAPS, FiniteSetTheorems

(* What makes LatencyRight inductive: a request that is being added or     *)
(* withdrawn does not count; the auto disable task that runs is the one of *)
(* an identity.                                                            *)
LatencyInv ==
  /\ LatencyRight
  /\ latencyRequests \subseteq Identities /\ latencyTimers \subseteq Identities
  /\ latencyAt \in [op : {"none", "add", "submit", "delete"}, id : Identities \cup {NoIdentity}]
  /\ latencyAt.op \in {"add", "submit", "delete"} => latencyAt.id \in Identities
  /\ latencyAt.op \in {"add", "delete"} => latencyAt.id \notin lowWanted

(* The plugin is switched on, again after a repair, or off.                *)
LEMMA SwitchLatency ==
  ASSUME LatencyInv, FrameAwareInit \/ FrameAwareDisable
  PROVE  LatencyInv'
<1>1. CASE FrameAwareInit
  <2>1. /\ latencyTimers' = {} /\ untimed' = (untimed \cup latencyTimers) \cap latencyRequests
        /\ switchFailed' = (latencyRequests # {}) /\ lowLatency' = FALSE
        /\ UNCHANGED <<latencyRequests, latencyRunning, latencyAt, lowWanted, overrun>>
    BY <1>1 DEF FrameAwareInit, LatencyControllerInit
  <2> QED
    BY <2>1 DEF LatencyInv, LatencyRight
<1>2. CASE FrameAwareDisable
  BY <1>2 DEF FrameAwareDisable, LatencyInv, LatencyRight
<1> QED
  BY <1>1, <1>2

(* A request is taken up: its old timeout is cancelled, and until it is    *)
(* added or withdrawn it is the one that is handled.                       *)
LEMMA RequestLatency ==
  ASSUME LatencyInv, NEW id \in Identities, NEW op \in {"add", "delete"}, HandleRequest(id, op)
  PROVE  LatencyInv'
<1>1. /\ latencyAt = Resting /\ latencyAt' = [op |-> op, id |-> id]
      /\ latencyTimers' = latencyTimers \ {id} /\ lowWanted' = lowWanted \ {id}
      /\ overrun \ {id} \subseteq overrun'
      /\ UNCHANGED <<latencyRequests, lowLatency, latencyRunning, untimed, switchFailed>>
  BY DEF HandleRequest
<1>2. latencyAt.id = NoIdentity /\ latencyAt'.id = id /\ latencyAt'.op = op
      /\ latencyAt' \in [op : {"none", "add", "submit", "delete"}, id : Identities \cup {NoIdentity}]
  BY <1>1 DEF Resting
<1>3. LatencyRight'
  BY <1>1, <1>2, IdentitiesAssumption DEF LatencyInv, LatencyRight
<1> QED
  BY <1>1, <1>2, <1>3 DEF LatencyInv

(* The request that is handled is added, gets its timeout, or is deleted.  *)
LEMMA HandledLatency ==
  ASSUME LatencyInv, (\E opens \in BOOLEAN : AddRequest(opens)) \/ SubmitAutoDisable \/ HandleDelRequest
  PROVE  LatencyInv'
<1>1. ASSUME NEW opens \in BOOLEAN, AddRequest(opens) PROVE LatencyInv'
  <2>1. /\ latencyAt.op = "add" /\ latencyAt' = [latencyAt EXCEPT !.op = "submit"]
        /\ latencyRequests' = latencyRequests \cup {latencyAt.id}
        /\ lowWanted' = lowWanted \cup {latencyAt.id}
        /\ UNCHANGED <<latencyTimers, latencyRunning, overrun, untimed>>
    BY <1>1 DEF AddRequest
  <2>2. /\ latencyAt'.id = latencyAt.id /\ latencyAt'.op = "submit" /\ latencyAt.id \in Identities
        /\ latencyAt' \in [op : {"none", "add", "submit", "delete"}, id : Identities \cup {NoIdentity}]
    BY <2>1 DEF LatencyInv
  <2>3. lowLatency' \/ switchFailed'
    <3>1. CASE latencyRequests = {}
      BY <1>1, <3>1 DEF AddRequest
    <3>2. CASE latencyRequests # {}
      BY <1>1, <3>2 DEF AddRequest, LatencyInv, LatencyRight
    <3> QED
      BY <3>1, <3>2
  <2>4. latencyRequests' # {}
    BY <2>1
  <2>5. LatencyRight'
    BY <2>1, <2>2, <2>3, <2>4 DEF LatencyInv, LatencyRight
  <2> QED
    BY <2>1, <2>2, <2>5 DEF LatencyInv
<1>2. CASE SubmitAutoDisable
  <2>1. /\ latencyAt.op = "submit" /\ latencyAt' = Resting
        /\ latencyTimers' = latencyTimers \cup {latencyAt.id}
        /\ untimed' = untimed \ {latencyAt.id}
        /\ UNCHANGED <<latencyRequests, lowLatency, latencyRunning, lowWanted, overrun, switchFailed>>
    BY <1>2 DEF SubmitAutoDisable
  <2>2. latencyAt.id \in Identities
    BY <2>1 DEF LatencyInv
  <2>3. LatencyRight'
    BY <2>1, <2>2 DEF LatencyInv, LatencyRight
  <2> QED
    BY <2>1, <2>2, <2>3 DEF LatencyInv, Resting
<1>3. CASE HandleDelRequest
  <2>1. /\ latencyAt.op = "delete" /\ latencyAt' = Resting
        /\ latencyRequests' = latencyRequests \ {latencyAt.id}
        /\ lowLatency' = (lowLatency /\ latencyRequests' # {})
        /\ untimed' = untimed \ {latencyAt.id}
        /\ UNCHANGED <<latencyTimers, latencyRunning, lowWanted, overrun, switchFailed>>
    BY <1>3 DEF HandleDelRequest, DelRequest
  <2>2. LatencyRight'
    BY <2>1 DEF LatencyInv, LatencyRight
  <2> QED
    BY <2>1, <2>2 DEF LatencyInv, Resting
<1> QED
  BY <1>1, <1>2, <1>3

(* A timeout begins, and ends the request it belongs to.                   *)
LEMMA TimeoutLatency ==
  ASSUME LatencyInv, (\E id \in Identities : AutoDisableStarts(id)) \/ AutoDisableTask
  PROVE  LatencyInv'
<1>1. ASSUME NEW id \in Identities, AutoDisableStarts(id) PROVE LatencyInv'
  <2>1. /\ latencyRunning = NoIdentity /\ latencyRunning' = id
        /\ latencyTimers' = latencyTimers \ {id}
        /\ UNCHANGED <<latencyRequests, lowLatency, latencyAt, lowWanted, overrun, untimed, switchFailed>>
    BY <1>1 DEF AutoDisableStarts
  <2> QED
    BY <2>1, IdentitiesAssumption DEF LatencyInv, LatencyRight
<1>2. CASE AutoDisableTask
  <2>1. /\ latencyRunning' = NoIdentity
        /\ latencyRequests' = latencyRequests \ {latencyRunning}
        /\ lowLatency' = (lowLatency /\ latencyRequests' # {})
        /\ lowWanted' \subseteq lowWanted
        /\ latencyRunning \in lowWanted' => latencyRunning \in overrun
        /\ UNCHANGED <<latencyTimers, latencyAt, overrun, untimed, switchFailed>>
    BY <1>2 DEF AutoDisableTask, DelRequest
  <2> QED
    BY <2>1 DEF LatencyInv, LatencyRight
<1> QED
  BY <1>1, <1>2

(* The numbers each event must have are counted.                           *)
LEMMA KeyCounts == \A type \in FrameTypes : FrameKeys[type] \in Nat
  BY DEF FrameTypes, FrameKeys

(* An event whose numbers fit long is handed on, each cut to its low bits. *)
LEMMA NumbersStep ==
  ASSUME FrameNumbersRight, FrameNext
  PROVE  FrameNumbersRight'
<1>1. ASSUME NEW type \in FrameTypes, NEW zero \in BOOLEAN,
             NEW texts \in [1..FrameKeys[type] -> Texts], HandleFrameEvent(type, texts, zero)
      PROVE  FrameNumbersRight'
  <2>1. CASE UNCHANGED <<frameHeard, frameAsked, frameSpoilt>>
    BY <2>1 DEF FrameNumbersRight
  <2>2. CASE /\ frameHeard' = FrameCall(type, [i \in DOMAIN texts |-> ConvertToInteger(texts, i)])
             /\ frameAsked' = FrameCall(type, [i \in DOMAIN texts |-> NumberOf(texts[i])])
             /\ frameSpoilt' = Spoilt(texts)
    <3>1. CASE Spoilt(texts)
      BY <2>2, <3>1 DEF FrameNumbersRight
    <3>2. CASE ~Spoilt(texts)
      <4>1. ~frameErrno /\ \A j \in 1..FrameKeys[type] : texts[j] # "overflow"
        BY <3>2 DEF Spoilt
      <4>2. ASSUME NEW i \in DOMAIN texts
            PROVE  ConvertToInteger(texts, i) = Narrowed(NumberOf(texts[i]))
        <5>1. i \in 1..FrameKeys[type] /\ FrameKeys[type] \in Nat
          BY KeyCounts
        <5>2. \A j \in 1..(i - 1) : j \in 1..FrameKeys[type]
          BY <5>1
        <5> QED
          BY <4>1, <5>2 DEF ConvertToInteger
      <4> DEFINE said == [i \in DOMAIN texts |-> NumberOf(texts[i])]
      <4>3. [i \in DOMAIN texts |-> ConvertToInteger(texts, i)]
              = [i \in DOMAIN said |-> Narrowed(said[i])]
        BY <4>2, Zenon
      <4>4. frameAsked'.type = type /\ frameAsked'.args = said
        BY <2>2 DEF FrameCall
      <4> QED
        BY <2>2, <4>3, <4>4, Zenon DEF FrameNumbersRight
    <3> QED
      BY <3>1, <3>2
  <2> QED
    BY <1>1, <2>1, <2>2 DEF HandleFrameEvent
<1>2. CASE OtherErrno
  BY <1>2 DEF OtherErrno, FrameNumbersRight
<1> QED
  BY <1>1, <1>2 DEF FrameNext

LEMMA LatencyStart == LatencyInit => LatencyInv
  BY IdentitiesAssumption DEF LatencyInit, LatencyInv, LatencyRight, Resting

LEMMA LatencyStep ==
  ASSUME LatencyInv, [LatencyNext]_latencyVars
  PROVE  LatencyInv'
<1>1. CASE UNCHANGED latencyVars
  BY <1>1 DEF latencyVars, LatencyInv, LatencyRight
<1> QED
  BY <1>1, SwitchLatency, RequestLatency, HandledLatency, TimeoutLatency
  DEF LatencyNext, HandleNetworkLatencyRequest

(* The network latency is low only while a request for it stands, and then *)
(* always, unless opening the device failed or the switcher was replaced;  *)
(* a request nobody withdrew and that did not time out stands, unless it   *)
(* was renewed while its old timeout ran; and each request has a timeout   *)
(* that will end it, unless a repair threw it away.  So whatever requests, *)
(* withdrawals and timeouts interleave.  The frame scheduler is given the  *)
(* low 32 bits of the numbers of an event, unless a number beyond long was *)
(* read before.                                                            *)
THEOREM FrameAwareKeepsRight == FrameAwareSpec => []FrameAwareRight
<1> DEFINE Step == \/ LatencyNext /\ UNCHANGED frameVars
                   \/ FrameNext /\ UNCHANGED latencyVars
           Inv == LatencyInv /\ FrameNumbersRight
<1>1. LatencyInit /\ FrameInit => Inv
  <2>1. FrameInit => FrameNumbersRight
    BY DEF FrameInit, FrameNumbersRight, NoCall, FrameCall
  <2> QED
    BY <2>1, LatencyStart
<1>2. Inv /\ [Step]_<<latencyVars, frameVars>> => Inv'
  <2> SUFFICES ASSUME Inv, [Step]_<<latencyVars, frameVars>> PROVE Inv'
    OBVIOUS
  <2>1. UNCHANGED frameVars => FrameNumbersRight'
    BY DEF frameVars, FrameNumbersRight
  <2>2. LatencyInv'
    BY LatencyStep
  <2> QED
    BY <2>1, <2>2, NumbersStep
<1>3. Inv => FrameAwareRight
  BY DEF LatencyInv, FrameAwareRight
<1> QED
  BY <1>1, <1>2, <1>3, PTL DEF FrameAwareSpec

-----------------------------------------------------------------------------
(* StartupScene.  A start leaves a timer waiting, a timer that begins is   *)
(* still counted, and the one that ends has reported.                      *)
StartupInv ==
  /\ StartupEnds
  /\ orphanTasks \in Nat /\ runningTasks \in Nat

LEMMA StartupStart == StartupInit => StartupInv
  BY DEF StartupInit, StartupInv, StartupEnds

LEMMA StartupStep ==
  ASSUME StartupInv, [StartupNext]_startupVars
  PROVE  StartupInv'
<1> USE DEF StartupInv, StartupEnds
<1>1. ASSUME NEW p \in StartApps, RecordIsContinuousStartup(p) PROVE StartupInv'
  BY <1>1 DEF RecordIsContinuousStartup, RenewTimer
<1>2. ASSUME NEW p \in StartApps, NEW kind, NEW state, AbilityNotified(p, kind, state)
      PROVE  StartupInv'
  BY <1>2 DEF AbilityNotified, recordVars, timerVars
<1>3. CASE TimePasses
  BY <1>3 DEF TimePasses, recordVars
<1>4. CASE TimerBegins
  BY <1>4 DEF TimerBegins, recordVars
<1>5. CASE TimerRuns
  <2>1. ~isReportContinuousStartup'
    BY <1>5, Zenon DEF TimerRuns, CleanRecordSceneData
  <2> QED
    BY <1>5, <2>1 DEF TimerRuns
<1>6. CASE Deinit
  <2>1. ~queueUp'
    BY <1>6, Zenon DEF Deinit
  <2> QED
    BY <1>6, <2>1 DEF Deinit
<1>7. CASE UNCHANGED startupVars
  BY <1>7 DEF startupVars, recordVars, timerVars
<1> QED
  BY <1>1, <1>2, <1>3, <1>4, <1>5, <1>6, <1>7, Zenon DEF StartupNext

-----------------------------------------------------------------------------
(* SceneRecognizers: the overlap of background tasks.                      *)
LEMMA OverlapStart == OverlapInit => OverlapSceneRight
  BY FS_EmptySet DEF OverlapInit, OverlapSceneRight, OverlapRules

(* The rules hold of some task only.                                       *)
LEMMA RulesOfTasks ==
  ASSUME NEW tasks, NEW front, OverlapRules(tasks, front)
  PROVE  tasks # {} /\ front # sceneboardPid
  BY FS_EmptySet DEF OverlapRules

LEMMA TaskStartStep ==
  ASSUME OverlapSceneRight, NEW pid, HandleTaskStart(pid, TRUE)
  PROVE  OverlapSceneRight'
<1>1. /\ perceivableTasks' = perceivableTasks \cup {pid}
      /\ foregroundPid' = foregroundPid /\ sceneboardPid' = sceneboardPid
  BY DEF HandleTaskStart
<1>2. unjudged' <=> (unjudged /\ isInBackgroundPerceivableScene)
  BY Zenon DEF HandleTaskStart
<1>3. isInBackgroundPerceivableScene' <=>
        (isInBackgroundPerceivableScene \/ OverlapRules(perceivableTasks', foregroundPid))
  BY Zenon DEF HandleTaskStart, EnterSceneIf, CheckEnterScene
<1>4. OverlapRules(perceivableTasks, foregroundPid)'
        <=> OverlapRules(perceivableTasks', foregroundPid)
  BY <1>1 DEF OverlapRules
<1>5. OverlapRules(perceivableTasks', foregroundPid) => foregroundPid # sceneboardPid
  BY DEF OverlapRules
<1>6. perceivableTasks' # {}
  BY <1>1
<1> QED
  BY <1>1, <1>2, <1>3, <1>4, <1>5, <1>6, Zenon DEF OverlapSceneRight

LEMMA TaskEndStep ==
  ASSUME NEW pid, TaskEnds(pid)
  PROVE  OverlapSceneRight'
<1>1. unjudged'
  BY Zenon DEF TaskEnds
<1>2. ~isInBackgroundPerceivableScene'
  BY Zenon DEF TaskEnds, ExitSceneIf, CheckEnterScene
<1> QED
  BY <1>1, <1>2, Zenon DEF OverlapSceneRight

LEMMA ForegroundStep ==
  ASSUME OverlapSceneRight, NEW pid, HandleForeground(pid)
  PROVE  OverlapSceneRight'
<1>1. perceivableTasks' = perceivableTasks /\ sceneboardPid' = sceneboardPid
  BY DEF HandleForeground
<1>2. OverlapRules(perceivableTasks, foregroundPid)'
        <=> OverlapRules(perceivableTasks, foregroundPid')
  BY <1>1 DEF OverlapRules
<1>3. CASE foregroundPid' = sceneboardPid
  <2>1. ~isInBackgroundPerceivableScene'
    BY <1>3, Zenon DEF HandleForeground, ExitSceneIf
  <2>2. ~OverlapRules(perceivableTasks, foregroundPid')
    BY <1>3 DEF OverlapRules
  <2> QED
    BY <1>2, <2>1, <2>2, Zenon DEF OverlapSceneRight
<1>4. CASE foregroundPid' # sceneboardPid
  <2>1. isInBackgroundPerceivableScene' <=>
          (isInBackgroundPerceivableScene \/ OverlapRules(perceivableTasks, foregroundPid'))
    BY <1>4, Zenon DEF HandleForeground, EnterSceneIf, CheckEnterScene
  <2>2. OverlapRules(perceivableTasks, foregroundPid') => perceivableTasks # {}
    BY RulesOfTasks
  <2> QED
    BY <1>1, <1>2, <1>4, <2>1, <2>2, Zenon DEF OverlapSceneRight
<1> QED
  BY <1>3, <1>4

LEMMA OverlapStep ==
  ASSUME OverlapSceneRight, [OverlapNext]_overlapVars
  PROVE  OverlapSceneRight'
<1>1. ASSUME NEW pid, NEW status, NEW perceivable,
             HandleContinuousTask(status, pid, perceivable)
      PROVE  OverlapSceneRight'
  <2>1. HandleTaskStart(pid, TRUE) \/ TaskEnds(pid)
    BY <1>1, Zenon DEF HandleContinuousTask, HandleTaskUpdate, HandleTaskStop, HandleTaskStart
  <2> QED
    BY <2>1, TaskStartStep, TaskEndStep
<1>2. ASSUME NEW pid, ReportSceneBoard(pid) PROVE OverlapSceneRight'
  <2>1. unjudged' /\ (isInBackgroundPerceivableScene' <=> isInBackgroundPerceivableScene)
        /\ perceivableTasks' = perceivableTasks
    BY <1>2, Zenon DEF ReportSceneBoard
  <2> QED
    BY <2>1, Zenon DEF OverlapSceneRight
<1>3. CASE UNCHANGED overlapVars
  BY <1>3 DEF overlapVars, OverlapSceneRight, OverlapRules
<1> QED
  BY <1>1, <1>2, <1>3, ForegroundStep, Zenon DEF OverlapNext

-----------------------------------------------------------------------------
(* SceneRecognizers: continuous installs.  An install that runs has        *)
(* cancelled the exit task of the one before it, and unless its start met  *)
(* one that had begun, no exit task is left to report or to clear the flag *)
(* under it; then a flag that is set was set with a report.                *)
InstallCounts == exitsBegun \in Nat /\ exitsRunning \in Nat
InstallTells ==
  /\ InstallSceneRight
  /\ installing => exitAppInstall # "pending"
  /\ installStep # "none" => installing
  /\ installing => startMet \/ (exitsBegun = 0 /\ exitsRunning = 0)
  /\ isInContinuousInstall => installTold \/ startMet \/ exitsRunning > 0
  /\ installStep = "store" => installTold \/ startMet
InstallInv == InstallCounts /\ InstallTells

LEMMA InstallStart == InstallInit => InstallInv
<1>1. InstallInit => InstallCounts
  BY DEF InstallInit, InstallCounts
<1>2. InstallInit => InstallTells
  BY Zenon DEF InstallInit, InstallTells, InstallSceneRight
<1> QED
  BY <1>1, <1>2 DEF InstallInv

LEMMA InstallStep ==
  ASSUME InstallInv, [InstallNext]_installVars
  PROVE  InstallInv'
<1> USE DEF InstallInv
<1>1. CASE AppInstallStart
  <2>1. exitAppInstall' # "pending" /\ installStep' = "load" /\ "load" # "none" /\ "load" # "store"
    BY <1>1 DEF AppInstallStart, SkipExit
  <2>2. exitsBegun + exitsRunning > 0 \/ (exitsBegun = 0 /\ exitsRunning = 0)
    BY DEF InstallCounts
  <2>3. InstallTells'
    BY <1>1, <2>1, <2>2, Zenon DEF AppInstallStart, InstallTells, InstallSceneRight
  <2> QED
    BY <1>1, <2>3 DEF AppInstallStart, InstallCounts
<1>2. CASE AppInstallLoads
  <2>1. installStep' # "store"
    BY <1>2 DEF AppInstallLoads
  <2>2. isInContinuousInstall => installTold \/ startMet
    <3>1. exitsRunning = 0 => ~(exitsRunning > 0)
      OBVIOUS
    <3> QED
      BY <1>2, <3>1 DEF AppInstallLoads, InstallTells
  <2>3. installStep' = "none" => isInContinuousInstall
    BY <1>2 DEF AppInstallLoads
  <2>4. installing
    BY <1>2 DEF AppInstallLoads, InstallTells
  <2>5. UNCHANGED <<exitAppInstall, exitsBegun, exitsRunning, isInContinuousInstall, installTold,
                    installing, startMet>>
    BY <1>2 DEF AppInstallLoads
  <2>6. InstallTells'
    BY <2>1, <2>2, <2>3, <2>4, <2>5, Zenon DEF InstallTells, InstallSceneRight
  <2> QED
    BY <2>5, <2>6 DEF InstallCounts
<1>3. CASE AppInstallReports
  <2>1. installing
    BY <1>3 DEF AppInstallReports, InstallTells
  <2>2. installTold' /\ UNCHANGED <<exitAppInstall, exitsBegun, exitsRunning, isInContinuousInstall,
                                    installing>>
    BY <1>3, Zenon DEF AppInstallReports
  <2>3. startMet' \/ (exitsBegun' = 0 /\ exitsRunning' = 0)
    <3>1. exitsBegun + exitsRunning > 0 \/ (exitsBegun = 0 /\ exitsRunning = 0)
      BY DEF InstallCounts
    <3>2. startMet' <=> (startMet /\ exitsBegun + exitsRunning > 0)
      BY <1>3, Zenon DEF AppInstallReports
    <3> QED
      BY <2>1, <2>2, <3>1, <3>2 DEF InstallTells
  <2>4. InstallTells'
    BY <2>1, <2>2, <2>3, Zenon DEF InstallTells, InstallSceneRight
  <2> QED
    BY <2>2, <2>4 DEF InstallCounts
<1>4. CASE AppInstallStores
  <2>1. installStep = "store" /\ installStep' = "none" /\ "store" # "none" /\ "none" # "store"
    BY <1>4 DEF AppInstallStores
  <2>2. UNCHANGED <<exitAppInstall, exitsBegun, exitsRunning, installTold, installing, startMet>>
    BY <1>4 DEF AppInstallStores
  <2>3. InstallTells'
    BY <2>1, <2>2, Zenon DEF InstallTells, InstallSceneRight
  <2> QED
    BY <2>2, <2>3 DEF InstallCounts
<1>5. CASE AppInstallEnd
  <2>1. ~installing' /\ exitAppInstall' = "pending"
        /\ UNCHANGED <<exitsBegun, exitsRunning, isInContinuousInstall, installStep, installTold,
                       startMet>>
    BY <1>5, Zenon DEF AppInstallEnd
  <2>2. installStep = "none" /\ "none" # "store"
    BY <1>5 DEF AppInstallEnd
  <2>3. InstallTells'
    BY <2>1, <2>2, Zenon DEF InstallTells, InstallSceneRight
  <2> QED
    BY <2>1, <2>3 DEF InstallCounts
<1>6. CASE ExitInstallBegins
  <2>1. ~installing /\ UNCHANGED <<exitsRunning, isInContinuousInstall, installStep, installTold,
                                   installing, startMet>>
    BY <1>6 DEF ExitInstallBegins, InstallTells
  <2>2. exitsBegun' \in Nat /\ exitsBegun' > 0
    BY <1>6 DEF ExitInstallBegins, InstallCounts
  <2>3. InstallTells'
    BY <2>1, <2>2, Zenon DEF InstallTells, InstallSceneRight
  <2> QED
    BY <2>1, <2>2, <2>3 DEF InstallCounts
<1>7. CASE ExitInstallReports
  <2>1. ~installTold' /\ UNCHANGED <<exitAppInstall, isInContinuousInstall, installStep, installing,
                                     startMet>>
    BY <1>7, Zenon DEF ExitInstallReports
  <2>2. exitsBegun # 0 /\ exitsBegun' \in Nat /\ exitsRunning' \in Nat /\ exitsRunning' > 0
    BY <1>7 DEF ExitInstallReports, InstallCounts
  <2>3. InstallTells'
    BY <2>1, <2>2, Zenon DEF InstallTells, InstallSceneRight
  <2> QED
    BY <2>2, <2>3 DEF InstallCounts
<1>8. CASE ExitInstallClears
  <2>1. ~isInContinuousInstall' /\ UNCHANGED <<exitAppInstall, exitsBegun, installStep, installTold,
                                               installing, startMet>>
    BY <1>8, Zenon DEF ExitInstallClears
  <2>2. exitsRunning # 0 /\ exitsRunning' \in Nat
    BY <1>8 DEF ExitInstallClears, InstallCounts
  <2>3. InstallTells'
    BY <2>1, <2>2, Zenon DEF InstallTells, InstallSceneRight
  <2> QED
    BY <2>1, <2>2, <2>3 DEF InstallCounts
<1>9. CASE UNCHANGED installVars
  BY <1>9 DEF installVars, InstallCounts, InstallTells, InstallSceneRight
<1> QED
  BY <1>1, <1>2, <1>3, <1>4, <1>5, <1>6, <1>7, <1>8, <1>9, Zenon DEF InstallNext

-----------------------------------------------------------------------------
(* SceneRecognizers: the first boot of a version.                          *)
LEMMA UpgradeStart == UpgradeInit => UpgradeReported
  BY DEF UpgradeInit, UpgradeReported

LEMMA UpgradeStep ==
  ASSUME UpgradeReported, [UpgradeNext]_upgradeVars
  PROVE  UpgradeReported'
<1> USE DEF UpgradeReported
<1>1. ASSUME NEW saved \in BOOLEAN, RecognizerInit(saved) PROVE UpgradeReported'
  BY <1>1 DEF RecognizerInit
<1>2. CASE BootCompleted
  BY <1>2 DEF BootCompleted
<1>3. ASSUME NEW version \in SystemVersions, ServiceEnds(version) PROVE UpgradeReported'
  BY <1>3 DEF ServiceEnds
<1>4. CASE UNCHANGED upgradeVars
  BY <1>4 DEF upgradeVars
<1> QED
  BY <1>1, <1>2, <1>3, <1>4 DEF UpgradeNext

-----------------------------------------------------------------------------
(* SlideScene.  A screen without a recognizer waits for nothing, and no    *)
(* START in the queue is for it; a recognizer that is being started has    *)
(* asked for its frames.                                                   *)
OnWaits(q) == \E i \in DOMAIN q : q[i].kind = "ON"
NoStart(q) == \A i \in DOMAIN q : q[i].kind = "START" => q[i].by # "screen"
SlideItems == SlideArrivals \cup SlideTasks
SlideInv ==
  /\ slideQueue \in Seq(SlideItems)
  /\ SlideSound
  /\ startingAt = "screen" => slideInstance /\ (frameReport \/ framesLost)
  /\ ~slideInstance => slideState = "IDLE" /\ NoStart(slideQueue)

LEMMA QueueAppend ==
  ASSUME NEW q \in Seq(SlideItems), NEW e \in SlideItems
  PROVE  /\ Append(q, e) \in Seq(SlideItems)
         /\ OnWaits(q) \/ e.kind = "ON" => OnWaits(Append(q, e))
         /\ NoStart(q) /\ (e.kind = "START" => e.by # "screen") => NoStart(Append(q, e))
<1>1. /\ Append(q, e) \in Seq(SlideItems) /\ Len(q) \in Nat /\ DOMAIN q = 1..Len(q)
      /\ DOMAIN Append(q, e) = 1..Len(q)+1
      /\ \A i \in 1..Len(q) : Append(q, e)[i] = q[i]
      /\ Append(q, e)[Len(q) + 1] = e
  OBVIOUS
<1>2. Len(q) + 1 \in 1..Len(q)+1 /\ \A i \in 1..Len(q)+1 : i \in 1..Len(q) \/ i = Len(q) + 1
  BY <1>1
<1>3. \A i \in 1..Len(q) : i \in 1..Len(q)+1
  BY <1>1
<1>4. OnWaits(q) \/ e.kind = "ON" => OnWaits(Append(q, e))
  BY <1>1, <1>2, <1>3, Zenon DEF OnWaits
<1>5. ASSUME NoStart(q), e.kind = "START" => e.by # "screen" PROVE NoStart(Append(q, e))
  <2> SUFFICES ASSUME NEW i \in 1..Len(q)+1, Append(q, e)[i].kind = "START"
               PROVE  Append(q, e)[i].by # "screen"
    BY <1>1 DEF NoStart
  <2>1. CASE i \in 1..Len(q)
    BY <1>1, <1>5, <2>1 DEF NoStart
  <2>2. CASE i = Len(q) + 1
    BY <1>1, <1>5, <2>2
  <2> QED
    BY <1>2, <2>1, <2>2
<1> QED
  BY <1>1, <1>4, <1>5

LEMMA QueueTail ==
  ASSUME NEW q \in Seq(SlideItems), q # <<>>
  PROVE  /\ Head(q) \in SlideItems /\ Tail(q) \in Seq(SlideItems)
         /\ OnWaits(q) => Head(q).kind = "ON" \/ OnWaits(Tail(q))
         /\ NoStart(q) => NoStart(Tail(q)) /\ (Head(q).kind = "START" => Head(q).by # "screen")
<1>1. Head(q) \in SlideItems /\ Tail(q) \in Seq(SlideItems) /\ Head(q) = q[1]
  OBVIOUS
<1>2. /\ Len(Tail(q)) = Len(q) - 1 /\ Len(q) \in Nat \ {0}
      /\ DOMAIN q = 1..Len(q) /\ DOMAIN Tail(q) = 1..Len(q)-1
      /\ \A i \in 1..Len(q)-1 : Tail(q)[i] = q[i+1]
  OBVIOUS
<1>3. ASSUME OnWaits(q), Head(q).kind # "ON" PROVE OnWaits(Tail(q))
  <2>1. PICK i \in 1..Len(q) : q[i].kind = "ON"
    BY <1>2, <1>3 DEF OnWaits
  <2>2. i - 1 \in 1..Len(q)-1 /\ Tail(q)[i - 1] = q[i]
    BY <1>1, <1>2, <1>3, <2>1
  <2> QED
    BY <1>2, <2>1, <2>2 DEF OnWaits
<1>4. ASSUME NoStart(q)
      PROVE  NoStart(Tail(q)) /\ (Head(q).kind = "START" => Head(q).by # "screen")
  <2>1. \A i \in 1..Len(q) : q[i].kind = "START" => q[i].by # "screen"
    BY <1>2, <1>4 DEF NoStart
  <2>2. \A i \in 1..Len(q)-1 : i + 1 \in 1..Len(q)
    BY <1>2
  <2> QED
    BY <1>1, <1>2, <2>1, <2>2 DEF NoStart
<1> QED
  BY <1>1, <1>3, <1>4

LEMMA QueueDropped ==
  ASSUME NEW q \in Seq(SlideItems)
  PROVE  Dropped(q) \in Seq(SlideItems) /\ NoStart(Dropped(q))
<1>1. DOMAIN Dropped(q) = 1..Len(q) /\ Len(q) \in Nat /\ DOMAIN q = 1..Len(q)
  BY DEF Dropped
<1>2. ASSUME NEW i \in 1..Len(q)
      PROVE  /\ Dropped(q)[i] \in SlideItems
             /\ Dropped(q)[i].kind = "START" => Dropped(q)[i].by # "screen"
  <2>1. q[i] \in SlideItems
    BY <1>2
  <2>2. CASE q[i].kind = "START"
    <3>1. Dropped(q)[i] = [q[i] EXCEPT !.by = "dropped"]
      BY <1>1, <2>2 DEF Dropped
    <3>2. q[i] \in [kind : {"START"}, by : {"screen", "dropped"}]
      BY <2>1, <2>2 DEF SlideItems, SlideArrivals, SlideTasks, SlideKinds, TouchKinds
    <3>3. Dropped(q)[i] = [kind |-> "START", by |-> "dropped"]
      BY <3>1, <3>2
    <3> QED
      BY <3>3 DEF SlideItems, SlideTasks
  <2>3. CASE q[i].kind # "START"
    BY <1>1, <2>1, <2>3 DEF Dropped
  <2> QED
    BY <2>2, <2>3
<1>3. Dropped(q) = [i \in 1..Len(q) |-> Dropped(q)[i]]
  BY <1>1 DEF Dropped
<1>4. Dropped(q) \in Seq(SlideItems)
  BY <1>1, <1>2, <1>3
<1> QED
  BY <1>1, <1>2, <1>4 DEF NoStart

(* One event handled by the recognizer of the screen.                      *)
LEMMA HandledSlide ==
  ASSUME SlideInv, NEW e \in SlideItems, NEW rest \in Seq(SlideItems), e.kind # "START",
         OnWaits(slideQueue) => e.kind = "ON" \/ OnWaits(rest),
         startingAt # "screen", SlideOnDispatch(e.kind, rest, FALSE), slideInstance',
         UNCHANGED <<startingAt, framesLost>>,
         ~slideInstance => slideState = "IDLE"
  PROVE  SlideInv'
<1>0. FlingWillEnd /\ FramesReported
  BY DEF SlideInv, SlideSound
<1>1. ScreenEvent("ON") \in SlideItems /\ ScreenEvent("OFF") \in SlideItems
      /\ [kind |-> "START", by |-> "screen"] \in SlideItems
  BY DEF ScreenEvent, SlideItems, SlideArrivals, SlideTasks, SlideKinds
<1>2. /\ Append(rest, ScreenEvent("ON")) \in Seq(SlideItems)
      /\ OnWaits(Append(rest, ScreenEvent("ON")))
      /\ Append(rest, ScreenEvent("OFF")) \in Seq(SlideItems)
  BY <1>1, QueueAppend DEF ScreenEvent
<1>3. /\ Append(rest, [kind |-> "START", by |-> "screen"]) \in Seq(SlideItems)
      /\ OnWaits(rest) => OnWaits(Append(rest, [kind |-> "START", by |-> "screen"]))
  BY <1>1, QueueAppend
<1>4. startingAt' # "screen" /\ framesLost' = framesLost
  OBVIOUS
<1> DEFINE Right == slideQueue' \in Seq(SlideItems) /\ FlingWillEnd' /\ FramesReported'
<1>5. ASSUME HandleSlideDetecting(rest, FALSE), e.kind = "DETECTING" PROVE Right
  BY <1>0, <1>3, <1>5 DEF HandleSlideDetecting, FlingWillEnd, FramesReported, OnWaits
<1>6. ASSUME HandleListFlingStart(rest), e.kind = "ON" PROVE Right
  BY <1>0, <1>6 DEF HandleListFlingStart, FlingWillEnd, FramesReported, OnWaits,
                    SendFrameReport, ReportNothing
<1>7. ASSUME HandleSlideOFFEvent(rest), e.kind = "OFF" PROVE Right
  BY <1>0, <1>7 DEF HandleSlideOFFEvent, FlingWillEnd, FramesReported, OnWaits, SendFrameReport
<1>8. ASSUME HandleSendFrameEvent(rest), e.kind = "FRAME" PROVE Right
  BY <1>0, <1>8 DEF HandleSendFrameEvent, FlingWillEnd, FramesReported, OnWaits,
                    SendFrameReport, ReportNothing
<1>9. ASSUME HandleTouchDown(rest), e.kind = "DOWN" PROVE Right
  BY <1>0, <1>2, <1>9 DEF HandleTouchDown, ListFlingEnd, FlingWillEnd, FramesReported, OnWaits,
                    SendFrameReport, ReportNothing, ReportFling
<1>10. ASSUME NEW fast \in BOOLEAN, HandleTouchUp(fast, rest), e.kind \in {"UP", "FAST"}
       PROVE  Right
  BY <1>0, <1>2, <1>10 DEF HandleTouchUp, FlingWillEnd, FramesReported, OnWaits,
                    SendFrameReport, ReportNothing, ReportFling
<1>11. Right
  <2>1. e.kind \in {"DETECTING", "ON", "OFF", "FRAME", "DOWN", "UP", "FAST"}
    BY DEF SlideItems, SlideArrivals, SlideTasks, SlideKinds, TouchKinds
  <2> QED
    BY <1>5, <1>6, <1>7, <1>8, <1>9, <1>10, <2>1 DEF SlideOnDispatch, HandleClickEvent
<1> QED
  BY <1>4, <1>11 DEF SlideInv, SlideSound

(* An event that a recognizer dropped at once handles.                     *)
LEMMA HandledDropped ==
  ASSUME SlideInv, NEW e \in SlideItems, NEW rest \in Seq(SlideItems), NoStart(rest),
         ~slideInstance, startingAt # "screen", UNCHANGED <<slideInstance, startingAt, framesLost>>,
         UNCHANGED <<slideState, flingOn, overtaken>>,
         \/ slideQueue' = rest
         \/ slideQueue' = Append(rest, [kind |-> "START", by |-> "dropped"])
  PROVE  SlideInv'
<1>1. [kind |-> "START", by |-> "dropped"] \in SlideItems
  BY DEF SlideItems, SlideTasks
<1>2. slideQueue' \in Seq(SlideItems) /\ NoStart(slideQueue')
  BY <1>1, QueueAppend
<1>3. slideState' = "IDLE" /\ startingAt' # "screen" /\ ~slideInstance'
  BY Zenon DEF SlideInv
<1>4. ~(flingOn /\ ~overtaken)
  BY Zenon DEF SlideInv, SlideSound, FlingWillEnd
<1>5. FlingWillEnd'
  BY <1>4, Zenon DEF FlingWillEnd
<1>6. FramesReported'
  BY <1>3 DEF FramesReported
<1> QED
  BY <1>2, <1>3, <1>5, <1>6, Zenon DEF SlideInv, SlideSound

(* An event of another screen may drop this screen's recognizer if idle.   *)
LEMMA OtherScreenStep ==
  ASSUME SlideInv, NEW new, NEW kept, NEW rest \in Seq(SlideItems), startingAt # "screen",
         OnWaits(slideQueue) => OnWaits(rest), NoStart(slideQueue) => NoStart(rest),
         OtherScreenEvent(new, kept, rest)
  PROVE  SlideInv'
<1>1. UNCHANGED <<slideState, listFlingTimeOutTask, startingAt, frameReport, flingOn, overtaken,
                  framesLost>>
  BY DEF OtherScreenEvent
<1>2. \/ slideQueue' = rest /\ slideInstance' = slideInstance
      \/ slideInstance /\ IdleInstance /\ slideInstance' = FALSE /\ slideQueue' = Dropped(rest)
  BY Zenon DEF OtherScreenEvent, CleanupIdleInstances
<1>3. CASE slideQueue' = rest /\ slideInstance' = slideInstance
  BY <1>1, <1>3, Zenon DEF SlideInv, SlideSound, FlingWillEnd, FramesReported, OnWaits
<1>4. CASE IdleInstance /\ slideInstance' = FALSE /\ slideQueue' = Dropped(rest)
  <2>1. slideQueue' \in Seq(SlideItems) /\ NoStart(slideQueue')
    BY <1>4, QueueDropped
  <2>2. slideState = "IDLE" /\ slideState' = "IDLE" /\ startingAt' # "screen" /\ ~slideInstance'
    BY <1>1, <1>4, Zenon DEF IdleInstance
  <2>3. slideState # "LIST_FLING"
    BY <2>2
  <2>4. FlingWillEnd'
    BY <1>1, <2>3, Zenon DEF FlingWillEnd, SlideInv, SlideSound
  <2>5. FramesReported'
    BY <2>2 DEF FramesReported
  <2> QED
    BY <2>1, <2>2, <2>4, <2>5, Zenon DEF SlideInv, SlideSound
<1> QED
  BY <1>2, <1>3, <1>4

LEMMA ProxyStep ==
  ASSUME SlideInv, NEW found, NEW new, NEW kept, SlideProxyDispatch(found, new, kept)
  PROVE  SlideInv'
<1> DEFINE e == Head(slideQueue)
           rest == Tail(slideQueue)
<1>1. startingAt = "no" /\ slideQueue # <<>> /\ e.kind # "START"
  BY DEF SlideProxyDispatch
<1>2. /\ e \in SlideItems /\ rest \in Seq(SlideItems)
      /\ OnWaits(slideQueue) => e.kind = "ON" \/ OnWaits(rest)
      /\ NoStart(slideQueue) => NoStart(rest)
  BY <1>1, QueueTail DEF SlideInv
<1>3. \/ Routed(e, found) /\ GetOrCreateInstance(e, kept, rest) /\ UNCHANGED <<startingAt, framesLost>>
      \/ ~Routed(e, found) /\ OtherScreenEvent(new \/ otherScreens = 0, kept, rest)
  BY Zenon DEF SlideProxyDispatch
<1>4. startingAt # "screen"
  BY <1>1
<1>5. ~slideInstance => slideState = "IDLE" /\ NoStart(slideQueue)
  BY DEF SlideInv
<1> HIDE DEF e, rest
<1>6. CASE ~Routed(e, found) /\ OtherScreenEvent(new \/ otherScreens = 0, kept, rest)
  <2>1. e.kind # "ON"
    BY <1>2, <1>6 DEF Routed, SlideItems, SlideArrivals, SlideTasks, TouchKinds
  <2> QED
    BY <1>2, <1>4, <1>6, <2>1, OtherScreenStep
<1>7. CASE GetOrCreateInstance(e, kept, rest) /\ UNCHANGED <<startingAt, framesLost>>
  <2>1. CASE slideInstance' = TRUE /\ SlideOnDispatch(e.kind, rest, FALSE)
    BY <1>1, <1>2, <1>4, <1>5, <1>7, <2>1, HandledSlide
  <2>2. CASE /\ ~slideInstance /\ UNCHANGED slideInstance
             /\ CASE e.kind = "DETECTING" -> HandleSlideDetecting(rest, TRUE)
                  [] OTHER -> /\ slideQueue' = rest
                              /\ UNCHANGED <<slideState, flingOn, overtaken>>
    <3>1. /\ UNCHANGED <<slideState, flingOn, overtaken>>
          /\ \/ slideQueue' = rest
             \/ slideQueue' = Append(rest, [kind |-> "START", by |-> "dropped"])
      BY <2>2 DEF HandleSlideDetecting
    <3> QED
      BY <1>2, <1>4, <1>5, <1>7, <2>2, <3>1, HandledDropped
  <2> QED
    BY <1>7, <2>1, <2>2 DEF GetOrCreateInstance
<1> QED
  BY <1>3, <1>6, <1>7

(* The two steps of StartDetecting.                                        *)
LEMMA StartingStep ==
  ASSUME SlideInv, StartDetectingAsks \/ StartDetecting
  PROVE  SlideInv'
<1>1. CASE StartDetectingAsks
  <2>1. /\ slideQueue # <<>> /\ Head(slideQueue).kind = "START" /\ slideQueue' = Tail(slideQueue)
        /\ startingAt' = Head(slideQueue).by
        /\ UNCHANGED <<slideInstance, slideState, listFlingTimeOutTask, flingOn, overtaken>>
    BY <1>1 DEF StartDetectingAsks, recognizerVars
  <2>2. frameReport'
    BY <1>1, Zenon DEF StartDetectingAsks, SendFrameReport
  <2>3. /\ slideQueue' \in Seq(SlideItems)
        /\ OnWaits(slideQueue) => OnWaits(slideQueue')
        /\ NoStart(slideQueue) => NoStart(slideQueue') /\ startingAt' # "screen"
    BY <2>1, QueueTail DEF SlideInv
  <2>4. FlingWillEnd'
    BY <2>1, <2>3, Zenon DEF SlideInv, SlideSound, FlingWillEnd, OnWaits
  <2> QED
    BY <2>1, <2>2, <2>3, <2>4, Zenon DEF SlideInv, SlideSound, FramesReported
<1>2. CASE StartDetecting
  <2>1. /\ startingAt' # "screen"
        /\ UNCHANGED <<slideQueue, slideInstance, listFlingTimeOutTask, frameReport, flingOn,
                       framesLost>>
    BY <1>2 DEF StartDetecting
  <2>2. CASE startingAt = "screen"
    <3>1. slideState' = "SLIDE_NORMAL_DETECTING"
      BY <1>2, <2>2 DEF StartDetecting
    <3>2. overtaken' <=> (overtaken \/ slideState = "LIST_FLING")
      BY <1>2, <2>2, Zenon DEF StartDetecting
    <3>3. FlingWillEnd'
      BY <2>1, <3>2, Zenon DEF SlideInv, SlideSound, FlingWillEnd
    <3>4. slideInstance' /\ (frameReport' \/ framesLost')
      BY <2>1, <2>2, Zenon DEF SlideInv
    <3> QED
      BY <2>1, <3>3, <3>4, Zenon DEF SlideInv, SlideSound, FramesReported
  <2>3. CASE startingAt # "screen"
    <3>1. UNCHANGED <<slideState, overtaken>>
      BY <1>2, <2>3 DEF StartDetecting
    <3> QED
      BY <2>1, <3>1, Zenon DEF SlideInv, SlideSound, FlingWillEnd, FramesReported
  <2> QED
    BY <2>2, <2>3
<1> QED
  BY <1>1, <1>2

(* A timer of a fling ends it.                                             *)
LEMMA TimerSlide ==
  ASSUME SlideInv, FlingTimer, slideState = "LIST_FLING"
  PROVE  SlideInv'
<1>1. /\ slideQueue' = Append(slideQueue, ScreenEvent("OFF")) /\ slideState' = "IDLE"
      /\ UNCHANGED <<slideInstance, startingAt>>
  BY DEF FlingTimer, ReportListFlingLockedEnd, ReportFling
<1>2. ~flingOn' /\ (framesLost' <=> (framesLost \/ startingAt = "screen"))
  BY Zenon DEF FlingTimer, ReportListFlingLockedEnd, ReportFling
<1>3. ScreenEvent("OFF") \in SlideItems /\ ScreenEvent("OFF").kind # "START"
  BY DEF ScreenEvent, SlideItems, SlideArrivals, SlideKinds
<1>4. slideQueue' \in Seq(SlideItems) /\ (NoStart(slideQueue) => NoStart(slideQueue'))
  BY <1>1, <1>3, QueueAppend DEF SlideInv
<1>5. FramesReported'
  BY <1>1 DEF FramesReported
<1> QED
  BY <1>1, <1>2, <1>4, <1>5, Zenon DEF SlideInv, SlideSound, FlingWillEnd

(* SlideSound is kept by every step, as a part of SlideInv.                *)
LEMMA SlideStep ==
  ASSUME SlideInv, [SlideNext]_slideVars
  PROVE  SlideInv'
<1>1. CASE StartDetectingAsks \/ StartDetecting
  BY <1>1, StartingStep
<1>2. ASSUME FlingTimer, slideState # "LIST_FLING" PROVE SlideInv'
  <2>1. UNCHANGED <<slideQueue, slideState, slideInstance, startingAt, flingOn, overtaken, frameReport>>
    BY <1>2 DEF FlingTimer, ReportListFlingLockedEnd, ReportNothing
  <2>2. framesLost => framesLost'
    BY <1>2, Zenon DEF FlingTimer
  <2>3. FlingWillEnd'
    BY <1>2, <2>1, Zenon DEF SlideInv, SlideSound, FlingWillEnd
  <2> QED
    BY <2>1, <2>2, <2>3, Zenon DEF SlideInv, SlideSound, FramesReported
<1>3. CASE ListFlingEndFires \/ ListFlingTimeOutFires
  BY <1>2, <1>3, TimerSlide DEF ListFlingEndFires, ListFlingTimeOutFires
<1>4. ASSUME NEW e \in SlideArrivals, SlideEventArrives(e) PROVE SlideInv'
  <2>1. e \in SlideItems /\ e.kind # "START"
    BY DEF SlideItems, SlideArrivals, SlideKinds, TouchKinds
  <2>2. /\ slideQueue' = Append(slideQueue, e)
        /\ UNCHANGED <<slideInstance, slideState, listFlingTimeOutTask, startingAt, frameReport,
                       overtaken, framesLost>>
    BY <1>4 DEF SlideEventArrives, recognizerVars
  <2>3. flingOn' => flingOn
    BY <1>4, Zenon DEF SlideEventArrives
  <2>4. /\ slideQueue' \in Seq(SlideItems)
        /\ OnWaits(slideQueue) => OnWaits(slideQueue')
        /\ NoStart(slideQueue) => NoStart(slideQueue')
    BY <2>1, <2>2, QueueAppend DEF SlideInv
  <2> QED
    BY <2>2, <2>3, <2>4, Zenon DEF SlideInv, SlideSound, FlingWillEnd, FramesReported, OnWaits
<1>5. ASSUME NEW kept, OtherScreenArrives(kept) PROVE SlideInv'
  <2>1. startingAt # "screen" /\ OtherScreenEvent(TRUE, kept, slideQueue)
    BY <1>5 DEF OtherScreenArrives
  <2> QED
    BY <2>1, OtherScreenStep DEF SlideInv
<1>6. CASE UNCHANGED slideVars
  BY <1>6
  DEF slideVars, recognizerVars, SlideInv, SlideSound, FlingWillEnd, FramesReported, NoStart
<1> QED
  BY <1>1, <1>3, <1>4, <1>5, <1>6, ProxyStep, Zenon DEF SlideNext

LEMMA SlideStart == SlideInit => SlideInv
  BY DEF SlideInit, SlideInv, SlideSound, FlingWillEnd, FramesReported, NoStart

-----------------------------------------------------------------------------
(* The type invariants that MCParts checks.                                *)
(* The types of StartupScene: the tasks that wait and run stay within the  *)
(* bound, and no more packages than starts are counted.                    *)
StartupFlags ==
  isReportContinuousStartup \in BOOLEAN /\ queueUp \in BOOLEAN /\ crashed \in BOOLEAN
StartupFields ==
  /\ sceneReport \in {"none", "ABILITY_STATE_CHANGE", "EXTENSION_STATE_CHANGE",
                      "START_CONTINUOUS_STARTUP", "STOP_CONTINUOUS_STARTUP"}
  /\ appStartCount \in Nat /\ startPkgs \in 0..MAX_CONTINUOUS_START_NUM + 1
  /\ startUidSet \subseteq StartApps
  /\ sinceStart \in {"short", "long"} /\ exitTask \in {"null", "set"}
  /\ newestTask \in {"none", "waiting", "running"}
  /\ orphanTasks \in 0..MaxTasks /\ runningTasks \in 0..MaxTasks
  /\ startTasks \subseteq StartApps
  /\ startPkgs <= appStartCount /\ orphanTasks + runningTasks <= MaxTasks
StartupTypes == StartupFields /\ StartupFlags

LEMMA StartupTyped == StartupTypes => StartupTypeOK
  BY DEF StartupTypes, StartupFields, StartupFlags, StartupTypeOK

LEMMA StartupStartType == StartupInit => StartupTypes
<1>1. StartupInit => StartupFields
  BY StartupAssumption DEF StartupInit, StartupFields
<1>2. StartupInit => StartupFlags
  BY Zenon DEF StartupInit, StartupFlags
<1> QED
  BY <1>1, <1>2 DEF StartupTypes

LEMMA StartupStepType ==
  ASSUME StartupTypes, [StartupNext]_startupVars
  PROVE  StartupTypes'
<1> USE DEF StartupTypes, StartupFields, StartupFlags, recordVars, timerVars
<1>1. ASSUME NEW p \in StartApps, RecordIsContinuousStartup(p) PROVE StartupTypes'
  BY <1>1, StartupAssumption
  DEF RecordIsContinuousStartup, UpdateAppStartupNum, RenewTimer, ReportScene
<1>2. ASSUME NEW p \in StartApps, NEW kind \in AbilityKinds, NEW state \in AbilityStates,
             AbilityNotified(p, kind, state)
      PROVE  StartupTypes'
  BY <1>2 DEF AbilityNotified, OnAbilityStateChanged, OnExtensionStateChanged, ReportScene
<1>3. CASE TimePasses
  BY <1>3 DEF TimePasses
<1>4. CASE TimerBegins
  <2>1. StartupFields'
    BY <1>4, StartupAssumption DEF TimerBegins
  <2>2. StartupFlags'
    BY <1>4, StartupAssumption, Zenon DEF TimerBegins
  <2> QED
    BY <2>1, <2>2
<1>5. CASE TimerRuns
  <2>1. StartupFields'
    BY <1>5, StartupAssumption DEF TimerRuns, CleanRecordSceneData, ReportScene
  <2>2. StartupFlags'
    BY <1>5, StartupAssumption, Zenon DEF TimerRuns, CleanRecordSceneData
  <2> QED
    BY <2>1, <2>2
<1>6. CASE Deinit
  <2>1. StartupFields'
    BY <1>6, StartupAssumption DEF Deinit
  <2>2. StartupFlags'
    BY <1>6, StartupAssumption, Zenon DEF Deinit
  <2> QED
    BY <2>1, <2>2
<1>7. CASE UNCHANGED startupVars
  BY <1>7 DEF startupVars
<1> QED
  BY <1>1, <1>2, <1>3, <1>4, <1>5, <1>6, <1>7 DEF StartupNext

(* The types of the three recognizers, each of its own steps.              *)
OverlapTypes ==
  /\ perceivableTasks \subseteq TaskPids
  /\ {foregroundPid, sceneboardPid} \subseteq TaskPids
  /\ isInBackgroundPerceivableScene \in BOOLEAN /\ unjudged \in BOOLEAN
ExitTypes ==
  exitsBegun \in Nat /\ exitsRunning \in Nat /\ exitsBegun + exitsRunning <= MaxExits
InstallTypes ==
  /\ exitAppInstall \in {"null", "pending", "done"}
  /\ installStep \in {"none", "load", "report", "store"}
  /\ ExitTypes
  /\ {isInContinuousInstall, installTold, installing, startMet} \subseteq BOOLEAN
UpgradeTypes ==
  /\ systemVersion \in SystemVersions /\ fingerprintFile \in SystemVersions \cup {NoFile}
  /\ isSystemUpgraded \in {"yes", "no", "down"} /\ serviceBoots \in 0..MaxBoots
  /\ upgradeTold \subseteq SystemVersions /\ cutShort \subseteq SystemVersions

LEMMA RecognizersStartType ==
  ASSUME OverlapInit, InstallInit, UpgradeInit
  PROVE  OverlapTypes /\ InstallTypes /\ UpgradeTypes
<1>1. OverlapTypes
  BY RecognizersAssumption, Zenon DEF OverlapInit, OverlapTypes
<1>2. ExitTypes /\ serviceBoots \in 0..MaxBoots
  BY RecognizersAssumption DEF InstallInit, UpgradeInit, ExitTypes
<1>3. InstallTypes
  BY <1>2, Zenon DEF InstallInit, InstallTypes
<1>4. UpgradeTypes
  BY <1>2, Zenon DEF UpgradeInit, UpgradeTypes
<1> QED
  BY <1>1, <1>3, <1>4

LEMMA OverlapStepType ==
  ASSUME OverlapTypes, [OverlapNext]_overlapVars
  PROVE  OverlapTypes'
<1> USE DEF OverlapTypes
<1>1. ASSUME NEW pid \in TaskPids, NEW perceivable, HandleTaskStart(pid, perceivable)
      PROVE  OverlapTypes'
  BY <1>1 DEF HandleTaskStart, EnterSceneIf
<1>2. ASSUME NEW pid \in TaskPids, TaskEnds(pid) PROVE OverlapTypes'
  BY <1>2 DEF TaskEnds, ExitSceneIf
<1>3. ASSUME NEW pid \in TaskPids, NEW status, NEW perceivable,
             HandleContinuousTask(status, pid, perceivable)
      PROVE  OverlapTypes'
  BY <1>3, <1>1, <1>2 DEF HandleContinuousTask, HandleTaskUpdate, HandleTaskStop
<1>4. ASSUME NEW pid \in TaskPids, HandleForeground(pid) PROVE OverlapTypes'
  BY <1>4 DEF HandleForeground, EnterSceneIf, ExitSceneIf
<1>5. ASSUME NEW pid \in TaskPids, ReportSceneBoard(pid) PROVE OverlapTypes'
  BY <1>5 DEF ReportSceneBoard
<1>6. CASE UNCHANGED overlapVars
  BY <1>6 DEF overlapVars
<1> QED
  BY <1>1, <1>2, <1>3, <1>4, <1>5, <1>6 DEF OverlapNext

LEMMA InstallStepType ==
  ASSUME InstallTypes, [InstallNext]_installVars
  PROVE  InstallTypes'
<1>1. CASE AppInstallStart
  <2>1. exitAppInstall' \in {"null", "pending", "done"}
    BY <1>1 DEF AppInstallStart, SkipExit, InstallTypes
  <2>2. ExitTypes'
    BY <1>1 DEF AppInstallStart, ExitTypes, InstallTypes
  <2> QED
    BY <1>1, <2>1, <2>2, Zenon DEF AppInstallStart, InstallTypes
<1>2. CASE AppInstallLoads
  <2>1. installStep' \in {"none", "load", "report", "store"} /\ ExitTypes'
    BY <1>2 DEF AppInstallLoads, ExitTypes, InstallTypes
  <2> QED
    BY <1>2, <2>1, Zenon DEF AppInstallLoads, InstallTypes
<1>3. CASE AppInstallReports
  <2>1. ExitTypes'
    BY <1>3 DEF AppInstallReports, ExitTypes, InstallTypes
  <2> QED
    BY <1>3, <2>1, Zenon DEF AppInstallReports, InstallTypes
<1>4. CASE AppInstallStores \/ AppInstallEnd
  <2>1. ExitTypes'
    BY <1>4 DEF AppInstallStores, AppInstallEnd, ExitTypes, InstallTypes
  <2> QED
    BY <1>4, <2>1, Zenon DEF AppInstallStores, AppInstallEnd, InstallTypes
<1>5. CASE ExitInstallBegins
  <2>1. ExitTypes'
    BY <1>5, RecognizersAssumption DEF ExitInstallBegins, ExitTypes, InstallTypes
  <2> QED
    BY <1>5, <2>1, Zenon DEF ExitInstallBegins, InstallTypes
<1>6. CASE ExitInstallReports
  <2>1. ExitTypes'
    BY <1>6, RecognizersAssumption DEF ExitInstallReports, ExitTypes, InstallTypes
  <2> QED
    BY <1>6, <2>1, Zenon DEF ExitInstallReports, InstallTypes
<1>7. CASE ExitInstallClears
  <2>1. ExitTypes'
    BY <1>7, RecognizersAssumption DEF ExitInstallClears, ExitTypes, InstallTypes
  <2> QED
    BY <1>7, <2>1, Zenon DEF ExitInstallClears, InstallTypes
<1>8. CASE UNCHANGED installVars
  BY <1>8 DEF installVars, InstallTypes, ExitTypes
<1> QED
  BY <1>1, <1>2, <1>3, <1>4, <1>5, <1>6, <1>7, <1>8, Zenon DEF InstallNext

LEMMA UpgradeStepType ==
  ASSUME UpgradeTypes, [UpgradeNext]_upgradeVars
  PROVE  UpgradeTypes'
<1> USE DEF UpgradeTypes
<1>1. ASSUME NEW saved \in BOOLEAN, RecognizerInit(saved) PROVE UpgradeTypes'
  BY <1>1, RecognizersAssumption DEF RecognizerInit
<1>2. CASE BootCompleted
  BY <1>2 DEF BootCompleted
<1>3. ASSUME NEW version \in SystemVersions, ServiceEnds(version) PROVE UpgradeTypes'
  BY <1>3 DEF ServiceEnds
<1>4. CASE UNCHANGED upgradeVars
  BY <1>4 DEF upgradeVars
<1> QED
  BY <1>1, <1>2, <1>3, <1>4 DEF UpgradeNext

LEMMA RecognizersTyped ==
  ASSUME OverlapTypes, InstallTypes, UpgradeTypes
  PROVE  RecognizersTypeOK
<1>1. exitsBegun \in 0..MaxExits /\ exitsRunning \in 0..MaxExits
  BY RecognizersAssumption DEF InstallTypes, ExitTypes
<1> QED
  BY <1>1, Zenon DEF OverlapTypes, InstallTypes, UpgradeTypes, RecognizersTypeOK

(* The types of FrameAware: the requests and their timers, which need      *)
(* LatencyInv, and the numbers of the frame events.                        *)
LatencyTypes ==
  /\ frameAwareOn \in BOOLEAN /\ lowLatency \in BOOLEAN /\ switchFailed \in BOOLEAN
  /\ latencyRunning \in Identities \cup {NoIdentity}
  /\ lowWanted \subseteq Identities /\ overrun \subseteq Identities /\ untimed \subseteq Identities
FrameCalls == [type : FrameTypes \cup {"NONE"}, args : Seq(Numbers)]
FrameEventTypes ==
  /\ frameErrno \in BOOLEAN /\ frameSpoilt \in BOOLEAN
  /\ frameHeard \in FrameCalls /\ frameAsked \in FrameCalls

LEMMA FrameStartType ==
  ASSUME LatencyInit, FrameInit
  PROVE  LatencyTypes /\ FrameEventTypes
<1>1. NoCall \in FrameCalls
  BY DEF FrameCalls, NoCall, FrameCall
<1>2. LatencyTypes
  BY Zenon DEF LatencyInit, LatencyTypes
<1>3. FrameEventTypes
  BY <1>1, Zenon DEF FrameInit, FrameEventTypes
<1> QED
  BY <1>2, <1>3

LEMMA LatencyStepType ==
  ASSUME LatencyInv, LatencyTypes, [LatencyNext]_latencyVars
  PROVE  LatencyTypes'
<1> USE DEF LatencyTypes, LatencyInv
<1>1. CASE FrameAwareInit \/ FrameAwareDisable
  BY <1>1 DEF FrameAwareInit, FrameAwareDisable, LatencyControllerInit
<1>2. ASSUME NEW id \in Identities, NEW op \in {"add", "delete"}, NEW formed \in BOOLEAN,
             HandleNetworkLatencyRequest(id, op, formed)
      PROVE  LatencyTypes'
  BY <1>2 DEF HandleNetworkLatencyRequest, HandleRequest
<1>3. ASSUME NEW opens \in BOOLEAN, AddRequest(opens) PROVE LatencyTypes'
  BY <1>3 DEF AddRequest
<1>4. CASE SubmitAutoDisable \/ HandleDelRequest
  BY <1>4 DEF SubmitAutoDisable, HandleDelRequest, DelRequest
<1>5. ASSUME NEW id \in Identities, AutoDisableStarts(id) PROVE LatencyTypes'
  BY <1>5 DEF AutoDisableStarts
<1>6. CASE AutoDisableTask
  BY <1>6 DEF AutoDisableTask, DelRequest
<1>7. CASE UNCHANGED latencyVars
  BY <1>7 DEF latencyVars
<1> QED
  BY <1>1, <1>2, <1>3, <1>4, <1>5, <1>6, <1>7 DEF LatencyNext

LEMMA FrameStepType ==
  ASSUME FrameEventTypes, [FrameNext]_frameVars
  PROVE  FrameEventTypes'
<1>1. ASSUME NEW type \in FrameTypes, NEW zero \in BOOLEAN,
             NEW texts \in [1..FrameKeys[type] -> Texts], HandleFrameEvent(type, texts, zero)
      PROVE  FrameEventTypes'
  <2> DEFINE got == [i \in DOMAIN texts |-> ConvertToInteger(texts, i)]
             said == [i \in DOMAIN texts |-> NumberOf(texts[i])]
  <2>1. \A i \in DOMAIN texts : ConvertToInteger(texts, i) \in Numbers /\ NumberOf(texts[i]) \in Numbers
    BY DEF ConvertToInteger, NumberOf, Narrowed, Numbers
  <2>2. FrameKeys[type] \in Nat /\ DOMAIN texts = 1..FrameKeys[type]
    BY KeyCounts
  <2>3. got \in Seq(Numbers) /\ said \in Seq(Numbers)
    <3> HIDE DEF ConvertToInteger, NumberOf
    <3> QED
      BY <2>1, <2>2
  <2> HIDE DEF got, said
  <2>4. FrameCall(type, got) \in FrameCalls /\ FrameCall(type, said) \in FrameCalls
    BY <2>3 DEF FrameCall, FrameCalls
  <2>5. frameErrno' \in BOOLEAN
    BY <1>1 DEF HandleFrameEvent, Spoilt
  <2>6. CASE type = "CGROUP_ADJUSTER" /\ ~zero
    BY <1>1, <2>5, <2>6 DEF HandleFrameEvent, FrameEventTypes
  <2>7. CASE ~(type = "CGROUP_ADJUSTER" /\ ~zero)
    <3>1. frameHeard' = FrameCall(type, got) /\ frameAsked' = FrameCall(type, said)
      BY <1>1, <2>7, Zenon DEF HandleFrameEvent, got, said
    <3>2. frameSpoilt' \in BOOLEAN
      BY <1>1, <2>7 DEF HandleFrameEvent, Spoilt
    <3> QED
      BY <2>4, <2>5, <3>1, <3>2 DEF FrameEventTypes
  <2> QED
    BY <2>6, <2>7
<1>2. CASE OtherErrno
  BY <1>2 DEF OtherErrno, FrameEventTypes
<1>3. CASE UNCHANGED frameVars
  BY <1>3 DEF frameVars, FrameEventTypes
<1> QED
  BY <1>1, <1>2, <1>3 DEF FrameNext

LEMMA FrameAwareTyped == LatencyInv /\ LatencyTypes /\ FrameEventTypes => FrameAwareTypeOK
  BY DEF LatencyInv, LatencyTypes, FrameEventTypes, FrameCalls, FrameAwareTypeOK

(* The types of SlideScene; SlideInv has that of the queue.                *)
SlideFields ==
  /\ slideState \in {"IDLE", "SLIDE_NORMAL_DETECTING", "SLIDE_NORMAL", "LIST_FLING"}
  /\ listFlingEndTask \in TaskStates /\ listFlingTimeOutTask \in TaskStates
  /\ startingAt \in {"no", "screen", "dropped"} /\ otherScreens \in 0..MAX_INSTANCE_COUNT
SlideFlags ==
  /\ slideInstance \in BOOLEAN /\ isInTouching \in BOOLEAN
  /\ displayKnown \in BOOLEAN /\ frameReport \in BOOLEAN /\ flingOn \in BOOLEAN
  /\ overtaken \in BOOLEAN /\ framesLost \in BOOLEAN

LEMMA SlideStartType == SlideInit => SlideFields /\ SlideFlags
<1>1. SlideInit => SlideFields
  BY SlideAssumption DEF SlideInit, SlideFields, TaskStates
<1>2. SlideInit => SlideFlags
  BY Zenon DEF SlideInit, SlideFlags
<1> QED
  BY <1>1, <1>2

LEMMA SlideDispatchType ==
  ASSUME SlideFields, SlideFlags, NEW kind, NEW rest, NEW dropped \in BOOLEAN,
         SlideOnDispatch(kind, rest, dropped)
  PROVE  /\ isInTouching' \in BOOLEAN
         /\ slideState' \in {"IDLE", "SLIDE_NORMAL_DETECTING", "SLIDE_NORMAL", "LIST_FLING"}
         /\ listFlingEndTask' \in TaskStates /\ listFlingTimeOutTask' \in TaskStates
         /\ frameReport' \in BOOLEAN /\ flingOn' \in BOOLEAN /\ overtaken' \in BOOLEAN
<1> USE DEF SlideFields, SlideFlags, TaskStates, ReportNothing, ReportFling, SendFrameReport
<1>1. CASE HandleSlideDetecting(rest, dropped)
  BY <1>1 DEF HandleSlideDetecting
<1>2. CASE HandleListFlingStart(rest)
  BY <1>2 DEF HandleListFlingStart
<1>3. CASE HandleSlideOFFEvent(rest)
  BY <1>3 DEF HandleSlideOFFEvent, Skip
<1>4. CASE HandleSendFrameEvent(rest)
  BY <1>4 DEF HandleSendFrameEvent
<1>5. CASE HandleClickEvent(kind, rest)
  BY <1>5 DEF HandleClickEvent, HandleTouchDown, HandleTouchUp, ListFlingEnd
<1> QED
  BY <1>1, <1>2, <1>3, <1>4, <1>5 DEF SlideOnDispatch

LEMMA OtherScreenType ==
  ASSUME SlideFields, SlideFlags, NEW new, NEW kept \in 0..MAX_INSTANCE_COUNT, NEW rest,
         OtherScreenEvent(new, kept, rest), displayKnown' \in BOOLEAN
  PROVE  SlideFields' /\ SlideFlags'
<1>1. SlideFields'
  BY SlideAssumption DEF SlideFields, OtherScreenEvent, CleanupIdleInstances, recognizerVars
<1>2. SlideFlags'
  BY Zenon DEF SlideFlags, OtherScreenEvent, CleanupIdleInstances, recognizerVars
<1> QED
  BY <1>1, <1>2

LEMMA SlideStepFields ==
  ASSUME SlideInv, SlideFields, SlideFlags, [SlideNext]_slideVars
  PROVE  (SlideFields /\ SlideFlags)'
<1> USE DEF recognizerVars
<1>1. ASSUME NEW found \in BOOLEAN, NEW new \in BOOLEAN, NEW kept \in 0..MAX_INSTANCE_COUNT,
             SlideProxyDispatch(found, new, kept)
      PROVE  (SlideFields /\ SlideFlags)'
  <2> DEFINE e == Head(slideQueue)
             rest == Tail(slideQueue)
  <2>1. displayKnown' \in BOOLEAN
    BY <1>1 DEF SlideProxyDispatch
  <2>2. CASE Routed(e, found)
    <3>1. GetOrCreateInstance(e, kept, rest) /\ UNCHANGED <<startingAt, framesLost>>
      BY <1>1, <2>2, Zenon DEF SlideProxyDispatch
    <3> HIDE DEF e, rest
    <3>2. CASE slideInstance \/ otherScreens + 1 <= MAX_INSTANCE_COUNT
      <4>1. slideInstance' = TRUE /\ SlideOnDispatch(e.kind, rest, FALSE) /\ otherScreens' = otherScreens
        BY <3>1, <3>2 DEF GetOrCreateInstance
      <4> QED
        BY <2>1, <3>1, <4>1, SlideDispatchType DEF SlideFields, SlideFlags
    <3>3. CASE ~(slideInstance \/ otherScreens + 1 <= MAX_INSTANCE_COUNT)
      <4>1. otherScreens' = kept /\ slideInstance' = slideInstance
        BY <3>1, <3>3 DEF GetOrCreateInstance
      <4>2. CASE e.kind = "DETECTING"
        BY <2>1, <3>1, <3>3, <4>1, <4>2
        DEF GetOrCreateInstance, HandleSlideDetecting, SlideFields, SlideFlags
      <4>3. CASE e.kind # "DETECTING"
        BY <2>1, <3>1, <3>3, <4>1, <4>3 DEF GetOrCreateInstance, SlideFields, SlideFlags
      <4> QED
        BY <4>2, <4>3
    <3> QED
      BY <3>2, <3>3
  <2>3. CASE ~Routed(e, found)
    <3>1. OtherScreenEvent(new \/ otherScreens = 0, kept, rest)
      BY <1>1, <2>3, Zenon DEF SlideProxyDispatch
    <3> QED
      BY <2>1, <3>1, OtherScreenType
  <2> QED
    BY <2>2, <2>3
<1>2. CASE StartDetectingAsks
  <2> DEFINE e == Head(slideQueue)
  <2>1. e \in SlideArrivals \cup SlideTasks /\ e.kind = "START" /\ startingAt' = e.by
    <3>1. slideQueue \in Seq(SlideArrivals \cup SlideTasks) /\ slideQueue # <<>>
      BY <1>2 DEF StartDetectingAsks, SlideInv, SlideItems
    <3>2. e \in SlideArrivals \cup SlideTasks
      BY <3>1
    <3> QED
      BY <1>2, <3>2, Zenon DEF StartDetectingAsks
  <2> HIDE DEF e
  <2>2. startingAt' \in {"screen", "dropped"}
    BY <2>1 DEF SlideArrivals, SlideTasks, SlideKinds, TouchKinds
  <2>3. SlideFields'
    BY <1>2, <2>2, Zenon DEF StartDetectingAsks, SlideFields
  <2>4. SlideFlags'
    BY <1>2, Zenon DEF StartDetectingAsks, SendFrameReport, SlideFlags
  <2> QED
    BY <2>3, <2>4
<1>3. CASE StartDetecting
  BY <1>3 DEF StartDetecting, SlideFields, SlideFlags
<1>4. CASE ListFlingEndFires \/ ListFlingTimeOutFires
  BY <1>4
  DEF ListFlingEndFires, ListFlingTimeOutFires, FlingTimer, ReportListFlingLockedEnd,
      ReportNothing, ReportFling, SendFrameReport, SlideFields, SlideFlags, TaskStates
<1>5. ASSUME NEW e \in SlideArrivals, SlideEventArrives(e) PROVE (SlideFields /\ SlideFlags)'
  BY <1>5 DEF SlideEventArrives, SlideFields, SlideFlags
<1>6. ASSUME NEW kept \in 0..MAX_INSTANCE_COUNT, OtherScreenArrives(kept)
      PROVE  (SlideFields /\ SlideFlags)'
  BY <1>6, OtherScreenType DEF OtherScreenArrives, SlideFlags
<1>7. CASE UNCHANGED slideVars
  BY <1>7 DEF slideVars, SlideFields, SlideFlags
<1> QED
  BY <1>1, <1>2, <1>3, <1>4, <1>5, <1>6, <1>7 DEF SlideNext

LEMMA SlideTyped == SlideInv /\ SlideFields /\ SlideFlags => SlideTypeOK
  BY DEF SlideInv, SlideItems, SlideFields, SlideFlags, SlideTypeOK
=============================================================================
