--------------------------- MODULE ObserverProofs ---------------------------
(***************************************************************************)
(* Proofs about the observers, for any values of their constants:          *)
(* AudioObserver (what was reported last of a process is so), CommonEvents *)
(* (the subscription is the one the listener knows, and the last event is  *)
(* heard), SuspendObservers (the service calls the living observers that   *)
(* registered), DeviceObservers (the plugins were told the present state), *)
(* Observers (an observer is registered with its running ability and       *)
(* missed no change of its value), AppState (the foreground pids are those *)
(* of the application manager) and CgroupStates (the records of the cgroup *)
(* plugin hold what their processes do and end with them).  The last       *)
(* section has their types, for which those invariants are needed too.     *)
(***************************************************************************)
EXTENDS AudioObserver, CommonEvents, Observers, DeviceObservers, SuspendObservers, AppState,
        CgroupStates, TLAPS, SequenceTheorems

-----------------------------------------------------------------------------
(* AudioObserver.  The sessions of a process that run, and those that have *)
(* begun and not ended, in a table of the audio service.                   *)
RunningOf(table, p) == {s \in DOMAIN table : table[s] = "RUNNING" /\ PidOf[s] = p}
BegunOf(table, p) ==
  {s \in DOMAIN table : table[s] \in {"RUNNING", "PAUSED"} /\ PidOf[s] = p}

(* What makes the reports right: processRenderStateMap_ has exactly the    *)
(* processes with a running session, each with these sessions, and         *)
(* capturerStateMap_ has for each process the sessions that record, and    *)
(* paused ones that did; who is in a map was reported so last.             *)
RenderInv ==
  /\ \A p \in DOMAIN processRenderState :
       processRenderState[p] # {} /\ processRenderState[p] = RunningOf(renderers, p)
  /\ \A p \in AudioPids : RunningOf(renderers, p) # {} => p \in DOMAIN processRenderState
  /\ \A p \in AudioPids \ lostPids :
       innerAudio[p] = "AUDIO_STATE_RUNNING" <=> p \in DOMAIN processRenderState
CaptureInv ==
  /\ \A p \in DOMAIN capturerState :
       /\ capturerState[p] # {} /\ RunningOf(capturers, p) \subseteq capturerState[p]
       /\ capturerState[p] \subseteq BegunOf(capturers, p)
  /\ \A p \in AudioPids : RunningOf(capturers, p) # {} => p \in DOMAIN capturerState
  /\ \A p \in AudioPids : capture[p] = "AUDIO_CAPTURE_BEGIN" <=> p \in DOMAIN capturerState
AudioInv ==
  /\ DOMAIN renderers \subseteq Sessions /\ DOMAIN capturers \subseteq Sessions
  /\ RenderInv /\ CaptureInv

(* What is left of a table after released sessions have gone.              *)
LEMMA RemainingTable ==
  ASSUME NEW table
  PROVE  /\ DOMAIN Remaining(table) = {x \in DOMAIN table : table[x] # "RELEASED"}
         /\ \A x \in DOMAIN Remaining(table) : Remaining(table)[x] = table[x]
         /\ \A p : RunningOf(Remaining(table), p) = RunningOf(table, p)
         /\ \A p : BegunOf(Remaining(table), p) = BegunOf(table, p)
  BY DEF Remaining, RunningOf, BegunOf

(* The map of the processes that play after a list was handled.            *)
LEMMA RenderMaps ==
  ASSUME NEW map, NEW list
  PROVE  /\ DOMAIN ProcessStopSessionState(ProcessRunningSessionState(map, list), list)
              = DOMAIN map \cup {PidOf[s] : s \in In(list, {"RUNNING"})}
         /\ \A p \in DOMAIN ProcessStopSessionState(ProcessRunningSessionState(map, list), list) :
              ProcessStopSessionState(ProcessRunningSessionState(map, list), list)[p]
                = ((IF p \in DOMAIN map THEN map[p] ELSE {}) \cup RunningOf(list, p))
                     \ In(list, Stopping)
  BY DEF ProcessStopSessionState, ProcessRunningSessionState, RunningOf, In

(* A change of one renderer session keeps RenderInv.                       *)
LEMMA RenderStep ==
  ASSUME AudioInv, NEW s \in Sessions, NEW state \in RendererStates, RendererChanges(s, state)
  PROVE  RenderInv'
<1> DEFINE list == Change(renderers, s, state)
           stopPids == {PidOf[x] : x \in In(list, Stopping)}
           map == ProcessStopSessionState(ProcessRunningSessionState(processRenderState, list), list)
           started == HandleStartAudioStateEvent(processRenderState, map)
           ended == HandleStopAudioStateEvent(map, stopPids)
<1>1. /\ processRenderState' = [p \in DOMAIN map \ ended |-> map[p]]
      /\ innerAudio' = [p \in AudioPids |-> IF p \in ended THEN "AUDIO_STATE_STOP"
                                            ELSE IF p \in started THEN "AUDIO_STATE_RUNNING"
                                            ELSE innerAudio[p]]
      /\ renderers' = Remaining(list) /\ lostPids' = lostPids
      /\ s \in DOMAIN renderers <=> state # "PREPARED"
  <2>1. OnRendererStateChange(list)
    BY DEF RendererChanges
  <2>2. /\ renderers' = Remaining(list) /\ lostPids' = lostPids
        /\ s \in DOMAIN renderers <=> state # "PREPARED"
    BY DEF RendererChanges
  <2>3. processRenderState' = [p \in DOMAIN map \ ended |-> map[p]]
    BY <2>1, Zenon DEF OnRendererStateChange
  <2>4. innerAudio' = [p \in AudioPids |-> IF p \in ended THEN "AUDIO_STATE_STOP"
                                          ELSE IF p \in started THEN "AUDIO_STATE_RUNNING"
                                          ELSE innerAudio[p]]
    BY <2>1, Zenon DEF OnRendererStateChange
  <2> QED
    BY <2>2, <2>3, <2>4
<1>2. /\ DOMAIN list = DOMAIN renderers \cup {s} /\ list[s] = state
      /\ \A x \in DOMAIN renderers \ {s} : list[x] = renderers[x]
  BY DEF Change, With
<1>3. /\ DOMAIN map = DOMAIN processRenderState \cup {PidOf[x] : x \in In(list, {"RUNNING"})}
      /\ \A p \in DOMAIN map :
           map[p] = ((IF p \in DOMAIN processRenderState THEN processRenderState[p] ELSE {})
                       \cup RunningOf(list, p)) \ In(list, Stopping)
  BY RenderMaps
<1>4. /\ started = {p \in DOMAIN map \ DOMAIN processRenderState : map[p] # {}}
      /\ ended = {p \in stopPids \cap DOMAIN map : map[p] = {}}
  BY DEF HandleStartAudioStateEvent, HandleStopAudioStateEvent
<1>5. \A p : RunningOf(renderers', p) = RunningOf(list, p)
  BY <1>1, RemainingTable
<1> HIDE DEF list, map, started, ended
(* A session that ran runs still or is in the list as a stopped one.       *)
<1>6. \A p \in DOMAIN map : map[p] = RunningOf(list, p)
  <2> TAKE p \in DOMAIN map
  <2>1. RunningOf(list, p) \cap In(list, Stopping) = {}
    BY DEF RunningOf, In, Stopping
  <2>2. ASSUME NEW x \in RunningOf(renderers, p)
        PROVE  x \in RunningOf(list, p) \/ x \in In(list, Stopping)
    <3>1. CASE x # s
      BY <1>2, <2>2, <3>1 DEF RunningOf
    <3>2. CASE x = s
      <4>1. state \in {"RUNNING", "PAUSED", "STOPPED", "RELEASED"} /\ PidOf[x] = p
        BY <1>1, <2>2, <3>2 DEF RunningOf, RendererStates
      <4> QED
        BY <1>2, <3>2, <4>1 DEF RunningOf, In, Stopping
    <3> QED
      BY <3>1, <3>2
  <2>3. p \in DOMAIN processRenderState => processRenderState[p] = RunningOf(renderers, p)
    BY DEF AudioInv, RenderInv
  <2>4. map[p] = ((IF p \in DOMAIN processRenderState THEN processRenderState[p] ELSE {})
                    \cup RunningOf(list, p)) \ In(list, Stopping)
    BY <1>3
  <2>5. CASE p \in DOMAIN processRenderState
    <3>1. map[p] = (RunningOf(renderers, p) \cup RunningOf(list, p)) \ In(list, Stopping)
      BY <2>3, <2>4, <2>5
    <3> QED
      BY <2>1, <2>2, <3>1
  <2>6. CASE p \notin DOMAIN processRenderState
    BY <2>1, <2>4, <2>6
  <2> QED
    BY <2>5, <2>6
(* A process whose last session stopped is in stopPids.                    *)
<1>7. \A p \in DOMAIN map : map[p] = {} => p \in ended /\ p \in DOMAIN processRenderState
  <2> SUFFICES ASSUME NEW p \in DOMAIN map, map[p] = {}
               PROVE  p \in ended /\ p \in DOMAIN processRenderState
    OBVIOUS
  <2>1. RunningOf(list, p) = {}
    BY <1>6
  <2>2. p \in DOMAIN processRenderState
    BY <1>3, <2>1 DEF RunningOf, In
  <2>3. PICK x : x \in RunningOf(renderers, p)
    BY <2>2 DEF AudioInv, RenderInv
  <2>4. x = s /\ state \in Stopping /\ PidOf[s] = p
    <3>1. x = s
      BY <1>2, <2>1, <2>3 DEF RunningOf
    <3>2. state # "RUNNING" /\ PidOf[s] = p /\ s \in DOMAIN renderers
      BY <1>2, <2>1, <2>3, <3>1 DEF RunningOf
    <3> QED
      BY <1>1, <3>1, <3>2 DEF RendererStates, Stopping
  <2>5. p \in stopPids
    BY <1>2, <2>4 DEF In
  <2> QED
    BY <1>4, <2>2, <2>5
<1>8. \A p : p \in DOMAIN processRenderState' <=> p \in DOMAIN map /\ map[p] # {}
  BY <1>1, <1>4, <1>7
<1>9. \A p \in DOMAIN processRenderState' : processRenderState'[p] = map[p]
  BY <1>1
<1>10. \A p \in DOMAIN processRenderState' :
         processRenderState'[p] # {} /\ processRenderState'[p] = RunningOf(renderers', p)
  BY <1>5, <1>6, <1>8, <1>9
<1>11. \A p \in AudioPids : RunningOf(renderers', p) # {} => p \in DOMAIN processRenderState'
  <2> SUFFICES ASSUME NEW p \in AudioPids, RunningOf(list, p) # {}
               PROVE  p \in DOMAIN map /\ map[p] # {}
    BY <1>5, <1>8
  <2>1. p \in DOMAIN map
    BY <1>3 DEF RunningOf, In
  <2> QED
    BY <1>6, <2>1
<1>12. \A p \in AudioPids \ lostPids' :
         innerAudio'[p] = "AUDIO_STATE_RUNNING" <=> p \in DOMAIN processRenderState'
  <2> TAKE p \in AudioPids \ lostPids'
  <2>1. innerAudio[p] = "AUDIO_STATE_RUNNING" <=> p \in DOMAIN processRenderState
    BY <1>1 DEF AudioInv, RenderInv
  <2>2. CASE p \in ended
    BY <1>1, <1>4, <1>8, <2>2
  <2>3. CASE p \notin ended /\ p \in started
    BY <1>1, <1>4, <1>8, <2>3
  <2>4. CASE p \notin ended /\ p \notin started
    <3>1. innerAudio'[p] = innerAudio[p]
      BY <1>1, <2>4
    <3>2. p \in DOMAIN processRenderState' <=> p \in DOMAIN processRenderState
      BY <1>3, <1>4, <1>7, <1>8, <2>4
    <3> QED
      BY <2>1, <3>1, <3>2
  <2> QED
    BY <2>2, <2>3, <2>4
<1> QED
  BY <1>10, <1>11, <1>12 DEF RenderInv

(* A change of one capturer session keeps CaptureInv.                      *)
LEMMA CaptureStep ==
  ASSUME AudioInv, NEW s \in Sessions, NEW state \in CapturerStates, CapturerChanges(s, state)
  PROVE  CaptureInv'
<1> DEFINE list == Change(capturers, s, state)
           begun == ProcessCapturerBegin(capturerState, list)
           map == ProcessCapturerEnd(begun, list)
           ending == In(list, {"STOPPED", "RELEASED"})
<1>1. /\ capturerState' = map /\ capturers' = Remaining(list)
      /\ capture' = [p \in AudioPids |->
                       IF p \in DOMAIN begun \ DOMAIN map THEN "AUDIO_CAPTURE_END"
                       ELSE IF p \in DOMAIN begun \ DOMAIN capturerState THEN "AUDIO_CAPTURE_BEGIN"
                       ELSE capture[p]]
      /\ s \in DOMAIN capturers <=> state # "PREPARED"
  <2>1. OnCapturerStateChange(list)
    BY DEF CapturerChanges
  <2>2. /\ capturers' = Remaining(list)
        /\ s \in DOMAIN capturers <=> state # "PREPARED"
    BY DEF CapturerChanges
  <2>3. capturerState' = map
    BY <2>1, Zenon DEF OnCapturerStateChange
  <2>4. capture' = [p \in AudioPids |->
                       IF p \in DOMAIN begun \ DOMAIN map THEN "AUDIO_CAPTURE_END"
                       ELSE IF p \in DOMAIN begun \ DOMAIN capturerState THEN "AUDIO_CAPTURE_BEGIN"
                       ELSE capture[p]]
    BY <2>1, Zenon DEF OnCapturerStateChange
  <2> QED
    BY <2>2, <2>3, <2>4
<1>2. /\ DOMAIN list = DOMAIN capturers \cup {s} /\ list[s] = state
      /\ \A x \in DOMAIN capturers \ {s} : list[x] = capturers[x]
  BY DEF Change, With
<1>3. /\ DOMAIN begun = DOMAIN capturerState \cup {PidOf[x] : x \in In(list, {"RUNNING"})}
      /\ \A p \in DOMAIN begun :
           begun[p] = (IF p \in DOMAIN capturerState THEN capturerState[p] ELSE {})
                        \cup RunningOf(list, p)
  BY DEF ProcessCapturerBegin, ProcessRunningSessionState, RunningOf, In
<1>4. \A p : RunningOf(capturers', p) = RunningOf(list, p) /\ BegunOf(capturers', p) = BegunOf(list, p)
  BY <1>1, RemainingTable
<1> HIDE DEF list, begun
<1>5. /\ DOMAIN map = {p \in DOMAIN begun : begun[p] \ ending # {}}
      /\ \A p \in DOMAIN map : map[p] = begun[p] \ ending
  BY DEF ProcessCapturerEnd
<1> HIDE DEF map
(* A session that began goes on in the list or is in it as an ended one.   *)
<1>6. \A p \in DOMAIN begun : RunningOf(list, p) \subseteq begun[p] \ ending
                              /\ begun[p] \ ending \subseteq BegunOf(list, p)
  <2> TAKE p \in DOMAIN begun
  <2>1. RunningOf(list, p) \cap ending = {} /\ RunningOf(list, p) \subseteq BegunOf(list, p)
    BY DEF RunningOf, BegunOf, In
  <2>2. ASSUME NEW x \in BegunOf(capturers, p) PROVE x \in BegunOf(list, p) \/ x \in ending
    <3>1. CASE x # s
      BY <1>2, <2>2, <3>1 DEF BegunOf
    <3>2. CASE x = s
      <4>1. state \in {"RUNNING", "PAUSED", "STOPPED", "RELEASED"} /\ PidOf[x] = p
        BY <1>1, <2>2, <3>2 DEF BegunOf, CapturerStates, RendererStates
      <4> QED
        BY <1>2, <3>2, <4>1 DEF BegunOf, In
    <3> QED
      BY <3>1, <3>2
  <2>3. p \in DOMAIN capturerState => capturerState[p] \subseteq BegunOf(capturers, p)
    BY DEF AudioInv, CaptureInv
  <2>4. begun[p] = (IF p \in DOMAIN capturerState THEN capturerState[p] ELSE {})
                     \cup RunningOf(list, p)
    BY <1>3
  <2> HIDE DEF ending
  <2> QED
    BY <2>1, <2>2, <2>3, <2>4
<1>7. \A p \in DOMAIN capturerState' :
        /\ capturerState'[p] # {} /\ RunningOf(capturers', p) \subseteq capturerState'[p]
        /\ capturerState'[p] \subseteq BegunOf(capturers', p)
  BY <1>1, <1>4, <1>5, <1>6
<1>8. \A p \in AudioPids : RunningOf(capturers', p) # {} => p \in DOMAIN capturerState'
  <2> SUFFICES ASSUME NEW p \in AudioPids, RunningOf(list, p) # {}
               PROVE  p \in DOMAIN map
    BY <1>1, <1>4
  <2>1. p \in DOMAIN begun
    BY <1>3 DEF RunningOf, In
  <2> QED
    BY <1>5, <1>6, <2>1
<1>9. \A p \in AudioPids : capture'[p] = "AUDIO_CAPTURE_BEGIN" <=> p \in DOMAIN capturerState'
  <2> TAKE p \in AudioPids
  <2>1. capture[p] = "AUDIO_CAPTURE_BEGIN" <=> p \in DOMAIN capturerState
    BY DEF AudioInv, CaptureInv
  <2>2. capture'[p] = IF p \in DOMAIN begun \ DOMAIN map THEN "AUDIO_CAPTURE_END"
                      ELSE IF p \in DOMAIN begun \ DOMAIN capturerState THEN "AUDIO_CAPTURE_BEGIN"
                      ELSE capture[p]
    BY <1>1
  <2>3. DOMAIN map \subseteq DOMAIN begun /\ DOMAIN capturerState \subseteq DOMAIN begun
    BY <1>3, <1>5
  <2> QED
    BY <1>1, <2>1, <2>2, <2>3
<1> QED
  BY <1>7, <1>8, <1>9 DEF CaptureInv

LEMMA AudioStep ==
  ASSUME AudioInv, [AudioNext]_audioVars
  PROVE  AudioInv'
<1>1. ASSUME NEW s \in Sessions, NEW state \in RendererStates, RendererChanges(s, state)
      PROVE  AudioInv'
  <2>1. RenderInv'
    BY <1>1, RenderStep
  <2>2. CaptureInv'
    BY <1>1 DEF RendererChanges, AudioInv, CaptureInv, RunningOf, BegunOf
  <2>3. DOMAIN renderers' \subseteq Sessions /\ DOMAIN capturers' \subseteq Sessions
    BY <1>1 DEF RendererChanges, AudioInv, Remaining, Change, With
  <2> QED
    BY <2>1, <2>2, <2>3 DEF AudioInv
<1>2. ASSUME NEW s \in Sessions, NEW state \in CapturerStates, CapturerChanges(s, state)
      PROVE  AudioInv'
  <2>1. CaptureInv'
    BY <1>2, CaptureStep
  <2>2. RenderInv'
    BY <1>2 DEF CapturerChanges, AudioInv, RenderInv, RunningOf
  <2>3. DOMAIN renderers' \subseteq Sessions /\ DOMAIN capturers' \subseteq Sessions
    BY <1>2 DEF CapturerChanges, AudioInv, Remaining, Change, With
  <2> QED
    BY <2>1, <2>2, <2>3 DEF AudioInv
<1>3. ASSUME NEW v \in Volumes, OnVolumeKeyEvent(v) PROVE AudioInv'
  BY <1>3 DEF OnVolumeKeyEvent, AudioInv, RenderInv, CaptureInv, RunningOf, BegunOf
<1>4. CASE OnPreferredOutputDeviceUpdated
  BY <1>4 DEF OnPreferredOutputDeviceUpdated, AudioInv, RenderInv, CaptureInv, RunningOf, BegunOf
<1>5. CASE AudioServiceRestarts
  <2>1. /\ renderers' = Empty /\ capturers' = Empty /\ processRenderState' = Empty
        /\ capturerState' = Empty /\ innerAudio' = innerAudio
        /\ lostPids' = lostPids \cup {p \in AudioPids : innerAudio[p] = "AUDIO_STATE_RUNNING"}
        /\ capture' = [p \in AudioPids |-> IF p \in DOMAIN capturerState
                                             THEN "AUDIO_CAPTURE_END" ELSE capture[p]]
    BY <1>5 DEF AudioServiceRestarts, ProcessCapturerEndCaseByUnregister
  <2>2. DOMAIN Empty = {}
    BY DEF Empty
  <2>3. RenderInv'
    BY <2>1, <2>2 DEF RenderInv, RunningOf
  <2>4. CaptureInv'
    BY <2>1, <2>2 DEF AudioInv, CaptureInv, RunningOf
  <2> QED
    BY <2>1, <2>2, <2>3, <2>4 DEF AudioInv
<1>6. CASE UNCHANGED audioVars
  BY <1>6 DEF audioVars, AudioInv, RenderInv, CaptureInv, RunningOf, BegunOf
<1> QED
  BY <1>1, <1>2, <1>3, <1>4, <1>5, <1>6 DEF AudioNext

LEMMA AudioStart == AudioInit => AudioInv
<1> SUFFICES ASSUME AudioInit PROVE AudioInv
  OBVIOUS
<1>1. DOMAIN Empty = {}
  BY DEF Empty
<1> QED
  BY <1>1 DEF AudioInit, AudioInv, RenderInv, CaptureInv, RunningOf, NoState

(* AudioReportsRight in every behaviour of AudioSpec: whatever             *)
(* OnRendererStateChange and OnCapturerStateChange reported last of a      *)
(* process is so, for any number of sessions of a process, any order of    *)
(* their changes and any death of the audio service; but for the playing   *)
(* of a process that played when the observer was given up: its stop is    *)
(* not reported (lostPids).                                                *)
THEOREM AudioReportsTrue == AudioSpec => []AudioReportsRight
<1>1. AudioInit => AudioInv
  BY AudioStart
<1>2. AudioInv /\ [AudioNext]_audioVars => AudioInv'
  BY AudioStep
<1>3. AudioInv => AudioReportsRight
  <2> SUFFICES ASSUME AudioInv, NEW p \in AudioPids
               PROVE  /\ p \notin lostPids =>
                           (innerAudio[p] = "AUDIO_STATE_RUNNING"
                              <=> \E s \in In(renderers, {"RUNNING"}) : PidOf[s] = p)
                      /\ (\E s \in In(capturers, {"RUNNING"}) : PidOf[s] = p)
                           => capture[p] = "AUDIO_CAPTURE_BEGIN"
                      /\ capture[p] = "AUDIO_CAPTURE_BEGIN"
                           => \E s \in In(capturers, {"PREPARED", "RUNNING", "PAUSED"}) : PidOf[s] = p
    BY DEF AudioReportsRight
  <2>1. p \notin lostPids => (innerAudio[p] = "AUDIO_STATE_RUNNING" <=> p \in DOMAIN processRenderState)
    BY DEF AudioInv, RenderInv
  <2>2. p \in DOMAIN processRenderState <=> RunningOf(renderers, p) # {}
    BY DEF AudioInv, RenderInv
  <2>3. RunningOf(renderers, p) # {} <=> \E s \in In(renderers, {"RUNNING"}) : PidOf[s] = p
    BY DEF RunningOf, In
  <2>4. (\E s \in In(capturers, {"RUNNING"}) : PidOf[s] = p) => RunningOf(capturers, p) # {}
    BY DEF RunningOf, In
  <2>5. RunningOf(capturers, p) # {} => p \in DOMAIN capturerState
    BY DEF AudioInv, CaptureInv
  <2>6. capture[p] = "AUDIO_CAPTURE_BEGIN" <=> p \in DOMAIN capturerState
    BY DEF AudioInv, CaptureInv
  <2>7. p \in DOMAIN capturerState => BegunOf(capturers, p) # {}
    BY DEF AudioInv, CaptureInv
  <2>8. BegunOf(capturers, p) # {}
          => \E s \in In(capturers, {"PREPARED", "RUNNING", "PAUSED"}) : PidOf[s] = p
    BY DEF BegunOf, In
  <2> QED
    BY <2>1, <2>2, <2>3, <2>4, <2>5, <2>6, <2>7, <2>8
<1> QED
  BY <1>1, <1>2, <1>3, PTL DEF AudioSpec

-----------------------------------------------------------------------------
(* CommonEvents.  Why a subscription is known unless notices crossed: the  *)
(* last notice on its way says whether the service is up, a service that   *)
(* is down serves nobody, and as long as the last notice is that it came   *)
(* up, there is no subscription yet.                                       *)
LastIn(s) == s[Len(s)]
NoticesInv ==
  /\ ceState \in {"new", "on", "stopping", "off"} /\ cesNotices \in Seq({"add", "remove"})
  /\ ~cesUp => liveSubs = {}
  /\ ceState = "new" => cesNotices = <<>> /\ liveSubs = {}
  /\ ceState = "on" /\ cesNotices # <<>> => (LastIn(cesNotices) = "add" <=> cesUp)
KnownInv ==
  ~crossed =>
    /\ liveSubs \subseteq {subscriber}
    /\ ceState # "on" => liveSubs = {}
    /\ cesNotices # <<>> /\ LastIn(cesNotices) = "add" => liveSubs = {}
    /\ ceState = "on" /\ cesNotices = <<>> /\ cesUp => subFailed \/ subscriber \in liveSubs

(* Why the last event is heard: what is last on its way to the subscriber  *)
(* the listener knows is the last event published, unless that was missed. *)
SubsInv ==
  /\ subCount \in 0..MaxSubs /\ subscriber \in 0..subCount /\ liveSubs \subseteq 1..subCount
  /\ inbox \in [1..MaxSubs -> Seq(AllReports)]
  /\ \A s \in 1..MaxSubs : s > subCount => inbox[s] = <<>>
HearInv ==
  /\ subscriber # 0 /\ inbox[subscriber] # <<>>
       => /\ liveSubs = {} \/ subscriber \in liveSubs
          /\ LastIn(inbox[subscriber]) = published \/ eventMissed
  /\ LastEventHeard
CommonEventsInv == NoticesInv /\ KnownInv /\ SubsInv /\ HearInv

LEMMA LastFacts ==
  ASSUME NEW S, NEW q \in Seq(S)
  PROVE  /\ \A e \in S : /\ Append(q, e) \in Seq(S) /\ Append(q, e) # <<>>
                         /\ LastIn(Append(q, e)) = e
         /\ q # <<>> => /\ Tail(q) \in Seq(S)
                        /\ Len(q) = 1 => Head(q) = LastIn(q)
                        /\ Tail(q) = <<>> => Head(q) = LastIn(q)
                        /\ Tail(q) # <<>> => Len(q) > 1 /\ LastIn(Tail(q)) = LastIn(q)
<1>1. ASSUME NEW e \in S
      PROVE  Append(q, e) \in Seq(S) /\ Append(q, e) # <<>> /\ LastIn(Append(q, e)) = e
  <2>1. Append(q, e) \in Seq(S) /\ Len(Append(q, e)) = Len(q) + 1
    OBVIOUS
  <2>2. Append(q, e)[Len(q) + 1] = e
    OBVIOUS
  <2> QED
    BY <2>1, <2>2 DEF LastIn
<1>2. ASSUME q # <<>>
      PROVE  /\ Tail(q) \in Seq(S)
             /\ Len(q) = 1 => Head(q) = LastIn(q)
             /\ Tail(q) = <<>> => Head(q) = LastIn(q)
             /\ Tail(q) # <<>> => Len(q) > 1 /\ LastIn(Tail(q)) = LastIn(q)
  <2>1. Tail(q) \in Seq(S) /\ Len(Tail(q)) = Len(q) - 1 /\ Len(q) \in Nat \ {0} /\ Head(q) = q[1]
    BY <1>2
  <2>2. Tail(q) = <<>> <=> Len(Tail(q)) = 0
    BY <2>1, EmptySeq
  <2>3. \A i \in 1..Len(Tail(q)) : Tail(q)[i] = q[i + 1]
    BY <1>2
  <2>4. Len(q) = 1 => Head(q) = LastIn(q)
    BY <2>1 DEF LastIn
  <2>5. Tail(q) = <<>> => Len(q) = 1
    BY <2>1, <2>2
  <2>6. ASSUME Tail(q) # <<>> PROVE Len(q) > 1 /\ LastIn(Tail(q)) = LastIn(q)
    <3>1. Len(q) > 1 /\ Len(Tail(q)) \in 1..Len(Tail(q))
      BY <2>1, <2>2, <2>6
    <3>2. Tail(q)[Len(Tail(q))] = q[Len(Tail(q)) + 1]
      BY <2>3, <3>1
    <3> QED
      BY <2>1, <3>1, <3>2 DEF LastIn
  <2> QED
    BY <2>1, <2>4, <2>5, <2>6
<1> QED
  BY <1>1, <1>2

(* What a notice handled without crossing says of the rest.                *)
LEMMA NotCrossed ==
  ASSUME NoticesInv, cesNotices # <<>>, crossed' = (crossed \/ Crossing), ~crossed'
  PROVE  /\ ~crossed /\ ceState = "on" /\ Len(cesNotices) = 1
         /\ Tail(cesNotices) = <<>> /\ Head(cesNotices) = LastIn(cesNotices)
<1>1. ~crossed /\ ~Crossing
  BY Zenon
<1>2. cesNotices \in Seq({"add", "remove"}) /\ ceState \in {"on", "stopping", "off"}
  BY DEF NoticesInv
<1>3. Len(cesNotices) = 1 /\ ceState = "on"
  BY <1>1, <1>2 DEF Crossing
<1>4. /\ Len(cesNotices) = 1 => Head(cesNotices) = LastIn(cesNotices)
      /\ Tail(cesNotices) # <<>> => Len(cesNotices) > 1
  BY <1>2, LastFacts
<1> QED
  BY <1>1, <1>3, <1>4

LEMMA NoticesStep ==
  ASSUME NoticesInv, KnownInv, SubsInv, [CommonEventsNext]_commonEventVars
  PROVE  NoticesInv' /\ KnownInv'
<1> USE DEF cesVars, reportVars, subVars
<1>0. cesNotices \in Seq({"add", "remove"}) /\ ceState \in {"new", "on", "stopping", "off"}
  BY DEF NoticesInv
<1>1. ASSUME NEW subscribes \in BOOLEAN, ControllerInit(subscribes) PROVE NoticesInv' /\ KnownInv'
  <2>1. /\ ceState = "new" /\ liveSubs = {} /\ liveSubs' = {} /\ cesUp' = cesUp
        /\ ceState' \in {"on", "off"}
    BY <1>1 DEF ControllerInit, NoticesInv
  <2>2. \/ cesNotices' = <<"add">> /\ cesUp
        \/ cesNotices' = <<>> /\ (ceState' = "off" \/ ~cesUp)
    BY <1>1 DEF ControllerInit
  <2>3. <<"add">> \in Seq({"add", "remove"}) /\ <<"add">> # <<>> /\ LastIn(<<"add">>) = "add"
    BY DEF LastIn
  <2>4. <<>> \in Seq({"add", "remove"})
    OBVIOUS
  <2>5. NoticesInv'
    BY <2>1, <2>2, <2>3, <2>4, Zenon DEF NoticesInv, LastIn
  <2>6. KnownInv'
    BY <2>1, <2>2, <2>3, Zenon DEF KnownInv
  <2> QED
    BY <2>5, <2>6
<1>2. CASE ListenerStop
  <2>1. /\ ceState = "on" /\ ceState' = "stopping" /\ liveSubs' = liveSubs \ {subscriber}
        /\ cesNotices' = cesNotices
    BY <1>2 DEF ListenerStop
  <2>2. cesUp' = cesUp /\ crossed' = crossed
    BY <1>2, Zenon DEF ListenerStop
  <2>3. ~crossed => liveSubs' = {}
    BY <2>1 DEF KnownInv
  <2>4. NoticesInv'
    BY <1>0, <2>1, <2>2 DEF NoticesInv
  <2>5. KnownInv'
    BY <2>1, <2>2, <2>3 DEF KnownInv
  <2> QED
    BY <2>4, <2>5
<1>3. CASE ControllerStop
  <2>1. /\ ceState = "stopping" /\ ceState' = "off" /\ liveSubs' = liveSubs
        /\ cesNotices' = cesNotices /\ subscriber' = subscriber
    BY <1>3 DEF ControllerStop
  <2>2. cesUp' = cesUp /\ crossed' = crossed
    BY <1>3, Zenon DEF ControllerStop
  <2>3. NoticesInv'
    BY <1>0, <2>1, <2>2 DEF NoticesInv
  <2>4. KnownInv'
    BY <2>1, <2>2 DEF KnownInv
  <2> QED
    BY <2>3, <2>4
<1>4. ASSUME NEW accepted \in BOOLEAN, OnCesAdded(accepted) PROVE NoticesInv' /\ KnownInv'
  <2>1. /\ cesNotices # <<>> /\ Head(cesNotices) = "add" /\ cesNotices' = Tail(cesNotices)
        /\ subCount' = subCount + 1 /\ subscriber' = subCount' /\ ceState' = ceState
    BY <1>4 DEF OnCesAdded
  <2>2. /\ accepted => cesUp
        /\ liveSubs' = IF accepted THEN liveSubs \cup {subCount'} ELSE liveSubs
        /\ subFailed' = ~accepted /\ crossed' = (crossed \/ Crossing) /\ cesUp' = cesUp
    BY <1>4, Zenon DEF OnCesAdded
  <2>3. /\ cesNotices' \in Seq({"add", "remove"})
        /\ cesNotices' # <<>> => LastIn(cesNotices') = LastIn(cesNotices)
    BY <1>0, <2>1, LastFacts
  <2>4. ceState # "new" /\ (~cesUp' => liveSubs' = {})
    BY <2>1, <2>2, Zenon DEF NoticesInv
  <2>5. NoticesInv'
    BY <1>0, <2>1, <2>2, <2>3, <2>4, Zenon DEF NoticesInv
  <2>6. ASSUME ~crossed' PROVE liveSubs = {} /\ cesNotices' = <<>> /\ ceState' = "on"
    BY <2>1, <2>2, <2>6, NotCrossed DEF KnownInv
  <2>7. KnownInv'
    BY <2>1, <2>2, <2>6, Zenon DEF KnownInv
  <2> QED
    BY <2>5, <2>7
<1>5. CASE OnCesRemoved
  <2>1. /\ cesNotices # <<>> /\ Head(cesNotices) = "remove" /\ cesNotices' = Tail(cesNotices)
        /\ ceState' = ceState /\ liveSubs' = liveSubs
    BY <1>5 DEF OnCesRemoved
  <2>2. crossed' = (crossed \/ Crossing) /\ cesUp' = cesUp
    BY <1>5, Zenon DEF OnCesRemoved
  <2>3. /\ cesNotices' \in Seq({"add", "remove"})
        /\ cesNotices' # <<>> => LastIn(cesNotices') = LastIn(cesNotices)
    BY <1>0, <2>1, LastFacts
  <2>4. NoticesInv'
    BY <1>0, <2>1, <2>2, <2>3, Zenon DEF NoticesInv
  <2>5. ASSUME ~crossed' PROVE ~cesUp' /\ liveSubs' = {} /\ cesNotices' = <<>>
    <3>1. ceState = "on" /\ LastIn(cesNotices) = "remove" /\ cesNotices' = <<>>
      BY <2>1, <2>2, <2>5, NotCrossed
    <3>2. LastIn(cesNotices) # "add"
      BY <3>1
    <3> QED
      BY <2>1, <2>2, <3>1, <3>2, Zenon DEF NoticesInv
  <2>6. KnownInv'
    BY <2>5, Zenon DEF KnownInv
  <2> QED
    BY <2>4, <2>6
<1>6. CASE \/ \E s \in 1..MaxSubs : OnReceiveCommonEvent(s)
           \/ \E e \in EventsOf(watched) : EventPublished(e)
           \/ UNCHANGED commonEventVars
  <2>1. /\ ceState' = ceState /\ cesNotices' = cesNotices /\ liveSubs' = liveSubs
        /\ subscriber' = subscriber /\ cesUp' = cesUp /\ crossed' = crossed
        /\ subFailed' = subFailed
    BY <1>6, Zenon DEF OnReceiveCommonEvent, EventPublished, commonEventVars
  <2> QED
    BY <2>1, Zenon DEF NoticesInv, KnownInv
<1>7. CASE CesDies
  <2>1. /\ liveSubs' = {} /\ ceState' = ceState
        /\ cesNotices' = IF ceState \in {"on", "stopping"} THEN Append(cesNotices, "remove") ELSE cesNotices
    BY <1>7 DEF CesDies, Notify
  <2>2. ~cesUp' /\ crossed' = crossed
    BY <1>7, Zenon DEF CesDies
  <2>3. /\ Append(cesNotices, "remove") \in Seq({"add", "remove"})
        /\ LastIn(Append(cesNotices, "remove")) = "remove"
    BY <1>0, LastFacts
  <2>4. /\ cesNotices' \in Seq({"add", "remove"})
        /\ ceState' = "on" => LastIn(cesNotices') # "add"
        /\ ceState' = "new" => cesNotices' = cesNotices
    BY <1>0, <2>1, <2>3
  <2>5. NoticesInv'
    BY <1>0, <2>1, <2>2, <2>4, Zenon DEF NoticesInv
  <2>6. KnownInv'
    BY <2>1, <2>2, Zenon DEF KnownInv
  <2> QED
    BY <2>5, <2>6
<1>8. CASE CesComesUp
  <2>1. /\ liveSubs' = liveSubs /\ ceState' = ceState
        /\ cesNotices' = IF ceState \in {"on", "stopping"} THEN Append(cesNotices, "add") ELSE cesNotices
    BY <1>8 DEF CesComesUp, Notify
  <2>2. ~cesUp /\ cesUp' = TRUE
    BY <1>8, Zenon DEF CesComesUp
  <2>3. /\ Append(cesNotices, "add") \in Seq({"add", "remove"}) /\ Append(cesNotices, "add") # <<>>
        /\ LastIn(Append(cesNotices, "add")) = "add"
    BY <1>0, LastFacts
  <2>4. /\ cesNotices' \in Seq({"add", "remove"})
        /\ ceState' = "on" => LastIn(cesNotices') = "add" /\ cesNotices' # <<>>
        /\ ceState' = "new" => cesNotices' = cesNotices
    BY <1>0, <2>1, <2>3
  <2>5. liveSubs' = {}
    BY <2>1, <2>2, Zenon DEF NoticesInv
  <2>6. NoticesInv'
    BY <1>0, <2>1, <2>2, <2>4, <2>5, Zenon DEF NoticesInv
  <2>7. KnownInv'
    BY <2>4, <2>5, Zenon DEF KnownInv
  <2> QED
    BY <2>6, <2>7
<1> QED
  BY <1>1, <1>2, <1>3, <1>4, <1>5, <1>6, <1>7, <1>8 DEF CommonEventsNext

LEMMA HearStep ==
  ASSUME NoticesInv, SubsInv, HearInv, [CommonEventsNext]_commonEventVars
  PROVE  SubsInv' /\ HearInv'
<1> USE DEF cesVars, reportVars, subVars
<1>0. /\ MaxSubs \in Nat /\ subCount \in 0..MaxSubs /\ subscriber \in 0..subCount
      /\ liveSubs \subseteq 1..subCount /\ inbox \in [1..MaxSubs -> Seq(AllReports)]
      /\ \A s \in 1..MaxSubs : s > subCount => inbox[s] = <<>>
  BY CommonEventsAssumption DEF SubsInv
(* Steps that leave the events alone and at most drop subscriptions.       *)
<1>1. ASSUME inbox' = inbox, published' = published, eventHeard' = eventHeard,
             eventMissed' = eventMissed, eventLate' = eventLate, subCount' = subCount,
             \/ subscriber' = subscriber /\ liveSubs' = liveSubs
             \/ subscriber' = 0 /\ liveSubs' \subseteq liveSubs
             \/ subscriber' = subscriber /\ liveSubs' = {}
      PROVE  SubsInv' /\ HearInv'
  <2>1. SubsInv'
    <3>1. subscriber' \in 0..subCount /\ liveSubs' \subseteq 1..subCount
      <4>1. subscriber' \in {subscriber, 0} /\ liveSubs' \subseteq liveSubs
        BY <1>1, Zenon
      <4>2. 0 \in 0..subCount
        BY <1>0
      <4> QED
        BY <1>0, <4>1, <4>2, Zenon
    <3>2. \A s \in 1..MaxSubs : s > subCount' => inbox'[s] = <<>>
      BY <1>0, <1>1
    <3> QED
      BY <1>0, <1>1, <3>1, <3>2, Zenon DEF SubsInv
  <2>2. LastEventHeard'
    BY <1>1, Zenon DEF HearInv, LastEventHeard
  <2>3. HearInv'
    BY <1>1, <2>2, Zenon DEF HearInv
  <2> QED
    BY <2>1, <2>3
<1>2. CASE \/ \E subscribes \in BOOLEAN : ControllerInit(subscribes)
           \/ ListenerStop \/ ControllerStop \/ OnCesRemoved \/ CesDies \/ CesComesUp
           \/ UNCHANGED commonEventVars
  <2>1. /\ inbox' = inbox /\ published' = published /\ eventHeard' = eventHeard
        /\ eventMissed' = eventMissed /\ eventLate' = eventLate /\ subCount' = subCount
    BY <1>2, Zenon DEF ControllerInit, ListenerStop, ControllerStop, OnCesRemoved, CesDies,
       CesComesUp, commonEventVars
  <2>2. \/ subscriber' = subscriber /\ liveSubs' = liveSubs
        \/ subscriber' = 0 /\ liveSubs' \subseteq liveSubs
        \/ subscriber' = subscriber /\ liveSubs' = {}
    BY <1>2 DEF ControllerInit, ListenerStop, ControllerStop, OnCesRemoved, CesDies,
       CesComesUp, commonEventVars
  <2> QED
    BY <1>1, <2>1, <2>2
(* A new subscriber has heard nothing.                                     *)
<1>3. ASSUME NEW accepted \in BOOLEAN, OnCesAdded(accepted) PROVE SubsInv' /\ HearInv'
  <2>1. /\ subCount < MaxSubs /\ subCount' = subCount + 1 /\ subscriber' = subCount'
        /\ liveSubs' \subseteq liveSubs \cup {subCount'} /\ inbox' = inbox
    BY <1>3 DEF OnCesAdded
  <2>2. /\ published' = published /\ eventHeard' = eventHeard
        /\ eventMissed' = eventMissed /\ eventLate' = eventLate
    BY <1>3, Zenon DEF OnCesAdded
  <2>3. SubsInv'
    BY <1>0, <2>1 DEF SubsInv
  <2>4. LastEventHeard'
    BY <2>1, <2>2, Zenon DEF HearInv, LastEventHeard
  <2>5. inbox'[subscriber'] = <<>>
    BY <1>0, <2>1
  <2>6. HearInv'
    BY <2>4, <2>5, Zenon DEF HearInv
  <2> QED
    BY <2>3, <2>6
<1>4. ASSUME NEW s \in 1..MaxSubs, OnReceiveCommonEvent(s) PROVE SubsInv' /\ HearInv'
  <2>1. /\ inbox[s] # <<>> /\ eventHeard' = Head(inbox[s])
        /\ inbox' = [inbox EXCEPT ![s] = Tail(inbox[s])]
        /\ subCount' = subCount /\ subscriber' = subscriber /\ liveSubs' = liveSubs
        /\ published' = published
    BY <1>4 DEF OnReceiveCommonEvent
  <2>2. eventLate' = (s # subscriber) /\ eventMissed' = eventMissed
    BY <1>4, Zenon DEF OnReceiveCommonEvent
  <2>3. /\ inbox[s] \in Seq(AllReports) /\ Tail(inbox[s]) \in Seq(AllReports)
        /\ Tail(inbox[s]) = <<>> => Head(inbox[s]) = LastIn(inbox[s])
        /\ Tail(inbox[s]) # <<>> => LastIn(Tail(inbox[s])) = LastIn(inbox[s])
    BY <1>0, <2>1, LastFacts
  <2>4. /\ inbox' \in [1..MaxSubs -> Seq(AllReports)] /\ inbox'[s] = Tail(inbox[s])
        /\ \A x \in 1..MaxSubs \ {s} : inbox'[x] = inbox[x]
    BY <1>0, <2>1, <2>3
  <2>5. SubsInv'
    BY <1>0, <2>1, <2>4 DEF SubsInv
  <2>6. subscriber # 0 => subscriber \in 1..MaxSubs
    BY <1>0
  <2>7. subscriber' # 0 /\ inbox'[subscriber'] # <<>>
          => /\ liveSubs' = {} \/ subscriber' \in liveSubs'
             /\ LastIn(inbox'[subscriber']) = published' \/ eventMissed'
    <3> SUFFICES ASSUME subscriber # 0, inbox'[subscriber] # <<>>
                 PROVE  /\ liveSubs = {} \/ subscriber \in liveSubs
                        /\ LastIn(inbox'[subscriber]) = published \/ eventMissed
      BY <2>1, <2>2, Zenon
    <3>1. inbox[subscriber] # <<>> /\ LastIn(inbox'[subscriber]) = LastIn(inbox[subscriber])
      BY <2>1, <2>3, <2>4, <2>6
    <3> QED
      BY <3>1, Zenon DEF HearInv
  <2>8. LastEventHeard'
    <3> SUFFICES ASSUME \A x \in DOMAIN inbox' : inbox'[x] = <<>>
                 PROVE  eventHeard' = published' \/ eventMissed' \/ eventLate'
      BY DEF LastEventHeard
    <3>1. Tail(inbox[s]) = <<>>
      BY <2>4
    <3>2. CASE s # subscriber
      BY <2>2, <3>2, Zenon
    <3>3. CASE s = subscriber
      <4>1. eventHeard' = LastIn(inbox[subscriber]) /\ subscriber # 0 /\ inbox[subscriber] # <<>>
        BY <2>1, <2>3, <3>1, <3>3
      <4> QED
        BY <2>1, <2>2, <4>1, Zenon DEF HearInv
    <3> QED
      BY <3>2, <3>3
  <2> QED
    BY <2>5, <2>7, <2>8 DEF HearInv
(* An event somebody serves is heard by every live subscription.           *)
<1>5. ASSUME NEW e \in EventsOf(watched), EventPublished(e) PROVE SubsInv' /\ HearInv'
  <2> DEFINE r == ReportOf(e.action)
  <2>1. /\ published' = r /\ subCount' = subCount /\ subscriber' = subscriber
        /\ liveSubs' = liveSubs
        /\ inbox' = [s \in DOMAIN inbox |->
                       IF cesUp /\ s \in liveSubs THEN Append(inbox[s], r) ELSE inbox[s]]
    BY <1>5 DEF EventPublished
  <2>2. eventMissed' = ~(cesUp /\ liveSubs # {})
    BY <1>5, Zenon DEF EventPublished
  <2>3. r \in AllReports
    BY DEF EventsOf, AllReports
  <2> HIDE DEF r
  <2>4. \A s \in 1..MaxSubs :
          /\ inbox[s] \in Seq(AllReports) /\ Append(inbox[s], r) \in Seq(AllReports)
          /\ Append(inbox[s], r) # <<>> /\ LastIn(Append(inbox[s], r)) = r
    BY <1>0, <2>3, LastFacts
  <2>5. DOMAIN inbox = 1..MaxSubs /\ liveSubs \subseteq 1..MaxSubs
    BY <1>0
  <2>6. inbox' \in [1..MaxSubs -> Seq(AllReports)]
    BY <2>1, <2>4, <2>5
  <2>7. SubsInv'
    BY <1>0, <2>1, <2>5, <2>6 DEF SubsInv
  <2>8. CASE cesUp /\ liveSubs # {}
    <3>1. PICK s \in liveSubs : TRUE
      BY <2>8
    <3>2. inbox'[s] = Append(inbox[s], r) /\ DOMAIN inbox' = DOMAIN inbox
      BY <2>1, <2>5, <2>8
    <3>3. LastEventHeard'
      BY <2>4, <2>5, <3>1, <3>2 DEF LastEventHeard
    <3>4. ASSUME subscriber # 0, inbox'[subscriber] # <<>>
          PROVE  subscriber \in liveSubs /\ LastIn(inbox'[subscriber]) = r
      <4>1. subscriber \in 1..MaxSubs
        BY <1>0, <3>4
      <4>2. subscriber \in liveSubs
        <5> SUFFICES ASSUME subscriber \notin liveSubs PROVE FALSE
          OBVIOUS
        <5>1. inbox[subscriber] # <<>>
          BY <2>1, <2>5, <3>4, <4>1
        <5> QED
          BY <2>8, <3>4, <5>1, Zenon DEF HearInv
      <4> QED
        BY <2>1, <2>4, <2>5, <2>8, <4>1, <4>2
    <3> QED
      BY <2>1, <2>7, <3>3, <3>4 DEF HearInv
  <2>9. CASE ~(cesUp /\ liveSubs # {})
    <3>1. eventMissed'
      BY <2>2, <2>9, Zenon
    <3>2. LastEventHeard'
      BY <3>1, Zenon DEF LastEventHeard
    <3>3. inbox' = inbox
      BY <1>0, <2>1, <2>5, <2>9
    <3>4. ASSUME subscriber # 0, inbox[subscriber] # <<>>
          PROVE  liveSubs = {} \/ subscriber \in liveSubs
      BY <3>4, Zenon DEF HearInv
    <3> QED
      BY <2>1, <2>7, <3>1, <3>2, <3>3, <3>4, Zenon DEF HearInv
  <2> QED
    BY <2>8, <2>9
<1> QED
  BY <1>2, <1>3, <1>4, <1>5 DEF CommonEventsNext

LEMMA CommonEventsStart == CommonEventsInit => CommonEventsInv
<1> SUFFICES ASSUME CommonEventsInit PROVE CommonEventsInv
  OBVIOUS
<1>1. /\ ceState = "new" /\ cesNotices = <<>> /\ liveSubs = {} /\ subCount = 0
      /\ subscriber = 0 /\ inbox = [s \in 1..MaxSubs |-> <<>>] /\ eventHeard = published
  BY DEF CommonEventsInit
<1>2. <<>> \in Seq({"add", "remove"}) /\ <<>> \in Seq(AllReports)
  OBVIOUS
<1>3. NoticesInv /\ KnownInv
  BY <1>1, <1>2, Zenon DEF NoticesInv, KnownInv
<1>4. SubsInv
  BY <1>1, <1>2, CommonEventsAssumption DEF SubsInv
<1>5. HearInv
  BY <1>1, Zenon DEF HearInv, LastEventHeard
<1> QED
  BY <1>3, <1>4, <1>5 DEF CommonEventsInv

(* CommonEventsRight in every behaviour of CommonEventsSpec: the event     *)
(* controller's subscription is the one it knows and Stop ends it, unless  *)
(* OnAddSystemAbility or OnRemoveSystemAbility handled a notice that was   *)
(* overtaken; and the last common event is reported.  For any number of    *)
(* restarts of the common event service and any events on their way.       *)
THEOREM CommonEventsKeptRight == CommonEventsSpec => []CommonEventsRight
<1>1. CommonEventsInit => CommonEventsInv
  BY CommonEventsStart
<1>2. CommonEventsInv /\ [CommonEventsNext]_commonEventVars => CommonEventsInv'
  BY NoticesStep, HearStep DEF CommonEventsInv
<1>3. CommonEventsInv => CommonEventsRight
  BY Zenon DEF CommonEventsInv, KnownInv, HearInv, CommonEventsRight, SubscriptionKnown
<1> QED
  BY <1>1, <1>2, <1>3, PTL DEF CommonEventsSpec

-----------------------------------------------------------------------------
(* SuspendObservers.  The list is ahead of the recipients only in the      *)
(* middle of a registration; a registration of a living client is not      *)
(* undone; and once a death is handled nothing of the observer is left,    *)
(* unless a call overlapped it.                                            *)
SuspendState(o) ==
  /\ o \notin overlapped =>
       /\ o \in suspendObservers /\ suspendCall[o] \notin {"add", "rollback"}
            => o \in recipientMap
       /\ observerLife[o] \in {"removing", "handled"}
            => suspendCall[o] = "none" /\ o \notin suspendObservers
  /\ suspendCall[o] = "remove" => o \notin suspendObservers
  /\ observerLife[o] = "alive" =>
       /\ suspendCall[o] # "rollback"
       /\ suspendCall[o] = "add" => o \in suspendObservers
       /\ o \notin unserved /\ suspendCall[o] \in {"none", "register", "unregister"}
            => (o \in suspendObservers <=> returned[o] = "register")
SuspendInv == SuspendTypeOK /\ \A o \in SuspendClients : SuspendState(o)

LEMMA SuspendStart == SuspendInit => SuspendInv
  BY SuspendAssumption DEF SuspendInit, SuspendInv, SuspendTypeOK, SuspendState, CallSteps

(* A step about one observer: its state is the only one that changes.      *)
SuspendStepOf(o) ==
  \/ \E op \in {"register", "unregister"}, permitted \in BOOLEAN : SuspendObserverCall(o, op, permitted)
  \/ ResetClient(o) \/ RegisterSuspendObserverInner(o) \/ AddObserverDeathRecipient(o)
  \/ RegisterSuspendObserver(o) \/ UnregisterSuspendObserverInner(o)
  \/ RemoveObserverDeathRecipient(o) \/ OnObserverDied(o) \/ SuspendClientDies(o)

LEMMA SuspendStepType ==
  ASSUME SuspendTypeOK, NEW o \in SuspendClients, SuspendStepOf(o)
  PROVE  /\ SuspendTypeOK'
         /\ \A p \in SuspendClients \ {o} :
              /\ suspendCall'[p] = suspendCall[p] /\ observerLife'[p] = observerLife[p]
              /\ returned'[p] = returned[p]
              /\ p \in suspendObservers' <=> p \in suspendObservers
              /\ p \in recipientMap' <=> p \in recipientMap
              /\ p \in unserved' <=> p \in unserved
              /\ p \in overlapped' <=> p \in overlapped
<1> USE DEF SuspendTypeOK, CallSteps, NextSuspendStep, Succeeds, Overlaps, unchangedByCalls
<1>1. CASE \E op \in {"register", "unregister"}, permitted \in BOOLEAN :
             SuspendObserverCall(o, op, permitted)
  BY <1>1 DEF SuspendObserverCall, GetSuspendManagerProxy
<1>2. CASE ResetClient(o)
  BY <1>2 DEF ResetClient
<1>3. CASE RegisterSuspendObserverInner(o)
  BY <1>3 DEF RegisterSuspendObserverInner
<1>4. CASE AddObserverDeathRecipient(o)
  BY <1>4 DEF AddObserverDeathRecipient
<1>5. CASE RegisterSuspendObserver(o)
  BY <1>5 DEF RegisterSuspendObserver
<1>6. CASE UnregisterSuspendObserverInner(o)
  BY <1>6 DEF UnregisterSuspendObserverInner
<1>7. CASE RemoveObserverDeathRecipient(o)
  BY <1>7 DEF RemoveObserverDeathRecipient
<1>8. CASE OnObserverDied(o)
  BY <1>8 DEF OnObserverDied
<1>9. CASE SuspendClientDies(o)
  BY <1>9 DEF SuspendClientDies
<1> QED
  BY <1>1, <1>2, <1>3, <1>4, <1>5, <1>6, <1>7, <1>8, <1>9 DEF SuspendStepOf

LEMMA SuspendStepState ==
  ASSUME SuspendInv, NEW o \in SuspendClients, SuspendStepOf(o)
  PROVE  SuspendState(o)'
<1> USE DEF SuspendInv, SuspendTypeOK, SuspendState, CallSteps, NextSuspendStep, Succeeds,
            Overlaps,
            unchangedByCalls
<1>1. CASE \E op \in {"register", "unregister"}, permitted \in BOOLEAN :
             SuspendObserverCall(o, op, permitted)
  BY <1>1 DEF SuspendObserverCall
<1>2. CASE ResetClient(o)
  BY <1>2 DEF ResetClient
<1>3. CASE RegisterSuspendObserverInner(o)
  BY <1>3 DEF RegisterSuspendObserverInner
<1>4. CASE AddObserverDeathRecipient(o)
  BY <1>4 DEF AddObserverDeathRecipient, AddDeathRecipient
<1>5. CASE RegisterSuspendObserver(o)
  BY <1>5 DEF RegisterSuspendObserver
<1>6. CASE UnregisterSuspendObserverInner(o)
  BY <1>6 DEF UnregisterSuspendObserverInner
<1>7. CASE RemoveObserverDeathRecipient(o)
  BY <1>7 DEF RemoveObserverDeathRecipient
<1>8. CASE OnObserverDied(o)
  BY <1>8 DEF OnObserverDied
<1>9. CASE SuspendClientDies(o)
  BY <1>9 DEF SuspendClientDies
<1> QED
  BY <1>1, <1>2, <1>3, <1>4, <1>5, <1>6, <1>7, <1>8, <1>9 DEF SuspendStepOf

LEMMA SuspendStep ==
  ASSUME SuspendInv, [SuspendNext]_suspendVars
  PROVE  SuspendInv'
<1>1. CASE UNCHANGED suspendVars
  BY <1>1 DEF SuspendInv, SuspendTypeOK, SuspendState, suspendVars
<1>2. ASSUME NEW o \in SuspendClients, SuspendStepOf(o) PROVE SuspendInv'
  <2>1. SuspendState(o)'
    BY <1>2, SuspendStepState
  <2>2. ASSUME NEW p \in SuspendClients \ {o} PROVE SuspendState(p)'
    BY <1>2, SuspendStepType DEF SuspendInv, SuspendState
  <2> QED
    BY <1>2, <2>1, <2>2, SuspendStepType DEF SuspendInv
<1>3. CASE SuspendServiceDies
  <2>1. SuspendTypeOK'
    BY <1>3, SuspendAssumption DEF SuspendServiceDies, SuspendInv, SuspendTypeOK, CallSteps
  <2>2. ASSUME NEW p \in SuspendClients PROVE SuspendState(p)'
    BY <1>3 DEF SuspendServiceDies, SuspendInv, SuspendTypeOK, SuspendState
  <2> QED
    BY <2>1, <2>2 DEF SuspendInv
<1> QED
  BY <1>1, <1>2, <1>3 DEF SuspendNext, SuspendStepOf

LEMMA SuspendGives == SuspendInv => SuspendObserversRight
  BY DEF SuspendInv, SuspendTypeOK, SuspendState, SuspendObserversRight, CallsDone, NoticesDone

-----------------------------------------------------------------------------
(* DeviceObservers.  The callbacks on their way end with the present       *)
(* state; what an observer remembers is what it told, except for the       *)
(* window mode while silent; and only a few topics are read.                *)
DeviceBits == [split : {0, 1}, floating : {0, 1}]
DeviceData ==
  /\ topic \in DeviceTopics /\ truth \in StatesOf(topic)
  /\ callbacksSent \in Seq(StatesOf(topic))
  /\ setUp \in [at : {"before", "listening", "read", "done"}, read : StatesOf(topic)]
  /\ topic = "window" => last \in DeviceBits /\ told \in DeviceBits
DeviceCalls ==
  /\ callbacksSent # <<>> => setUp.at # "before" /\ LastIn(callbacksSent) = truth
  /\ topic \notin ReadTopics => setUp.at \in {"before", "done"}
DeviceMemory ==
  /\ topic \in {"fold", "orientation"} => told = last
  /\ topic = "window" => told = last \/ (silent /\ setUp.at # "before")
DeviceInv == DeviceData /\ DeviceCalls /\ DeviceMemory /\ DeviceStateTold

LEMMA WindowBits == \A mode : MarshallingWindowModeType(mode) \in DeviceBits
  BY DEF MarshallingWindowModeType, Bits, DeviceBits

LEMMA DeviceStart == DeviceInit => DeviceInv
<1> SUFFICES ASSUME DeviceInit PROVE DeviceInv
  OBVIOUS
<1>1. DeviceData
  BY DEF DeviceInit, DeviceData, UntoldOf, Bits, DeviceBits
<1>2. DeviceCalls /\ DeviceMemory /\ DeviceStateTold
  BY DEF DeviceInit, DeviceCalls, DeviceMemory, DeviceStateTold
<1> QED
  BY <1>1, <1>2 DEF DeviceInv

(* What the two observers that remember a mode make of one: it is told.    *)
LEMMA WindowTold ==
  ASSUME NEW mode, OnWindowModeUpdate(mode), last \in DeviceBits, told \in DeviceBits
  PROVE  /\ last' = MarshallingWindowModeType(mode)
         /\ last' \in DeviceBits /\ told' \in DeviceBits
         /\ told = last => told' = last'
<1> DEFINE now == MarshallingWindowModeType(mode)
<1>1. now \in DeviceBits /\ last' = now
  BY WindowBits DEF OnWindowModeUpdate
<1>2. told' = [bit \in {"split", "floating"} |-> IF now[bit] # last[bit] THEN now[bit] ELSE told[bit]]
  BY DEF OnWindowModeUpdate, DeviceBits
<1>3. told' \in DeviceBits
  BY <1>1, <1>2 DEF DeviceBits
<1>4. told = last => told' = last'
  BY <1>1, <1>2, <1>3 DEF DeviceBits
<1> QED
  BY <1>1, <1>3, <1>4
LEMMA FoldTold ==
  ASSUME NEW mode, OnDisplayModeChanged(mode), told = last
  PROVE  last' = FoldModeEntered(mode) /\ told' = last'
  BY DEF OnDisplayModeChanged

LEMMA DeviceTells ==
  /\ \A state : /\ TellOf("window", state) = MarshallingWindowModeType(state)
                /\ TellOf("fold", state) = FoldModeEntered(state)
                /\ TellOf("orientation", state) = state
  /\ \A t, state : t \notin {"window", "fold", "orientation"} => TellOf(t, state) = TableOf(t)[state]
  BY DEF TellOf

(* The next callback: the last one on its way, or one with more behind it. *)
LEMMA DeviceQueue ==
  ASSUME DeviceInv, callbacksSent # <<>>
  PROVE  /\ Tail(callbacksSent) \in Seq(StatesOf(topic)) /\ setUp.at # "before"
         /\ Tail(callbacksSent) = <<>> => Head(callbacksSent) = truth
         /\ Tail(callbacksSent) # <<>> => LastIn(Tail(callbacksSent)) = truth
  BY LastFacts DEF DeviceInv, DeviceData, DeviceCalls

LEMMA DeviceEvent ==
  ASSUME DeviceInv, NEW formed \in BOOLEAN, OnEvent(formed)
  PROVE  DeviceInv'
<1> DEFINE state == Head(callbacksSent)
<1>1. /\ callbacksSent # <<>> /\ callbacksSent' = Tail(callbacksSent)
      /\ topic' = topic /\ truth' = truth /\ setUp' = setUp
  BY DEF OnEvent
<1>2. DeviceCalls' /\ (callbacksSent' = <<>> => state = truth)
  BY <1>1, DeviceQueue DEF DeviceInv, DeviceCalls
<1>3. /\ topic \in DeviceTopics /\ truth \in StatesOf(topic) /\ callbacksSent' \in Seq(StatesOf(topic))
      /\ setUp \in [at : {"before", "listening", "read", "done"}, read : StatesOf(topic)]
  BY <1>1, DeviceQueue DEF DeviceInv, DeviceData
<1>4. CASE topic = "window"
  <2>1. OnWindowModeUpdate(state) /\ silent' = (silent /\ last' # told')
    BY <1>4 DEF OnEvent, HandedOn, ProcessHiSysEvent, Passed
  <2>2. last \in DeviceBits /\ told \in DeviceBits /\ (told = last \/ silent)
    BY <1>4 DEF DeviceInv, DeviceData, DeviceMemory
  <2>3. /\ last' = MarshallingWindowModeType(state)
        /\ last' \in DeviceBits /\ told' \in DeviceBits
        /\ told = last => told' = last'
    BY <2>1, <2>2, WindowTold
  <2>4. told' = last' \/ silent'
    BY <2>1, <2>2, <2>3
  <2>5. DeviceData' /\ DeviceMemory'
    BY <1>1, <1>3, <1>4, <2>3, <2>4, DeviceQueue DEF DeviceData, DeviceMemory
  <2>6. DeviceStateTold'
    BY <1>1, <1>2, <1>4, <2>3, <2>4, DeviceTells DEF DeviceStateTold
  <2> QED
    BY <1>2, <2>5, <2>6 DEF DeviceInv
<1>5. CASE topic = "fold"
  <2>1. OnDisplayModeChanged(state) /\ told = last
    BY <1>5 DEF OnEvent, HandedOn, DeviceInv, DeviceMemory, ProcessHiSysEvent, Passed
  <2>2. last' = FoldModeEntered(state) /\ told' = last'
    BY <2>1, FoldTold
  <2>3. DeviceData' /\ DeviceMemory'
    BY <1>1, <1>3, <1>5, <2>2 DEF DeviceData, DeviceMemory
  <2>4. DeviceStateTold'
    BY <1>1, <1>2, <1>5, <2>2, DeviceTells DEF DeviceStateTold
  <2> QED
    BY <1>2, <2>3, <2>4 DEF DeviceInv
<1>6. CASE topic = "orientation"
  <2>1. OnDisplayChange /\ told = last
    BY <1>6 DEF OnEvent, HandedOn, DeviceInv, DeviceMemory, ProcessHiSysEvent, Passed
  <2>2. last' = truth /\ told' = truth
    BY <2>1 DEF OnDisplayChange
  <2>3. DeviceData' /\ DeviceMemory'
    BY <1>1, <1>3, <1>6, <2>2 DEF DeviceData, DeviceMemory
  <2>4. DeviceStateTold'
    BY <1>1, <1>6, <2>2, DeviceTells DEF DeviceStateTold
  <2> QED
    BY <1>2, <2>3, <2>4 DEF DeviceInv
<1>7. CASE topic \notin {"window", "fold", "orientation"}
  <2>1. HandedOn(topic)
    BY <1>3, <1>7 DEF DeviceTopics, HandedOn
  <2>2. silent' \/ told' = TableOf(topic)[state]
    BY <1>7, <2>1 DEF OnEvent, OnHandedOn
  <2>3. DeviceData' /\ DeviceMemory'
    BY <1>1, <1>3, <1>7 DEF DeviceData, DeviceMemory
  <2>4. DeviceStateTold'
    BY <1>1, <1>2, <1>7, <2>2, DeviceTells DEF DeviceStateTold
  <2> QED
    BY <1>2, <2>3, <2>4 DEF DeviceInv
<1> QED
  BY <1>4, <1>5, <1>6, <1>7

LEMMA DeviceUse ==
  ASSUME DeviceInv, NEW ok \in BOOLEAN, UseState(ok)
  PROVE  DeviceInv'
<1>1. /\ setUp.at = "read" /\ topic \in ReadTopics
      /\ topic' = topic /\ truth' = truth /\ callbacksSent' = callbacksSent
      /\ setUp' = [setUp EXCEPT !.at = "done"]
  BY DEF UseState, InitWindowMode, InitFoldMode, InitWindowStyle, ReadTopics
<1>2. /\ topic \in DeviceTopics /\ truth \in StatesOf(topic) /\ callbacksSent \in Seq(StatesOf(topic))
      /\ setUp' \in [at : {"before", "listening", "read", "done"}, read : StatesOf(topic)]
      /\ setUp'.at = "done"
  BY <1>1 DEF DeviceInv, DeviceData
<1>3. DeviceCalls'
  BY <1>1, <1>2 DEF DeviceInv, DeviceCalls
<1>4. backward' = (setUp.read # truth)
  BY DEF UseState
<1>5. CASE topic = "window"
  <2>1. /\ last' = IF ok THEN MarshallingWindowModeType(setUp.read) ELSE last
        /\ silent' = (~ok \/ last' # told) /\ told' = told
    BY <1>5 DEF UseState, InitWindowMode, InitFoldMode, InitWindowStyle
  <2>2. last' \in DeviceBits /\ told' \in DeviceBits
    BY <1>5, <2>1, WindowBits DEF DeviceInv, DeviceData
  <2>3. silent' \/ (told' = last' /\ last' = MarshallingWindowModeType(setUp.read))
    BY <2>1
  <2>4. DeviceData' /\ DeviceMemory'
    BY <1>1, <1>2, <1>5, <2>2, <2>3 DEF DeviceData, DeviceMemory
  <2>5. DeviceStateTold'
    BY <1>1, <1>4, <1>5, <2>3, DeviceTells DEF DeviceStateTold
  <2> QED
    BY <1>3, <2>4, <2>5 DEF DeviceInv
<1>6. CASE topic = "fold"
  <2>1. OnDisplayModeChanged(setUp.read) /\ told = last
    BY <1>6 DEF UseState, InitWindowMode, InitFoldMode, InitWindowStyle, DeviceInv, DeviceMemory
  <2>2. last' = FoldModeEntered(setUp.read) /\ told' = last'
    BY <2>1, FoldTold
  <2>3. DeviceData' /\ DeviceMemory'
    BY <1>1, <1>2, <1>6, <2>2 DEF DeviceData, DeviceMemory
  <2>4. DeviceStateTold'
    BY <1>1, <1>4, <1>6, <2>2, DeviceTells DEF DeviceStateTold
  <2> QED
    BY <1>3, <2>3, <2>4 DEF DeviceInv
<1>7. CASE topic = "style"
  <2>1. OnHandedOn(setUp.read)
    BY <1>7 DEF UseState, InitWindowMode, InitFoldMode, InitWindowStyle
  <2>2. told' = TableOf(topic)[setUp.read]
    BY <2>1 DEF OnHandedOn
  <2>3. DeviceData' /\ DeviceMemory'
    BY <1>1, <1>2, <1>7 DEF DeviceData, DeviceMemory
  <2>4. DeviceStateTold'
    BY <1>1, <1>4, <1>7, <2>2, DeviceTells DEF DeviceStateTold
  <2> QED
    BY <1>3, <2>3, <2>4 DEF DeviceInv
<1> QED
  BY <1>1, <1>5, <1>6, <1>7 DEF ReadTopics

LEMMA DeviceStep ==
  ASSUME DeviceInv, [DeviceNext]_deviceVars
  PROVE  DeviceInv'
<1> USE DEF DeviceInv, DeviceData, DeviceCalls, DeviceMemory, DeviceStateTold
<1>1. CASE UNCHANGED deviceVars
  BY <1>1 DEF deviceVars
<1>2. CASE RegisterDevice
  <2>1. /\ setUp.at = "before" /\ callbacksSent = <<>>
        /\ setUp' = [setUp EXCEPT !.at = IF topic \in ReadTopics THEN "listening" ELSE "done"]
        /\ UNCHANGED <<topic, truth, callbacksSent, last, told, backward>>
    BY <1>2 DEF RegisterDevice
  <2>2. silent' \/ topic \in ReadTopics
    BY <1>2 DEF RegisterDevice
  <2>3. topic = "window" => told = last
    BY <1>2 DEF RegisterDevice
  <2> QED
    BY <2>1, <2>2, <2>3
<1>3. CASE ReadState
  BY <1>3 DEF ReadState
<1>4. ASSUME NEW ok \in BOOLEAN, UseState(ok) PROVE DeviceInv'
  BY <1>4, DeviceUse
<1>5. ASSUME NEW formed \in BOOLEAN, OnEvent(formed) PROVE DeviceInv'
  BY <1>5, DeviceEvent
<1>6. ASSUME NEW state \in StatesOf(topic), DeviceChanges(state) PROVE DeviceInv'
  <2>1. /\ truth' = state
        /\ callbacksSent' = IF setUp.at = "before" THEN callbacksSent ELSE Append(callbacksSent, state)
        /\ UNCHANGED <<topic, setUp, last, told, silent, backward>>
    BY <1>6 DEF DeviceChanges
  <2>2. /\ Append(callbacksSent, state) \in Seq(StatesOf(topic)) /\ Append(callbacksSent, state) # <<>>
        /\ LastIn(Append(callbacksSent, state)) = state
    BY <1>6, LastFacts
  <2> QED
    BY <1>6, <2>1, <2>2
<1> QED
  BY <1>1, <1>2, <1>3, <1>4, <1>5, <1>6 DEF DeviceNext

-----------------------------------------------------------------------------
(* Observers.  Additions and removals alternate and end with what the      *)
(* ability is now; and the window listeners, which are registered only     *)
(* when made, have all been given up when an addition is handled.          *)
Alternating(q) == \A i \in 1..(Len(q) - 1) : q[i] # q[i + 1]
Presence == IF up THEN "add" ELSE "remove"
NoticesAgree ==
  /\ notices \in Seq({"add", "remove"}) /\ Alternating(notices)
  /\ sysAbilityListener => callbacks = "set" /\ (notices # <<>> => LastIn(notices) = Presence)
  /\ ~sysAbilityListener /\ callbacks # "cleared" => notices = <<>>
  /\ callbacks = "unset" => objects = {}
GivenUpInTime ==
  sysAbilityListener /\ ability = "WINDOW" /\ objects \cap WindowListeners # {} =>
    IF notices = <<>> THEN up ELSE Head(notices) = "remove"
ObserversInv ==
  /\ ability \in Abilities
  /\ NoticesAgree /\ GivenUpInTime /\ ObserversListen /\ ObserversKnow

(* A notice is taken, or one is added that is not like the last.           *)
LEMMA NoticeTaken ==
  ASSUME NEW q \in Seq({"add", "remove"}), Alternating(q), q # <<>>
  PROVE  /\ Tail(q) \in Seq({"add", "remove"}) /\ Alternating(Tail(q))
         /\ Tail(q) = <<>> => Head(q) = LastIn(q)
         /\ Tail(q) # <<>> => Head(Tail(q)) # Head(q) /\ LastIn(Tail(q)) = LastIn(q)
<1>1. /\ Tail(q) \in Seq({"add", "remove"}) /\ Len(Tail(q)) = Len(q) - 1 /\ Len(q) \in Nat \ {0}
      /\ \A i \in 1..Len(Tail(q)) : Tail(q)[i] = q[i + 1]
      /\ Head(q) = q[1]
  OBVIOUS
<1>2. Alternating(Tail(q))
  BY <1>1 DEF Alternating
<1>3. Tail(q) # <<>> => Head(Tail(q)) # Head(q)
  <2> SUFFICES ASSUME Tail(q) # <<>> PROVE Head(Tail(q)) # Head(q)
    OBVIOUS
  <2>1. Len(q) > 1
    BY LastFacts
  <2>2. Head(Tail(q)) = Tail(q)[1] /\ Tail(q)[1] = q[2]
    BY <1>1, <2>1
  <2> QED
    BY <1>1, <2>1, <2>2 DEF Alternating
<1> QED
  BY <1>1, <1>2, <1>3, LastFacts
LEMMA NoticeAdded ==
  ASSUME NEW q \in Seq({"add", "remove"}), Alternating(q), NEW e \in {"add", "remove"},
         q # <<>> => LastIn(q) # e
  PROVE  /\ Append(q, e) \in Seq({"add", "remove"}) /\ Append(q, e) # <<>>
         /\ Alternating(Append(q, e)) /\ LastIn(Append(q, e)) = e
         /\ Head(Append(q, e)) = IF q = <<>> THEN e ELSE Head(q)
<1> DEFINE r == Append(q, e)
<1>1. /\ r \in Seq({"add", "remove"}) /\ r # <<>> /\ LastIn(r) = e
  BY LastFacts
<1>2. /\ Len(q) \in Nat /\ Len(r) = Len(q) + 1 /\ r[Len(q) + 1] = e
      /\ \A i \in 1..Len(q) : r[i] = q[i]
  OBVIOUS
<1>3. q = <<>> <=> Len(q) = 0
  BY <1>2, EmptySeq
<1>4. Alternating(r)
  BY <1>2, <1>3 DEF Alternating, LastIn
<1>5. Head(r) = r[1] /\ (q # <<>> => Head(q) = q[1])
  BY <1>1
<1> QED
  BY <1>1, <1>2, <1>3, <1>4, <1>5

(* What RegisterNew and the giving up of an object do.                     *)
LEMMA NewFacts ==
  ASSUME NEW s, NEW o, NEW ok, o \notin s.objects
  PROVE  /\ RegisterNew(s, o, ok).objects = s.objects \cup {o}
         /\ RegisterNew(s, o, ok).toFetch = s.toFetch
         /\ RegisterNew(s, o, ok).registered = s.registered \cup ({o} \cap ok)
  BY DEF RegisterNew, Register, State
LEMMA DropFacts ==
  ASSUME NEW s, NEW o, NEW ok
  PROVE  /\ Unregister(s, o, ok).objects = s.objects \ {o}
         /\ Unregister(s, o, ok).registered \subseteq s.registered
         /\ Unregister(s, o, ok).toFetch = s.toFetch
         /\ UnregisterIfOk(s, o, ok).objects \subseteq s.objects
         /\ UnregisterIfOk(s, o, ok).registered \subseteq s.registered
         /\ UnregisterIfOk(s, o, ok).toFetch = s.toFetch
  BY DEF Unregister, UnregisterIfOk, State

(* The window observers, one after the other.                              *)
LEMMA WindowsRegistered ==
  ASSUME NEW ok, Apply(InitWindowStateObserver(Now, ok)), objects \cap WindowListeners = {}
  PROVE  /\ registered' = registered \cup (WindowListeners \cap ok) \cup ({"style"} \cap ok)
         /\ toFetch' = toFetch \cup ({"style"} \cap ok)
<1> DEFINE a == RegisterNew(Now, "focus", ok)
           b == RegisterNew(a, "visibility", ok)
           c == RegisterNew(b, "drawing", ok)
           d == RegisterNew(c, "windowMode", ok)
           e == RegisterNew(d, "pip", ok)
<1>0. Now.objects = objects /\ Now.registered = registered /\ Now.toFetch = toFetch
  BY DEF Now, State
<1>1. Apply(InitWindowStyleObserver(e, ok))
  BY DEF InitWindowStateObserver, SubscribeWindowModeChange, SubscribePipChange
<1>2. \A o \in {"focus", "visibility", "drawing", "windowMode", "pip"} : o \notin objects
  BY DEF WindowListeners
<1>3. /\ a.objects = objects \cup {"focus"} /\ a.toFetch = toFetch
      /\ a.registered = registered \cup ({"focus"} \cap ok)
  BY <1>0, <1>2, NewFacts
<1>4. /\ b.objects = a.objects \cup {"visibility"} /\ b.toFetch = toFetch
      /\ b.registered = a.registered \cup ({"visibility"} \cap ok)
  <2>1. "visibility" \notin a.objects
    BY <1>2, <1>3
  <2> HIDE DEF a
  <2> QED
    BY <1>3, <2>1, NewFacts
<1>5. /\ c.objects = b.objects \cup {"drawing"} /\ c.toFetch = toFetch
      /\ c.registered = b.registered \cup ({"drawing"} \cap ok)
  <2>1. "drawing" \notin b.objects
    BY <1>2, <1>3, <1>4
  <2> HIDE DEF b
  <2> QED
    BY <1>4, <2>1, NewFacts
<1>6. /\ d.objects = c.objects \cup {"windowMode"} /\ d.toFetch = toFetch
      /\ d.registered = c.registered \cup ({"windowMode"} \cap ok)
  <2>1. "windowMode" \notin c.objects
    BY <1>2, <1>3, <1>4, <1>5
  <2> HIDE DEF c
  <2> QED
    BY <1>5, <2>1, NewFacts
<1>7. /\ e.toFetch = toFetch /\ e.registered = d.registered \cup ({"pip"} \cap ok)
  <2>1. "pip" \notin d.objects
    BY <1>2, <1>3, <1>4, <1>5, <1>6
  <2> HIDE DEF d
  <2> QED
    BY <1>6, <2>1, NewFacts
<1> HIDE DEF a, b, c, d, e
<1>8. e.registered = registered \cup (WindowListeners \cap ok)
  BY <1>3, <1>4, <1>5, <1>6, <1>7 DEF WindowListeners
<1> QED
  BY <1>1, <1>7, <1>8 DEF Apply, InitWindowStyleObserver, Register, Fetch, State
LEMMA WindowsGivenUp ==
  ASSUME NEW ok, Apply(DisableWindowStateObserver(Now, ok))
  PROVE  /\ registered' \subseteq registered /\ toFetch' = toFetch
         /\ objects' \cap WindowListeners = {}
<1> DEFINE a == Unregister(Now, "focus", ok)
           b == Unregister(a, "visibility", ok)
           c == Unregister(b, "drawing", ok)
           d == Unregister(c, "windowMode", ok)
           e == Unregister(d, "pip", ok)
           f == UnregisterIfOk(e, "style", ok)
<1>0. Now.objects = objects /\ Now.registered = registered /\ Now.toFetch = toFetch
  BY DEF Now, State
<1>1. objects' = f.objects /\ registered' = f.registered /\ toFetch' = f.toFetch
  BY DEF Apply, DisableWindowStateObserver, DisableWindowStyleObserver, UnsubscribePipChange,
     UnsubscribeWindowModeChange
<1>2. a.objects = objects \ {"focus"} /\ a.registered \subseteq registered /\ a.toFetch = toFetch
  BY <1>0, DropFacts
<1> HIDE DEF a
<1>3. b.objects = a.objects \ {"visibility"} /\ b.registered \subseteq a.registered /\ b.toFetch = a.toFetch
  BY DropFacts
<1> HIDE DEF b
<1>4. c.objects = b.objects \ {"drawing"} /\ c.registered \subseteq b.registered /\ c.toFetch = b.toFetch
  BY DropFacts
<1> HIDE DEF c
<1>5. d.objects = c.objects \ {"windowMode"} /\ d.registered \subseteq c.registered /\ d.toFetch = c.toFetch
  BY DropFacts
<1> HIDE DEF d
<1>6. e.objects = d.objects \ {"pip"} /\ e.registered \subseteq d.registered /\ e.toFetch = d.toFetch
  BY DropFacts
<1> HIDE DEF e
<1>7. f.objects \subseteq e.objects /\ f.registered \subseteq e.registered /\ f.toFetch = e.toFetch
  BY DropFacts
<1> HIDE DEF f
<1> QED
  BY <1>1, <1>2, <1>3, <1>4, <1>5, <1>6, <1>7 DEF WindowListeners

(* Every Init function registers what is accepted, and is to fetch the     *)
(* values of what it registers.                                            *)
LEMMA AdditionRegisters ==
  ASSUME ability \in Abilities, NEW Given, registered \cap Stateful \subseteq toFetch \cup Given,
         NEW ok \in SUBSET Expected, Apply(InitObserverCbMap(Now, ok)),
         ability = "WINDOW" => objects \cap WindowListeners = {}
  PROVE  ok \subseteq registered' /\ registered' \cap Stateful \subseteq toFetch' \cup Given
<1> USE DEF Apply, Now, State, Fetch, Register, RegisterOrDrop, Expected, Stateful,
            InitObserverCbMap
<1>1. CASE ability \in {"HISYSEVENT", "TELEPHONY", "ABILITY_MGR", "DOWNLOAD", "AVSESSION", "ACCOUNT",
                        "APP_MGR", "DISTRIBUTED_SCHED"}
  BY <1>1 DEF InitHiSysEventObserver, InitTelephonyObserver, InitConnectionSubscriber,
     InitDownloadUploadObserver, InitAVSessionStateChangeListener, InitAccountObserver,
     SubscribeAppState, InitContinuationObserver
<1>2. CASE ability = "MMI"
  BY <1>2 DEF InitMMiEventObserver, GetAllMmiStatusData
<1>3. CASE ability = "AUDIO"
  BY <1>3 DEF InitAudioObserver, InitAudioEventListener, AudioCallbacks
<1>4. CASE ability = "DISPLAY"
  BY <1>4 DEF InitDisplayModeObserver
<1>5. CASE ability = "DISPLAY_SA"
  BY <1>5 DEF InitDisplayManagerServiceSAObserver, InitDisplayPowerEventObserver,
     InitDisplayOrientationObserver
<1>6. CASE ability = "COMMON_EVENT"
  BY <1>6 DEF AddEventSubscribers, SubscribeMediaCtrlCommonEvent, SubscribeCloneStateCommonEvent,
     SubscribeLockScreenCommonEvent, EventSubscribers
<1>7. CASE ability = "WINDOW"
  <2>1. Apply(InitWindowStateObserver(Now, ok))
    BY <1>7
  <2>2. /\ registered' = registered \cup (WindowListeners \cap ok) \cup ({"style"} \cap ok)
        /\ toFetch' = toFetch \cup ({"style"} \cap ok)
    BY <1>7, <2>1, WindowsRegistered
  <2> QED
    BY <1>7, <2>2 DEF WindowListeners
<1> QED
  BY <1>1, <1>2, <1>3, <1>4, <1>5, <1>6, <1>7 DEF Abilities

(* Every Disable function only takes registrations away, and gives up      *)
(* the window listeners whatever the ability answers.                      *)
LEMMA RemovalGivesUp ==
  ASSUME ability \in Abilities, NEW ok, Apply(InitRemoveObserverCbMap(Now, ok))
  PROVE  /\ registered' \subseteq registered /\ toFetch' = toFetch
         /\ ability = "WINDOW" => objects' \cap WindowListeners = {}
<1> USE DEF Apply, Now, State, Unregister, UnregisterIfOk, InitRemoveObserverCbMap
<1>1. CASE ability \in {"HISYSEVENT", "TELEPHONY", "ABILITY_MGR", "DOWNLOAD", "AVSESSION", "ACCOUNT",
                        "APP_MGR", "DISTRIBUTED_SCHED"}
  BY <1>1 DEF DisableHiSysEventObserver, DisableTelephonyObserver, DisableConnectionSubscriber,
     DisableDownloadUploadObserver, DisableAVSessionStateChangeListener, DisableAccountObserver,
     UnsubscribeAppState, DisableContinuationObserver
<1>2. CASE ability = "MMI"
  BY <1>2 DEF DisableMMiEventObserver
<1>3. CASE ability = "AUDIO"
  BY <1>3 DEF DisableAudioObserver
<1>4. CASE ability = "DISPLAY"
  BY <1>4 DEF DisableDisplayModeObserver
<1>5. CASE ability = "DISPLAY_SA"
  BY <1>5 DEF DisableDisplayManagerServiceSAObserver, DisableDisplayPowerEventObserver,
     DisableDisplayOrientationObserver
<1>6. CASE ability = "COMMON_EVENT"
  BY <1>6 DEF RemoveEventSubscribers
<1>7. CASE ability = "WINDOW"
  <2>1. Apply(DisableWindowStateObserver(Now, ok))
    BY <1>7
  <2> QED
    BY <2>1, WindowsGivenUp
<1> QED
  BY <1>1, <1>2, <1>3, <1>4, <1>5, <1>6, <1>7 DEF Abilities

LEMMA ObserversAdd ==
  ASSUME ObserversInv, OnAddSystemAbility
  PROVE  ObserversInv'
<1>1. /\ notices # <<>> /\ Head(notices) = "add" /\ notices' = Tail(notices)
      /\ UNCHANGED <<ability, isFoldable, isNeedReport, sysAbilityListener, callbacks, up>>
      /\ UNCHANGED toldVars
  BY DEF OnAddSystemAbility, Static
<1>2. /\ notices' \in Seq({"add", "remove"}) /\ Alternating(notices')
      /\ notices' = <<>> => LastIn(notices) = "add"
      /\ notices' # <<>> => Head(notices') = "remove" /\ LastIn(notices') = LastIn(notices)
  <2>1. notices' # <<>> => Head(notices') \in {"add", "remove"}
    BY <1>1, NoticeTaken DEF ObserversInv, NoticesAgree
  <2> QED
    BY <1>1, <2>1, NoticeTaken DEF ObserversInv, NoticesAgree
<1>3. CASE callbacks = "set"
  <2>1. sysAbilityListener /\ LastIn(notices) = Presence
    BY <1>1, <1>3 DEF ObserversInv, NoticesAgree
  <2>2. ability = "WINDOW" => objects \cap WindowListeners = {}
    BY <1>1, <2>1 DEF ObserversInv, GivenUpInTime
  <2>3. PICK ok \in SUBSET Expected :
          Apply(InitObserverCbMap(Now, ok)) /\ refused' = Expected \ ok
    BY <1>3 DEF OnAddSystemAbility
  <2> DEFINE Given == fresh \cup {reading} \cup outdated
  <2>8. registered \cap Stateful \subseteq toFetch \cup Given
    BY DEF ObserversInv, ObserversKnow
  <2>4. ok \subseteq registered' /\ registered' \cap Stateful \subseteq toFetch' \cup Given
    <3> HIDE DEF Given
    <3> QED
      BY <2>2, <2>3, <2>8, AdditionRegisters DEF ObserversInv
  <2>9. ObserversKnow'
    BY <1>1, <2>4 DEF ObserversKnow, toldVars
  <2>5. NoticesAgree'
    BY <1>1, <1>2, <1>3, <2>1 DEF NoticesAgree, Presence
  <2>6. GivenUpInTime'
    BY <1>1, <1>2, <2>1 DEF GivenUpInTime, Presence
  <2>7. Expected' = Expected
    BY <1>1 DEF Expected
  <2> QED
    BY <1>1, <2>3, <2>4, <2>5, <2>6, <2>7, <2>9 DEF ObserversInv, ObserversListen
<1>4. CASE callbacks # "set"
  <2>1. UNCHANGED <<objects, registered, toFetch, refused>> /\ ~sysAbilityListener
    BY <1>4 DEF OnAddSystemAbility, ObserversInv, NoticesAgree
  <2>2. callbacks = "cleared"
    BY <1>1, <1>4, <2>1 DEF ObserversInv, NoticesAgree
  <2> QED
    BY <1>1, <1>2, <2>1, <2>2
    DEF ObserversInv, NoticesAgree, GivenUpInTime, ObserversListen, ObserversKnow, toldVars
<1> QED
  BY <1>3, <1>4

LEMMA ObserversRemove ==
  ASSUME ObserversInv, OnRemoveSystemAbility
  PROVE  ObserversInv'
<1>1. /\ notices # <<>> /\ Head(notices) = "remove" /\ notices' = Tail(notices)
      /\ UNCHANGED <<ability, isFoldable, isNeedReport, sysAbilityListener, callbacks, up, refused>>
      /\ UNCHANGED toldVars
  BY DEF OnRemoveSystemAbility, Static
<1>2. /\ notices' \in Seq({"add", "remove"}) /\ Alternating(notices')
      /\ notices' = <<>> => LastIn(notices) = "remove"
      /\ notices' # <<>> => LastIn(notices') = LastIn(notices)
  BY <1>1, NoticeTaken DEF ObserversInv, NoticesAgree
<1>3. CASE callbacks = "set"
  <2>1. sysAbilityListener /\ LastIn(notices) = Presence
    BY <1>1, <1>3 DEF ObserversInv, NoticesAgree
  <2>2. PICK ok : Apply(InitRemoveObserverCbMap(Now, ok))
    BY <1>3 DEF OnRemoveSystemAbility
  <2>3. /\ registered' \subseteq registered /\ toFetch' = toFetch
        /\ ability = "WINDOW" => objects' \cap WindowListeners = {}
    BY <2>2, RemovalGivesUp DEF ObserversInv
  <2>4. NoticesAgree'
    BY <1>1, <1>2, <1>3, <2>1 DEF NoticesAgree, Presence
  <2>5. notices' = <<>> => ~up
    BY <1>2, <2>1 DEF Presence
  <2> QED
    BY <1>1, <2>3, <2>4, <2>5
    DEF ObserversInv, GivenUpInTime, ObserversListen, ObserversKnow, toldVars
<1>4. CASE callbacks # "set"
  <2>1. UNCHANGED <<objects, registered, toFetch>> /\ ~sysAbilityListener
    BY <1>4 DEF OnRemoveSystemAbility, ObserversInv, NoticesAgree
  <2>2. callbacks = "cleared"
    BY <1>1, <1>4, <2>1 DEF ObserversInv, NoticesAgree
  <2> QED
    BY <1>1, <1>2, <2>1, <2>2
    DEF ObserversInv, NoticesAgree, GivenUpInTime, ObserversListen, ObserversKnow, toldVars
<1> QED
  BY <1>3, <1>4

LEMMA ObserversEnd ==
  ASSUME ObserversInv, ObserversStop
  PROVE  ObserversInv'
<1>1. /\ callbacks' = "cleared" /\ ~sysAbilityListener' /\ UNCHANGED <<ability, up, notices>>
      /\ UNCHANGED toldVars
  BY DEF ObserversStop, Static
<1>2. registered' \subseteq registered /\ toFetch' = toFetch
  BY DEF ObserversStop, Apply, DisableTelephonyObserver, DisableHiSysEventObserver, Unregister,
         StopEventSubscribers, Now, State
<1> QED
  BY <1>1, <1>2
  DEF ObserversInv, NoticesAgree, GivenUpInTime, ObserversListen, ObserversKnow, toldVars

(* The ability dies or starts: the listener is told what it is now.        *)
LEMMA AbilityChanges ==
  ASSUME ObserversInv, AbilityDies \/ AbilityStarts
  PROVE  ObserversInv'
<1>1. /\ up' # up /\ UNCHANGED <<ability, isFoldable, isNeedReport, sysAbilityListener, callbacks, objects>>
      /\ notices' = IF sysAbilityListener THEN Append(notices, Presence') ELSE notices
      /\ registered' \subseteq registered /\ ObserversKnow'
  BY DEF AbilityDies, AbilityStarts, Static, Presence, ObserversInv, ObserversKnow, toldVars
<1>2. CASE ~sysAbilityListener
  BY <1>1, <1>2 DEF ObserversInv, NoticesAgree, GivenUpInTime, ObserversListen
<1>3. CASE sysAbilityListener
  <2>1. Presence' \in {"add", "remove"} /\ Presence' # Presence
    BY <1>1 DEF Presence, AbilityDies, AbilityStarts
  <2>2. /\ notices' \in Seq({"add", "remove"}) /\ notices' # <<>>
        /\ Alternating(notices') /\ LastIn(notices') = Presence'
        /\ Head(notices') = IF notices = <<>> THEN Presence' ELSE Head(notices)
    BY <1>1, <1>3, <2>1, NoticeAdded DEF ObserversInv, NoticesAgree
  <2>3. NoticesAgree'
    BY <1>1, <1>3, <2>2 DEF ObserversInv, NoticesAgree
  <2>4. GivenUpInTime'
    <3>1. up /\ notices = <<>> => Presence' = "remove"
      BY <1>1 DEF Presence, AbilityDies, AbilityStarts
    <3> QED
      BY <1>1, <1>3, <2>2, <3>1 DEF ObserversInv, GivenUpInTime
  <2> QED
    BY <1>1, <2>2, <2>3, <2>4 DEF ObserversInv, ObserversListen
<1> QED
  BY <1>2, <1>3

(* A value is fetched, reported or changes: a fetch and a change leave      *)
(* nothing untold, and a report in between makes it only outdated.         *)
LEMMA ValueTold ==
  ASSUME ObserversInv, NEW e \in Stateful, FetchValue(e) \/ ReportValue \/ ValueChanges(e)
  PROVE  ObserversInv'
<1>1. /\ UNCHANGED <<ability, isFoldable, isNeedReport, sysAbilityListener, callbacks, up, notices>>
      /\ UNCHANGED <<objects, registered, refused>>
  BY DEF FetchValue, ReportValue, ValueChanges, Static
<1>2. NoticesAgree' /\ GivenUpInTime' /\ ObserversListen'
  BY <1>1 DEF ObserversInv, NoticesAgree, GivenUpInTime, ObserversListen, Presence, Expected
<1>3. ObserversKnow'
  <2>1. CASE FetchValue(e)
    <3>1. NoValue \notin Stateful
      BY DEF Stateful, NoValue
    <3> QED
      BY <2>1, <3>1 DEF FetchValue, ObserversInv, ObserversKnow
  <2>2. CASE ReportValue
    <3>1. /\ toFetch' = toFetch /\ registered' = registered
          /\ registered \cap Stateful \subseteq fresh \cup toFetch \cup {reading} \cup outdated
      BY <2>2 DEF ReportValue, ObserversInv, ObserversKnow
    <3>2. CASE readingOld
      <4>1. fresh' = fresh \ {reading} /\ outdated' = outdated \cup {reading}
        BY <2>2, <3>2 DEF ReportValue
      <4> QED
        BY <3>1, <4>1 DEF ObserversKnow
    <3>3. CASE ~readingOld
      <4>1. fresh' = fresh \cup {reading} /\ outdated' = outdated \ {reading}
        BY <2>2, <3>3 DEF ReportValue
      <4> QED
        BY <3>1, <4>1 DEF ObserversKnow
    <3> QED
      BY <3>2, <3>3
  <2>3. CASE ValueChanges(e)
    BY <2>3 DEF ValueChanges, ObserversInv, ObserversKnow
  <2> QED
    BY <2>1, <2>2, <2>3
<1> QED
  BY <1>1, <1>2, <1>3 DEF ObserversInv

LEMMA ReportTold ==
  ASSUME ObserversInv, ReportValue
  PROVE  ObserversInv'
<1>1. "mmi" \in Stateful
  BY DEF Stateful
<1> QED
  BY <1>1, ValueTold

(* Any step keeps the invariant.                                           *)
LEMMA ObserversStep ==
  ASSUME ObserversInv, [ObserversNext]_obVars
  PROVE  ObserversInv'
<1>1. CASE UNCHANGED obVars
  BY <1>1 DEF obVars, ObserversInv, NoticesAgree, GivenUpInTime, ObserversListen, ObserversKnow,
     Presence, Expected, toldVars
<1>2. CASE InitSysAbilityListener \/ EventControllerInit
  <2>1. PICK ok \in BOOLEAN : sysAbilityListener' = ok /\ notices' = IF ok /\ up THEN <<"add">> ELSE <<>>
    BY <1>2 DEF InitSysAbilityListener, EventControllerInit, AddItemToSysAbilityListener
  <2>2. /\ callbacks = "unset" /\ callbacks' = "set"
        /\ UNCHANGED <<ability, up, objects, registered, toFetch, toldVars>>
    BY <1>2 DEF InitSysAbilityListener, EventControllerInit, Static
  <2>3. objects' = {} /\ notices' \in {<<>>, <<"add">>}
    BY <2>1, <2>2 DEF ObserversInv, NoticesAgree
  <2>4. notices' # <<>> => sysAbilityListener' /\ up
    BY <2>1
  <2>5. sysAbilityListener' /\ up => notices' # <<>>
    BY <2>1
  <2>6. /\ <<>> \in Seq({"add", "remove"}) /\ <<"add">> \in Seq({"add", "remove"})
        /\ Alternating(<<>>) /\ Alternating(<<"add">>) /\ LastIn(<<"add">>) = "add"
    BY DEF Alternating, LastIn
  <2>7. NoticesAgree'
    BY <2>2, <2>3, <2>4, <2>6 DEF NoticesAgree, Presence
  <2> QED
    BY <2>2, <2>3, <2>5, <2>7
    DEF ObserversInv, GivenUpInTime, ObserversListen, ObserversKnow, toldVars
<1> QED
  BY <1>1, <1>2, ValueTold, ReportTold, ObserversAdd, ObserversRemove, ObserversEnd, AbilityChanges
  DEF ObserversNext

LEMMA ObserversStart == ObserversInit => ObserversInv
<1> SUFFICES ASSUME ObserversInit PROVE ObserversInv
  OBVIOUS
<1>1. NoticesAgree
  BY DEF ObserversInit, NoticesAgree, Alternating
<1> QED
  BY <1>1 DEF ObserversInit, ObserversInv, GivenUpInTime, ObserversListen, ObserversKnow

-----------------------------------------------------------------------------
(* AppState.  A notice under way is the present state of its process, so a *)
(* process that was heard of is in foregroundPids_ while it is in the      *)
(* foreground, but for the change the notice will bring.  One that is there*)
(* or in the list without being in the foreground has crossed the list.    *)
HeardRight(p) ==
  /\ appNotice[p] = NoNotice =>
       /\ Foreground(appState[p]) => p \in foregroundPids
       /\ p \in foregroundPids \cup fgapplist => Foreground(appState[p]) \/ p \in listCrossed
  /\ appNotice[p] = "APP_STATE_FOCUS" => p \in foregroundPids
  /\ appNotice[p] = "APP_STATE_READY" => (p \in foregroundPids \cup fgapplist => p \in listCrossed)
AppStateData ==
  /\ appState \in [Pids -> AppStates] /\ appNotice \in [Pids -> AppStates \cup {NoNotice}]
  /\ heard \subseteq Pids /\ fgapplist \subseteq Pids /\ listCrossed \subseteq Pids
  /\ \A p \in Pids : appNotice[p] = NoNotice \/ appNotice[p] = appState[p]
AppStateInv == AppStateData /\ \A p \in heard \ InvalidPids : HeardRight(p)

(* A notice reaches the service.                                           *)
LEMMA NoticeArrives ==
  ASSUME AppStateInv, NEW p \in Pids, Notified(p)
  PROVE  AppStateInv'
<1>1. /\ appNotice' = [appNotice EXCEPT ![p] = NoNotice]
      /\ appState' = appState /\ fgapplist' = fgapplist
  BY DEF Notified
<1>2. \A q \in Pids \ {p} : appNotice'[q] = appNotice[q]
  BY <1>1 DEF AppStateInv, AppStateData
<1>3. appNotice'[p] = NoNotice /\ appNotice[p] = appState[p] /\ appState[p] \in AppStates
  BY <1>1 DEF AppStateInv, AppStateData, Notified
<1>4. CASE p \in InvalidPids
  <2>1. foregroundPids' = foregroundPids /\ heard' = heard /\ listCrossed' = listCrossed
    BY <1>4 DEF Notified, ValidateAppStateData
  <2>2. AppStateData'
    BY <1>1, <1>2, <1>3, <2>1 DEF AppStateInv, AppStateData
  <2> QED
    BY <1>1, <1>2, <1>4, <2>1, <2>2 DEF AppStateInv, AppStateData, HeardRight
<1>5. CASE p \notin InvalidPids
  <2>1. OnApplicationStateChange(appNotice[p], p) /\ Told(p, appNotice[p])
    BY <1>5 DEF Notified, ValidateAppStateData, OnApplicationStateChanged, OnAppStateChanged,
      OnProcessStateChanged, OnProcessDied, ReportAppStateInProcess, ReportProcessStateInProcess
  <2>2. /\ heard' \subseteq heard \cup {p} /\ listCrossed' \subseteq listCrossed \cup {p}
        /\ \A q \in Pids \ {p} : /\ q \in foregroundPids' <=> q \in foregroundPids
                                 /\ q \in listCrossed' <=> q \in listCrossed
    BY <2>1 DEF OnApplicationStateChange, Told
  <2>3. AppStateData'
    BY <1>1, <1>2, <1>3, <2>2 DEF AppStateInv, AppStateData
  <2>4. ASSUME NEW q \in heard' \ InvalidPids, q # p PROVE HeardRight(q)'
    <3>1. q \in Pids \ {p} /\ HeardRight(q)
      BY <2>2, <2>4 DEF AppStateInv, AppStateData
    <3> QED
      BY <1>1, <1>2, <2>2, <3>1 DEF HeardRight
  <2>5. ASSUME p \in heard' PROVE HeardRight(p)'
    <3>1. NoNotice # "APP_STATE_FOCUS" /\ NoNotice # "APP_STATE_READY"
      BY DEF NoNotice
    <3>2. CASE appState[p] = "APP_STATE_FOREGROUND"
      BY <1>1, <1>3, <2>1, <3>1, <3>2 DEF OnApplicationStateChange, Told, HeardRight, Foreground
    <3>3. CASE appState[p] \in {"APP_STATE_BACKGROUND", "APP_STATE_TERMINATED"}
      BY <1>1, <1>3, <2>1, <2>5, <3>1, <3>3
      DEF OnApplicationStateChange, Told, HeardRight, Foreground
    <3>4. CASE appState[p] \in {"APP_STATE_FOCUS", "APP_STATE_READY"}
      <4>1. heard' = heard /\ foregroundPids' = foregroundPids /\ listCrossed' = listCrossed
        BY <1>3, <2>1, <3>4 DEF OnApplicationStateChange, Told
      <4>2. HeardRight(p)
        BY <1>5, <2>5, <4>1 DEF AppStateInv
      <4> QED
        BY <1>1, <1>3, <3>1, <3>4, <4>1, <4>2 DEF HeardRight, Foreground
    <3> QED
      BY <1>3, <3>2, <3>3, <3>4 DEF AppStates
  <2> QED
    BY <2>3, <2>4, <2>5 DEF AppStateInv
<1> QED
  BY <1>4, <1>5

(* A process changes its state.                                            *)
LEMMA StateOfAppChanges ==
  ASSUME AppStateInv, NEW p \in Pids, AppChanges(p)
  PROVE  AppStateInv'
<1>1. PICK s \in NextAppState(appState[p]) :
        /\ appState' = [appState EXCEPT ![p] = s]
        /\ appNotice' = IF subscribed THEN [appNotice EXCEPT ![p] = s] ELSE appNotice
  BY DEF AppChanges
<1>2. /\ UNCHANGED <<foregroundPids, fgapplist, listCrossed>> /\ appNotice[p] = NoNotice
      /\ heard' = IF subscribed THEN heard ELSE heard \ {p}
  BY DEF AppChanges
<1>3. appState[p] \in AppStates /\ s \in AppStates
      /\ (s = "APP_STATE_FOCUS" => appState[p] = "APP_STATE_FOREGROUND")
      /\ (s = "APP_STATE_READY" => appState[p] = "APP_STATE_TERMINATED")
  <2>1. appState[p] \in AppStates
    BY DEF AppStateInv, AppStateData
  <2> QED
    BY <1>1, <2>1 DEF AppStates, NextAppState
<1>4. /\ appState'[p] = s /\ \A q \in Pids \ {p} : appState'[q] = appState[q] /\ appNotice'[q] = appNotice[q]
      /\ appNotice'[p] = IF subscribed THEN s ELSE NoNotice
  BY <1>1, <1>2 DEF AppStateInv, AppStateData
<1>5. AppStateData'
  BY <1>1, <1>2, <1>3, <1>4 DEF AppStateInv, AppStateData
<1>6. ASSUME NEW q \in heard' \ InvalidPids PROVE HeardRight(q)'
  <2>1. q \in Pids /\ HeardRight(q)
    BY <1>2 DEF AppStateInv, AppStateData
  <2>2. CASE q # p
    BY <1>2, <1>4, <2>1, <2>2 DEF HeardRight
  <2>3. CASE q = p
    <3>1. appNotice'[p] = s /\ s # NoNotice
      BY <1>2, <1>3, <1>4, <2>3 DEF AppStates, NoNotice
    <3> QED
      BY <1>2, <1>3, <2>1, <2>3, <3>1 DEF HeardRight, Foreground
  <2> QED
    BY <2>2, <2>3
<1> QED
  BY <1>5, <1>6 DEF AppStateInv

LEMMA AppStateStep ==
  ASSUME AppStateInv, [AppStateNext]_appStateVars
  PROVE  AppStateInv'
<1>1. CASE UNCHANGED <<appState, appNotice, fgapplist, foregroundPids, heard, listCrossed>>
  BY <1>1 DEF AppStateInv, AppStateData, HeardRight
<1>2. CASE InitForegroundAppInfo
  <2>1. /\ UNCHANGED <<appState, appNotice, foregroundPids, heard, listCrossed>>
        /\ fgapplist' = {p \in Pids : Foreground(appState[p])}
    BY <1>2 DEF InitForegroundAppInfo
  <2>2. AppStateData'
    BY <2>1 DEF AppStateInv, AppStateData
  <2>3. ASSUME NEW p \in heard' \ InvalidPids PROVE HeardRight(p)'
    <3>1. p \in Pids /\ HeardRight(p) /\ (appNotice[p] = NoNotice \/ appNotice[p] = appState[p])
      BY <2>1 DEF AppStateInv, AppStateData
    <3>2. NoNotice # "APP_STATE_READY"
      BY DEF NoNotice
    <3> QED
      BY <2>1, <3>1, <3>2 DEF HeardRight, Foreground
  <2> QED
    BY <2>2, <2>3 DEF AppStateInv
<1>3. CASE MergeForegroundApps
  <2> DEFINE right == {p \in fgapplist : Foreground(appState[p]) /\ appNotice[p] = NoNotice}
  <2>1. /\ appState' = appState /\ appNotice' = appNotice
        /\ foregroundPids' = foregroundPids \cup fgapplist /\ fgapplist' = {}
        /\ heard' = heard \cup right /\ listCrossed' = listCrossed \ right
    BY <1>3 DEF MergeForegroundApps
  <2>2. AppStateData'
    BY <2>1 DEF AppStateInv, AppStateData
  <2>3. ASSUME NEW p \in heard' \ InvalidPids PROVE HeardRight(p)'
    <3>1. CASE p \in heard /\ p \notin right
      BY <2>1, <2>3, <3>1 DEF AppStateInv, HeardRight
    <3>2. CASE p \in fgapplist /\ Foreground(appState[p]) /\ appNotice[p] = NoNotice
      BY <2>1, <3>2 DEF HeardRight, NoNotice
    <3> QED
      BY <2>1, <2>3, <3>1, <3>2
  <2> QED
    BY <2>2, <2>3 DEF AppStateInv
<1>4. ASSUME NEW p \in Pids, Notified(p) PROVE AppStateInv'
  BY <1>4, NoticeArrives
<1>5. ASSUME NEW p \in Pids, AppChanges(p) PROVE AppStateInv'
  BY <1>5, StateOfAppChanges
<1>6. CASE ManagerDies
  BY <1>6 DEF ManagerDies, AppStateInv, AppStateData, AppStates
<1>7. CASE UNCHANGED appStateVars \/ ManagerStarts \/ SubscribesAppState \/ \E p \in Pids : OnlyReported(p)
  BY <1>1, <1>7 DEF ManagerStarts, SubscribesAppState, OnlyReported, appStateVars, managerVars
<1> QED
  BY <1>2, <1>3, <1>4, <1>5, <1>6, <1>7 DEF AppStateNext

LEMMA AppStateStart == AppStateInit => AppStateInv
  BY DEF AppStateInit, AppStateInv, AppStateData, AppStates

LEMMA AppStateGives == AppStateInv => ForegroundKnown
  BY DEF AppStateInv, HeardRight, ForegroundKnown, IsForegroundApp

-----------------------------------------------------------------------------
(* CgroupStates.  Of a queue q of tasks that follow the type s: the last   *)
(* report of p in q says x, and v is x when there is none; and behind      *)
(* place i of q is the task of the death of p.                             *)
Follows(e, s, p) == e.op = s /\ e.pid = p
Says(q, s, p, x, v) ==
  /\ \A i \in 1..Len(q) : Follows(q[i], s, p) /\ (\A j \in 1..Len(q) : j > i => ~Follows(q[j], s, p))
       => q[i].value = x
  /\ (\A i \in 1..Len(q) : ~Follows(q[i], s, p)) => v = x
DeathIn(q, i, p) == \E j \in 1..Len(q) : j > i /\ q[j].op = "died" /\ q[j].pid = p
CreatedThenDied(q, dead) ==
  \A i \in 1..Len(q) : q[i].op = "created" /\ q[i].pid \in dead => DeathIn(q, i, q[i].pid)

LEMMA AppendedAt ==
  ASSUME NEW S, NEW q \in Seq(S), NEW e \in S
  PROVE  /\ Append(q, e) \in Seq(S) /\ Len(Append(q, e)) = Len(q) + 1 /\ Len(q) \in Nat
         /\ \A i \in 1..Len(q) : Append(q, e)[i] = q[i]
         /\ Append(q, e)[Len(q) + 1] = e
  OBVIOUS

LEMMA DroppedAt ==
  ASSUME NEW S, NEW q \in Seq(S), q # <<>>
  PROVE  /\ Tail(q) \in Seq(S) /\ Len(q) \in Nat /\ Len(q) > 0 /\ Len(Tail(q)) = Len(q) - 1
         /\ \A i \in 1..Len(Tail(q)) : i + 1 \in 1..Len(q) /\ Tail(q)[i] = q[i + 1]
         /\ \A j \in 2..Len(q) : j - 1 \in 1..Len(Tail(q)) /\ Tail(q)[j - 1] = q[j]
         /\ Head(q) = q[1] /\ 1 \in 1..Len(q) /\ Head(q) \in S
  OBVIOUS

(* What an addition leaves true.                                           *)
LEMMA SaysAfterOther ==
  ASSUME NEW S, NEW q \in Seq(S), NEW e \in S, NEW s, NEW p, NEW x, NEW v,
         Says(q, s, p, x, v), ~Follows(e, s, p)
  PROVE  Says(Append(q, e), s, p, x, v)
<1> DEFINE r == Append(q, e)
           n == Len(q)
<1>1. n \in Nat /\ Len(r) = n + 1 /\ r[n + 1] = e /\ \A i \in 1..n : r[i] = q[i]
  BY AppendedAt
<1> HIDE DEF r, n
<1>2. ASSUME NEW i \in 1..Len(r), Follows(r[i], s, p), \A j \in 1..Len(r) : j > i => ~Follows(r[j], s, p)
      PROVE  r[i].value = x
  <2>1. i \in 1..n /\ r[i] = q[i]
    BY <1>1, <1>2
  <2>2. \A j \in 1..n : j > i => ~Follows(q[j], s, p)
    BY <1>1, <1>2
  <2> QED
    BY <1>2, <2>1, <2>2 DEF Says, n
<1>3. ASSUME \A i \in 1..Len(r) : ~Follows(r[i], s, p) PROVE v = x
  <2>1. \A i \in 1..n : ~Follows(q[i], s, p)
    BY <1>1, <1>3
  <2> QED
    BY <2>1 DEF Says, n
<1> QED
  BY <1>2, <1>3 DEF Says, r

LEMMA SaysAfterOwn ==
  ASSUME NEW S, NEW q \in Seq(S), NEW e \in S, NEW s, NEW p, NEW v, Follows(e, s, p)
  PROVE  Says(Append(q, e), s, p, e.value, v)
<1> DEFINE r == Append(q, e)
           n == Len(q)
<1>1. n \in Nat /\ Len(r) = n + 1 /\ r[n + 1] = e /\ n + 1 \in 1..Len(r)
  BY AppendedAt
<1> HIDE DEF r, n
<1>2. ASSUME NEW i \in 1..Len(r), \A j \in 1..Len(r) : j > i => ~Follows(r[j], s, p)
      PROVE  r[i].value = e.value
  <2>1. ~(n + 1 > i)
    BY <1>1, <1>2
  <2>2. i = n + 1
    BY <1>1, <2>1
  <2> QED
    BY <1>1, <2>2
<1> QED
  BY <1>1, <1>2 DEF Says, r

(* What the removal of the first leaves true.                              *)
LEMMA SaysWithoutOther ==
  ASSUME NEW S, NEW q \in Seq(S), q # <<>>, NEW s, NEW p, NEW x, NEW v,
         Says(q, s, p, x, v), ~Follows(Head(q), s, p)
  PROVE  Says(Tail(q), s, p, x, v)
<1> DEFINE r == Tail(q)
           n == Len(q)
<1>1. /\ n \in Nat /\ n > 0 /\ Len(r) = n - 1 /\ \A i \in 1..Len(r) : i + 1 \in 1..n /\ r[i] = q[i + 1]
      /\ \A j \in 2..n : j - 1 \in 1..Len(r) /\ r[j - 1] = q[j]
      /\ ~Follows(q[1], s, p)
  BY DroppedAt
<1> HIDE DEF r, n
<1>2. ASSUME NEW i \in 1..Len(r), Follows(r[i], s, p), \A j \in 1..Len(r) : j > i => ~Follows(r[j], s, p)
      PROVE  r[i].value = x
  <2>1. i + 1 \in 1..n /\ r[i] = q[i + 1]
    BY <1>1
  <2>2. ASSUME NEW j \in 1..n, j > i + 1 PROVE ~Follows(q[j], s, p)
    <3>1. j \in 2..n /\ j - 1 > i
      BY <1>1, <2>2
    <3>2. j - 1 \in 1..Len(r) /\ r[j - 1] = q[j]
      BY <1>1, <3>1
    <3> QED
      BY <1>2, <3>1, <3>2
  <2> QED
    BY <1>2, <2>1, <2>2 DEF Says, n
<1>3. ASSUME \A i \in 1..Len(r) : ~Follows(r[i], s, p) PROVE v = x
  <2>1. ASSUME NEW i \in 1..n PROVE ~Follows(q[i], s, p)
    <3>1. CASE i = 1
      BY <1>1, <3>1
    <3>2. CASE i # 1
      <4>1. i \in 2..n
        BY <1>1, <3>2
      <4> QED
        BY <1>1, <1>3, <4>1
    <3> QED
      BY <3>1, <3>2
  <2> QED
    BY <2>1 DEF Says, n
<1> QED
  BY <1>2, <1>3 DEF Says, r

NewerIn(q, s, p) == \E i \in 2..Len(q) : Follows(q[i], s, p)
LEMMA SaysWithoutOwn ==
  ASSUME NEW S, NEW q \in Seq(S), q # <<>>, NEW s, NEW p, NEW x, NEW v, NEW w,
         Says(q, s, p, x, v), Follows(Head(q), s, p),
         NewerIn(q, s, p) \/ w = Head(q).value
  PROVE  Says(Tail(q), s, p, x, w)
<1> DEFINE r == Tail(q)
           n == Len(q)
<1>1. /\ n \in Nat /\ n > 0 /\ Len(r) = n - 1 /\ \A i \in 1..Len(r) : i + 1 \in 1..n /\ r[i] = q[i + 1]
      /\ \A j \in 2..n : j - 1 \in 1..Len(r) /\ r[j - 1] = q[j]
      /\ Follows(q[1], s, p) /\ Head(q) = q[1] /\ 1 \in 1..n
  BY DroppedAt
<1> HIDE DEF r, n
<1>2. ASSUME NEW i \in 1..Len(r), Follows(r[i], s, p), \A j \in 1..Len(r) : j > i => ~Follows(r[j], s, p)
      PROVE  r[i].value = x
  <2>1. i + 1 \in 1..n /\ r[i] = q[i + 1]
    BY <1>1
  <2>2. ASSUME NEW j \in 1..n, j > i + 1 PROVE ~Follows(q[j], s, p)
    <3>1. j \in 2..n /\ j - 1 > i
      BY <1>1, <2>2
    <3>2. j - 1 \in 1..Len(r) /\ r[j - 1] = q[j]
      BY <1>1, <3>1
    <3> QED
      BY <1>2, <3>1, <3>2
  <2> QED
    BY <1>2, <2>1, <2>2 DEF Says, n
<1>3. ASSUME \A i \in 1..Len(r) : ~Follows(r[i], s, p) PROVE w = x
  <2>1. \A j \in 2..n : ~Follows(q[j], s, p)
    BY <1>1, <1>3
  <2>2. w = q[1].value
    BY <1>1, <2>1 DEF NewerIn, n
  <2>3. \A j \in 1..n : j > 1 => ~Follows(q[j], s, p)
    BY <1>1, <2>1
  <2> QED
    BY <1>1, <2>2, <2>3 DEF Says, n
<1> QED
  BY <1>2, <1>3 DEF Says, r

LEMMA DeathsAppended ==
  ASSUME NEW S, NEW q \in Seq(S), NEW e \in S, NEW p, NEW i
  PROVE  /\ DeathIn(q, i, p) => DeathIn(Append(q, e), i, p)
         /\ i \in 0..Len(q) /\ e.op = "died" /\ e.pid = p => DeathIn(Append(q, e), i, p)
<1>1. /\ Len(Append(q, e)) = Len(q) + 1 /\ Len(q) \in Nat /\ Append(q, e)[Len(q) + 1] = e
      /\ \A j \in 1..Len(q) : Append(q, e)[j] = q[j]
  BY AppendedAt
<1>2. \A j \in 1..Len(q) : j \in 1..Len(Append(q, e))
  BY <1>1
<1>3. DeathIn(q, i, p) => DeathIn(Append(q, e), i, p)
  BY <1>1, <1>2 DEF DeathIn
<1>4. ASSUME i \in 0..Len(q), e.op = "died", e.pid = p PROVE DeathIn(Append(q, e), i, p)
  <2>1. Len(q) + 1 \in 1..Len(Append(q, e)) /\ Len(q) + 1 > i
    BY <1>1, <1>4
  <2> QED
    BY <1>1, <1>4, <2>1 DEF DeathIn
<1> QED
  BY <1>3, <1>4

LEMMA DeathsDropped ==
  ASSUME NEW S, NEW q \in Seq(S), q # <<>>, NEW p
  PROVE  /\ \A i \in 1..Len(Tail(q)) : DeathIn(q, i + 1, p) => DeathIn(Tail(q), i, p)
         /\ DeathIn(q, 1, p) => DeathIn(Tail(q), 0, p)
         /\ DeathIn(q, 0, p) => (Head(q).op = "died" /\ Head(q).pid = p) \/ DeathIn(Tail(q), 0, p)
<1> DEFINE r == Tail(q)
           n == Len(q)
<1>1. /\ n \in Nat /\ n > 0 /\ Len(r) = n - 1
      /\ \A j \in 2..n : j - 1 \in 1..Len(r) /\ r[j - 1] = q[j]
      /\ Head(q) = q[1]
  BY DroppedAt
<1> HIDE DEF r, n
<1>2. ASSUME NEW i \in 0..Len(r), DeathIn(q, i + 1, p) PROVE DeathIn(r, i, p)
  <2>1. PICK j \in 1..n : j > i + 1 /\ q[j].op = "died" /\ q[j].pid = p
    BY <1>2 DEF DeathIn, n
  <2>2. j \in 2..n /\ j - 1 > i
    BY <1>1, <2>1
  <2>3. j - 1 \in 1..Len(r) /\ r[j - 1] = q[j]
    BY <1>1, <2>2
  <2> QED
    BY <2>1, <2>2, <2>3 DEF DeathIn
<1>3. \A i \in 1..Len(r) : i \in 0..Len(r)
  BY <1>1
<1>4. 0 \in 0..Len(r) /\ 0 + 1 = 1
  BY <1>1
<1>5. DeathIn(q, 1, p) => DeathIn(r, 0, p)
  BY <1>2, <1>4
<1>6. ASSUME DeathIn(q, 0, p), ~(Head(q).op = "died" /\ Head(q).pid = p) PROVE DeathIn(r, 0, p)
  <2>1. PICK j \in 1..n : j > 0 /\ q[j].op = "died" /\ q[j].pid = p
    BY <1>6 DEF DeathIn, n
  <2>2. j > 1
    BY <1>1, <1>6, <2>1
  <2>3. DeathIn(q, 1, p)
    BY <2>1, <2>2 DEF DeathIn, n
  <2> QED
    BY <1>5, <2>3
<1> QED
  BY <1>2, <1>3, <1>5, <1>6 DEF r

LEMMA CreatedAppended ==
  ASSUME NEW S, NEW q \in Seq(S), NEW e \in S, NEW dead, NEW more, CreatedThenDied(q, dead),
         \A p \in more \ dead : e.op = "died" /\ e.pid = p,
         e.op = "created" => e.pid \notin more
  PROVE  CreatedThenDied(Append(q, e), more)
<1>1. /\ Len(Append(q, e)) = Len(q) + 1 /\ Len(q) \in Nat /\ Append(q, e)[Len(q) + 1] = e
      /\ \A j \in 1..Len(q) : Append(q, e)[j] = q[j]
  BY AppendedAt
<1>2. ASSUME NEW i \in 1..Len(Append(q, e)), Append(q, e)[i].op = "created", Append(q, e)[i].pid \in more
      PROVE  DeathIn(Append(q, e), i, Append(q, e)[i].pid)
  <2>1. i \in 1..Len(q) /\ Append(q, e)[i] = q[i] /\ i \in 0..Len(q)
    BY <1>1, <1>2
  <2>2. CASE q[i].pid \in dead
    <3>1. DeathIn(q, i, q[i].pid)
      BY <1>2, <2>1, <2>2 DEF CreatedThenDied
    <3> QED
      BY <2>1, <3>1, DeathsAppended
  <2>3. CASE q[i].pid \notin dead
    BY <1>2, <2>1, <2>3, DeathsAppended
  <2> QED
    BY <2>2, <2>3
<1> QED
  BY <1>2 DEF CreatedThenDied

LEMMA CreatedDropped ==
  ASSUME NEW S, NEW q \in Seq(S), q # <<>>, NEW dead, CreatedThenDied(q, dead)
  PROVE  CreatedThenDied(Tail(q), dead)
<1>1. \A i \in 1..Len(Tail(q)) : i + 1 \in 1..Len(q) /\ Tail(q)[i] = q[i + 1]
  BY DroppedAt
<1>2. ASSUME NEW i \in 1..Len(Tail(q)), Tail(q)[i].op = "created", Tail(q)[i].pid \in dead
      PROVE  DeathIn(Tail(q), i, Tail(q)[i].pid)
  <2>1. i + 1 \in 1..Len(q) /\ Tail(q)[i] = q[i + 1]
    BY <1>1
  <2>2. DeathIn(q, i + 1, q[i + 1].pid)
    BY <1>2, <2>1 DEF CreatedThenDied
  <2> QED
    BY <2>1, <2>2, DeathsDropped
<1> QED
  BY <1>2 DEF CreatedThenDied

(* A task carries the type that is followed, a record of a process whose   *)
(* death was reported goes with a task that waits, and the last report of  *)
(* a process that is under way says what it is doing, as its record does   *)
(* when none is under way.                                                 *)
CgTasks == [op : TaskOps, pid : CgProcs \cup {AnyProcess}, value : BOOLEAN]
MakesRecords == {"WEBVIEW_VIDEO_STATUS_CHANGE", "CONTINUOUS_TASK", "RUNNINGLOCK_STATE"}
GoneProcs == {p \in CgProcs : cgLife[p] = "gone"}
CgTypes ==
  /\ cgState \in CgStates /\ cgPlugin \in {"on", "stopping", "off"} /\ cgQueue \in Seq(CgTasks)
  /\ cgApp \in BOOLEAN /\ cgRecords \subseteq CgProcs /\ cgMissed \subseteq CgProcs
  /\ cgValue \in [CgProcs -> BOOLEAN] /\ cgTruth \in [CgProcs -> BOOLEAN]
  /\ cgLife \in [CgProcs -> {"new", "started", "told", "dead", "gone"}]
TaskRight(e) ==
  /\ e.op \in CgStates => /\ e.op = cgState /\ e.pid \in CgProcs
                          /\ cgState = "REPORT_SCENE_BOARD" => e.value = TRUE
  /\ e.op \in {"power_mgr", "power_mgr_added"} => cgState = "RUNNINGLOCK_STATE"
  /\ e.op \in {"created", "died"} => e.pid \in CgProcs
  /\ e.op = "died" => e.pid \in GoneProcs
CgTasksRight == \A i \in 1..Len(cgQueue) : TaskRight(cgQueue[i])
CgOff == cgPlugin = "off" => cgQueue = <<>> /\ cgRecords = {} /\ cgApp = FALSE
CgAppRight ==
  /\ cgApp = TRUE /\ cgRecords = {} => cgState \in {"TRANSIENT_TASK", "CONTINUOUS_TASK"}
  /\ cgRecords # {} => cgApp = TRUE
CgDeaths ==
  cgPlugin = "on" /\ cgState \notin MakesRecords =>
    /\ \A p \in cgRecords \cap GoneProcs : DeathIn(cgQueue, 0, p)
    /\ CreatedThenDied(cgQueue, GoneProcs)
CgFollowed ==
  cgPlugin # "stopping" => \A p \in (CgProcs \ cgMissed) \ GoneProcs :
    Says(cgQueue, cgState, p, cgTruth[p], cgValue[p])
CgInv == CgTypes /\ CgTasksRight /\ CgOff /\ CgAppRight /\ CgDeaths /\ CgFollowed

LEMMA AlwaysTaken ==
  ASSUME CgInv
  PROVE  /\ \A v \in BOOLEAN : CgTaken(cgState, v) <=> cgPlugin = "on"
         /\ \A v : CgTaken("PROCESS_STATE_CHANGE", v) <=> cgPlugin = "on"
         /\ \A v : CgTaken("SYSTEM_ABILITY_STATUS_CHANGE", v) <=> cgPlugin = "on"
<1>1. ASSUME NEW v \in BOOLEAN
      PROVE  cgState \in ResTypesCg \/ <<cgState, v>> \in ResTypeWithValCg
  <2>1. cgState \in ResTypesCg \/ cgState = "TRANSIENT_TASK"
    BY DEF CgInv, CgTypes, CgStates, ResTypesCg
  <2>2. <<"TRANSIENT_TASK", v>> \in ResTypeWithValCg
    BY DEF ResTypeWithValCg
  <2> QED
    BY <2>1, <2>2
<1>2. cgState \in DispatchResFuncs \cup AddDispatchResFuncs \cup DispatchOtherResource
  BY DEF CgInv, CgTypes, CgStates, DispatchResFuncs, AddDispatchResFuncs, DispatchOtherResource
<1>3. /\ "PROCESS_STATE_CHANGE" \in ResTypesCg /\ "SYSTEM_ABILITY_STATUS_CHANGE" \in ResTypesCg
      /\ "PROCESS_STATE_CHANGE" \in DispatchResFuncs \cup AddDispatchResFuncs \cup DispatchOtherResource
      /\ "SYSTEM_ABILITY_STATUS_CHANGE" \in DispatchResFuncs \cup AddDispatchResFuncs \cup DispatchOtherResource
  BY DEF ResTypesCg, DispatchResFuncs, AddDispatchResFuncs
<1> QED
  BY <1>1, <1>2, <1>3 DEF CgTaken

(* The handler of a report, for each way to look up a record.              *)
LEMMA HandlerStores ==
  ASSUME CgInv, NEW p \in CgProcs, NEW v \in BOOLEAN, HandleState(p, v), cgState' = cgState,
         cgState = "REPORT_SCENE_BOARD" => v = TRUE
  PROVE  /\ Stored(p, v) \/ CgDropped(p)
         /\ cgApp' \in BOOLEAN /\ cgRecords' \subseteq CgProcs /\ CgAppRight'
         /\ cgState \notin MakesRecords => cgRecords' = cgRecords
<1>1. cgState \in CgStates /\ cgApp \in BOOLEAN /\ cgRecords \subseteq CgProcs /\ CgAppRight
  BY DEF CgInv, CgTypes
<1>2. CASE cgState = "REPORT_SCENE_BOARD"
  <2>1. Stored(p, v) /\ cgApp' = cgApp /\ cgRecords' = cgRecords
    BY <1>2 DEF HandleState, HandleSceneBoardState
  <2> QED
    BY <1>1, <2>1 DEF CgAppRight
<1>3. CASE cgState = "WEBVIEW_VIDEO_STATUS_CHANGE"
  <2>1. HandleReportWebviewVideoState(p, v)
    BY <1>3 DEF HandleState
  <2>2. /\ (Stored(p, v) \/ CgDropped(p)) /\ cgApp' = cgApp
        /\ cgApp = TRUE => cgRecords' = cgRecords \cup {p}
        /\ cgApp = FALSE => cgRecords' = cgRecords
    BY <1>1, <2>1 DEF HandleReportWebviewVideoState
  <2> QED
    BY <1>1, <1>3, <2>1, <2>2 DEF CgAppRight, MakesRecords, HandleReportWebviewVideoState
<1>4. CASE cgState = "TRANSIENT_TASK"
  <2>1. HandleTransientTaskStatus(p, v)
    BY <1>4 DEF HandleState
  <2> QED
    BY <1>1, <1>4, <2>1 DEF CgAppRight, HandleTransientTaskStatus
<1>5. CASE cgState = "CONTINUOUS_TASK"
  <2>1. HandleContinuousTaskStatus(p, v)
    BY <1>5 DEF HandleState
  <2>2. cgApp' = TRUE /\ (Stored(p, v) \/ CgDropped(p)) /\ cgRecords' \subseteq CgProcs
    BY <1>1, <2>1 DEF HandleContinuousTaskStatus
  <2> QED
    BY <1>5, <2>2 DEF CgAppRight, MakesRecords
<1>6. CASE cgState \notin {"REPORT_SCENE_BOARD", "WEBVIEW_VIDEO_STATUS_CHANGE", "TRANSIENT_TASK", "CONTINUOUS_TASK"}
  <2>1. KnownProcess(p, v)
    BY <1>1, <1>6
    DEF HandleState, CgStates, HandleReportRunningLockEvent, HandleReportScreenCaptureEvent,
      UpdateMmiStatus, HandleDrawingContentChangeWindow, HandleReportBluetoothConnectState,
      HandleReportAvCodecEvent, HandleReportHisysEvent
  <2>2. (Stored(p, v) \/ CgDropped(p)) /\ cgApp' = cgApp /\ cgRecords' = cgRecords
    BY <2>1 DEF KnownProcess
  <2> QED
    BY <1>1, <2>2 DEF CgAppRight
<1> QED
  BY <1>2, <1>3, <1>4, <1>5, <1>6

(* A report is handled.                                                    *)
LEMMA ReportHandled ==
  ASSUME CgInv, cgQueue # <<>>, NEW e, e = Head(cgQueue), e.op \in CgStates, HandleState(e.pid, e.value),
         cgQueue' = Tail(cgQueue), UNCHANGED <<cgState, cgPlugin, outsideCg>>
  PROVE  CgInv'
<1>1. /\ cgQueue \in Seq(CgTasks) /\ cgState' = cgState /\ cgPlugin' = cgPlugin /\ cgLife' = cgLife
      /\ cgTruth' = cgTruth /\ GoneProcs' = GoneProcs
  BY DEF CgInv, CgTypes, outsideCg, GoneProcs
<1>2. /\ Tail(cgQueue) \in Seq(CgTasks) /\ e \in CgTasks /\ e = cgQueue[1] /\ 1 \in 1..Len(cgQueue)
      /\ \A i \in 1..Len(Tail(cgQueue)) : i + 1 \in 1..Len(cgQueue) /\ Tail(cgQueue)[i] = cgQueue[i + 1]
  BY <1>1, DroppedAt
<1>3. /\ e.op = cgState /\ e.pid \in CgProcs /\ e.value \in BOOLEAN
      /\ cgState = "REPORT_SCENE_BOARD" => e.value = TRUE
  <2>1. TaskRight(e) /\ e.value \in BOOLEAN
    BY <1>2 DEF CgInv, CgTasksRight, CgTasks
  <2> QED
    BY <2>1 DEF TaskRight
<1>4. /\ Stored(e.pid, e.value) \/ CgDropped(e.pid)
      /\ cgApp' \in BOOLEAN /\ cgRecords' \subseteq CgProcs /\ CgAppRight'
      /\ cgState \notin MakesRecords => cgRecords' = cgRecords
  BY <1>1, <1>3, HandlerStores
<1>5. CgTypes'
  BY <1>1, <1>2, <1>3, <1>4 DEF CgInv, CgTypes, Stored, CgDropped
<1>6. CgTasksRight'
  BY <1>1, <1>2 DEF CgInv, CgTasksRight, TaskRight
<1>7. CgOff'
  BY <1>1 DEF CgInv, CgOff
<1>8. CgDeaths'
  <2> SUFFICES ASSUME cgPlugin = "on", cgState \notin MakesRecords
               PROVE  /\ \A p \in cgRecords \cap GoneProcs : DeathIn(Tail(cgQueue), 0, p)
                      /\ CreatedThenDied(Tail(cgQueue), GoneProcs)
    BY <1>1, <1>4 DEF CgDeaths
  <2>1. /\ \A p \in cgRecords \cap GoneProcs : DeathIn(cgQueue, 0, p)
        /\ CreatedThenDied(cgQueue, GoneProcs)
    BY DEF CgInv, CgDeaths
  <2>2. e.op # "died"
    BY DEF CgStates
  <2>3. CreatedThenDied(Tail(cgQueue), GoneProcs)
    BY <1>1, <2>1, CreatedDropped
  <2> QED
    BY <1>1, <2>1, <2>2, <2>3, DeathsDropped
<1>9. CgFollowed'
  <2> SUFFICES ASSUME cgPlugin # "stopping", NEW p \in (CgProcs \ cgMissed') \ GoneProcs
               PROVE  Says(Tail(cgQueue), cgState, p, cgTruth[p], cgValue'[p])
    BY <1>1 DEF CgFollowed
  <2>1. p \notin cgMissed
    BY <1>4 DEF Stored, CgDropped
  <2>2. Says(cgQueue, cgState, p, cgTruth[p], cgValue[p])
    BY <2>1 DEF CgInv, CgFollowed
  <2>3. CASE p # e.pid
    <3>1. cgValue'[p] = cgValue[p] /\ ~Follows(e, cgState, p)
      BY <1>4, <2>3 DEF Stored, CgDropped, CgInv, CgTypes, Follows
    <3> QED
      BY <1>1, <2>2, <3>1, SaysWithoutOther
  <2>4. CASE p = e.pid
    <3>1. Follows(e, cgState, p)
      BY <1>3, <2>4 DEF Follows
    <3>2. NewerIn(cgQueue, cgState, p) \/ cgValue'[p] = e.value
      <4>1. CASE Stored(e.pid, e.value)
        BY <1>3, <2>4, <4>1 DEF Stored, CgInv, CgTypes
      <4>2. CASE CgDropped(e.pid)
        BY <2>4, <4>2 DEF CgDropped, Newer, NewerIn, Follows
      <4> QED
        BY <1>4, <4>1, <4>2
    <3> QED
      BY <1>1, <2>2, <3>1, <3>2, SaysWithoutOwn
  <2> QED
    BY <2>3, <2>4
<1> QED
  BY <1>4, <1>5, <1>6, <1>7, <1>8, <1>9 DEF CgInv

(* A task that is not a report is done.                                    *)
LEMMA TaskDropped ==
  ASSUME CgInv, cgQueue # <<>>, NEW e, e = Head(cgQueue), e.op \notin CgStates,
         UNCHANGED <<cgState, cgPlugin, outsideCg>>
  PROVE  /\ Tail(cgQueue) \in Seq(CgTasks) /\ e \in CgTasks /\ TaskRight(e) /\ GoneProcs' = GoneProcs
         /\ \A i \in 1..Len(Tail(cgQueue)) : TaskRight(Tail(cgQueue)[i])
         /\ cgPlugin # "off"
         /\ cgPlugin = "on" /\ cgState \notin MakesRecords =>
              /\ \A p \in cgRecords \cap GoneProcs : ~(e.op = "died" /\ e.pid = p) => DeathIn(Tail(cgQueue), 0, p)
              /\ CreatedThenDied(Tail(cgQueue), GoneProcs)
              /\ e.op = "created" /\ e.pid \in GoneProcs => DeathIn(Tail(cgQueue), 0, e.pid)
         /\ cgPlugin # "stopping" => \A p \in (CgProcs \ cgMissed) \ GoneProcs :
              Says(Tail(cgQueue), cgState, p, cgTruth[p], cgValue[p])
<1>1. cgQueue \in Seq(CgTasks) /\ GoneProcs' = GoneProcs /\ cgState \in CgStates
  BY DEF CgInv, CgTypes, outsideCg, GoneProcs
<1>2. /\ Tail(cgQueue) \in Seq(CgTasks) /\ e \in CgTasks /\ e = cgQueue[1] /\ 1 \in 1..Len(cgQueue)
      /\ \A i \in 1..Len(Tail(cgQueue)) : i + 1 \in 1..Len(cgQueue) /\ Tail(cgQueue)[i] = cgQueue[i + 1]
  BY <1>1, DroppedAt
<1>3. TaskRight(e) /\ (\A i \in 1..Len(Tail(cgQueue)) : TaskRight(Tail(cgQueue)[i])) /\ cgPlugin # "off"
  BY <1>2 DEF CgInv, CgTasksRight, CgOff
<1>4. ASSUME cgPlugin = "on", cgState \notin MakesRecords
      PROVE  /\ \A p \in cgRecords \cap GoneProcs : ~(e.op = "died" /\ e.pid = p) => DeathIn(Tail(cgQueue), 0, p)
             /\ CreatedThenDied(Tail(cgQueue), GoneProcs)
             /\ e.op = "created" /\ e.pid \in GoneProcs => DeathIn(Tail(cgQueue), 0, e.pid)
  <2>1. /\ \A p \in cgRecords \cap GoneProcs : DeathIn(cgQueue, 0, p)
        /\ CreatedThenDied(cgQueue, GoneProcs)
    BY <1>4 DEF CgInv, CgDeaths
  <2>2. e.op = "created" /\ e.pid \in GoneProcs => DeathIn(cgQueue, 1, e.pid)
    BY <1>2, <2>1 DEF CreatedThenDied
  <2>3. \A p \in cgRecords \cap GoneProcs : ~(e.op = "died" /\ e.pid = p) => DeathIn(Tail(cgQueue), 0, p)
    BY <1>1, <2>1, DeathsDropped
  <2>4. e.op = "created" /\ e.pid \in GoneProcs => DeathIn(Tail(cgQueue), 0, e.pid)
    BY <1>1, <2>2, DeathsDropped
  <2>5. CreatedThenDied(Tail(cgQueue), GoneProcs)
    BY <1>1, <2>1, CreatedDropped
  <2> QED
    BY <2>3, <2>4, <2>5
<1>5. ASSUME cgPlugin # "stopping", NEW p \in (CgProcs \ cgMissed) \ GoneProcs
      PROVE  Says(Tail(cgQueue), cgState, p, cgTruth[p], cgValue[p])
  <2>1. Says(cgQueue, cgState, p, cgTruth[p], cgValue[p])
    BY <1>5 DEF CgInv, CgFollowed
  <2>2. ~Follows(e, cgState, p)
    BY <1>1 DEF Follows
  <2> QED
    BY <1>1, <2>1, <2>2, SaysWithoutOther
<1> QED
  BY <1>1, <1>2, <1>3, <1>4, <1>5

(* ReportAbilityStatus posts a further task.                               *)
LEMMA AbilityTaskPosted ==
  ASSUME CgInv, cgQueue # <<>>, NEW e, e = Head(cgQueue), e.op \in {"app_mgr", "power_mgr"},
         CgReportAbilityStatus(e, Tail(cgQueue)), UNCHANGED <<cgState, cgPlugin, outsideCg>>
  PROVE  CgInv'
<1> DEFINE r == Tail(cgQueue)
           a == Task(IF e.op = "app_mgr" THEN "app_mgr_added" ELSE "power_mgr_added", e.pid, TRUE)
<1>1. /\ cgQueue' = Append(r, a) /\ cgState' = cgState /\ cgPlugin' = cgPlugin /\ cgLife' = cgLife
      /\ cgTruth' = cgTruth /\ cgApp' = cgApp /\ cgRecords' = cgRecords /\ cgValue' = cgValue /\ cgMissed' = cgMissed
  BY DEF CgReportAbilityStatus, recordsCg, outsideCg
<1>2. e.op \notin CgStates
  BY DEF CgStates
<1>3. /\ r \in Seq(CgTasks) /\ e \in CgTasks /\ TaskRight(e) /\ GoneProcs' = GoneProcs
      /\ \A i \in 1..Len(r) : TaskRight(r[i])
      /\ cgPlugin # "off"
  BY <1>2, TaskDropped
<1>4. cgPlugin = "on" /\ cgState \notin MakesRecords =>
              /\ \A p \in cgRecords \cap GoneProcs : DeathIn(r, 0, p)
              /\ CreatedThenDied(r, GoneProcs)
  BY <1>2, TaskDropped
<1>5. cgPlugin # "stopping" => \A p \in (CgProcs \ cgMissed) \ GoneProcs :
              Says(r, cgState, p, cgTruth[p], cgValue[p])
  BY <1>2, TaskDropped
<1>6. a.op \in {"app_mgr_added", "power_mgr_added"} /\ a \in CgTasks /\ TaskRight(a)
  BY <1>3 DEF CgTasks, TaskOps, TaskRight, CgStates, Task
<1> HIDE DEF r, a
<1>7. /\ Append(r, a) \in Seq(CgTasks) /\ Len(Append(r, a)) = Len(r) + 1 /\ Len(r) \in Nat
      /\ \A i \in 1..Len(r) : Append(r, a)[i] = r[i]
      /\ Append(r, a)[Len(r) + 1] = a
  BY <1>3, <1>6, AppendedAt
<1>8. CgTypes'
  BY <1>1, <1>7 DEF CgInv, CgTypes
<1>9. CgTasksRight'
  <2>1. \A i \in 1..Len(Append(r, a)) : TaskRight(Append(r, a)[i])
    BY <1>3, <1>6, <1>7
  <2> QED
    BY <1>1, <1>3, <2>1 DEF CgTasksRight, TaskRight
<1>10. CgOff' /\ CgAppRight'
  BY <1>1, <1>3 DEF CgInv, CgOff, CgAppRight
<1>11. CgDeaths'
  <2>1. a.op # "created"
    BY <1>6
  <2> QED
    BY <1>1, <1>3, <1>4, <1>6, <2>1, DeathsAppended, CreatedAppended DEF CgDeaths
<1>12. CgFollowed'
  <2>1. \A p : ~Follows(a, cgState, p)
    BY <1>6 DEF Follows, CgInv, CgTypes, CgStates
  <2> QED
    BY <1>1, <1>3, <1>5, <1>6, <2>1, SaysAfterOther DEF CgFollowed
<1> QED
  BY <1>8, <1>9, <1>10, <1>11, <1>12 DEF CgInv

(* The other tasks: a record is made or removed, locks are read.           *)
LEMMA OtherTaskDone ==
  ASSUME CgInv, cgQueue # <<>>, NEW e, e = Head(cgQueue), e.op \notin CgStates,
         cgQueue' = Tail(cgQueue), UNCHANGED <<cgState, cgPlugin, outsideCg>>,
         cgApp' \in BOOLEAN, cgRecords' \subseteq CgProcs, cgMissed' \subseteq cgMissed,
         cgValue' \in [CgProcs -> BOOLEAN], CgAppRight',
         cgState \notin MakesRecords => \A p \in cgRecords' \cap GoneProcs :
           \/ p \in cgRecords /\ ~(e.op = "died" /\ e.pid = p)
           \/ e.op = "created" /\ e.pid = p,
         \A p \in (CgProcs \ cgMissed') \ GoneProcs :
           Says(Tail(cgQueue), cgState, p, cgTruth[p], cgValue[p]) \/ p \in cgMissed =>
             Says(Tail(cgQueue), cgState, p, cgTruth[p], cgValue'[p])
  PROVE  CgInv'
<1>1. /\ Tail(cgQueue) \in Seq(CgTasks) /\ GoneProcs' = GoneProcs
      /\ \A i \in 1..Len(Tail(cgQueue)) : TaskRight(Tail(cgQueue)[i])
      /\ cgPlugin # "off"
  BY TaskDropped
<1>2. cgState' = cgState /\ cgPlugin' = cgPlugin /\ cgLife' = cgLife /\ cgTruth' = cgTruth
  BY DEF outsideCg
<1>3. CgTypes'
  BY <1>1, <1>2 DEF CgInv, CgTypes
<1>4. CgTasksRight'
  BY <1>1, <1>2 DEF CgTasksRight, TaskRight
<1>5. CgOff'
  BY <1>1, <1>2 DEF CgOff
<1>6. CgDeaths'
  <2> SUFFICES ASSUME cgPlugin = "on", cgState \notin MakesRecords
               PROVE  /\ \A p \in cgRecords' \cap GoneProcs : DeathIn(Tail(cgQueue), 0, p)
                      /\ CreatedThenDied(Tail(cgQueue), GoneProcs)
    BY <1>1, <1>2 DEF CgDeaths
  <2>1. /\ \A p \in cgRecords \cap GoneProcs : ~(e.op = "died" /\ e.pid = p) => DeathIn(Tail(cgQueue), 0, p)
        /\ CreatedThenDied(Tail(cgQueue), GoneProcs)
        /\ e.op = "created" /\ e.pid \in GoneProcs => DeathIn(Tail(cgQueue), 0, e.pid)
    BY TaskDropped
  <2> QED
    BY <2>1
<1>7. CgFollowed'
  <2> SUFFICES ASSUME cgPlugin # "stopping", NEW p \in (CgProcs \ cgMissed') \ GoneProcs
               PROVE  Says(Tail(cgQueue), cgState, p, cgTruth[p], cgValue'[p])
    BY <1>1, <1>2 DEF CgFollowed
  <2>1. p \in cgMissed \/ Says(Tail(cgQueue), cgState, p, cgTruth[p], cgValue[p])
    BY TaskDropped
  <2> QED
    BY <2>1
<1> QED
  BY <1>3, <1>4, <1>5, <1>6, <1>7 DEF CgInv

LEMMA SaysOfValue ==
  ASSUME NEW q, NEW s, NEW p, NEW x, NEW v, NEW w, Says(q, s, p, x, v), v = x => w = x
  PROVE  Says(q, s, p, x, w)
  BY DEF Says

(* The serial queue runs a task.                                           *)
LEMMA TaskRuns ==
  ASSUME CgInv, RunTask
  PROVE  CgInv'
<1> DEFINE e == Head(cgQueue)
<1>1. cgQueue # <<>> /\ UNCHANGED <<cgState, cgPlugin, outsideCg>>
  BY DEF RunTask
<1>2. /\ cgApp \in BOOLEAN /\ cgRecords \subseteq CgProcs /\ CgAppRight /\ cgValue \in [CgProcs -> BOOLEAN]
      /\ cgTruth \in [CgProcs -> BOOLEAN] /\ cgQueue \in Seq(CgTasks)
  BY DEF CgInv, CgTypes
<1>3. TaskRight(e)
  <2>1. e = cgQueue[1] /\ 1 \in 1..Len(cgQueue)
    BY <1>1, <1>2, DroppedAt
  <2> QED
    BY <2>1 DEF CgInv, CgTasksRight
<1>4. CASE e.op \in {"app_mgr", "power_mgr"} /\ CgReportAbilityStatus(e, Tail(cgQueue))
  BY <1>1, <1>4, AbilityTaskPosted
<1>5. CASE e.op = "app_mgr_added" /\ InitSuperVisorContent /\ cgQueue' = Tail(cgQueue)
  <2>1. e.op \notin CgStates
    BY <1>5 DEF CgStates
  <2>2. /\ cgRecords' = cgRecords \cup Alive /\ cgApp' = (cgApp \/ Alive # {})
        /\ cgValue' = cgValue /\ cgMissed' = cgMissed /\ cgState' = cgState
    BY <1>1, <1>5 DEF InitSuperVisorContent
  <2>3. Alive \subseteq CgProcs /\ \A p \in Alive : p \notin GoneProcs
    BY DEF Alive, GoneProcs
  <2>4. cgApp' \in BOOLEAN /\ CgAppRight'
    BY <1>2, <2>2 DEF CgAppRight
  <2> HIDE DEF e
  <2> QED
    BY <1>1, <1>2, <1>5, <2>1, <2>2, <2>3, <2>4, OtherTaskDone DEF e
<1>6. CASE e.op = "power_mgr_added" /\ GetRunningLockState /\ cgQueue' = Tail(cgQueue)
  <2> DEFINE locked == {p \in CgProcs : cgTruth[p]}
  <2>1. e.op \notin CgStates /\ cgState = "RUNNINGLOCK_STATE" /\ cgState \in MakesRecords
    BY <1>3, <1>6 DEF CgStates, TaskRight, MakesRecords
  <2>2. /\ cgRecords' = cgRecords \cup locked /\ cgApp' = (cgApp \/ locked # {})
        /\ cgValue' = [p \in CgProcs |-> p \in locked \/ cgValue[p]]
        /\ cgMissed' = cgMissed \ {p \in locked : ~Newer(p)} /\ cgState' = cgState
    BY <1>1, <1>6 DEF GetRunningLockState
  <2>3. cgApp' \in BOOLEAN /\ CgAppRight' /\ cgRecords' \subseteq CgProcs
    BY <1>2, <2>2 DEF CgAppRight
  <2>4. ASSUME NEW p \in (CgProcs \ cgMissed') \ GoneProcs,
               Says(Tail(cgQueue), cgState, p, cgTruth[p], cgValue[p]) \/ p \in cgMissed
        PROVE  Says(Tail(cgQueue), cgState, p, cgTruth[p], cgValue'[p])
    <3>1. CASE p \notin cgMissed
      <4>1. cgValue[p] = cgTruth[p] => cgValue'[p] = cgTruth[p]
        BY <1>2, <2>2
      <4> QED
        BY <2>4, <3>1, <4>1, SaysOfValue
    <3>2. CASE p \in cgMissed
      <4>1. cgTruth[p] = TRUE /\ cgValue'[p] = TRUE /\ ~Newer(p)
        BY <1>2, <2>2, <2>4, <3>2
      <4>2. \A i \in 1..Len(Tail(cgQueue)) : i + 1 \in 2..Len(cgQueue) /\ Tail(cgQueue)[i] = cgQueue[i + 1]
        BY <1>1, <1>2, DroppedAt
      <4>3. \A i \in 1..Len(Tail(cgQueue)) : ~Follows(Tail(cgQueue)[i], cgState, p)
        BY <4>1, <4>2 DEF Newer, Follows
      <4> QED
        BY <4>1, <4>3 DEF Says
    <3> QED
      BY <3>1, <3>2
  <2>5. cgValue' \in [CgProcs -> BOOLEAN] /\ cgMissed' \subseteq cgMissed
    BY <1>2, <2>2
  <2> HIDE DEF e
  <2> QED
    BY <1>1, <1>6, <2>1, <2>3, <2>4, <2>5, OtherTaskDone DEF e
<1>7. CASE e.op = "created" /\ ProcessCreated(e.pid) /\ cgQueue' = Tail(cgQueue)
  <2>1. e.op \notin CgStates /\ e.pid \in CgProcs
    BY <1>3, <1>7 DEF CgStates, TaskRight
  <2>2. /\ cgRecords' = cgRecords \cup {e.pid} /\ cgApp' = TRUE
        /\ cgValue' = cgValue /\ cgMissed' = cgMissed
    BY <1>7 DEF ProcessCreated
  <2>3. CgAppRight'
    BY <2>2 DEF CgAppRight
  <2>4. \A p \in cgRecords' \cap GoneProcs : p \in cgRecords \/ e.pid = p
    BY <2>2
  <2>5. e.op # "died"
    BY <1>7
  <2> HIDE DEF e
  <2> QED
    BY <1>1, <1>2, <1>7, <2>1, <2>2, <2>3, <2>4, <2>5, OtherTaskDone DEF e
<1>8. CASE e.op = "died" /\ ProcessDied(e.pid) /\ cgQueue' = Tail(cgQueue)
  <2>1. e.op \notin CgStates /\ e.pid \in GoneProcs
    BY <1>3, <1>8 DEF CgStates, TaskRight
  <2>2. /\ cgRecords' = cgRecords \ {e.pid} /\ cgApp' = (cgRecords' # {}) /\ cgMissed' = cgMissed
        /\ cgValue' = [cgValue EXCEPT ![e.pid] = cgValue[e.pid] /\ ~cgApp]
    BY <1>8 DEF ProcessDied
  <2>3. CgAppRight' /\ cgApp' \in BOOLEAN /\ cgRecords' \subseteq CgProcs
    BY <1>2, <2>2 DEF CgAppRight
  <2>4. cgValue' \in [CgProcs -> BOOLEAN] /\ \A p \in CgProcs \ GoneProcs : cgValue'[p] = cgValue[p]
    BY <1>2, <2>1, <2>2
  <2>5. \A p \in cgRecords' \cap GoneProcs : p \in cgRecords /\ ~(e.op = "died" /\ e.pid = p)
    BY <2>2
  <2>6. \A p \in (CgProcs \ cgMissed') \ GoneProcs : p \notin cgMissed /\ cgValue'[p] = cgValue[p]
    BY <2>2, <2>4
  <2> HIDE DEF e
  <2> QED
    BY <1>1, <1>8, <2>1, <2>2, <2>3, <2>4, <2>5, <2>6, OtherTaskDone DEF e
<1>9. CASE e.op \in CgStates /\ HandleState(e.pid, e.value) /\ cgQueue' = Tail(cgQueue)
  BY <1>1, <1>9, ReportHandled
<1> QED
  BY <1>4, <1>5, <1>6, <1>7, <1>8, <1>9
  DEF RunTask, HandleAbilityAdded, HandleProcessStateChangedEx

(* What happens outside: a task is posted, or none.                        *)
LEMMA TaskRightStays ==
  ASSUME NEW e, TaskRight(e), cgState' = cgState, GoneProcs \subseteq GoneProcs'
  PROVE  TaskRight(e)'
  BY DEF TaskRight

LEMMA OutsidePosts ==
  ASSUME CgInv, CgTypes', UNCHANGED <<cgState, cgPlugin, cgApp, cgRecords, cgValue>>, NEW a \in CgTasks,
         cgQueue' = IF cgPlugin = "on" THEN Append(cgQueue, a) ELSE cgQueue, TaskRight(a)',
         GoneProcs \subseteq GoneProcs', \A p \in GoneProcs' \ GoneProcs : a.op = "died" /\ a.pid = p,
         a.op = "created" => a.pid \notin GoneProcs',
         \A p \in (CgProcs \ cgMissed') \ GoneProcs' :
           \/ p \notin cgMissed /\ cgTruth'[p] = cgTruth[p] /\ ~Follows(a, cgState, p)
           \/ cgPlugin = "on" /\ Follows(a, cgState, p) /\ a.value = cgTruth'[p]
  PROVE  CgInv'
<1>1. cgQueue \in Seq(CgTasks) /\ cgState' = cgState /\ cgPlugin' = cgPlugin
  BY DEF CgInv, CgTypes
<1>2. \A i \in 1..Len(cgQueue) : TaskRight(cgQueue[i])
  BY DEF CgInv, CgTasksRight
<1>3. CgOff' /\ CgAppRight'
  BY <1>1 DEF CgInv, CgOff, CgAppRight
<1>4. CASE cgPlugin = "on"
  <2> DEFINE q == Append(cgQueue, a)
  <2>1. cgQueue' = q
    BY <1>4
  <2>2. /\ Len(q) = Len(cgQueue) + 1 /\ Len(cgQueue) \in Nat /\ q[Len(cgQueue) + 1] = a
        /\ \A i \in 1..Len(cgQueue) : q[i] = cgQueue[i]
    BY <1>1, AppendedAt
  <2>3. CgTasksRight'
    <3>1. ASSUME NEW i \in 1..Len(q) PROVE TaskRight(q[i])'
      <4>1. CASE i \in 1..Len(cgQueue)
        <5>1. PICK x : x = cgQueue[i]
          OBVIOUS
        <5>2. TaskRight(x) /\ q[i] = x
          BY <1>2, <2>2, <4>1, <5>1
        <5>3. TaskRight(x)'
          BY <1>1, <5>2, TaskRightStays
        <5> QED
          BY <2>1, <2>2, <4>1, <5>1, <5>2, <5>3
      <4>2. CASE i = Len(cgQueue) + 1
        BY <2>2, <4>2
      <4> QED
        BY <2>2, <4>1, <4>2
    <3> QED
      BY <2>1, <3>1 DEF CgTasksRight
  <2>4. CgDeaths'
    <3> SUFFICES ASSUME cgState \notin MakesRecords
                 PROVE  /\ \A p \in cgRecords \cap GoneProcs' : DeathIn(q, 0, p)
                        /\ CreatedThenDied(q, GoneProcs')
      BY <1>1, <2>1 DEF CgDeaths
    <3>1. /\ \A p \in cgRecords \cap GoneProcs : DeathIn(cgQueue, 0, p)
          /\ CreatedThenDied(cgQueue, GoneProcs)
      BY <1>4 DEF CgInv, CgDeaths
    <3>2. 0 \in 0..Len(cgQueue)
      BY <2>2
    <3>3. ASSUME NEW p \in cgRecords \cap GoneProcs' PROVE DeathIn(q, 0, p)
      BY <1>1, <3>1, <3>2, DeathsAppended
    <3>4. CreatedThenDied(q, GoneProcs')
      BY <1>1, <3>1, CreatedAppended
    <3> QED
      BY <3>3, <3>4
  <2>5. CgFollowed'
    <3> SUFFICES ASSUME NEW p \in (CgProcs \ cgMissed') \ GoneProcs'
                 PROVE  Says(q, cgState, p, cgTruth'[p], cgValue[p])
      BY <1>1, <2>1 DEF CgFollowed
    <3>1. CASE p \notin cgMissed /\ cgTruth'[p] = cgTruth[p] /\ ~Follows(a, cgState, p)
      <4>1. Says(cgQueue, cgState, p, cgTruth[p], cgValue[p])
        BY <1>4, <3>1 DEF CgInv, CgFollowed
      <4> QED
        BY <1>1, <3>1, <4>1, SaysAfterOther
    <3>2. CASE Follows(a, cgState, p) /\ a.value = cgTruth'[p]
      BY <1>1, <3>2, SaysAfterOwn
    <3> QED
      BY <3>1, <3>2
  <2> QED
    BY <1>3, <2>3, <2>4, <2>5 DEF CgInv
<1>5. CASE cgPlugin # "on"
  <2>1. cgQueue' = cgQueue
    BY <1>5
  <2>2. CgTasksRight'
    <3>1. ASSUME NEW i \in 1..Len(cgQueue) PROVE TaskRight(cgQueue[i])'
      <4>1. PICK x : x = cgQueue[i]
        OBVIOUS
      <4>2. TaskRight(x)
        BY <1>2, <4>1
      <4>3. TaskRight(x)'
        BY <1>1, <4>2, TaskRightStays
      <4> QED
        BY <2>1, <4>1, <4>3
    <3> QED
      BY <2>1, <3>1 DEF CgTasksRight
  <2>3. CgDeaths'
    BY <1>1, <1>5 DEF CgDeaths
  <2>4. CgFollowed'
    <3> SUFFICES ASSUME cgPlugin # "stopping", NEW p \in (CgProcs \ cgMissed') \ GoneProcs'
                 PROVE  Says(cgQueue, cgState, p, cgTruth'[p], cgValue[p])
      BY <1>1, <2>1 DEF CgFollowed
    <3> QED
      BY <1>5 DEF CgInv, CgFollowed
  <2> QED
    BY <1>3, <2>2, <2>3, <2>4 DEF CgInv
<1> QED
  BY <1>4, <1>5

LEMMA OutsideQuiet ==
  ASSUME CgInv, CgTypes', UNCHANGED <<cgState, cgPlugin, cgApp, cgRecords, cgValue, cgQueue>>,
         GoneProcs' = GoneProcs,
         \A p \in (CgProcs \ cgMissed') \ GoneProcs : p \notin cgMissed /\ cgTruth'[p] = cgTruth[p]
  PROVE  CgInv'
<1>1. /\ cgState' = cgState /\ cgPlugin' = cgPlugin /\ cgQueue' = cgQueue /\ cgRecords' = cgRecords
      /\ cgApp' = cgApp /\ cgValue' = cgValue
  OBVIOUS
<1>2. CgTasksRight'
  BY <1>1 DEF CgInv, CgTasksRight, TaskRight
<1>3. CgOff' /\ CgAppRight'
  BY <1>1 DEF CgInv, CgOff, CgAppRight
<1>4. CgDeaths'
  BY <1>1 DEF CgInv, CgDeaths
<1>5. CgFollowed'
  <2> SUFFICES ASSUME cgPlugin # "stopping", NEW p \in (CgProcs \ cgMissed') \ GoneProcs
               PROVE  Says(cgQueue, cgState, p, cgTruth'[p], cgValue[p])
    BY <1>1 DEF CgFollowed
  <2>1. p \notin cgMissed /\ cgTruth'[p] = cgTruth[p]
    OBVIOUS
  <2>2. Says(cgQueue, cgState, p, cgTruth[p], cgValue[p])
    BY <2>1 DEF CgInv, CgFollowed
  <2> QED
    BY <2>1, <2>2
<1> QED
  BY <1>2, <1>3, <1>4, <1>5 DEF CgInv

LEMMA PostedSeq ==
  ASSUME CgInv, NEW a \in CgTasks, cgQueue' = IF cgPlugin = "on" THEN Append(cgQueue, a) ELSE cgQueue
  PROVE  cgQueue' \in Seq(CgTasks)
<1>1. cgQueue \in Seq(CgTasks)
  BY DEF CgInv, CgTypes
<1>2. Append(cgQueue, a) \in Seq(CgTasks)
  BY <1>1, AppendedAt
<1> QED
  BY <1>1, <1>2

LEMMA StateTold ==
  ASSUME CgInv, NEW p \in CgProcs, NEW v \in BOOLEAN, NEW ok \in BOOLEAN, StateChanges(p, v, ok)
  PROVE  CgInv'
<1> DEFINE a == Task(cgState, p, v)
<1>1. /\ cgState \in CgStates /\ cgPlugin \in {"on", "stopping", "off"} /\ cgQueue \in Seq(CgTasks)
      /\ cgApp \in BOOLEAN /\ cgRecords \subseteq CgProcs /\ cgMissed \subseteq CgProcs
      /\ cgValue \in [CgProcs -> BOOLEAN] /\ cgTruth \in [CgProcs -> BOOLEAN]
      /\ cgLife \in [CgProcs -> {"new", "started", "told", "dead", "gone"}]
  BY DEF CgInv, CgTypes
<1>2. /\ UNCHANGED <<cgState, cgPlugin, cgApp, cgRecords, cgValue>> /\ cgLife' = cgLife
      /\ cgTruth' = [cgTruth EXCEPT ![p] = v]
      /\ cgState = "REPORT_SCENE_BOARD" => v = TRUE
  BY DEF StateChanges
<1>3. GoneProcs' = GoneProcs
  BY <1>2 DEF GoneProcs
<1>4. cgTruth' \in [CgProcs -> BOOLEAN] /\ cgTruth'[p] = v /\ \A r \in CgProcs : r # p => cgTruth'[r] = cgTruth[r]
  BY <1>1, <1>2
<1>5. CASE ok = FALSE
  <2>1. cgQueue' = cgQueue /\ cgMissed' = cgMissed \cup {p}
    BY <1>5 DEF StateChanges
  <2>2. CgTypes'
    BY <1>1, <1>2, <1>4, <2>1 DEF CgTypes
  <2> QED
    BY <1>2, <1>3, <1>4, <2>1, <2>2, OutsideQuiet
<1>6. CASE ok = TRUE
  <2>1. CgDispatchResource(cgState, a, v) /\ cgMissed' = IF cgPlugin = "on" THEN cgMissed \ {p} ELSE cgMissed \cup {p}
    BY <1>6 DEF StateChanges
  <2>2. cgQueue' = IF cgPlugin = "on" THEN Append(cgQueue, a) ELSE cgQueue
    BY <2>1, AlwaysTaken DEF CgDispatchResource
  <2>3. a \in CgTasks /\ a.op = cgState /\ a.pid = p /\ a.value = v
    BY <1>1 DEF CgTasks, Task, TaskOps
  <2> HIDE DEF a
  <2>4. CgTypes'
    <3>1. cgQueue' \in Seq(CgTasks)
      BY <2>2, <2>3, PostedSeq
    <3> QED
      BY <1>1, <1>2, <1>4, <2>1, <3>1 DEF CgTypes
  <2>5. \A r : Follows(a, cgState, r) <=> p = r
    BY <2>3 DEF Follows
  <2>6. PICK b : b = a
    OBVIOUS
  <2>7. TaskRight(b)'
    BY <1>1, <1>2, <2>3, <2>6 DEF TaskRight, CgStates
  <2>8. b.op # "created" /\ b.op # "died"
    BY <1>1, <2>3, <2>6 DEF CgStates
  <2>9. ASSUME NEW r \in (CgProcs \ cgMissed') \ GoneProcs'
        PROVE  \/ r \notin cgMissed /\ cgTruth'[r] = cgTruth[r] /\ ~Follows(b, cgState, r)
               \/ cgPlugin = "on" /\ Follows(b, cgState, r) /\ b.value = cgTruth'[r]
    BY <1>4, <2>1, <2>3, <2>5, <2>6, <2>9
  <2>10. b \in CgTasks /\ cgQueue' = IF cgPlugin = "on" THEN Append(cgQueue, b) ELSE cgQueue
    BY <2>2, <2>3, <2>6
  <2> QED
    BY <1>2, <1>3, <2>4, <2>7, <2>8, <2>9, <2>10, OutsidePosts
<1> QED
  BY <1>5, <1>6

LEMMA LifeTold ==
  ASSUME CgInv, NEW p \in CgProcs, LifeReported(p)
  PROVE  CgInv'
<1>1. /\ cgState \in CgStates /\ cgPlugin \in {"on", "stopping", "off"} /\ cgQueue \in Seq(CgTasks)
      /\ cgApp \in BOOLEAN /\ cgRecords \subseteq CgProcs /\ cgMissed \subseteq CgProcs
      /\ cgValue \in [CgProcs -> BOOLEAN] /\ cgTruth \in [CgProcs -> BOOLEAN]
      /\ cgLife \in [CgProcs -> {"new", "started", "told", "dead", "gone"}]
  BY DEF CgInv, CgTypes
<1>2. /\ UNCHANGED <<cgState, cgPlugin, cgApp, cgRecords, cgValue>>
      /\ cgTruth' = cgTruth /\ cgMissed' = cgMissed
  BY DEF LifeReported, recordsCg
<1>3. PICK b \in CgTasks :
        /\ cgQueue' = IF cgPlugin = "on" THEN Append(cgQueue, b) ELSE cgQueue
        /\ cgLife' \in [CgProcs -> {"new", "started", "told", "dead", "gone"}]
        /\ \/ b.op = "created" /\ b.pid = p /\ GoneProcs' = GoneProcs /\ p \notin GoneProcs
           \/ b.op = "died" /\ b.pid = p /\ GoneProcs' = GoneProcs \cup {p}
  <2>1. CASE cgLife[p] = "started"
    <3> DEFINE c == Task("created", p, TRUE)
    <3>1. cgLife' = [cgLife EXCEPT ![p] = "told"] /\ CgDispatchResource("PROCESS_STATE_CHANGE", c, TRUE)
      BY <2>1 DEF LifeReported
    <3>2. cgQueue' = IF cgPlugin = "on" THEN Append(cgQueue, c) ELSE cgQueue
      BY <3>1, AlwaysTaken DEF CgDispatchResource
    <3>3. c \in CgTasks /\ c.op = "created" /\ c.pid = p
      BY DEF CgTasks, Task, TaskOps
    <3>4. GoneProcs' = GoneProcs /\ p \notin GoneProcs
      BY <1>1, <2>1, <3>1 DEF GoneProcs
    <3>5. cgLife' \in [CgProcs -> {"new", "started", "told", "dead", "gone"}]
      BY <1>1, <3>1
    <3> HIDE DEF c
    <3> QED
      BY <3>2, <3>3, <3>4, <3>5
  <2>2. CASE cgLife[p] = "dead"
    <3> DEFINE c == Task("died", p, FALSE)
    <3>1. cgLife' = [cgLife EXCEPT ![p] = "gone"] /\ CgDispatchResource("PROCESS_STATE_CHANGE", c, FALSE)
      BY <2>2 DEF LifeReported
    <3>2. cgQueue' = IF cgPlugin = "on" THEN Append(cgQueue, c) ELSE cgQueue
      BY <3>1, AlwaysTaken DEF CgDispatchResource
    <3>3. c \in CgTasks /\ c.op = "died" /\ c.pid = p
      BY DEF CgTasks, Task, TaskOps
    <3>4. GoneProcs' = GoneProcs \cup {p}
      BY <1>1, <3>1 DEF GoneProcs
    <3>5. cgLife' \in [CgProcs -> {"new", "started", "told", "dead", "gone"}]
      BY <1>1, <3>1
    <3> HIDE DEF c
    <3> QED
      BY <3>2, <3>3, <3>4, <3>5
  <2> QED
    BY <2>1, <2>2 DEF LifeReported
<1>4. CgTypes'
  <2>1. cgQueue' \in Seq(CgTasks)
    BY <1>3, PostedSeq
  <2> QED
    BY <1>1, <1>2, <1>3, <2>1 DEF CgTypes
<1>5. TaskRight(b)'
  BY <1>3 DEF TaskRight, CgStates
<1>6. \A r : ~Follows(b, cgState, r)
  BY <1>1, <1>3 DEF Follows, CgStates
<1>7. /\ GoneProcs \subseteq GoneProcs' /\ \A r \in GoneProcs' \ GoneProcs : b.op = "died" /\ b.pid = r
      /\ b.op = "created" => b.pid \notin GoneProcs'
  BY <1>3
<1> QED
  BY <1>2, <1>3, <1>4, <1>5, <1>6, <1>7, OutsidePosts

LEMMA AbilityTold ==
  ASSUME CgInv, NEW sa \in {"app_mgr", "power_mgr"}, AbilityRestarts(sa)
  PROVE  CgInv'
<1> DEFINE c == Task(sa, AnyProcess, TRUE)
<1>1. /\ cgState \in CgStates /\ cgPlugin \in {"on", "stopping", "off"} /\ cgQueue \in Seq(CgTasks)
      /\ cgApp \in BOOLEAN /\ cgRecords \subseteq CgProcs /\ cgMissed \subseteq CgProcs
      /\ cgValue \in [CgProcs -> BOOLEAN] /\ cgTruth \in [CgProcs -> BOOLEAN]
      /\ cgLife \in [CgProcs -> {"new", "started", "told", "dead", "gone"}]
  BY DEF CgInv, CgTypes
<1>2. /\ UNCHANGED <<cgState, cgPlugin, cgApp, cgRecords, cgValue>> /\ cgLife' = cgLife
      /\ sa = "power_mgr" => cgState = "RUNNINGLOCK_STATE"
      /\ CgDispatchResource("SYSTEM_ABILITY_STATUS_CHANGE", c, TRUE)
  BY DEF AbilityRestarts
<1>3. cgQueue' = IF cgPlugin = "on" THEN Append(cgQueue, c) ELSE cgQueue
  BY <1>2, AlwaysTaken DEF CgDispatchResource
<1>4. c \in CgTasks /\ c.op = sa
  BY DEF CgTasks, Task, TaskOps
<1> HIDE DEF c
<1>5. PICK b : b = c
  OBVIOUS
<1>6. GoneProcs' = GoneProcs
  BY <1>2 DEF GoneProcs
<1>7. /\ cgTruth' \in [CgProcs -> BOOLEAN] /\ cgMissed' \subseteq CgProcs
      /\ \A p \in CgProcs \ cgMissed' : p \notin cgMissed /\ cgTruth'[p] = cgTruth[p]
  <2>1. CASE sa = "power_mgr"
    <3>1. /\ cgTruth' = [p \in CgProcs |-> FALSE]
          /\ cgMissed' = cgMissed \cup {p \in CgProcs : cgTruth[p]}
      BY <2>1 DEF AbilityRestarts
    <3> QED
      BY <1>1, <3>1
  <2>2. CASE sa # "power_mgr"
    <3>1. cgTruth' = cgTruth /\ cgMissed' = cgMissed
      BY <2>2 DEF AbilityRestarts
    <3> QED
      BY <1>1, <3>1
  <2> QED
    BY <2>1, <2>2
<1>8. CgTypes'
  <2>1. cgQueue' \in Seq(CgTasks)
    BY <1>3, <1>4, PostedSeq
  <2> QED
    BY <1>1, <1>2, <1>7, <2>1 DEF CgTypes
<1>9. TaskRight(b)' /\ b.op \notin {"created", "died"}
  BY <1>2, <1>4, <1>5 DEF TaskRight, CgStates
<1>10. \A r : ~Follows(b, cgState, r)
  BY <1>1, <1>4, <1>5 DEF Follows, CgStates
<1>11. b \in CgTasks /\ cgQueue' = IF cgPlugin = "on" THEN Append(cgQueue, b) ELSE cgQueue
  BY <1>3, <1>4, <1>5
<1> QED
  BY <1>2, <1>6, <1>7, <1>8, <1>9, <1>10, <1>11, OutsidePosts

LEMMA LivesOn ==
  ASSUME CgInv, NEW p \in CgProcs, ProcessStarts(p) \/ ProcessDies(p)
  PROVE  CgInv'
<1>1. /\ cgState' = cgState /\ cgPlugin' = cgPlugin /\ cgQueue' = cgQueue /\ cgApp' = cgApp
      /\ cgRecords' = cgRecords /\ cgValue' = cgValue /\ cgMissed' = cgMissed /\ cgTruth' = cgTruth
  BY DEF ProcessStarts, ProcessDies, recordsCg
<1>2. cgLife \in [CgProcs -> {"new", "started", "told", "dead", "gone"}]
  BY DEF CgInv, CgTypes
<1>3. cgLife' \in [CgProcs -> {"new", "started", "told", "dead", "gone"}] /\ GoneProcs' = GoneProcs
  BY <1>2 DEF ProcessStarts, ProcessDies, GoneProcs
<1>4. CgTypes'
  BY <1>1, <1>3 DEF CgInv, CgTypes
<1> QED
  BY <1>1, <1>3, <1>4, OutsideQuiet

LEMMA NothingSaid ==
  ASSUME NEW q, q = <<>>, NEW s, NEW p, NEW x, NEW v, v = x
  PROVE  Says(q, s, p, x, v)
<1>1. \A i \in 1..Len(q) : FALSE
  OBVIOUS
<1> QED
  BY <1>1 DEF Says

(* The plugin is disabled and starts again.                                *)
LEMMA PluginSwitched ==
  ASSUME CgInv, SchedControllerDisable \/ SchedControllerInit
  PROVE  CgInv'
<1>1. CgTypes /\ CgTasksRight /\ CgOff /\ CgAppRight
  BY DEF CgInv
<1>2. CASE cgPlugin = "on" /\ cgPlugin' = "stopping" /\ UNCHANGED <<cgState, cgQueue, recordsCg, outsideCg>>
  <2>1. /\ cgState' = cgState /\ cgQueue' = cgQueue /\ cgApp' = cgApp /\ cgLife' = cgLife
        /\ cgRecords' = cgRecords /\ cgValue' = cgValue /\ cgMissed' = cgMissed /\ cgTruth' = cgTruth
    BY <1>2 DEF recordsCg, outsideCg
  <2>2. CgTypes' /\ CgAppRight' /\ CgOff' /\ CgDeaths' /\ CgFollowed'
    BY <1>1, <1>2, <2>1 DEF CgTypes, CgAppRight, CgOff, CgDeaths, CgFollowed
  <2>3. CgTasksRight'
    BY <1>1, <2>1 DEF CgTasksRight, TaskRight, GoneProcs
  <2> QED
    BY <2>2, <2>3 DEF CgInv
<1>3. CASE /\ cgPlugin = "stopping" /\ cgQueue = <<>> /\ cgPlugin' = "off"
           /\ cgApp' = FALSE /\ cgRecords' = {} /\ cgValue' = [p \in CgProcs |-> FALSE]
           /\ cgMissed' = {p \in CgProcs : cgTruth[p]}
           /\ UNCHANGED <<cgState, cgQueue, outsideCg>>
  <2>1. /\ cgState' = cgState /\ cgQueue' = <<>> /\ cgLife' = cgLife /\ cgTruth' = cgTruth /\ Len(cgQueue') = 0
    BY <1>3 DEF outsideCg
  <2>2. CgTypes' /\ CgAppRight' /\ CgOff'
    BY <1>1, <1>3, <2>1 DEF CgTypes, CgAppRight, CgOff
  <2>3. CgTasksRight' /\ CgDeaths'
    BY <1>3, <2>1 DEF CgTasksRight, CgDeaths
  <2>4. ASSUME NEW p \in CgProcs \ cgMissed'
        PROVE  Says(cgQueue', cgState', p, cgTruth'[p], cgValue'[p])
    <3>1. cgTruth'[p] = FALSE /\ cgValue'[p] = FALSE
      BY <1>1, <1>3, <2>1 DEF CgTypes
    <3> QED
      BY <2>1, <3>1, NothingSaid
  <2>5. CgFollowed'
    BY <2>4 DEF CgFollowed
  <2> QED
    BY <2>2, <2>3, <2>5 DEF CgInv
<1>4. CASE SchedControllerInit
  <2>1. /\ cgState' = cgState /\ cgQueue' = cgQueue /\ cgApp' = cgApp /\ cgLife' = cgLife
        /\ cgRecords' = cgRecords /\ cgValue' = cgValue /\ cgMissed' = cgMissed /\ cgTruth' = cgTruth
        /\ cgPlugin = "off" /\ cgPlugin' = "on"
    BY <1>4 DEF SchedControllerInit, recordsCg, outsideCg
  <2>2. cgQueue = <<>> /\ cgRecords = {} /\ Len(cgQueue) = 0
    BY <1>1, <2>1 DEF CgOff
  <2>3. CgTypes' /\ CgAppRight' /\ CgOff'
    BY <1>1, <2>1 DEF CgTypes, CgAppRight, CgOff
  <2>4. CgTasksRight' /\ CgDeaths'
    BY <2>1, <2>2 DEF CgTasksRight, CgDeaths, CreatedThenDied
  <2>5. CgFollowed'
    BY <2>1 DEF CgInv, CgFollowed, GoneProcs
  <2> QED
    BY <2>3, <2>4, <2>5 DEF CgInv
<1> QED
  BY <1>2, <1>3, <1>4 DEF SchedControllerDisable

LEMMA CgStep ==
  ASSUME CgInv, [CgStatesNext]_cgVars
  PROVE  CgInv'
<1>1. CASE RunTask
  BY <1>1, TaskRuns
<1>2. ASSUME NEW p \in CgReporters, NEW v \in BOOLEAN, NEW ok \in BOOLEAN, StateChanges(p, v, ok)
      PROVE  CgInv'
  <2>1. p \in CgProcs
    BY CgStatesAssumption
  <2> QED
    BY <1>2, <2>1, StateTold
<1>3. ASSUME NEW p \in CgProcs, ProcessStarts(p) \/ ProcessDies(p) \/ LifeReported(p) PROVE CgInv'
  BY <1>3, LivesOn, LifeTold
<1>4. ASSUME NEW sa \in {"app_mgr", "power_mgr"}, AbilityRestarts(sa) PROVE CgInv'
  BY <1>4, AbilityTold
<1>5. CASE SchedControllerDisable \/ SchedControllerInit
  BY <1>5, PluginSwitched
<1>6. CASE UNCHANGED cgVars
  BY <1>6
  DEF cgVars, recordsCg, outsideCg, CgInv, CgTypes, CgTasksRight, TaskRight, CgOff, CgAppRight,
    CgDeaths, CgFollowed, GoneProcs
<1> QED
  BY <1>1, <1>2, <1>3, <1>4, <1>5, <1>6 DEF CgStatesNext

LEMMA CgStart ==
  ASSUME CgStatesInit
  PROVE  CgInv
<1>1. cgQueue = <<>> /\ Len(cgQueue) = 0 /\ cgRecords = {} /\ cgApp = FALSE /\ cgPlugin = "on"
  BY DEF CgStatesInit
<1>2. CgTypes
  <2>1. <<>> \in Seq(CgTasks)
    OBVIOUS
  <2>2. cgLife = [p \in CgProcs |-> "new"] /\ cgLife \in [CgProcs -> {"new", "started", "told", "dead", "gone"}]
    BY DEF CgStatesInit
  <2>3. cgValue \in [CgProcs -> BOOLEAN] /\ cgTruth \in [CgProcs -> BOOLEAN]
    BY DEF CgStatesInit
  <2>4. cgState \in CgStates /\ cgMissed = {}
    BY DEF CgStatesInit
  <2> QED
    BY <1>1, <2>1, <2>2, <2>3, <2>4 DEF CgTypes
<1>3. CgTasksRight /\ CgOff /\ CgAppRight /\ CgDeaths
  BY <1>1 DEF CgTasksRight, CgOff, CgAppRight, CgDeaths, CreatedThenDied
<1>4. CgFollowed
  <2>1. \A p \in CgProcs : cgTruth[p] = FALSE /\ cgValue[p] = FALSE
    BY DEF CgStatesInit
  <2>2. \A p \in CgProcs : Says(cgQueue, cgState, p, cgTruth[p], cgValue[p])
    BY <1>1, <2>1, NothingSaid
  <2> QED
    BY <2>2 DEF CgFollowed
<1> QED
  BY <1>2, <1>3, <1>4 DEF CgInv

LEMMA CgGives ==
  ASSUME CgInv
  PROVE  CgroupStatesRight
<1> SUFFICES ASSUME cgPlugin = "on", cgQueue = <<>>
             PROVE  /\ \A p \in (cgRecords \cap Alive) \ cgMissed : cgValue[p] = cgTruth[p]
                    /\ \A p \in cgRecords : cgLife[p] # "gone" \/ cgState \in MakesRecords
                    /\ cgApp /\ cgRecords = {} => cgState \in {"TRANSIENT_TASK", "CONTINUOUS_TASK"}
  BY DEF CgroupStatesRight, StatesFollowed, RecordsEnd, MakesRecords
<1>1. Len(cgQueue) = 0 /\ cgRecords \subseteq CgProcs /\ cgApp \in BOOLEAN
  BY DEF CgInv, CgTypes
<1>2. ASSUME NEW p \in (cgRecords \cap Alive) \ cgMissed PROVE cgValue[p] = cgTruth[p]
  <2>1. p \in (CgProcs \ cgMissed) \ GoneProcs
    BY DEF Alive, GoneProcs
  <2>2. Says(cgQueue, cgState, p, cgTruth[p], cgValue[p])
    BY <2>1 DEF CgInv, CgFollowed
  <2> QED
    BY <1>1, <2>2 DEF Says
<1>3. ASSUME NEW p \in cgRecords, cgLife[p] = "gone", cgState \notin MakesRecords PROVE FALSE
  <2>1. p \in cgRecords \cap GoneProcs
    BY <1>1, <1>3 DEF GoneProcs
  <2>2. DeathIn(cgQueue, 0, p)
    BY <1>3, <2>1 DEF CgInv, CgDeaths
  <2> QED
    BY <1>1, <2>2 DEF DeathIn
<1>4. cgApp /\ cgRecords = {} => cgState \in {"TRANSIENT_TASK", "CONTINUOUS_TASK"}
  BY <1>1 DEF CgInv, CgAppRight
<1> QED
  BY <1>2, <1>3, <1>4

-----------------------------------------------------------------------------
(* The type invariants that MCParts checks.                                *)
(* The types of AudioObserver.  AudioInv says what is in the two maps of   *)
(* processes: sessions of the tables of the audio service.                 *)
RenderReports == {NoState, "AUDIO_STATE_RUNNING", "AUDIO_STATE_STOP"}
CaptureReports == {NoState, "AUDIO_CAPTURE_BEGIN", "AUDIO_CAPTURE_END"}
AudioTypes ==
  /\ renderers \in MapOver(Sessions, RendererStates)
  /\ capturers \in MapOver(Sessions, CapturerStates)
  /\ DOMAIN renderState \subseteq Sessions
  /\ innerAudio \in [AudioPids -> RenderReports]
  /\ capture \in [AudioPids -> CaptureReports]
  /\ volume \in Volumes \cup {NoState} /\ volumeReported \in Volumes \cup {NoState}
  /\ lostPids \subseteq AudioPids

LEMMA TableChanges ==
  ASSUME NEW table \in MapOver(Sessions, RendererStates), NEW s \in Sessions,
         NEW state \in RendererStates
  PROVE  /\ DOMAIN Change(table, s, state) \subseteq Sessions
         /\ Remaining(Change(table, s, state)) \in MapOver(Sessions, RendererStates)
<1>1. PICK k \in SUBSET Sessions : table \in [k -> RendererStates]
  BY DEF MapOver
<1>2. Change(table, s, state) \in [k \cup {s} -> RendererStates]
  BY <1>1 DEF Change, With
<1> DEFINE new == Change(table, s, state)
           left == {x \in DOMAIN new : new[x] # "RELEASED"}
<1> HIDE DEF new
<1>3. Remaining(new) \in [left -> RendererStates] /\ left \in SUBSET Sessions
  BY <1>1, <1>2 DEF Remaining, new
<1> QED
  BY <1>1, <1>2, <1>3 DEF MapOver, new

LEMMA EmptyTable == Empty \in MapOver(Sessions, RendererStates) /\ DOMAIN Empty = {}
<1>1. Empty \in [{} -> RendererStates] /\ {} \in SUBSET Sessions /\ DOMAIN Empty = {}
  BY DEF Empty
<1> QED
  BY <1>1 DEF MapOver

LEMMA AudioStartType == AudioInit => AudioTypes
  BY EmptyTable DEF AudioInit, AudioTypes, CapturerStates, RenderReports, CaptureReports

LEMMA AudioStepType ==
  ASSUME AudioTypes, [AudioNext]_audioVars
  PROVE  AudioTypes'
<1>1. ASSUME NEW s \in Sessions, NEW state \in RendererStates, RendererChanges(s, state)
      PROVE  AudioTypes'
  <2>1. renderers' \in MapOver(Sessions, RendererStates) /\ DOMAIN renderState' \subseteq Sessions
    BY <1>1, TableChanges DEF RendererChanges, OnRendererStateChange, AudioTypes
  <2>2. innerAudio' \in [AudioPids -> RenderReports]
    <3>1. PICK ended, started :
            innerAudio' = [p \in AudioPids |->
                             IF p \in ended THEN "AUDIO_STATE_STOP"
                             ELSE IF p \in started THEN "AUDIO_STATE_RUNNING"
                             ELSE innerAudio[p]]
      BY <1>1, Zenon DEF RendererChanges, OnRendererStateChange
    <3> QED
      BY <3>1 DEF AudioTypes, RenderReports
  <2> QED
    BY <1>1, <2>1, <2>2, Zenon DEF RendererChanges, AudioTypes
<1>2. ASSUME NEW s \in Sessions, NEW state \in CapturerStates, CapturerChanges(s, state)
      PROVE  AudioTypes'
  <2>1. capturers' \in MapOver(Sessions, CapturerStates)
    BY <1>2, TableChanges DEF CapturerChanges, AudioTypes, CapturerStates
  <2>2. capture' \in [AudioPids -> CaptureReports]
    <3>1. PICK ended, begun :
            capture' = [p \in AudioPids |->
                          IF p \in ended THEN "AUDIO_CAPTURE_END"
                          ELSE IF p \in begun THEN "AUDIO_CAPTURE_BEGIN" ELSE capture[p]]
      BY <1>2, Zenon DEF CapturerChanges, OnCapturerStateChange
    <3> QED
      BY <3>1 DEF AudioTypes, CaptureReports
  <2> QED
    BY <1>2, <2>1, <2>2, Zenon DEF CapturerChanges, AudioTypes
<1>3. ASSUME NEW v \in Volumes, OnVolumeKeyEvent(v) PROVE AudioTypes'
  BY <1>3 DEF OnVolumeKeyEvent, AudioTypes
<1>4. CASE OnPreferredOutputDeviceUpdated
  BY <1>4 DEF OnPreferredOutputDeviceUpdated, AudioTypes
<1>5. CASE AudioServiceRestarts
  <2>1. capture' \in [AudioPids -> CaptureReports]
    BY <1>5 DEF AudioServiceRestarts, ProcessCapturerEndCaseByUnregister, AudioTypes,
                CaptureReports
  <2> QED
    BY <1>5, <2>1, EmptyTable DEF AudioServiceRestarts, AudioTypes, CapturerStates
<1>6. CASE UNCHANGED audioVars
  BY <1>6 DEF audioVars, AudioTypes
<1> QED
  BY <1>1, <1>2, <1>3, <1>4, <1>5, <1>6 DEF AudioNext

LEMMA AudioTyped == AudioInv /\ AudioTypes => AudioTypeOK
<1> SUFFICES ASSUME AudioInv, AudioTypes PROVE AudioTypeOK
  OBVIOUS
<1>1. \A p \in DOMAIN processRenderState : processRenderState[p] \subseteq Sessions
  BY DEF AudioInv, RenderInv, RunningOf
<1>2. \A p \in DOMAIN capturerState : capturerState[p] \subseteq Sessions
  BY DEF AudioInv, CaptureInv, BegunOf
<1> QED
  BY <1>1, <1>2, Zenon DEF AudioTypes, AudioTypeOK, RenderReports, CaptureReports

(* The types of Observers: an ability has registered no more than it       *)
(* accepted, and only values are fetched that a registration has.          *)
ObserverTypes ==
  /\ isFoldable \in BOOLEAN /\ isNeedReport \in BOOLEAN
  /\ sysAbilityListener \in BOOLEAN /\ up \in BOOLEAN
  /\ callbacks \in {"unset", "set", "cleared"} /\ readingOld \in BOOLEAN
ObserverSets ==
  /\ deaths \in 0..MaxDeaths
  /\ registered \subseteq Expected /\ refused \subseteq Expected /\ toFetch \subseteq Stateful
  /\ reading \in Stateful \cup {NoValue} /\ fresh \subseteq Stateful /\ outdated \subseteq Stateful
  /\ callbacks = "unset" => registered = {} /\ refused = {}

LEMMA PatternsAdd ==
  ASSUME NEW s, NEW o, NEW ok
  PROVE  /\ Register(s, o, ok).registered \subseteq s.registered \cup ok
         /\ Register(s, o, ok).toFetch = s.toFetch
         /\ RegisterOrDrop(s, o, ok).registered \subseteq s.registered \cup ok
         /\ RegisterOrDrop(s, o, ok).toFetch = s.toFetch
         /\ RegisterNew(s, o, ok).registered \subseteq s.registered \cup ok
         /\ RegisterNew(s, o, ok).toFetch = s.toFetch
  BY DEF Register, RegisterOrDrop, RegisterNew, State

LEMMA PatternsRemove ==
  ASSUME NEW s, NEW o, NEW ok
  PROVE  /\ Unregister(s, o, ok).registered \subseteq s.registered
         /\ Unregister(s, o, ok).toFetch = s.toFetch
         /\ UnregisterIfOk(s, o, ok).registered \subseteq s.registered
         /\ UnregisterIfOk(s, o, ok).toFetch = s.toFetch
  BY DEF Unregister, UnregisterIfOk, State

LEMMA FetchAdds ==
  ASSUME NEW s, NEW regs
  PROVE  Fetch(s, regs).registered = s.registered /\ Fetch(s, regs).toFetch = s.toFetch \cup regs
  BY DEF Fetch, State

LEMMA WindowAdds ==
  ASSUME NEW s, NEW ok
  PROVE  /\ InitWindowStateObserver(s, ok).registered \subseteq s.registered \cup ok
         /\ InitWindowStateObserver(s, ok).toFetch \subseteq s.toFetch \cup Stateful
<1> DEFINE a == RegisterNew(s, "focus", ok)
           b == RegisterNew(a, "visibility", ok)
           c == RegisterNew(b, "drawing", ok)
           d == RegisterNew(c, "windowMode", ok)
           e == RegisterNew(d, "pip", ok)
           f == Register(e, "style", ok)
<1>1. InitWindowStateObserver(s, ok) = IF "style" \in ok THEN Fetch(f, {"style"}) ELSE f
  BY Zenon DEF InitWindowStateObserver, InitWindowStyleObserver, SubscribePipChange,
               SubscribeWindowModeChange
<1>2. a.registered \subseteq s.registered \cup ok /\ a.toFetch = s.toFetch
  BY PatternsAdd
<1>3. b.registered \subseteq a.registered \cup ok /\ b.toFetch = a.toFetch
  BY PatternsAdd
<1>4. c.registered \subseteq b.registered \cup ok /\ c.toFetch = b.toFetch
  BY PatternsAdd
<1>5. d.registered \subseteq c.registered \cup ok /\ d.toFetch = c.toFetch
  BY PatternsAdd
<1>6. e.registered \subseteq d.registered \cup ok /\ e.toFetch = d.toFetch
  BY PatternsAdd
<1>7. f.registered \subseteq e.registered \cup ok /\ f.toFetch = e.toFetch
  BY PatternsAdd
<1>8. "style" \in Stateful
  BY DEF Stateful
<1>9. Fetch(f, {"style"}).registered = f.registered /\ Fetch(f, {"style"}).toFetch = f.toFetch \cup {"style"}
  BY FetchAdds
<1> HIDE DEF a, b, c, d, e, f
<1> QED
  BY <1>1, <1>2, <1>3, <1>4, <1>5, <1>6, <1>7, <1>8, <1>9

LEMMA WindowRemoves ==
  ASSUME NEW s, NEW ok
  PROVE  /\ DisableWindowStateObserver(s, ok).registered \subseteq s.registered
         /\ DisableWindowStateObserver(s, ok).toFetch = s.toFetch
<1> DEFINE a == Unregister(s, "focus", ok)
           b == Unregister(a, "visibility", ok)
           c == Unregister(b, "drawing", ok)
           d == Unregister(c, "windowMode", ok)
           e == Unregister(d, "pip", ok)
           f == UnregisterIfOk(e, "style", ok)
<1>1. DisableWindowStateObserver(s, ok) = f
  BY Zenon DEF DisableWindowStateObserver, DisableWindowStyleObserver, UnsubscribePipChange,
               UnsubscribeWindowModeChange
<1>2. a.registered \subseteq s.registered /\ a.toFetch = s.toFetch
  BY PatternsRemove
<1>3. b.registered \subseteq a.registered /\ b.toFetch = a.toFetch
  BY PatternsRemove
<1>4. c.registered \subseteq b.registered /\ c.toFetch = b.toFetch
  BY PatternsRemove
<1>5. d.registered \subseteq c.registered /\ d.toFetch = c.toFetch
  BY PatternsRemove
<1>6. e.registered \subseteq d.registered /\ e.toFetch = d.toFetch
  BY PatternsRemove
<1>7. f.registered \subseteq e.registered /\ f.toFetch = e.toFetch
  BY PatternsRemove
<1> HIDE DEF a, b, c, d, e, f
<1> QED
  BY <1>1, <1>2, <1>3, <1>4, <1>5, <1>6, <1>7

LEMMA InitAdds ==
  ASSUME ability \in Abilities, NEW s, NEW ok
  PROVE  /\ InitObserverCbMap(s, ok).registered \subseteq s.registered \cup ok
         /\ InitObserverCbMap(s, ok).toFetch \subseteq s.toFetch \cup Stateful
<1> DEFINE Adds(r) == /\ r.registered \subseteq s.registered \cup ok
                      /\ r.toFetch \subseteq s.toFetch \cup Stateful
<1> SUFFICES Adds(InitObserverCbMap(s, ok))
  OBVIOUS
<1>1. CASE ability \in {"HISYSEVENT", "TELEPHONY", "ABILITY_MGR", "DOWNLOAD", "AVSESSION",
                        "ACCOUNT", "DISTRIBUTED_SCHED"}
  BY <1>1, PatternsAdd DEF InitObserverCbMap, InitHiSysEventObserver, InitTelephonyObserver,
     InitConnectionSubscriber, InitDownloadUploadObserver, InitAVSessionStateChangeListener,
     InitAccountObserver, InitContinuationObserver
<1>2. CASE ability = "MMI"
  <2> DEFINE a == State(s.objects, s.registered \cup ({"powerKey"} \cap ok), s.toFetch)
             b == Register(a, "mmi", ok)
  <2>1. InitObserverCbMap(s, ok)
          = IF ~isNeedReport THEN a ELSE IF "mmi" \in ok THEN Fetch(b, {"mmi"}) ELSE b
    BY <1>2 DEF InitObserverCbMap, InitMMiEventObserver, GetAllMmiStatusData
  <2>2. a.registered \subseteq s.registered \cup ok /\ a.toFetch = s.toFetch
    BY DEF State
  <2>3. b.registered \subseteq a.registered \cup ok /\ b.toFetch = a.toFetch
    BY PatternsAdd
  <2>4. Fetch(b, {"mmi"}).registered = b.registered /\ Fetch(b, {"mmi"}).toFetch = b.toFetch \cup {"mmi"}
    BY FetchAdds
  <2>5. "mmi" \in Stateful
    BY DEF Stateful
  <2> HIDE DEF a, b
  <2> QED
    BY <2>1, <2>2, <2>3, <2>4, <2>5
<1>3. CASE ability = "AUDIO"
  BY <1>3 DEF InitObserverCbMap, InitAudioObserver, InitAudioEventListener, Fetch, State, Stateful
<1>4. CASE ability = "DISPLAY"
  <2> DEFINE b == RegisterOrDrop(s, "displayMode", ok)
  <2>1. InitObserverCbMap(s, ok)
          = IF ~isFoldable THEN s
            ELSE IF "displayMode" \in ok THEN Fetch(b, {"displayMode"}) ELSE b
    BY <1>4 DEF InitObserverCbMap, InitDisplayModeObserver
  <2>2. b.registered \subseteq s.registered \cup ok /\ b.toFetch = s.toFetch
    BY PatternsAdd
  <2>3. /\ Fetch(b, {"displayMode"}).registered = b.registered
        /\ Fetch(b, {"displayMode"}).toFetch = b.toFetch \cup {"displayMode"}
    BY FetchAdds
  <2>4. "displayMode" \in Stateful
    BY DEF Stateful
  <2> HIDE DEF b
  <2> QED
    BY <2>1, <2>2, <2>3, <2>4
<1>5. CASE ability = "DISPLAY_SA"
  <2> DEFINE a == InitDisplayOrientationObserver(s, ok)
  <2>1. a.registered \subseteq s.registered \cup ok /\ a.toFetch = s.toFetch
    BY PatternsAdd DEF InitDisplayOrientationObserver
  <2>2. InitObserverCbMap(s, ok) = RegisterOrDrop(a, "displayPower", ok)
    BY <1>5
    DEF InitObserverCbMap, InitDisplayManagerServiceSAObserver, InitDisplayPowerEventObserver
  <2> HIDE DEF a
  <2> QED
    BY <2>1, <2>2, PatternsAdd
<1>6. CASE ability = "WINDOW"
  BY <1>6, WindowAdds DEF InitObserverCbMap
<1>7. CASE ability = "APP_MGR"
  BY <1>7, PatternsAdd DEF InitObserverCbMap, SubscribeAppState
<1>8. CASE ability = "COMMON_EVENT"
  <2> DEFINE a == Register(s, "events", ok)
             b == Register(a, "lockScreen", ok)
             c == Register(b, "cloneState", ok)
  <2>1. InitObserverCbMap(s, ok) = Register(c, "mediaCtrl", ok)
    BY <1>8 DEF InitObserverCbMap, AddEventSubscribers, SubscribeMediaCtrlCommonEvent,
       SubscribeCloneStateCommonEvent, SubscribeLockScreenCommonEvent
  <2>2. a.registered \subseteq s.registered \cup ok /\ a.toFetch = s.toFetch
    BY PatternsAdd
  <2>3. b.registered \subseteq a.registered \cup ok /\ b.toFetch = a.toFetch
    BY PatternsAdd
  <2>4. c.registered \subseteq b.registered \cup ok /\ c.toFetch = b.toFetch
    BY PatternsAdd
  <2> HIDE DEF a, b, c
  <2>5. /\ Register(c, "mediaCtrl", ok).registered \subseteq c.registered \cup ok
        /\ Register(c, "mediaCtrl", ok).toFetch = c.toFetch
    BY PatternsAdd
  <2> QED
    BY <2>1, <2>2, <2>3, <2>4, <2>5
<1> HIDE DEF Adds
<1> QED
  BY <1>1, <1>2, <1>3, <1>4, <1>5, <1>6, <1>7, <1>8 DEF Abilities

LEMMA DisableRemoves ==
  ASSUME ability \in Abilities, NEW s, NEW ok
  PROVE  /\ InitRemoveObserverCbMap(s, ok).registered \subseteq s.registered
         /\ InitRemoveObserverCbMap(s, ok).toFetch = s.toFetch
<1> DEFINE Removes(r) == r.registered \subseteq s.registered /\ r.toFetch = s.toFetch
<1> SUFFICES Removes(InitRemoveObserverCbMap(s, ok))
  OBVIOUS
<1>1. CASE ability \in {"HISYSEVENT", "TELEPHONY", "ABILITY_MGR", "DISTRIBUTED_SCHED", "ACCOUNT"}
  BY <1>1, PatternsRemove DEF InitRemoveObserverCbMap, DisableHiSysEventObserver,
     DisableTelephonyObserver, DisableConnectionSubscriber, DisableContinuationObserver,
     DisableAccountObserver
<1>2. CASE ability = "MMI"
  <2> DEFINE a == State(s.objects, s.registered \ ({"powerKey"} \cap ok), s.toFetch)
  <2>1. a.registered \subseteq s.registered /\ a.toFetch = s.toFetch
    BY DEF State
  <2>2. InitRemoveObserverCbMap(s, ok) = Unregister(a, "mmi", ok)
    BY <1>2 DEF InitRemoveObserverCbMap, DisableMMiEventObserver
  <2> HIDE DEF a
  <2> QED
    BY <2>1, <2>2, PatternsRemove
<1>3. CASE ability \in {"AUDIO", "DOWNLOAD", "AVSESSION", "COMMON_EVENT"}
  BY <1>3 DEF InitRemoveObserverCbMap, DisableAudioObserver, DisableDownloadUploadObserver,
     DisableAVSessionStateChangeListener, RemoveEventSubscribers, State
<1>4. CASE ability \in {"DISPLAY", "APP_MGR"}
  BY <1>4, PatternsRemove DEF InitRemoveObserverCbMap, DisableDisplayModeObserver,
     UnsubscribeAppState
<1>5. CASE ability = "DISPLAY_SA"
  <2> DEFINE a == UnregisterIfOk(s, "orientation", ok)
  <2>1. a.registered \subseteq s.registered /\ a.toFetch = s.toFetch
    BY PatternsRemove
  <2>2. InitRemoveObserverCbMap(s, ok) = UnregisterIfOk(a, "displayPower", ok)
    BY <1>5 DEF InitRemoveObserverCbMap, DisableDisplayManagerServiceSAObserver,
       DisableDisplayPowerEventObserver, DisableDisplayOrientationObserver
  <2> HIDE DEF a
  <2> QED
    BY <2>1, <2>2, PatternsRemove
<1>6. CASE ability = "WINDOW"
  BY <1>6, WindowRemoves DEF InitRemoveObserverCbMap
<1> HIDE DEF Removes
<1> QED
  BY <1>1, <1>2, <1>3, <1>4, <1>5, <1>6 DEF Abilities

LEMMA ObserversStartType == ObserversInit => ObserverTypes /\ ObserverSets
<1>1. ObserversInit => ObserverTypes
  BY Zenon DEF ObserversInit, ObserverTypes
<1>2. ObserversInit => ObserverSets
  BY ObserversAssumption DEF ObserversInit, ObserverSets
<1> QED
  BY <1>1, <1>2

LEMMA StopRemoves ==
  ASSUME NEW s, NEW ok
  PROVE  /\ StopEventSubscribers(s, ok).registered \subseteq s.registered
         /\ StopEventSubscribers(s, ok).toFetch = s.toFetch
         /\ DisableTelephonyObserver(DisableHiSysEventObserver(s, ok), ok).registered
              \subseteq s.registered
         /\ DisableTelephonyObserver(DisableHiSysEventObserver(s, ok), ok).toFetch = s.toFetch
<1> DEFINE a == Unregister(s, "HISYSEVENT", ok)
<1>1. a.registered \subseteq s.registered /\ a.toFetch = s.toFetch
  BY PatternsRemove
<1>2. DisableTelephonyObserver(DisableHiSysEventObserver(s, ok), ok) = Unregister(a, "TELEPHONY", ok)
  BY DEF DisableTelephonyObserver, DisableHiSysEventObserver
<1>3. /\ StopEventSubscribers(s, ok).registered \subseteq s.registered
      /\ StopEventSubscribers(s, ok).toFetch = s.toFetch
  BY DEF StopEventSubscribers, State
<1> HIDE DEF a
<1>4. /\ Unregister(a, "TELEPHONY", ok).registered \subseteq a.registered
      /\ Unregister(a, "TELEPHONY", ok).toFetch = a.toFetch
  BY PatternsRemove
<1> QED
  BY <1>1, <1>2, <1>3, <1>4

LEMMA ObserversStepFlags ==
  ASSUME ObserversInv, ObserverTypes, [ObserversNext]_obVars
  PROVE  ObserverTypes'
<1> USE DEF ObserverTypes, Static
<1>1. CASE InitSysAbilityListener \/ EventControllerInit
  BY <1>1, Zenon DEF InitSysAbilityListener, EventControllerInit, AddItemToSysAbilityListener,
                     GetReportFunc, toldVars
<1>2. CASE OnAddSystemAbility
  BY <1>2, Zenon DEF OnAddSystemAbility, toldVars
<1>3. CASE OnRemoveSystemAbility
  BY <1>3, Zenon DEF OnRemoveSystemAbility, toldVars
<1>4. CASE ObserversStop
  BY <1>4, Zenon DEF ObserversStop, toldVars
<1>5. CASE AbilityDies
  BY <1>5, Zenon DEF AbilityDies
<1>6. CASE AbilityStarts
  BY <1>6, Zenon DEF AbilityStarts, toldVars
<1>7. ASSUME NEW e \in Stateful, FetchValue(e) \/ ValueChanges(e)
      PROVE  ObserverTypes'
  <2>1. readingOld' \in BOOLEAN
    BY <1>7, Zenon DEF FetchValue, ValueChanges
  <2> QED
    BY <1>7, <2>1, Zenon DEF FetchValue, ValueChanges
<1>9. CASE ReportValue
  BY <1>9, Zenon DEF ReportValue
<1>8. CASE UNCHANGED obVars
  BY <1>8, Zenon DEF obVars
<1> HIDE DEF ObserverTypes
<1> QED
  BY <1>1, <1>2, <1>3, <1>4, <1>5, <1>6, <1>7, <1>8, <1>9 DEF ObserversNext

LEMMA ObserversStepSets ==
  ASSUME ObserversInv, ObserverSets, [ObserversNext]_obVars
  PROVE  ObserverSets'
<1>1. ASSUME isNeedReport' = isNeedReport, isFoldable' = isFoldable, ability' = ability
      PROVE  Expected' = Expected
  BY <1>1 DEF Expected
<1>2. ability \in Abilities
  BY DEF ObserversInv
<1>3. Now.registered = registered /\ Now.toFetch = toFetch
  BY DEF Now, State
<1>4. CASE InitSysAbilityListener \/ EventControllerInit
  BY <1>4 DEF InitSysAbilityListener, EventControllerInit, ObserverSets, toldVars
<1>5. CASE OnAddSystemAbility
  <2>1. callbacks' = callbacks /\ deaths' = deaths /\ Expected' = Expected /\ toldVars' = toldVars
    BY <1>1, <1>5 DEF OnAddSystemAbility, Static
  <2>2. CASE callbacks = "set"
    <3>1. PICK ok \in SUBSET Expected :
            /\ Apply(InitObserverCbMap(Now, IF up THEN ok ELSE {}))
            /\ refused' = Expected \ (IF up THEN ok ELSE {})
      BY <1>5, <2>2, Zenon DEF OnAddSystemAbility
    <3> DEFINE accepted == IF up THEN ok ELSE {}
    <3>2. accepted \subseteq Expected
      OBVIOUS
    <3> HIDE DEF accepted
    <3>3. registered' \subseteq registered \cup accepted /\ toFetch' \subseteq toFetch \cup Stateful
      <4>1. /\ registered' = InitObserverCbMap(Now, accepted).registered
            /\ toFetch' = InitObserverCbMap(Now, accepted).toFetch
        BY <3>1, Zenon DEF Apply, accepted
      <4> QED
        BY <1>2, <1>3, <4>1, InitAdds
    <3>4. refused' \subseteq Expected
      BY <3>1
    <3> QED
      BY <2>1, <2>2, <3>2, <3>3, <3>4 DEF ObserverSets, toldVars
  <2>3. CASE callbacks # "set"
    BY <1>5, <2>1, <2>3 DEF OnAddSystemAbility, ObserverSets, toldVars
  <2> QED
    BY <2>2, <2>3
<1>6. CASE OnRemoveSystemAbility
  <2>1. /\ callbacks' = callbacks /\ deaths' = deaths /\ refused' = refused
        /\ Expected' = Expected /\ toldVars' = toldVars
    BY <1>1, <1>6 DEF OnRemoveSystemAbility, Static
  <2>2. registered' \subseteq registered /\ toFetch' = toFetch
    <3>1. CASE callbacks = "set"
      <4>1. PICK ok : Apply(InitRemoveObserverCbMap(Now, ok))
        BY <1>6, <3>1, Zenon DEF OnRemoveSystemAbility
      <4> QED
        BY <1>2, <1>3, <4>1, DisableRemoves DEF Apply
    <3>2. CASE callbacks # "set"
      BY <1>6, <3>2, Zenon DEF OnRemoveSystemAbility
    <3> QED
      BY <3>1, <3>2
  <2> QED
    BY <2>1, <2>2 DEF ObserverSets, toldVars
<1>7. CASE ObserversStop
  <2>1. /\ callbacks' = "cleared" /\ deaths' = deaths /\ refused' = refused
        /\ Expected' = Expected /\ toldVars' = toldVars
    BY <1>1, <1>7 DEF ObserversStop, Static
  <2>2. registered' \subseteq registered /\ toFetch' = toFetch
    <3>1. PICK ok :
            Apply(IF ability = "COMMON_EVENT"
                    THEN IF sysAbilityListener THEN StopEventSubscribers(Now, ok) ELSE Now
                    ELSE DisableTelephonyObserver(DisableHiSysEventObserver(Now, ok), ok))
      BY <1>7, Zenon DEF ObserversStop
    <3> QED
      BY <1>3, <3>1, StopRemoves DEF Apply
  <2> QED
    BY <2>1, <2>2 DEF ObserverSets, toldVars
<1>8. CASE AbilityDies
  BY <1>1, <1>8, ObserversAssumption DEF AbilityDies, Static, ObserverSets
<1>9. CASE AbilityStarts \/ ReportValue
  BY <1>1, <1>9 DEF AbilityStarts, ReportValue, Static, ObserverSets, toldVars
<1>11. ASSUME NEW e \in Stateful, FetchValue(e) \/ ValueChanges(e)
       PROVE  ObserverSets'
  BY <1>1, <1>11 DEF FetchValue, ValueChanges, Static, ObserverSets
<1>10. CASE UNCHANGED obVars
  BY <1>1, <1>10 DEF obVars, ObserverSets
<1> QED
  BY <1>4, <1>5, <1>6, <1>7, <1>8, <1>9, <1>10, <1>11 DEF ObserversNext

LEMMA ObserversTyped == ObserversInv /\ ObserverTypes /\ ObserverSets => ObserversTypeOK
  BY Zenon DEF ObserversInv, NoticesAgree, ObserverTypes, ObserverSets, ObserversTypeOK

(* The types of CommonEvents: the numbers and flags, and the reports.      *)
CesCounts == cesDeaths \in 0..MaxCesDeaths
CesFlags ==
  /\ cesUp \in BOOLEAN /\ eventMissed \in BOOLEAN /\ crossed \in BOOLEAN
  /\ subFailed \in BOOLEAN /\ eventLate \in BOOLEAN
CesReports ==
  /\ watched \in Watched
  /\ published \in AllReports \cup {NothingYet} /\ eventHeard \in AllReports \cup {NothingYet}

LEMMA CommonEventsStartType == CommonEventsInit => CesCounts /\ CesFlags /\ CesReports
<1>1. CommonEventsInit => CesCounts
  BY CommonEventsAssumption DEF CommonEventsInit, CesCounts
<1>2. CommonEventsInit => CesFlags
  BY Zenon DEF CommonEventsInit, CesFlags
<1>3. CommonEventsInit => CesReports
  BY Zenon DEF CommonEventsInit, CesReports
<1> QED
  BY <1>1, <1>2, <1>3

LEMMA CommonEventsStepType ==
  ASSUME CommonEventsInv, CesCounts, CesFlags, CesReports, [CommonEventsNext]_commonEventVars
  PROVE  CesCounts' /\ CesFlags' /\ CesReports'
<1> USE DEF cesVars, reportVars, subVars
<1> DEFINE Same == UNCHANGED <<watched, published, eventHeard>>
<1>1. ASSUME NEW subscribes \in BOOLEAN, ControllerInit(subscribes)
      PROVE  CesFlags' /\ UNCHANGED <<cesDeaths, watched, published, eventHeard>>
  BY <1>1, Zenon DEF ControllerInit, CesFlags
<1>2. ASSUME ListenerStop \/ ControllerStop
      PROVE  CesFlags' /\ UNCHANGED <<cesDeaths, watched, published, eventHeard>>
  BY <1>2, Zenon DEF ListenerStop, ControllerStop, CesFlags
<1>3. ASSUME NEW accepted \in BOOLEAN, OnCesAdded(accepted)
      PROVE  CesFlags' /\ UNCHANGED <<cesDeaths, watched, published, eventHeard>>
  BY <1>3, Zenon DEF OnCesAdded, CesFlags
<1>4. ASSUME OnCesRemoved
      PROVE  CesFlags' /\ UNCHANGED <<cesDeaths, watched, published, eventHeard>>
  BY <1>4, Zenon DEF OnCesRemoved, CesFlags
<1>5. ASSUME NEW s \in 1..MaxSubs, OnReceiveCommonEvent(s)
      PROVE  /\ CesFlags' /\ UNCHANGED <<cesDeaths, watched, published>>
             /\ eventHeard' \in AllReports
  <2>1. inbox[s] \in Seq(AllReports) /\ inbox[s] # <<>> /\ eventHeard' = Head(inbox[s])
    BY <1>5 DEF OnReceiveCommonEvent, CommonEventsInv, SubsInv
  <2>2. eventHeard' \in AllReports
    BY <2>1
  <2> QED
    BY <1>5, <2>2, Zenon DEF OnReceiveCommonEvent, CesFlags
<1>6. ASSUME NEW e \in EventsOf(watched), EventPublished(e)
      PROVE  /\ CesFlags' /\ UNCHANGED <<cesDeaths, watched, eventHeard>>
             /\ published' \in AllReports
  <2>1. e.action \in CommonActions
    BY DEF EventsOf
  <2>2. published' \in AllReports
    BY <1>6, <2>1, Zenon DEF EventPublished, AllReports
  <2> QED
    BY <1>6, <2>2, Zenon DEF EventPublished, CesFlags
<1>7. ASSUME CesDies PROVE CesFlags' /\ CesCounts' /\ Same
  <2>1. CesCounts'
    BY <1>7, CommonEventsAssumption DEF CesDies, CesCounts
  <2> QED
    BY <1>7, <2>1, Zenon DEF CesDies, CesFlags
<1>8. ASSUME CesComesUp PROVE CesFlags' /\ UNCHANGED <<cesDeaths, watched, published, eventHeard>>
  BY <1>8, Zenon DEF CesComesUp, CesFlags
<1>9. ASSUME UNCHANGED commonEventVars
      PROVE  CesFlags' /\ UNCHANGED <<cesDeaths, watched, published, eventHeard>>
  BY <1>9, Zenon DEF commonEventVars, CesFlags
<1>10. \/ CesFlags' /\ UNCHANGED <<cesDeaths, watched, published, eventHeard>>
       \/ CesFlags' /\ UNCHANGED <<cesDeaths, watched, published>> /\ eventHeard' \in AllReports
       \/ CesFlags' /\ UNCHANGED <<cesDeaths, watched, eventHeard>> /\ published' \in AllReports
       \/ CesFlags' /\ CesCounts' /\ Same
  BY <1>1, <1>2, <1>3, <1>4, <1>5, <1>6, <1>7, <1>8, <1>9, Zenon DEF CommonEventsNext
<1> QED
  BY <1>10, Zenon DEF CesCounts, CesReports

LEMMA CommonEventsTyped ==
  ASSUME CommonEventsInv, CesCounts, CesFlags, CesReports
  PROVE  CommonEventsTypeOK
<1>1. /\ subCount \in 0..MaxSubs /\ subscriber \in 0..MaxSubs /\ liveSubs \subseteq 1..MaxSubs
      /\ inbox \in [1..MaxSubs -> Seq(AllReports)]
  BY CommonEventsAssumption DEF CommonEventsInv, SubsInv
<1>2. ceState \in {"new", "on", "stopping", "off"} /\ cesNotices \in Seq({"add", "remove"})
  BY DEF CommonEventsInv, NoticesInv
<1> QED
  BY <1>1, <1>2, Zenon DEF CesCounts, CesFlags, CesReports, CommonEventsTypeOK

(* The types of DeviceObservers: what the plugins were told is the report  *)
(* of a state of the topic, or that of none.                               *)
DeviceFlags == silent \in BOOLEAN /\ backward \in BOOLEAN
DeviceTold == topic # "window" => last \in TellsOf(topic) /\ told \in TellsOf(topic)

LEMMA WindowTells == TellsOf("window") = DeviceBits
<1>1. TellsOf("window") = {MarshallingWindowModeType(s) : s \in WindowModes} \cup {Bits(1, 1)}
  BY DEF TellsOf, TellOf, StatesOf, UntoldOf
<1>2. {MarshallingWindowModeType(s) : s \in WindowModes} \subseteq DeviceBits
  BY WindowBits
<1>3. Bits(1, 1) \in DeviceBits
  BY DEF Bits, DeviceBits
<1>4. \A b \in DeviceBits : b = Bits(b.split, b.floating)
  BY DEF DeviceBits, Bits
<1>5. /\ MarshallingWindowModeType("SPLIT") = Bits(0, 1)
      /\ MarshallingWindowModeType("FLOATING") = Bits(1, 0)
      /\ MarshallingWindowModeType("SPLIT_FLOATING") = Bits(0, 0)
      /\ {"SPLIT", "FLOATING", "SPLIT_FLOATING"} \subseteq WindowModes
  BY DEF MarshallingWindowModeType, WindowModes
<1>6. DeviceBits \subseteq TellsOf("window")
  <2> SUFFICES ASSUME NEW b \in DeviceBits PROVE b \in TellsOf("window")
    OBVIOUS
  <2>1. b.split \in {0, 1} /\ b.floating \in {0, 1}
    BY DEF DeviceBits
  <2>2. b \in {Bits(0, 0), Bits(0, 1), Bits(1, 0), Bits(1, 1)}
    BY <1>4, <2>1
  <2> QED
    BY <1>1, <1>5, <2>2
<1> QED
  BY <1>1, <1>2, <1>3, <1>6

LEMMA DeviceStartType == DeviceInit => DeviceFlags /\ DeviceTold
<1>1. DeviceInit => DeviceFlags
  BY Zenon DEF DeviceInit, DeviceFlags
<1>2. DeviceInit => DeviceTold
  BY Zenon DEF DeviceInit, DeviceTold, TellsOf
<1> QED
  BY <1>1, <1>2

LEMMA DeviceStepFlags ==
  ASSUME DeviceFlags, [DeviceNext]_deviceVars
  PROVE  DeviceFlags'
<1> USE DEF DeviceFlags
<1>1. CASE RegisterDevice \/ ReadState
  BY <1>1, Zenon DEF RegisterDevice, ReadState
<1>2. ASSUME NEW ok \in BOOLEAN, UseState(ok) PROVE DeviceFlags'
  BY <1>2, Zenon DEF UseState, InitWindowMode, InitFoldMode, InitWindowStyle
<1>3. ASSUME NEW formed \in BOOLEAN, OnEvent(formed) PROVE DeviceFlags'
  BY <1>3, Zenon DEF OnEvent
<1>4. ASSUME NEW state, DeviceChanges(state) PROVE DeviceFlags'
  BY <1>4, Zenon DEF DeviceChanges
<1>5. CASE UNCHANGED deviceVars
  BY <1>5, Zenon DEF deviceVars
<1> QED
  BY <1>1, <1>2, <1>3, <1>4, <1>5, Zenon DEF DeviceNext

LEMMA DeviceStepTold ==
  ASSUME DeviceInv, DeviceTold, [DeviceNext]_deviceVars
  PROVE  DeviceTold'
<1>1. ASSUME UNCHANGED <<topic, last, told>> PROVE DeviceTold'
  BY <1>1 DEF DeviceTold
<1>2. topic' = topic
  BY DEF DeviceNext, RegisterDevice, ReadState, UseState, OnEvent, DeviceChanges, deviceVars
<1>3. \A state \in StatesOf(topic) : TellOf(topic, state) \in TellsOf(topic)
  BY DEF TellsOf
<1>4. ASSUME topic = "fold", NEW state \in StatesOf(topic), OnDisplayModeChanged(state)
      PROVE  DeviceTold'
  <2>1. FoldModeEntered(state) \in TellsOf("fold") /\ NoMode \in TellsOf("fold")
    BY <1>3, <1>4 DEF TellsOf, TellOf, UntoldOf
  <2>2. last \in TellsOf("fold") /\ told \in TellsOf("fold")
    BY <1>4 DEF DeviceTold
  <2> QED
    BY <1>2, <1>4, <2>1, <2>2 DEF OnDisplayModeChanged, DeviceTold
<1>5. setUp.read \in StatesOf(topic)
  BY DEF DeviceInv, DeviceData
<1>6. ASSUME NEW ok \in BOOLEAN, UseState(ok), topic # "window" PROVE DeviceTold'
  <2>1. CASE InitFoldMode
    BY <1>4, <1>5, <2>1 DEF InitFoldMode
  <2>2. CASE InitWindowStyle
    <3>1. TableOf(topic)[setUp.read] \in TellsOf(topic)
      BY <1>3, <1>5, <2>2 DEF TellOf, InitWindowStyle
    <3> QED
      BY <1>2, <2>2, <3>1 DEF InitWindowStyle, OnHandedOn, DeviceTold
  <2> QED
    BY <1>6, <2>1, <2>2 DEF UseState, InitWindowMode
<1>7. ASSUME NEW formed \in BOOLEAN, OnEvent(formed), topic # "window" PROVE DeviceTold'
  <2> DEFINE state == Head(callbacksSent)
  <2>1. state \in StatesOf(topic)
    BY <1>7 DEF OnEvent, DeviceInv, DeviceData
  <2> HIDE DEF state
  <2>2. CASE UNCHANGED <<last, told>>
    BY <1>1, <1>2, <2>2
  <2>3. CASE topic = "fold" /\ ~UNCHANGED <<last, told>>
    <3>1. OnDisplayModeChanged(state)
      BY <1>7, <2>3 DEF OnEvent, state
    <3> QED
      BY <1>4, <2>1, <2>3, <3>1
  <2>4. CASE topic = "orientation" /\ ~UNCHANGED <<last, told>>
    <3>1. OnDisplayChange
      BY <1>7, <2>4 DEF OnEvent
    <3>2. truth \in TellsOf("orientation")
      BY <1>3, <2>4 DEF DeviceInv, DeviceData, TellOf
    <3> QED
      BY <1>2, <2>4, <3>1, <3>2 DEF OnDisplayChange, DeviceTold
  <2>5. CASE topic \notin {"window", "fold", "orientation"} /\ ~UNCHANGED <<last, told>>
    <3>1. OnHandedOn(state)
      BY <1>7, <2>5 DEF OnEvent, state
    <3>2. TableOf(topic)[state] \in TellsOf(topic)
      BY <1>3, <2>1, <2>5 DEF TellOf
    <3> QED
      BY <1>2, <3>1, <3>2 DEF OnHandedOn, DeviceTold
  <2> QED
    BY <1>7, <2>2, <2>3, <2>4, <2>5
<1>8. CASE topic = "window"
  BY <1>2, <1>8 DEF DeviceTold
<1>9. CASE RegisterDevice \/ ReadState \/ (\E state : DeviceChanges(state)) \/ UNCHANGED deviceVars
  <2>1. UNCHANGED <<topic, last, told>>
    BY <1>9 DEF RegisterDevice, ReadState, DeviceChanges, deviceVars
  <2> QED
    BY <1>1, <2>1
<1> QED
  BY <1>6, <1>7, <1>8, <1>9 DEF DeviceNext

LEMMA DeviceTyped ==
  ASSUME DeviceInv, DeviceFlags, DeviceTold
  PROVE  DeviceTypeOK
<1>1. {last, told} \subseteq TellsOf(topic)
  BY WindowTells DEF DeviceInv, DeviceData, DeviceTold
<1> QED
  BY <1>1, Zenon DEF DeviceInv, DeviceData, DeviceFlags, DeviceTypeOK

(* The types of AppState.                                                  *)
AppFlags == managerUp \in BOOLEAN /\ subscribed \in BOOLEAN /\ initializing \in BOOLEAN
AppFields ==
  managerDeaths \in 0..MaxManagerDeaths /\ foregroundPids \subseteq Pids /\ dispatched \in AppReports

LEMMA AppStateStartType == AppStateInit => AppFlags /\ AppFields
<1>1. AppStateInit => AppFlags
  BY Zenon DEF AppStateInit, AppFlags
<1>2. AppStateInit => AppFields
  BY AppStateAssumption DEF AppStateInit, AppFields, AppReports
<1> QED
  BY <1>1, <1>2

LEMMA NoticeForeground ==
  ASSUME AppFields, NEW p \in Pids, NEW state, OnApplicationStateChange(state, p)
  PROVE  foregroundPids' \subseteq Pids
  BY DEF OnApplicationStateChange, AppFields

LEMMA AppStateStepType ==
  ASSUME AppStateInv, AppFlags, AppFields, [AppStateNext]_appStateVars
  PROVE  AppFlags' /\ AppFields'
<1> DEFINE Kept == UNCHANGED <<managerDeaths, foregroundPids, dispatched>>
<1>1. CASE InitForegroundAppInfo \/ ManagerStarts \/ SubscribesAppState
  <2>1. AppFlags' /\ Kept
    BY <1>1, Zenon DEF InitForegroundAppInfo, ManagerStarts, SubscribesAppState, AppFlags
  <2> QED
    BY <2>1, Zenon DEF AppFields
<1>2. CASE MergeForegroundApps
  <2>1. AppFlags' /\ UNCHANGED <<managerDeaths, dispatched>>
    BY <1>2, Zenon DEF MergeForegroundApps, AppFlags
  <2>2. foregroundPids' \subseteq Pids
    BY <1>2 DEF MergeForegroundApps, AppFields, AppStateInv, AppStateData
  <2> QED
    BY <2>1, <2>2, Zenon DEF AppFields
<1>3. ASSUME NEW p \in Pids, Notified(p) PROVE AppFlags' /\ AppFields'
  <2>1. AppFlags' /\ managerDeaths' = managerDeaths
    BY <1>3, Zenon DEF Notified, AppFlags
  <2>2. foregroundPids' \subseteq Pids /\ dispatched' \in AppReports
    <3>1. CASE UNCHANGED <<foregroundPids, dispatched>>
      BY <3>1 DEF AppFields
    <3>2. CASE /\ dispatched' \in {"APP_STATE_CHANGE", "ON_APP_STATE_CHANGED", "PROCESS_STATE_CHANGE"}
               /\ \E state : OnApplicationStateChange(state, p)
      BY <3>2, NoticeForeground DEF AppReports
    <3> QED
      BY <1>3, <3>1, <3>2 DEF Notified, OnApplicationStateChanged, OnAppStateChanged,
         OnProcessStateChanged, OnProcessDied, ReportDataInner, ReportAppStateInProcess,
         ReportProcessStateInProcess
  <2> QED
    BY <2>1, <2>2 DEF AppFields
<1>4. ASSUME NEW p \in Pids, OnlyReported(p) PROVE AppFlags' /\ AppFields'
  <2>1. dispatched' \in AppReports
    BY <1>4 DEF OnlyReported, OnForegroundApplicationChanged, OnProcessCreated,
       OnAppCacheStateChanged, OnProcessPreForegroundChanged, OnAppStopped, OnPageShow,
       ReportDataInner, AppReports
  <2>2. AppFlags' /\ UNCHANGED <<managerDeaths, foregroundPids>>
    BY <1>4, Zenon DEF OnlyReported, managerVars, AppFlags
  <2> QED
    BY <2>1, <2>2 DEF AppFields
<1>5. ASSUME NEW p \in Pids, AppChanges(p) PROVE AppFlags' /\ AppFields'
  <2>1. AppFlags' /\ Kept
    BY <1>5, Zenon DEF AppChanges, AppFlags
  <2> QED
    BY <2>1, Zenon DEF AppFields
<1>6. CASE ManagerDies
  <2>1. AppFlags'
    BY <1>6, Zenon DEF ManagerDies, AppFlags
  <2>2. AppFields'
    BY <1>6, AppStateAssumption DEF ManagerDies, AppFields
  <2> QED
    BY <2>1, <2>2
<1>7. CASE UNCHANGED appStateVars
  <2>1. AppFlags' /\ Kept
    BY <1>7, Zenon DEF appStateVars, managerVars, AppFlags
  <2> QED
    BY <2>1, Zenon DEF AppFields
<1> QED
  BY <1>1, <1>2, <1>3, <1>4, <1>5, <1>6, <1>7 DEF AppStateNext

LEMMA AppStateTyped == AppStateInv /\ AppFlags /\ AppFields => AppStateTypeOK
  BY Zenon DEF AppStateInv, AppStateData, AppFlags, AppFields, AppStateTypeOK

(* The types of CgroupStates: CgInv has all but the bound of the queue.    *)
CgBound == Len(cgQueue) <= MaxPosted

LEMMA CgStartType == CgStatesInit => CgBound
<1> SUFFICES ASSUME CgStatesInit PROVE CgBound
  OBVIOUS
<1>1. Len(cgQueue) = 0
  BY DEF CgStatesInit
<1> QED
  BY <1>1, CgStatesAssumption DEF CgBound

LEMMA CgStepType ==
  ASSUME CgInv, CgBound, [CgStatesNext]_cgVars
  PROVE  CgBound'
<1>1. cgQueue \in Seq(CgTasks) /\ Len(cgQueue) \in Nat /\ MaxPosted \in Nat
  BY CgStatesAssumption DEF CgInv, CgTypes
<1>2. ASSUME NEW q \in Seq(CgTasks), NEW t PROVE Len(Append(q, t)) = Len(q) + 1
  BY <1>2
<1>3. ASSUME NEW type, NEW t, NEW v, CgDispatchResource(type, t, v) PROVE CgBound'
  BY <1>1, <1>2, <1>3 DEF CgDispatchResource, CgBound
<1>4. ASSUME cgQueue' = cgQueue PROVE CgBound'
  BY <1>4 DEF CgBound
<1>5. CASE RunTask
  <2> DEFINE rest == Tail(cgQueue)
  <2>1. cgQueue # <<>> /\ rest \in Seq(CgTasks) /\ Len(rest) = Len(cgQueue) - 1
    BY <1>1, <1>5 DEF RunTask
  <2>2. \/ cgQueue' = rest
        \/ \E t : cgQueue' = Append(rest, t)
    BY <1>5, Zenon DEF RunTask, CgReportAbilityStatus
  <2> HIDE DEF rest
  <2> QED
    BY <1>1, <1>2, <2>1, <2>2 DEF CgBound
<1>6. ASSUME NEW p \in CgReporters, NEW v \in BOOLEAN, NEW ok \in BOOLEAN, StateChanges(p, v, ok)
      PROVE  CgBound'
  BY <1>3, <1>4, <1>6, Zenon DEF StateChanges
<1>7. ASSUME NEW p \in CgProcs, ProcessStarts(p) \/ ProcessDies(p) \/ LifeReported(p)
      PROVE  CgBound'
  BY <1>3, <1>4, <1>7, Zenon DEF ProcessStarts, ProcessDies, LifeReported
<1>8. ASSUME NEW sa \in {"app_mgr", "power_mgr"}, AbilityRestarts(sa) PROVE CgBound'
  BY <1>3, <1>8, Zenon DEF AbilityRestarts
<1>9. CASE SchedControllerDisable \/ SchedControllerInit \/ UNCHANGED cgVars
  BY <1>4, <1>9, Zenon DEF SchedControllerDisable, SchedControllerInit, cgVars
<1> QED
  BY <1>5, <1>6, <1>7, <1>8, <1>9 DEF CgStatesNext

LEMMA CgTyped ==
  ASSUME CgInv, CgBound
  PROVE  CgStatesTypeOK
<1>1. AnyProcess \in CgProcs
  BY CgStatesAssumption DEF AnyProcess
<1>2. CgTasks = [op : TaskOps, pid : CgProcs, value : BOOLEAN]
  BY <1>1, CgProcs \cup {AnyProcess} = CgProcs, Zenon DEF CgTasks
<1>3. cgRecords # {} => cgApp
  BY Zenon DEF CgInv, CgAppRight
<1> QED
  BY <1>2, <1>3, Zenon DEF CgInv, CgTypes, CgBound, CgStatesTypeOK
=============================================================================
