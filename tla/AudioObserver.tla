--------------------------- MODULE AudioObserver ---------------------------
(***************************************************************************)
(* AudioObserver: what the service reports about the processes that play   *)
(* and record.  The audio service hands over the list of all its sessions  *)
(* at each change; a released session is in one list and then no more.     *)
(* sessions is the audio service's own table (external); every list is     *)
(* handled before the next one (renderStateMutex_).                        *)
(***************************************************************************)
EXTENDS Naturals, FiniteSets

CONSTANTS
  Sessions,   \* session ids
  PidOf,      \* process of each session
  Volumes     \* volume levels

ASSUME AudioAssumption == DOMAIN PidOf = Sessions

AudioPids == {PidOf[s] : s \in Sessions}
NoState == "none"
RendererStates == {"PREPARED", "RUNNING", "PAUSED", "STOPPED", "RELEASED"}
CapturerStates == RendererStates

VARIABLES
  renderers,           \* renderer sessions of the audio service (external)
  capturers,           \* its capturer sessions (external)
  renderState,         \* renderState_: state of the sessions of the last list
  processRenderState,  \* processRenderStateMap_: running sessions by process
  capturerState,       \* capturerStateMap_: capturing sessions by process
  innerAudio,          \* last RES_TYPE_INNER_AUDIO_STATE report by process
  capture,             \* last RES_TYPE_AUDIO_CAPTURE_STATUS_CHANGED by process
  reported,            \* last RES_TYPE_AUDIO_RENDER_STATE_CHANGE by session
  volume,              \* volumeState_, one stream type
  volumeReported,      \* last RES_TYPE_AUDIO_VOLUME_KEY_CHANGE
  lostPids             \* history: RUNNING when the observer was given up

audioVars == <<renderers, capturers, renderState, processRenderState,
               capturerState, innerAudio, capture, reported, volume,
               volumeReported, lostPids>>

(* A map of the code: a function on the processes or sessions it has.      *)
MapOver(keys, values) == UNION {[k -> values] : k \in SUBSET keys}
With(f, k, v) == [x \in DOMAIN f \cup {k} |-> IF x = k THEN v ELSE f[x]]
Empty == [x \in {} |-> {}]

AudioTypeOK ==
  /\ renderers \in MapOver(Sessions, RendererStates)
  /\ capturers \in MapOver(Sessions, CapturerStates)
  /\ DOMAIN renderState \subseteq Sessions
  /\ \A p \in DOMAIN processRenderState : processRenderState[p] \subseteq Sessions
  /\ \A p \in DOMAIN capturerState : capturerState[p] \subseteq Sessions
  /\ innerAudio \in [AudioPids -> {NoState, "AUDIO_STATE_RUNNING", "AUDIO_STATE_STOP"}]
  /\ capture \in [AudioPids -> {NoState, "AUDIO_CAPTURE_BEGIN", "AUDIO_CAPTURE_END"}]
  /\ volume \in Volumes \cup {NoState} /\ volumeReported \in Volumes \cup {NoState}
  /\ lostPids \subseteq AudioPids

AudioInit ==
  /\ renderers = Empty /\ capturers = Empty /\ renderState = Empty
  /\ processRenderState = Empty /\ capturerState = Empty
  /\ innerAudio = [p \in AudioPids |-> NoState]
  /\ capture = [p \in AudioPids |-> NoState]
  /\ reported = Empty /\ volume = NoState /\ volumeReported = NoState
  /\ lostPids = {}

-----------------------------------------------------------------------------
(* The sessions of the list in a state.                                    *)
In(list, states) == {s \in DOMAIN list : list[s] \in states}
Stopping == {"STOPPED", "RELEASED", "PAUSED"}

(* The loop of OnRendererStateChange over the map of processes: a running  *)
(* session is added (ProcessRunningSessionState), a stopped one taken out  *)
(* (ProcessStopSessionState); a session is in a list once, so the order of *)
(* the list does not matter.                                               *)
ProcessRunningSessionState(map, list) ==
  [p \in DOMAIN map \cup {PidOf[s] : s \in In(list, {"RUNNING"})} |->
     (IF p \in DOMAIN map THEN map[p] ELSE {})
     \cup {s \in In(list, {"RUNNING"}) : PidOf[s] = p}]
ProcessStopSessionState(map, list) ==
  [p \in DOMAIN map |-> map[p] \ In(list, Stopping)]

IsRenderStateChange(list, s) ==
  s \notin DOMAIN renderState \/ renderState[s] # list[s]

(* Mutant: a stopped session ends its process although others play.        *)
HandleStopAudioStateEventAny(map, stopPids) == stopPids \cap DOMAIN map
(* HandleStopAudioStateEvent: the processes whose last session stopped.    *)
HandleStopAudioStateEvent(map, stopPids) ==
  {p \in stopPids \cap DOMAIN map : map[p] = {}}
(* HandleStartAudioStateEvent: processes new in the map.                   *)
HandleStartAudioStateEvent(old, map) ==
  {p \in DOMAIN map \ DOMAIN old : map[p] # {}}

OnRendererStateChange(list) ==
  LET stopPids == {PidOf[s] : s \in In(list, Stopping)}
      map == ProcessStopSessionState(
               ProcessRunningSessionState(processRenderState, list), list)
      started == HandleStartAudioStateEvent(processRenderState, map)
      ended == HandleStopAudioStateEvent(map, stopPids)
  IN  /\ processRenderState' = [p \in DOMAIN map \ ended |-> map[p]]
      /\ renderState' = list
      /\ reported' = [s \in DOMAIN reported \cup DOMAIN list |->
                        IF s \in DOMAIN list /\ IsRenderStateChange(list, s)
                          THEN list[s] ELSE reported[s]]
      /\ innerAudio' = [p \in AudioPids |->
                          IF p \in ended THEN "AUDIO_STATE_STOP"
                          ELSE IF p \in started THEN "AUDIO_STATE_RUNNING"
                          ELSE innerAudio[p]]

ProcessCapturerBegin(map, list) == ProcessRunningSessionState(map, list)
(* A process without entry is skipped, an empty entry is erased.           *)
ProcessCapturerEnd(map, list) ==
  LET left == [p \in DOMAIN map |-> map[p] \ In(list, {"STOPPED", "RELEASED"})]
  IN  [p \in {q \in DOMAIN map : left[q] # {}} |-> left[p]]

OnCapturerStateChange(list) ==
  LET begun == ProcessCapturerBegin(capturerState, list)
      map == ProcessCapturerEnd(begun, list)
  IN  /\ capturerState' = map
      /\ capture' = [p \in AudioPids |->
                       IF p \in DOMAIN begun \ DOMAIN map THEN "AUDIO_CAPTURE_END"
                       ELSE IF p \in DOMAIN begun \ DOMAIN capturerState
                              THEN "AUDIO_CAPTURE_BEGIN"
                       ELSE capture[p]]

(* The audio service changes one session and hands over its list.          *)
Change(table, s, state) == With(table, s, state)
Remaining(table) == [s \in {x \in DOMAIN table : table[x] # "RELEASED"} |-> table[s]]

RendererChanges(s, state) ==
  /\ s \in DOMAIN renderers <=> state # "PREPARED"
  /\ OnRendererStateChange(Change(renderers, s, state))
  /\ renderers' = Remaining(Change(renderers, s, state))
  /\ UNCHANGED <<capturers, capturerState, capture, volume, volumeReported, lostPids>>

CapturerChanges(s, state) ==
  /\ s \in DOMAIN capturers <=> state # "PREPARED"
  /\ OnCapturerStateChange(Change(capturers, s, state))
  /\ capturers' = Remaining(Change(capturers, s, state))
  /\ UNCHANGED <<renderers, renderState, processRenderState, innerAudio, reported,
                 volume, volumeReported, lostPids>>

(* A level that was reported last for the stream is not reported again.    *)
OnVolumeKeyEvent(v) ==
  /\ volume' = v
  /\ volumeReported' = IF volume = v THEN volumeReported ELSE v
  /\ UNCHANGED <<renderers, capturers, renderState, processRenderState,
                 capturerState, innerAudio, capture, reported, lostPids>>
OnPreferredOutputDeviceUpdated ==
  /\ volume' = NoState
  /\ UNCHANGED <<renderers, capturers, renderState, processRenderState,
                 capturerState, innerAudio, capture, reported, volumeReported,
                 lostPids>>

(* Mutant: the recordings are not ended.                                   *)
ProcessCapturerEndCaseByUnregisterSilent == UNCHANGED capture
ProcessCapturerEndCaseByUnregister ==
  capture' = [p \in AudioPids |->
                IF p \in DOMAIN capturerState THEN "AUDIO_CAPTURE_END" ELSE capture[p]]

(* The audio service dies: DisableAudioObserver ends the recordings and    *)
(* gives the observer up, its maps with it; the playing processes are not  *)
(* reported.  It comes back without sessions, and AudioObserver::Init      *)
(* finds none.                                                             *)
AudioServiceRestarts ==
  /\ ProcessCapturerEndCaseByUnregister
  /\ renderers' = Empty /\ capturers' = Empty
  /\ renderState' = Empty /\ processRenderState' = Empty /\ capturerState' = Empty
  /\ reported' = Empty /\ volume' = NoState
  /\ lostPids' = lostPids \cup {p \in AudioPids : innerAudio[p] = "AUDIO_STATE_RUNNING"}
  /\ UNCHANGED <<innerAudio, volumeReported>>

AudioNext ==
  \/ \E s \in Sessions, state \in RendererStates : RendererChanges(s, state)
  \/ \E s \in Sessions, state \in CapturerStates : CapturerChanges(s, state)
  \/ \E v \in Volumes : OnVolumeKeyEvent(v)
  \/ OnPreferredOutputDeviceUpdated
  \/ AudioServiceRestarts

AudioSpec == AudioInit /\ [][AudioNext]_audioVars

-----------------------------------------------------------------------------
(* The last report about a process is the truth: it plays exactly while    *)
(* one of its sessions runs, and records from the first session that runs  *)
(* to the end of the last one, however sessions of one process overlap and *)
(* when the audio service dies.  Excepted are processes that played when   *)
(* the observer was given up: no stop is reported for them.                *)
AudioReportsRight ==
  \A p \in AudioPids :
    /\ p \notin lostPids =>
         (innerAudio[p] = "AUDIO_STATE_RUNNING"
            <=> \E s \in In(renderers, {"RUNNING"}) : PidOf[s] = p)
    /\ (\E s \in In(capturers, {"RUNNING"}) : PidOf[s] = p)
         => capture[p] = "AUDIO_CAPTURE_BEGIN"
    /\ capture[p] = "AUDIO_CAPTURE_BEGIN"
         => \E s \in In(capturers, {"PREPARED", "RUNNING", "PAUSED"}) : PidOf[s] = p
============================================================================
