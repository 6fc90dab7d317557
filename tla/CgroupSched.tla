---------------------------- MODULE CgroupSched ----------------------------
(***************************************************************************)
(* The cgroup scheduling plugin: which scheduling group each application   *)
(* process is in.  Supervisor keeps one Application per uid and one        *)
(* ProcessRecord per process; CgroupEventHandler turns events into changes *)
(* of the records; CgroupAdjuster computes a group from the records and    *)
(* writes it to the kernel.  All of it runs on one serial queue, so a      *)
(* handler is one action.                                                  *)
(*                                                                         *)
(* Events of one process come from several observers (application manager, *)
(* window manager, audio...), so apart from creation before death they     *)
(* arrive in any order, and may arrive after the death was handled.  A     *)
(* process keeps its uid, type and host, and pids are not reused.          *)
(***************************************************************************)
EXTENDS FiniteSets

CONSTANTS
  Pids, Uids,
  UidOf,      \* the uid of each process
  TypeOf,     \* the type its creation event reports
  HostOf,     \* the host of a render, gpu or child process; None for others
  Abilities,  \* record ids of abilities and extensions
  ServiceIds, \* those of service, extension and data abilities
  Windows,    \* window ids
  OwnerOf,    \* the process of each ability and window
  WebPids,    \* processes that report web sub-window tasks
  MayFail,    \* processes for which a write to the kernel may go wrong
  None

Main == {"NORMAL", "EXTENSION"}
Attached == {"RENDER", "GPU", "CHILD"}
Groups == {"SP_DEFAULT", "SP_BACKGROUND", "SP_FOREGROUND", "SP_TOP_APP"}
UPPER == "SP_UPPER_LIMIT"

ProcessRecord ==
  [type : Main \cup Attached, hostPid : Pids \cup {None},
   state : {"other", "foreground", "background"},
   abilities : SUBSET Abilities, visible : SUBSET Windows,
   set : Groups \cup {UPPER}, cur : Groups \cup {UPPER}, webSubWin : BOOLEAN]

ASSUME CgroupAssumption ==
  /\ UidOf \in [Pids -> Uids]
  /\ TypeOf \in [Pids -> Main \cup Attached]
  /\ HostOf \in [Pids -> Pids \cup {None}]
  /\ \A p \in Pids :
       IF TypeOf[p] \in Main THEN HostOf[p] = None
       ELSE HostOf[p] \in Pids /\ TypeOf[HostOf[p]] \in Main /\ UidOf[HostOf[p]] = UidOf[p]
  /\ ServiceIds \subseteq Abilities
  /\ OwnerOf \in [Abilities \cup Windows -> Pids]
  /\ WebPids \subseteq Pids
  /\ None \notin Pids /\ None \notin ProcessRecord

VARIABLES
  phase,    \* of each process: "new", "started", "known" (its creation was
            \* handled or missed), "dead" (its death was handled)
  apps,     \* the uids in Supervisor::uidsMap_
  recs,     \* pidsMap_: the ProcessRecord of each process, or None
  focused,  \* Application::focusedProcess_ of each uid, by pid, or None
  hosts,    \* Application::hostPidsSet_ of each uid
  hidden,   \* the uids with isCosmicCubeStateHide_
  timers,   \* processes with a webSubWinTask in delayTaskMap_
  kernel,   \* the group each process really is in (external)
  fresh     \* history: processes whose own group was computed after the
            \* latest event about them, by an event other than their creation

app == <<apps, focused, hosts, hidden>>
vars == <<phase, app, recs, timers, kernel, fresh>>

TypeOK ==
  /\ phase \in [Pids -> {"new", "started", "known", "dead"}]
  /\ apps \subseteq Uids /\ hidden \subseteq apps
  /\ recs \in [Pids -> ProcessRecord \cup {None}]
  /\ focused \in [Uids -> Pids \cup {None}]
  /\ hosts \in [Uids -> SUBSET Pids]
  /\ timers \subseteq Pids
  /\ kernel \in [Pids -> Groups \cup {None}]
  /\ fresh \subseteq Pids

Init ==
  /\ phase = [p \in Pids |-> "new"]
  /\ apps = {} /\ hidden = {} /\ timers = {} /\ fresh = {}
  /\ recs = [p \in Pids |-> None]
  /\ focused = [u \in Uids |-> None] /\ hosts = [u \in Uids |-> {}]
  /\ kernel = [p \in Pids |-> None]

Running(p) == phase[p] \in {"started", "known"}

-----------------------------------------------------------------------------
(* CgroupAdjuster                                                           *)

HasServiceExtension(pr) == pr.abilities \cap ServiceIds # {}
IsVisible(pr) == pr.visible # {}

ByState(pr) == IF pr.state = "background" THEN "SP_BACKGROUND" ELSE "SP_DEFAULT"

ByActivity(pr) ==
  IF /\ pr.abilities # {}
     /\ IsVisible(pr) \/ (~HasServiceExtension(pr) /\ pr.state = "foreground")
  THEN "SP_FOREGROUND" ELSE ByState(pr)

(* Mutant: the group the host asks for, whether or not it could be written.  *)
HostGroupWanted(rs, pr) ==
  IF pr.hostPid # None /\ rs[pr.hostPid] # None THEN rs[pr.hostPid].set ELSE "SP_DEFAULT"

HostGroup(rs, pr) ==
  IF pr.hostPid # None /\ rs[pr.hostPid] # None THEN rs[pr.hostPid].cur ELSE "SP_DEFAULT"

(* ComputeProcessGroup for the record of p in rs, with focused processes fp. *)
ComputeProcessGroup(rs, fp, p, source) ==
  IF rs[p].type = "RENDER" THEN HostGroup(rs, rs[p])
  ELSE IF source = "create" THEN "SP_DEFAULT"
  ELSE IF fp[UidOf[p]] = p THEN "SP_TOP_APP"
  ELSE ByActivity(rs[p])

(* The return value of SetThreadGroupSchedPolicy and the write itself are    *)
(* independent: CgroupMap::SetThreadSchedPolicy returns true whatever its    *)
(* controllers do, and the answer of the executor replaces the local result. *)
(* A policy that is not declared, such as the upper limit, is refused.  A    *)
(* write for a process that is gone moves nothing.                           *)
Results == {f \in [Pids -> BOOLEAN] : \A p \in Pids \ MayFail : f[p]}
Moves == {[p \in Pids |-> Running(p) /\ f[p]] : f \in Results}

(* ApplyProcessGroup: the record after the attempt to write its set group,   *)
(* and the group in the kernel.                                              *)
Written(pr) == pr.cur # pr.set /\ pr.set # UPPER
ApplyProcessGroup(pr, ok) == IF Written(pr) /\ ok THEN [pr EXCEPT !.cur = pr.set] ELSE pr
KernelGroup(pr, k, moved) == IF Written(pr) /\ moved THEN pr.set ELSE k

(* AdjustProcessGroup of the processes of M, one after the other, on the     *)
(* records rs the handler left: compute, apply, and let the attached         *)
(* processes of a host take over its current group.  Each reads only itself  *)
(* or its host, so the order does not matter.  AdjustForkProcessGroup, which *)
(* moves the forks of a process after it, is part of the write.              *)
Follows(rs, hs, q, M) ==
  /\ rs[q] # None /\ rs[q].type \in Attached
  /\ rs[q].hostPid \in M /\ rs[q].hostPid \in hs[UidOf[q]]
  /\ UidOf[rs[q].hostPid] = UidOf[q]

Adjusted(rs, M, source) ==
  \E ok \in Results, moved \in Moves :
    LET want == [p \in Pids |->
                  IF p \in M
                  THEN [rs[p] EXCEPT !.set = ComputeProcessGroup(rs, focused', p, source)]
                  ELSE rs[p]]
        own == [p \in Pids |-> IF p \in M THEN ApplyProcessGroup(want[p], ok[p]) ELSE rs[p]]
        follow(q) == [own[q] EXCEPT !.set = own[rs[q].hostPid].cur]
    IN /\ recs' = [q \in Pids |-> IF Follows(rs, hosts', q, M)
                                  THEN ApplyProcessGroup(follow(q), ok[q]) ELSE own[q]]
       /\ kernel' = [q \in Pids |->
                       IF Follows(rs, hosts', q, M) THEN KernelGroup(follow(q), kernel[q], moved[q])
                       ELSE IF q \in M THEN KernelGroup(want[q], kernel[q], moved[q])
                       ELSE kernel[q]]
       /\ fresh' = IF source = "create" THEN fresh \ M ELSE fresh \cup M

Mains(rs, u) == {p \in Pids : UidOf[p] = u /\ rs[p] # None /\ rs[p].type \in Main}
AdjustAllProcessGroup(rs, u, source) == Adjusted(rs, Mains(rs, u), source)

-----------------------------------------------------------------------------
(* Supervisor and Application                                               *)

NewRecord ==
  [type |-> "NORMAL", hostPid |-> None, state |-> "other", abilities |-> {},
   visible |-> {}, set |-> UPPER, cur |-> UPPER, webSubWin |-> FALSE]

GetProcessRecordNonNull(rs, p) ==
  IF rs[p] = None THEN [rs EXCEPT ![p] = NewRecord] ELSE rs

GetAppRecordNonNull(u) == apps' = apps \cup {u}

(* Mutant: the focus is kept when another process of the application is left. *)
RemoveProcessRecordFocused(p) ==
  LET u == UidOf[p]
      rest == [recs EXCEPT ![p] = None]
      gone == \A q \in Pids : UidOf[q] = u => rest[q] = None
  IN /\ recs' = rest
     /\ apps' = IF gone THEN apps \ {u} ELSE apps
     /\ focused' = IF gone THEN [focused EXCEPT ![u] = None] ELSE focused
     /\ hosts' = [hosts EXCEPT ![u] = IF gone THEN {} ELSE IF recs[p] = None THEN @ ELSE @ \ {p}]
     /\ hidden' = IF gone THEN hidden \ {u} ELSE hidden
     /\ fresh' = fresh \ {p}

(* RemoveProcessRecord, and RemoveApplication once no process is left.       *)
RemoveProcessRecord(p) ==
  LET u == UidOf[p]
      rest == [recs EXCEPT ![p] = None]
      gone == \A q \in Pids : UidOf[q] = u => rest[q] = None
  IN /\ recs' = rest
     /\ apps' = IF gone THEN apps \ {u} ELSE apps
     /\ focused' = IF gone \/ focused[u] = p THEN [focused EXCEPT ![u] = None] ELSE focused
     /\ hosts' = [hosts EXCEPT ![u] = IF gone THEN {} ELSE IF recs[p] = None THEN @ ELSE @ \ {p}]
     /\ hidden' = IF gone THEN hidden \ {u} ELSE hidden
     /\ fresh' = fresh \ {p}

-----------------------------------------------------------------------------
(* Processes (external)                                                     *)

Start(p) ==
  /\ phase[p] = "new" /\ (HostOf[p] # None => Running(HostOf[p]))
  /\ phase' = [phase EXCEPT ![p] = "started"]
  /\ UNCHANGED <<app, recs, timers, kernel, fresh>>

(* Any event about p other than its creation and death.                     *)
Event(p) == phase[p] # "new" /\ UNCHANGED phase

-----------------------------------------------------------------------------
(* CgroupEventHandler                                                       *)

(* HandleApplicationStateChanged, and the handlers that only make sure of    *)
(* the application: HandleTransientTaskStart and HandleTransientTaskEnd; and *)
(* HandleContinuousTaskCancel and HandleReportWebviewAudioState when the     *)
(* process is unknown.                                                       *)
HandleApplicationEvent(p) ==
  /\ Event(p)
  /\ GetAppRecordNonNull(UidOf[p])
  /\ UNCHANGED <<recs, focused, hosts, hidden, timers, kernel, fresh>>

(* Any state is recorded, the foreground and the background being those the  *)
(* groups depend on.  A process that is pre-launched into the background is  *)
(* not adjusted.                                                             *)
HandleProcessStateChanged(p, state, prelaunch) ==
  LET rs == [GetProcessRecordNonNull(recs, p) EXCEPT ![p].state = state] IN
  /\ Event(p)
  /\ GetAppRecordNonNull(UidOf[p])
  /\ UNCHANGED <<focused, hosts, hidden, timers>>
  /\ IF state = "background" /\ prelaunch
     THEN recs' = rs /\ fresh' = fresh \ {p} /\ UNCHANGED kernel
     ELSE Adjusted(rs, {p}, "state")

(* HandleAbilityStateChanged and HandleExtensionStateChanged for a state     *)
(* other than terminated; a pre-launched ability that is created or sent to  *)
(* the background is ignored.                                                *)
HandleAbilityStateChanged(p, a) ==
  LET rs == [GetProcessRecordNonNull(recs, p) EXCEPT ![p].abilities = @ \cup {a}] IN
  /\ Event(p)
  /\ GetAppRecordNonNull(UidOf[p])
  /\ UNCHANGED <<focused, hosts, hidden, timers>>
  /\ Adjusted(rs, {p}, "ability")

HandleAbilityTerminated(p, a) ==
  /\ Event(p)
  /\ recs[p] # None
  /\ UNCHANGED <<app, timers>>
  /\ Adjusted([recs EXCEPT ![p].abilities = @ \ {a}], {p}, "ability")

(* Mutant: AddHostProcess is called for every type of process.              *)
HandleProcessCreatedHosted(p, preload) ==
  /\ phase[p] = "started"
  /\ phase' = [phase EXCEPT ![p] = "known"]
  /\ GetAppRecordNonNull(UidOf[p])
  /\ hosts' = [hosts EXCEPT ![UidOf[p]] = @ \cup {HostOf[p]}]
  /\ UNCHANGED <<focused, hidden, timers>>
  /\ Adjusted([GetProcessRecordNonNull(recs, p) EXCEPT ![p].type = TypeOf[p], ![p].hostPid = HostOf[p]],
              {p}, IF preload THEN "preload" ELSE "create")

(* The creation of a preloaded process is adjusted with another source.      *)
HandleProcessCreated(p, preload) ==
  LET rs == [GetProcessRecordNonNull(recs, p) EXCEPT
               ![p].type = TypeOf[p],
               ![p].hostPid = IF TypeOf[p] \in Attached THEN HostOf[p] ELSE @]
  IN /\ phase[p] = "started"
     /\ phase' = [phase EXCEPT ![p] = "known"]
     /\ GetAppRecordNonNull(UidOf[p])
     /\ hosts' = IF TypeOf[p] \in Attached
                 THEN [hosts EXCEPT ![UidOf[p]] = @ \cup {HostOf[p]}] ELSE hosts
     /\ UNCHANGED <<focused, hidden, timers>>
     /\ Adjusted(rs, {p}, IF preload THEN "preload" ELSE "create")

HandleProcessDied(p) ==
  /\ phase[p] = "known"
  /\ phase' = [phase EXCEPT ![p] = "dead"]
  /\ kernel' = [kernel EXCEPT ![p] = None]
  /\ IF UidOf[p] \in apps THEN RemoveProcessRecord(p) ELSE UNCHANGED <<app, recs, fresh>>
  /\ UNCHANGED timers

(* A report that creates the records it needs: HandleContinuousTaskUpdate.   *)
HandleContinuousTaskUpdate(p) ==
  /\ Event(p)
  /\ GetAppRecordNonNull(UidOf[p])
  /\ UNCHANGED <<focused, hosts, hidden, timers>>
  /\ Adjusted(GetProcessRecordNonNull(recs, p), {p}, "report")

(* A report about a known process: HandleContinuousTaskCancel, audio, audio  *)
(* capture, webview audio and screen capture.                                *)
HandleReport(p) ==
  /\ Event(p)
  /\ recs[p] # None
  /\ UNCHANGED <<app, timers>>
  /\ Adjusted(recs, {p}, "report")

(* Mutant: only the process that gains the focus is adjusted.                *)
HandleFocusedWindowAlone(p) ==
  /\ Event(p)
  /\ GetAppRecordNonNull(UidOf[p])
  /\ focused' = [focused EXCEPT ![UidOf[p]] = p]
  /\ UNCHANGED <<hosts, hidden, timers>>
  /\ Adjusted(GetProcessRecordNonNull(recs, p), {p}, "focus")

HandleFocusedWindow(p) ==
  /\ Event(p)
  /\ GetAppRecordNonNull(UidOf[p])
  /\ focused' = [focused EXCEPT ![UidOf[p]] = p]
  /\ UNCHANGED <<hosts, hidden, timers>>
  /\ AdjustAllProcessGroup(GetProcessRecordNonNull(recs, p), UidOf[p], "focus")

HandleUnfocusedWindow(p) ==
  /\ Event(p)
  /\ recs[p] # None
  /\ focused' = IF focused[UidOf[p]] = p THEN [focused EXCEPT ![UidOf[p]] = None] ELSE focused
  /\ UNCHANGED <<apps, hosts, hidden, timers>>
  /\ AdjustAllProcessGroup(recs, UidOf[p], "unfocus")

(* Nothing is adjusted when the visibility of the window stays the same.     *)
HandleWindowVisible(p, w) ==
  LET rs == GetProcessRecordNonNull(recs, p) IN
  /\ Event(p)
  /\ GetAppRecordNonNull(UidOf[p])
  /\ UNCHANGED <<focused, hosts, hidden, timers>>
  /\ IF w \in rs[p].visible
     THEN UNCHANGED <<recs, kernel, fresh>>
     ELSE Adjusted([rs EXCEPT ![p].visible = @ \cup {w}], {p}, "visibility")

(* Mutant: a window that is hidden does not adjust its process.              *)
HandleWindowHiddenUnadjusted(p, w) ==
  /\ Event(p)
  /\ recs[p] # None /\ w \in recs[p].visible
  /\ recs' = [recs EXCEPT ![p].visible = @ \ {w}]
  /\ UNCHANGED <<app, timers, kernel, fresh>>

HandleWindowHidden(p, w) ==
  /\ Event(p)
  /\ recs[p] # None /\ w \in recs[p].visible
  /\ UNCHANGED <<app, timers>>
  /\ Adjusted([recs EXCEPT ![p].visible = @ \ {w}], {p}, "visibility")

(* HandleReportKeyThread and HandleReportWindowState: GetProcInfoByPayload   *)
(* creates the record if the application is known; the host is adjusted if   *)
(* the report passes its checks.  HandleReportWebviewVideoState stops after  *)
(* the record.                                                               *)
HandleRenderReport(p, accepted) ==
  LET rs == GetProcessRecordNonNull(recs, p)
      h  == rs[p].hostPid
  IN /\ Event(p)
     /\ UidOf[p] \in apps
     /\ UNCHANGED <<app, timers>>
     /\ IF accepted /\ h # None /\ rs[h] # None
        THEN Adjusted(rs, {h}, "report")
        ELSE recs' = rs /\ UNCHANGED <<kernel, fresh>>

(* HandleWebviewScreenCapture adjusts the process itself.                    *)
HandleWebviewScreenCapture(p) ==
  /\ Event(p)
  /\ UidOf[p] \in apps
  /\ UNCHANGED <<app, timers>>
  /\ Adjusted(GetProcessRecordNonNull(recs, p), {p}, "report")

(* HandleReportCosmicCubeState for a known process ...                       *)
HandleReportCosmicCubeState(p, hide) ==
  /\ Event(p)
  /\ recs[p] # None
  /\ hidden' = IF hide THEN hidden \cup {UidOf[p]} ELSE hidden \ {UidOf[p]}
  /\ UNCHANGED <<apps, focused, hosts, timers>>
  /\ IF recs[p].type = "NORMAL" THEN Adjusted(recs, {p}, "state")
     ELSE UNCHANGED <<recs, kernel, fresh>>

(* ... and with an empty payload: recover every hidden application.          *)
HandleEmptyPayloadForCosmicCubeState ==
  /\ hidden # {}
  /\ hidden' = {}
  /\ UNCHANGED <<phase, apps, focused, hosts, timers>>
  /\ Adjusted(recs, {p \in Pids : /\ recs[p] # None /\ recs[p].type = "NORMAL"
                                  /\ UidOf[p] \in hidden}, "state")

(* Mutant: the old task is removed after the new one was posted.             *)
HandleReportWebSubWinTaskStatusSwapped(p, start) ==
  /\ Event(p) /\ p \in WebPids
  /\ recs[p] # None
  /\ recs' = [recs EXCEPT ![p].webSubWin = start]
  /\ timers' = timers \ {p}
  /\ UNCHANGED <<app, kernel, fresh>>

(* A START report arms the timer of the process again, an END report cancels *)
(* it; the task name is the pid and the uid.                                 *)
HandleReportWebSubWinTaskStatus(p, start) ==
  /\ Event(p) /\ p \in WebPids
  /\ recs[p] # None
  /\ recs' = [recs EXCEPT ![p].webSubWin = start]
  /\ timers' = IF start THEN timers \cup {p} ELSE timers \ {p}
  /\ UNCHANGED <<app, kernel, fresh>>

CheckWebSubWinTaskStatus(p) ==
  /\ p \in timers
  /\ timers' = timers \ {p}
  /\ recs' = IF recs[p] = None THEN recs ELSE [recs EXCEPT ![p].webSubWin = FALSE]
  /\ UNCHANGED <<phase, app, kernel, fresh>>

HandleOnAppStopped(u) ==
  /\ u \in apps
  /\ apps' = apps \ {u} /\ hidden' = hidden \ {u}
  /\ recs' = [p \in Pids |-> IF UidOf[p] = u THEN None ELSE recs[p]]
  /\ focused' = [focused EXCEPT ![u] = None]
  /\ hosts' = [hosts EXCEPT ![u] = {}]
  /\ fresh' = {p \in fresh : UidOf[p] # u}
  /\ UNCHANGED <<phase, timers, kernel>>

(* HandleAbilityAdded for the application manager: ReloadApplication and     *)
(* ReloadChildProcess fill in the processes S and the children C it names.   *)
(* GetRunningLockState, for the power manager, does the first half only.     *)
HandleAbilityAdded(S, C) ==
  LET made(p) == IF recs[p] = None THEN NewRecord ELSE recs[p] IN
  /\ \A p \in S : Running(p)
  /\ \A p \in C : Running(p) /\ TypeOf[p] = "CHILD" /\ Running(HostOf[p])
  /\ S \cup C # {}
  /\ apps' = apps \cup {UidOf[p] : p \in S \cup C}
  /\ recs' = [p \in Pids |->
               IF p \in C THEN [made(p) EXCEPT !.type = "CHILD", !.hostPid = HostOf[p]]
               ELSE IF p \in S THEN made(p) ELSE recs[p]]
  /\ hosts' = [u \in Uids |-> hosts[u] \cup {HostOf[p] : p \in {c \in C : UidOf[c] = u}}]
  /\ UNCHANGED <<phase, focused, hidden, timers, kernel, fresh>>

(* The service crashes: the records are lost, the kernel keeps the groups,   *)
(* and the creation events of the processes that run are not sent again.     *)
Restart ==
  /\ apps # {}
  /\ apps' = {} /\ hidden' = {} /\ timers' = {} /\ fresh' = {}
  /\ recs' = [p \in Pids |-> None]
  /\ focused' = [u \in Uids |-> None] /\ hosts' = [u \in Uids |-> {}]
  /\ phase' = [p \in Pids |-> IF phase[p] = "started" THEN "known" ELSE phase[p]]
  /\ UNCHANGED kernel

ProcessStep(p) ==
  \/ Start(p)
  \/ \E preload \in BOOLEAN : HandleProcessCreated(p, preload)
  \/ HandleProcessDied(p)
  \/ HandleApplicationEvent(p)
  \/ \E s \in {"other", "foreground", "background"}, pl \in BOOLEAN : HandleProcessStateChanged(p, s, pl)
  \/ \E a \in {b \in Abilities : OwnerOf[b] = p} :
       HandleAbilityStateChanged(p, a) \/ HandleAbilityTerminated(p, a)
  \/ HandleContinuousTaskUpdate(p) \/ HandleReport(p)
  \/ HandleFocusedWindow(p) \/ HandleUnfocusedWindow(p)
  \/ \E w \in {v \in Windows : OwnerOf[v] = p} :
       HandleWindowVisible(p, w) \/ HandleWindowHidden(p, w)
  \/ \E accepted \in BOOLEAN : HandleRenderReport(p, accepted)
  \/ HandleWebviewScreenCapture(p)
  \/ \E hide \in BOOLEAN : HandleReportCosmicCubeState(p, hide)
  \/ \E start \in BOOLEAN : HandleReportWebSubWinTaskStatus(p, start)
  \/ CheckWebSubWinTaskStatus(p)

Next ==
  \/ \E p \in Pids : ProcessStep(p)
  \/ \E u \in Uids : HandleOnAppStopped(u)
  \/ HandleEmptyPayloadForCosmicCubeState
  \/ \E S, C \in SUBSET Pids : HandleAbilityAdded(S, C)
  \/ Restart

Spec == Init /\ [][Next]_vars

-----------------------------------------------------------------------------
(* Properties                                                               *)

(* The records hang together: an application that is known by a process, a  *)
(* focus or a host is in uidsMap_, and focusedProcess_, a shared pointer    *)
(* that would keep a removed record alive, is a record of pidsMap_.         *)
FocusedIsTracked ==
  /\ \A p \in Pids : recs[p] # None => UidOf[p] \in apps
  /\ \A u \in Uids : hosts[u] # {} => u \in apps
  /\ \A u \in Uids :
       focused[u] # None => UidOf[focused[u]] = u /\ recs[focused[u]] # None

(* Only the focused process of an application asks for SP_TOP_APP, so at     *)
(* most one main process of an application does, whatever the order in which *)
(* focus, unfocus, creation and death events arrive.                         *)
TopAppIsFocused ==
  \A p \in Pids :
    (recs[p] # None /\ recs[p].type \in Main /\ recs[p].set = "SP_TOP_APP")
       => focused[UidOf[p]] = p

(* No handler forgets to adjust: the group a main process asks for is the    *)
(* one its record asks for now, unless the last event about it was its       *)
(* creation or its pre-launch into the background.                           *)
GroupIsCurrent ==
  \A p \in fresh :
    /\ recs[p] # None
    /\ recs[p].type \in Main =>
         recs[p].set = ComputeProcessGroup(recs, focused, p, "event")

(* An attached process of a live, known host asks for the group the host is  *)
(* in, once either was adjusted.                                             *)
FollowsHost(q) ==
  LET h == recs[q].hostPid IN
  (/\ recs[q].set # UPPER
   /\ h # None /\ Running(h) /\ recs[h] # None /\ h \in hosts[UidOf[q]] /\ recs[h].cur # UPPER)
     => recs[q].set = recs[h].cur

(* A render process follows its host whichever of the two is created first,  *)
(* whichever events arrive before the creation, through a restart of the     *)
(* service and when writes fail.                                             *)
RenderFollowsHost ==
  \A q \in Pids : (recs[q] # None /\ recs[q].type = "RENDER") => FollowsHost(q)

(* "The group of attached processes (render, GPU, child) follows the host."  *)
AttachedFollowHost ==
  \A q \in Pids : (recs[q] # None /\ recs[q].type \in Attached) => FollowsHost(q)

(* A sub-window task that is on has its timer running, although the timer is *)
(* found by name and survives the record it was set for.                     *)
SubWinTaskIsTimed ==
  \A p \in Pids : (recs[p] # None /\ recs[p].webSubWin) => p \in timers

(* "curSchedGroup_ is updated only after the write succeeded."               *)
CurOnlyAfterWrite ==
  [][\A p \in Pids :
       (Running(p) /\ recs[p] # None /\ recs'[p] # None /\ recs'[p].cur # recs[p].cur)
          => kernel'[p] = recs'[p].cur]_vars
=============================================================================
