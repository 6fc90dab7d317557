----------------------------- MODULE Systemload -----------------------------
(***************************************************************************)
(* The system load service: NotifierMgr (who is told which load level) and *)
(* the part of ResSchedService that feeds it (the level reported by the    *)
(* device and the debugging override set through hidumper).                *)
(*                                                                         *)
(* A client is one process with one notifier object, so a member of Procs  *)
(* stands for both.  PidOf lets two processes, one after the other, have   *)
(* the same pid.  IPC calls of a client are handled some time after they   *)
(* were made, and a process may die in between; the death of a notifier    *)
(* with a death recipient is announced later still.  A thread of Callers   *)
(* runs ResSchedService::OnDeviceLevelChanged for the device or            *)
(* DumpSetSystemLoad for hidumper; each of its steps reads or writes one   *)
(* piece of shared state, because none of these functions holds a lock     *)
(* throughout.                                                             *)
(***************************************************************************)
EXTENDS Integers, Sequences, FiniteSets

CONSTANTS
  Calls,      \* what clients may call: "register" and "unregister"
  Procs,      \* client processes; each owns one notifier object
  Pids,       \* process identifiers
  PidOf,      \* the pid of each process
  HapProcs,   \* the processes whose token is a HAP token (IsHapApp)
  Mortal,     \* the processes that may die
  Named,      \* those whose bundle name the application manager may find
  Devices,    \* threads on which the device reports a level
  Dumpers,    \* threads that run DumpSetSystemLoad
  MaxLevel,   \* ResType::SystemloadLevel::ESCAPE
  MaxReport,  \* MAX_REPORT_SIZE
  QueueBound, \* bound of the model on the length of DeviceNotifyQueue
  None        \* no value

ASSUME SystemloadAssumption ==
  /\ PidOf \in [Procs -> Pids] /\ Calls \subseteq {"register", "unregister"}
  /\ HapProcs \subseteq Procs /\ Mortal \subseteq Procs /\ Named \subseteq Procs
  /\ MaxLevel \in Nat \ {0}
  /\ MaxReport \in Nat \ {0}
  /\ QueueBound \in Nat \ {0}
  /\ None \notin Int /\ None \notin Procs

Callers == Devices \cup Dumpers

LOW == 0
Levels == LOW..MaxLevel
\* What the device may report: the levels, and a value out of their range.
Reports == Levels \cup {MaxLevel + 1}

VARIABLES
  actual,     \* ResSchedService::actualSystemLoadLevel_
  debugLevel, \* ResSchedService::debugSystemLoadLevel_
  debugOn,    \* ResSchedService::systemLoadLevelDebugEnable_
  level,      \* NotifierMgr::systemloadLevel_
  file,       \* the level in SYSTEMLOAD_FILE; None if there is no file
  map,        \* NotifierMgr::notifierMap_
  queue,      \* DeviceNotifyQueue: tasks <<notifiers, level>>
  stat,       \* hisyseventBundleNames_ and the number of report tasks
  thread,     \* program counter and locals of each caller
  proc,       \* "new", "alive" or "dead"
  call,       \* the IPC call each process has made and nobody has handled
  recipients, \* notifiers that have a death recipient
  obits,      \* deaths announced and not yet handled
  told,       \* the last level this service delivered to each process
  sent,       \* history: last level chosen for the present registration
  saved,      \* history: did the latest write of the file succeed?
  reported,   \* history: has the device reported a level since start?
  crossed,    \* history: "yes" when calls of two threads have overlapped,
              \* "mending" while a later call meets no other, and "no" again
              \* once it has ended
  misled      \* history: processes not told by such a call since then

service == <<actual, debugLevel, debugOn>>
clients == <<proc, call>>
overlap == <<crossed, misled>>
history == <<sent, saved, reported, overlap>>
vars == <<service, level, file, map, queue, stat, thread, clients, recipients,
          obits, told, history>>

NotifierInfo == [notifier : Procs, foreground : BOOLEAN, hapApp : BOOLEAN,
                 level : Levels]

Statistics == [names : SUBSET Pids, tasks : Nat, submitted : BOOLEAN]

ThreadState ==
  [pc : {"idle", "actual", "check", "override", "set", "match", "save", "collect",
         "submit", "dbgLevel", "rstLevel", "rstRead"},
   level : Reports, row : Levels, array : SUBSET Procs]

Idle == [pc |-> "idle", level |-> LOW, row |-> LOW, array |-> {}]
NoEntry == [p \in Pids |-> None]
Registered(p) == map[PidOf[p]] # None /\ map[PidOf[p]].notifier = p

(* A native process is always told; an application only in the foreground. *)
Eligible(info) == ~(info.hapApp /\ ~info.foreground)

Quiet == \A c \in Callers : thread[c].pc = "idle"

TypeOK ==
  /\ actual \in Reports /\ debugLevel \in Levels /\ debugOn \in BOOLEAN
  /\ level \in Levels /\ file \in Levels \cup {None}
  /\ map \in [Pids -> NotifierInfo \cup {None}]
  /\ queue \in Seq((SUBSET Procs) \X Levels)
  /\ stat \in Statistics
  /\ thread \in [Callers -> ThreadState]
  /\ proc \in [Procs -> {"new", "alive", "dead"}]
  /\ call \in [Procs -> {"none", "register", "unregister"}]
  /\ recipients \subseteq Procs /\ obits \subseteq Procs
  /\ told \in [Procs -> Levels \cup {None}]
  /\ sent \in [Procs -> Levels \cup {None}]
  /\ saved \in BOOLEAN /\ reported \in BOOLEAN
  /\ crossed \in {"no", "yes", "mending"} /\ misled \subseteq Procs

Init ==
  /\ actual = LOW /\ debugLevel = LOW /\ debugOn = FALSE
  /\ level = LOW /\ file = None
  /\ map = NoEntry /\ queue = <<>>
  /\ stat = [names |-> {}, tasks |-> 0, submitted |-> FALSE]
  /\ thread = [c \in Callers |-> Idle]
  /\ proc = [p \in Procs |-> "new"] /\ call = [p \in Procs |-> "none"]
  /\ recipients = {} /\ obits = {}
  /\ told = [p \in Procs |-> None] /\ sent = [p \in Procs |-> None]
  /\ saved = FALSE /\ reported = FALSE
  /\ crossed = "no" /\ misled = {}

-----------------------------------------------------------------------------
(* Client processes (external): start, die, and call the service.          *)

Start(p) ==
  /\ proc[p] = "new"
  /\ \A q \in Procs : PidOf[q] = PidOf[p] => proc[q] # "alive"
  /\ proc' = [proc EXCEPT ![p] = "alive"]
  /\ UNCHANGED <<service, level, file, map, queue, stat, thread, call, recipients,
                 obits, told, history>>

Die(p) ==
  /\ p \in Mortal /\ proc[p] = "alive"
  /\ proc' = [proc EXCEPT ![p] = "dead"]
  /\ obits' = obits \cup ({p} \cap recipients)
  /\ UNCHANGED <<service, level, file, map, queue, stat, thread, call, recipients,
                 told, history>>

(* ResSchedClient makes the call under its mutex, so one at a time.        *)
Call(p, what) ==
  /\ proc[p] = "alive" /\ call[p] = "none"
  /\ call' = [call EXCEPT ![p] = what]
  /\ UNCHANGED <<service, level, file, map, queue, stat, thread, proc, recipients,
                 obits, told, history>>

-----------------------------------------------------------------------------
(* NotifierMgr: the handlers of client calls, deaths and application states *)

(* Mutant: isTaskSubmit_ is never set.                                      *)
ReportPidUnmarked(s, pid) ==
  LET names == s.names \cup {pid} IN
  [names     |-> IF Cardinality(names) >= MaxReport THEN {} ELSE names,
   tasks     |-> IF s.tasks < 2 THEN s.tasks + 1 ELSE s.tasks,
   submitted |-> s.submitted]

(* ReportPidToHisysevent: remember the bundle for the statistics event,     *)
(* start the periodic task once, and report at once when the set is full.   *)
ReportPid(s, pid) ==
  LET names == s.names \cup {pid} IN
  [names     |-> IF Cardinality(names) >= MaxReport THEN {} ELSE names,
   tasks     |-> IF s.submitted THEN s.tasks ELSE s.tasks + 1,
   submitted |-> TRUE]

(* GetBundleNameByPid may return an empty name, which reports nothing.      *)
BundleReported(p) ==
  stat' \in {stat} \cup (IF p \in Named THEN {ReportPid(stat, PidOf[p])} ELSE {})

NewInfo(p) ==
  [notifier |-> p, foreground |-> TRUE, hapApp |-> p \in HapProcs, level |-> LOW]

(* Mutant: a second registration replaces the notifier and adds no death    *)
(* recipient.                                                               *)
RegisterNotifierReplacing(p) ==
  /\ call[p] = "register"
  /\ call' = [call EXCEPT ![p] = "none"]
  /\ map' = [map EXCEPT ![PidOf[p]] = NewInfo(p)]
  /\ IF map[PidOf[p]] = None
     THEN /\ recipients' = recipients \cup {p}
          /\ obits' = IF proc[p] = "dead" THEN obits \cup {p} ELSE obits
          /\ sent' = [sent EXCEPT ![p] = None]
     ELSE UNCHANGED <<recipients, obits, sent>>
  /\ BundleReported(p)
  /\ UNCHANGED <<service, level, file, queue, thread, proc, told, saved, reported, overlap>>

(* A pid that is in the map keeps its entry.  The binder driver announces   *)
(* the death of an object that was dead when the recipient was added.       *)
RegisterNotifier(p) ==
  /\ call[p] = "register"
  /\ call' = [call EXCEPT ![p] = "none"]
  /\ IF map[PidOf[p]] = None
     THEN /\ map' = [map EXCEPT ![PidOf[p]] = NewInfo(p)]
          /\ recipients' = recipients \cup {p}
          /\ obits' = IF proc[p] = "dead" THEN obits \cup {p} ELSE obits
          /\ sent' = [sent EXCEPT ![p] = None]
     ELSE UNCHANGED <<map, recipients, obits, sent>>
  /\ BundleReported(p)
  /\ UNCHANGED <<service, level, file, queue, thread, proc, told, saved, reported, overlap>>

UnRegisterNotifier(p) ==
  /\ call[p] = "unregister"
  /\ call' = [call EXCEPT ![p] = "none"]
  /\ IF map[PidOf[p]] = None
     THEN UNCHANGED <<map, recipients>>
     ELSE /\ recipients' = recipients \ {map[PidOf[p]].notifier}
          /\ map' = [map EXCEPT ![PidOf[p]] = None]
  /\ UNCHANGED <<service, level, file, queue, stat, thread, proc, obits, told, history>>

(* Mutant: the entry is left in the map.                                    *)
OnRemoteNotifierDiedKeeping(p) ==
  /\ p \in obits
  /\ obits' = obits \ {p}
  /\ recipients' = recipients \ {p}
  /\ UNCHANGED <<service, level, file, map, queue, stat, thread, clients, told, history>>

(* OnRemoteNotifierDied -> RemoveNotifierLock: by object, not by pid.       *)
OnRemoteNotifierDied(p) ==
  /\ p \in obits
  /\ obits' = obits \ {p}
  /\ IF Registered(p)
     THEN /\ map' = [map EXCEPT ![PidOf[p]] = None]
          /\ recipients' = recipients \ {p}
     ELSE UNCHANGED <<map, recipients>>
  /\ UNCHANGED <<service, level, file, queue, stat, thread, clients, told, history>>

(* HandleDeviceLevelChange: one task for all the notifiers; one for nobody   *)
(* does nothing and is left out.                                             *)
Submit(notifiers, lvl) ==
  \/ notifiers = {} /\ UNCHANGED queue
  \/ /\ notifiers # {} /\ Len(queue) < QueueBound
     /\ queue' = Append(queue, <<notifiers, lvl>>)

(* Mutant: no catch-up on return to the foreground.                         *)
OnForegroundSilent(pid) ==
  /\ map[pid] # None /\ map[pid].hapApp
  /\ map' = [map EXCEPT ![pid].foreground = TRUE]
  /\ UNCHANGED <<service, level, file, queue, stat, thread, clients, recipients, obits,
                 told, history>>

(* OnApplicationStateChange(APP_STATE_FOREGROUND): under notifierMutex_     *)
(* throughout, the submission included.                                     *)
OnForeground(pid) ==
  /\ map[pid] # None /\ map[pid].hapApp
  /\ map' = [map EXCEPT ![pid].foreground = TRUE, ![pid].level = level]
  /\ IF level # map[pid].level
     THEN /\ Submit({map[pid].notifier}, level)
          /\ sent' = [sent EXCEPT ![map[pid].notifier] = level]
     ELSE UNCHANGED <<queue, sent>>
  /\ UNCHANGED <<service, level, file, stat, thread, clients, recipients, obits,
                 told, saved, reported, overlap>>

(* APP_STATE_BACKGROUND, APP_STATE_TERMINATED or APP_STATE_END.             *)
OnBackground(pid) ==
  /\ map[pid] # None /\ map[pid].hapApp
  /\ map' = [map EXCEPT ![pid].foreground = FALSE]
  /\ UNCHANGED <<service, level, file, queue, stat, thread, clients, recipients,
                 obits, told, history>>

(* Mutant: the queue is not serial, and the last task may run first.        *)
DeliverUnordered ==
  /\ queue # <<>>
  /\ LET last == queue[Len(queue)] IN
     told' = [p \in Procs |-> IF p \in last[1] /\ proc[p] = "alive" THEN last[2] ELSE told[p]]
  /\ queue' = SubSeq(queue, 1, Len(queue) - 1)
  /\ UNCHANGED <<service, level, file, map, stat, thread, clients, recipients,
                 obits, history>>

(* The serial DeviceNotifyQueue runs its first task; a call to a dead       *)
(* process is lost.                                                         *)
Deliver ==
  /\ queue # <<>>
  /\ told' = [p \in Procs |-> IF p \in Head(queue)[1] /\ proc[p] = "alive"
                              THEN Head(queue)[2] ELSE told[p]]
  /\ queue' = Tail(queue)
  /\ UNCHANGED <<service, level, file, map, stat, thread, clients, recipients,
                 obits, history>>

(* NotifierEventReportPeriod: report, and submit the next period.           *)
EventReportPeriod ==
  /\ stat.tasks > 0
  /\ stat' = [stat EXCEPT !.names = {}]
  /\ UNCHANGED <<service, level, file, map, queue, thread, clients, recipients,
                 obits, told, history>>

-----------------------------------------------------------------------------
(* ResSchedService::OnDeviceLevelChanged and DumpSetSystemLoad, step by step *)

At(c, pc) == thread[c].pc = pc
Goto(c, pc) == thread' = [thread EXCEPT ![c].pc = pc]
GotoWith(c, pc, lvl) ==
  thread' = [thread EXCEPT ![c].pc = pc, ![c].level = lvl]

(* A thread begins or ends a call.  What two overlapping calls leave behind  *)
(* lasts until a call that meets no other has run to its end.                *)
Begin ==
  IF ~Quiet THEN crossed' = "yes" /\ misled' = Procs
  ELSE crossed' = (IF crossed = "yes" THEN "mending" ELSE crossed) /\ UNCHANGED misled

End(notifiers) ==
  IF crossed = "yes" THEN UNCHANGED overlap
  ELSE crossed' = "no" /\ misled' = misled \ notifiers

Refuse == crossed' = (IF crossed = "no" THEN "no" ELSE "yes") /\ UNCHANGED misled

NotifierUnchanged == UNCHANGED <<map, queue, stat, clients, recipients, obits, told>>

(* The device reports a level: the call with debugReport = false.           *)
DeviceReport(c, l) ==
  /\ At(c, "idle")
  /\ GotoWith(c, "actual", l) /\ Begin
  /\ reported' = TRUE
  /\ NotifierUnchanged /\ UNCHANGED <<service, level, file, sent, saved>>

(* hidumper setSystemLoadLevel l: enable, then the level, then the call     *)
(* with debugReport = true.                                                 *)
DumpSet(c, l) ==
  /\ At(c, "idle")
  /\ debugOn' = TRUE
  /\ GotoWith(c, "dbgLevel", l) /\ Begin
  /\ NotifierUnchanged /\ UNCHANGED <<actual, debugLevel, level, file, sent, saved, reported>>

DumpSetLevel(c) ==
  /\ At(c, "dbgLevel")
  /\ debugLevel' = thread[c].level
  /\ Goto(c, "check")
  /\ NotifierUnchanged /\ UNCHANGED <<actual, debugOn, level, file, history>>

(* hidumper setSystemLoadLevel reset: disable, clear, then the call with    *)
(* the actual level and debugReport = false.                                *)
DumpReset(c) ==
  /\ At(c, "idle")
  /\ debugOn' = FALSE
  /\ Goto(c, "rstLevel") /\ Begin
  /\ NotifierUnchanged /\ UNCHANGED <<actual, debugLevel, level, file, sent, saved, reported>>

DumpResetLevel(c) ==
  /\ At(c, "rstLevel")
  /\ debugLevel' = LOW
  /\ Goto(c, "rstRead")
  /\ NotifierUnchanged /\ UNCHANGED <<actual, debugOn, level, file, history>>

DumpResetRead(c) ==
  /\ At(c, "rstRead")
  /\ GotoWith(c, "actual", actual)
  /\ NotifierUnchanged /\ UNCHANGED <<service, level, file, history>>

StoreActual(c) ==
  /\ At(c, "actual")
  /\ actual' = thread[c].level
  /\ Goto(c, "check")
  /\ NotifierUnchanged /\ UNCHANGED <<debugLevel, debugOn, level, file, history>>

(* Mutant: the debugging override is not looked at.                         *)
CheckDebugNever(c) ==
  /\ At(c, "check")
  /\ Goto(c, "set")
  /\ NotifierUnchanged /\ UNCHANGED <<service, level, file, history>>

CheckDebug(c) ==
  /\ At(c, "check")
  /\ Goto(c, IF debugOn THEN "override" ELSE "set")
  /\ NotifierUnchanged /\ UNCHANGED <<service, level, file, history>>

Override(c) ==
  /\ At(c, "override")
  /\ GotoWith(c, "set", debugLevel)
  /\ NotifierUnchanged /\ UNCHANGED <<service, level, file, history>>

(* Mutant: the range of the level is not checked.                           *)
SetLevelUnchecked(c) ==
  /\ At(c, "set")
  /\ level' = thread[c].level /\ Goto(c, "match")
  /\ NotifierUnchanged /\ UNCHANGED <<service, file, history>>

(* NotifierMgr::OnDeviceLevelChanged: a level out of range is refused.      *)
SetLevel(c) ==
  /\ At(c, "set")
  /\ IF thread[c].level \in Levels
     THEN level' = thread[c].level /\ Goto(c, "match") /\ UNCHANGED overlap
     ELSE thread' = [thread EXCEPT ![c] = Idle] /\ Refuse /\ UNCHANGED level
  /\ NotifierUnchanged /\ UNCHANGED <<service, file, sent, saved, reported>>

(* The loop over g_systemloadPair, a row for each level, and what follows it. *)
NextRow(c, last) ==
  thread' = [thread EXCEPT ![c].pc = IF thread[c].row >= last THEN "collect" ELSE "match",
                           ![c].row = IF thread[c].row >= last THEN LOW ELSE @ + 1]

(* Mutant: g_systemloadPair has no row for the highest level.               *)
MatchLevelShortTable(c) ==
  /\ At(c, "match")
  /\ IF thread[c].row = level THEN Goto(c, "save") ELSE NextRow(c, MaxLevel - 1)
  /\ NotifierUnchanged /\ UNCHANGED <<service, level, file, history>>

(* systemloadLevel_ is read again at each row, so when another thread moves  *)
(* the level no level may be saved, or several.                              *)
MatchLevel(c) ==
  /\ At(c, "match")
  /\ IF thread[c].row = level THEN Goto(c, "save") ELSE NextRow(c, MaxLevel)
  /\ NotifierUnchanged /\ UNCHANGED <<service, level, file, history>>

(* SaveStringToFile may fail; the failure is only logged, and may leave a    *)
(* file that holds no level, which Init takes for none.                      *)
SaveLevel(c) ==
  /\ At(c, "save")
  /\ \/ file' = thread[c].row /\ saved' = TRUE
     \/ file' \in {file, None} /\ saved' = FALSE
  /\ NextRow(c, MaxLevel)
  /\ NotifierUnchanged /\ UNCHANGED <<service, level, sent, reported, overlap>>

(* OnDeviceLevelChangedLock, inside the lock: choose the notifiers to tell. *)
Chosen == {map[pid].notifier : pid \in {q \in Pids : map[q] # None /\ Eligible(map[q])}}

Collect(c) ==
  /\ At(c, "collect")
  /\ map' = [pid \in Pids |-> IF map[pid] # None /\ Eligible(map[pid])
                              THEN [map[pid] EXCEPT !.level = thread[c].level]
                              ELSE map[pid]]
  /\ sent' = [p \in Procs |-> IF p \in Chosen THEN thread[c].level ELSE sent[p]]
  /\ thread' = [thread EXCEPT ![c].pc = "submit", ![c].array = Chosen]
  /\ UNCHANGED <<service, level, file, queue, stat, clients, recipients, obits, told,
                 saved, reported, overlap>>

(* ... and outside it: hand the array to the queue.                         *)
SubmitArray(c) ==
  /\ At(c, "submit")
  /\ Submit(thread[c].array, thread[c].level)
  /\ thread' = [thread EXCEPT ![c] = Idle] /\ End(thread[c].array)
  /\ UNCHANGED <<service, level, file, map, stat, clients, recipients, obits, told,
                 sent, saved, reported>>

-----------------------------------------------------------------------------
(* The service crashes and its system ability is started again: Init reads  *)
(* the file, and everything that was in memory or under way is gone.        *)
Restart ==
  /\ actual' = LOW /\ debugLevel' = LOW /\ debugOn' = FALSE /\ reported' = FALSE
  /\ crossed' = "no" /\ misled' = {}
  /\ level' = IF file = None THEN LOW ELSE file
  /\ map' = NoEntry /\ queue' = <<>> /\ recipients' = {} /\ obits' = {}
  /\ stat' = [names |-> {}, tasks |-> 0, submitted |-> FALSE]
  /\ thread' = [c \in Callers |-> Idle]
  /\ call' = [p \in Procs |-> "none"]
  /\ told' = [p \in Procs |-> None] /\ sent' = [p \in Procs |-> None]
  /\ UNCHANGED <<file, proc, saved>>

CallerStep(c) ==
  \/ StoreActual(c) \/ CheckDebug(c) \/ Override(c) \/ SetLevel(c)
  \/ MatchLevel(c) \/ SaveLevel(c) \/ Collect(c) \/ SubmitArray(c)
  \/ DumpSetLevel(c) \/ DumpResetLevel(c) \/ DumpResetRead(c)

CallerStart(c) ==
  \/ c \in Devices /\ \E l \in Reports : DeviceReport(c, l)
  \/ c \in Dumpers /\ ((\E l \in Levels : DumpSet(c, l)) \/ DumpReset(c))

ClientStep(p) ==
  \/ Start(p) \/ Die(p)
  \/ \E what \in Calls : Call(p, what)

Handle(p) == RegisterNotifier(p) \/ UnRegisterNotifier(p) \/ OnRemoteNotifierDied(p)

Next ==
  \/ \E c \in Callers : CallerStart(c) \/ CallerStep(c)
  \/ \E p \in Procs : ClientStep(p) \/ Handle(p)
  \/ \E pid \in Pids : OnForeground(pid) \/ OnBackground(pid)
  \/ Deliver \/ EventReportPeriod
  \/ Restart

Spec == Init /\ [][Next]_vars

(* The IPC threads, the ffrt queue and the caller threads keep running.     *)
Fairness ==
  /\ \A c \in Callers : WF_vars(CallerStep(c))
  /\ \A p \in Procs : WF_vars(OnRemoteNotifierDied(p)) /\ WF_vars(RegisterNotifier(p))
  /\ WF_vars(Deliver)

FairSpec == Spec /\ Fairness

-----------------------------------------------------------------------------
(* Properties                                                               *)

(* At most one periodic statistics task is ever pending: none before the    *)
(* first report, exactly one after it (ReportPidToHisysevent, isTaskSubmit_ *)
(* and NotifierEventReportPeriod, which submits its own successor), and the *)
(* name set is reported before it reaches MAX_REPORT_SIZE.                  *)
OneReportChain ==
  /\ stat.tasks = IF stat.submitted THEN 1 ELSE 0
  /\ Cardinality(stat.names) < MaxReport

(* No entry of notifierMap_ outlives its process unnoticed: its notifier has *)
(* a death recipient, and if the process is dead the announcement that will  *)
(* remove the entry is on its way.  Calls handled after the death of their   *)
(* caller and pids taken over by another process are included.               *)
EntriesReclaimed ==
  \A pid \in Pids :
    map[pid] # None =>
      LET p == map[pid].notifier IN
      /\ PidOf[p] = pid /\ p \in recipients
      /\ proc[p] = "dead" => p \in obits

(* Between the calls, once a call that met no other has ended after calls    *)
(* that overlapped: whoever is registered and may be told, and for whom a    *)
(* level was chosen since the registration, was chosen the current level     *)
(* last.  An application that was in the background when the level changed   *)
(* catches up in OnApplicationStateChange.                                   *)
Orderly == Quiet /\ crossed = "no"

SentIsCurrent ==
  Orderly => \A p \in Procs :
               (Registered(p) /\ Eligible(map[PidOf[p]]) /\ sent[p] # None)
                  => sent[p] = level

(* What a process hears last: its last pending task or what was delivered.   *)
PendingFor(p) == {i \in DOMAIN queue : p \in queue[i][1]}
HeardLast(p) ==
  IF PendingFor(p) = {} THEN told[p]
  ELSE queue[CHOOSE i \in PendingFor(p) : \A j \in PendingFor(p) : j <= i][2]

(* Between the calls: the queue delivers to a live registered process last   *)
(* what was chosen for it last, although the array is submitted outside      *)
(* notifierMutex_ and the foreground catch-up inside; after calls that       *)
(* overlapped, if a later one that met no other told it.                     *)
DeliveredInOrder ==
  Quiet => \A p \in Procs \ misled :
             (Registered(p) /\ proc[p] = "alive" /\ sent[p] # None)
                => HeardLast(p) = sent[p]

(* Between the calls, once a call that met no other has ended after calls    *)
(* that overlapped: unless the latest write of SYSTEMLOAD_FILE failed, the   *)
(* file holds the level in force, so a crash at any point restarts with a    *)
(* level that was in force.                                                  *)
FileIsLevel == (Orderly /\ saved) => file = level

(* Between the calls, once a call that met no other has ended after calls    *)
(* that overlapped: a level set through hidumper wins over the device, and   *)
(* after "reset" the level the device reported is in force again, if it      *)
(* reported a valid one since the service started.                           *)
OverrideRespected ==
  Orderly => IF debugOn THEN level = debugLevel
             ELSE (reported /\ actual \in Levels) => level = actual

(* The entry of a dead process is removed in the end.                        *)
DeadForgotten ==
  \A p \in Procs : (proc[p] = "dead" /\ Registered(p)) ~> ~Registered(p)
=============================================================================
