-------------------------- MODULE SystemloadProofs --------------------------
(***************************************************************************)
(* Proofs about Systemload for any processes, pids, caller threads and     *)
(* levels: type correctness, the registry of notifiers and the statistics  *)
(* task, the level in force, the file it is kept in and what the           *)
(* registered processes are told.                                          *)
(***************************************************************************)
EXTENDS Systemload, TLAPS, FiniteSetTheorems

(* Past the range check of NotifierMgr::OnDeviceLevelChanged, and in        *)
(* DumpSetSystemLoad, the level in hand is a level, and the loop over the   *)
(* rows starts at the first: what TypeOK needs to be inductive.             *)
InRange(t) ==
  /\ t.pc \in {"dbgLevel", "match", "save", "collect", "submit"} => t.level \in Levels
  /\ t.pc \notin {"match", "save"} => t.row = LOW

RangeChecked == \A c \in Callers : InRange(thread[c])

TypeInv == TypeOK /\ RangeChecked

(* The constants of the record types.                                      *)
LEMMA LevelFacts ==
  /\ LOW \in Levels /\ Levels \subseteq Reports /\ Levels \subseteq Int
  /\ Idle \in ThreadState /\ NoEntry \in [Pids -> NotifierInfo \cup {None}]
<1>1. LOW \in Levels /\ Levels \subseteq Reports /\ Levels \subseteq Int
  BY SystemloadAssumption DEF Levels, LOW, Reports
<1>2. Idle \in ThreadState
  BY <1>1 DEF Idle, ThreadState
<1> QED
  BY <1>1, <1>2 DEF NoEntry

(* Freshly started: every variable has its type.                           *)
LEMMA InitType == Init => TypeInv
<1> SUFFICES ASSUME Init PROVE TypeInv
  OBVIOUS
<1>1. stat \in Statistics
  BY DEF Init, Statistics
<1>2. thread \in [Callers -> ThreadState] /\ RangeChecked
  BY LevelFacts DEF Init, RangeChecked, InRange, Idle
<1> QED
  <2>1. queue \in Seq((SUBSET Procs) \X Levels)
    BY DEF Init
  <2>2. TypeOK
    BY <1>1, <1>2, <2>1, LevelFacts DEF Init, TypeOK
  <2> QED
    BY <1>2, <2>2 DEF TypeInv

(* Steps of client processes, and the handlers of their calls and deaths.  *)
LEMMA ClientType ==
  ASSUME TypeInv, NEW p \in Procs, ClientStep(p) \/ Handle(p)
  PROVE  TypeInv'
<1> USE SystemloadAssumption, LevelFacts
      DEF TypeInv, TypeOK, RangeChecked, service, clients, history, overlap
<1>1. CASE Start(p)
  BY <1>1 DEF Start
<1>2. CASE Die(p)
  BY <1>2 DEF Die
<1>3. CASE \E what \in Calls : Call(p, what)
  BY <1>3 DEF Call
<1>4. CASE RegisterNotifier(p)
  <2>1. PidOf[p] \in Pids /\ NewInfo(p) \in NotifierInfo
    BY DEF NewInfo, NotifierInfo
  <2>2. stat' \in Statistics
    <3>1. ReportPid(stat, PidOf[p]) \in Statistics
      BY <2>1 DEF ReportPid, Statistics
    <3> QED
      BY <1>4, <3>1 DEF RegisterNotifier, BundleReported
  <2>3. map' \in [Pids -> NotifierInfo \cup {None}]
    BY <1>4, <2>1 DEF RegisterNotifier
  <2> QED
    <3>1. /\ recipients' \subseteq Procs /\ obits' \subseteq Procs
          /\ sent' \in [Procs -> Levels \cup {None}]
          /\ call' \in [Procs -> {"none", "register", "unregister"}]
      BY SMTT(40), <1>4 DEF RegisterNotifier
    <3>2. RangeChecked'
      BY <1>4 DEF RegisterNotifier
    <3> QED
      BY <1>4, <2>2, <2>3, <3>1, <3>2 DEF RegisterNotifier
<1>5. CASE UnRegisterNotifier(p)
  BY <1>5 DEF UnRegisterNotifier
<1>6. CASE OnRemoteNotifierDied(p)
  BY <1>6 DEF OnRemoteNotifierDied
<1> QED
  BY <1>1, <1>2, <1>3, <1>4, <1>5, <1>6 DEF ClientStep, Handle

(* The states of applications, the notification queue, the statistics task  *)
(* and the restart.                                                         *)
LEMMA ManagerType ==
  ASSUME TypeInv,
         \/ \E pid \in Pids : OnForeground(pid) \/ OnBackground(pid)
         \/ Deliver \/ EventReportPeriod \/ Restart
  PROVE  TypeInv'
<1> USE SystemloadAssumption, LevelFacts
      DEF TypeInv, TypeOK, RangeChecked, service, clients, history, overlap
<1>1. ASSUME NEW pid \in Pids, OnForeground(pid) PROVE TypeInv'
  <2>1. map[pid] \in NotifierInfo
    BY <1>1 DEF OnForeground
  <2>2. map' \in [Pids -> NotifierInfo \cup {None}]
    BY <1>1, <2>1 DEF OnForeground, NotifierInfo
  <2>3. queue' \in Seq((SUBSET Procs) \X Levels)
    BY <1>1, <2>1 DEF OnForeground, Submit, NotifierInfo
  <2>4. sent' \in [Procs -> Levels \cup {None}]
    BY <1>1, <2>1 DEF OnForeground, NotifierInfo
  <2> QED
    BY <1>1, <2>2, <2>3, <2>4 DEF OnForeground
<1>2. ASSUME NEW pid \in Pids, OnBackground(pid) PROVE TypeInv'
  <2>1. map[pid] \in NotifierInfo
    BY <1>2 DEF OnBackground
  <2>2. map' \in [Pids -> NotifierInfo \cup {None}]
    BY <1>2, <2>1 DEF OnBackground, NotifierInfo
  <2> QED
    BY <1>2, <2>2 DEF OnBackground
<1>3. CASE Deliver
  <2>1. Head(queue)[2] \in Levels /\ queue' \in Seq((SUBSET Procs) \X Levels)
    BY <1>3 DEF Deliver
  <2> QED
    BY <1>3, <2>1 DEF Deliver
<1>4. CASE EventReportPeriod
  BY <1>4 DEF EventReportPeriod, Statistics
<1>5. CASE Restart
  <2>1. thread' \in [Callers -> ThreadState] /\ \A c \in Callers : thread'[c] = Idle
    BY <1>5 DEF Restart
  <2>2. RangeChecked'
    BY <2>1 DEF Idle, InRange
  <2>3. stat' \in Statistics
    BY <1>5 DEF Restart, Statistics
  <2> QED
    <3>1. queue' \in Seq((SUBSET Procs) \X Levels)
      BY <1>5 DEF Restart
    <3>2. TypeOK'
      BY <1>5, <2>1, <2>3, <3>1 DEF Restart
    <3> QED
      BY <2>2, <3>2
<1> QED
  BY <1>1, <1>2, <1>3, <1>4, <1>5

(* The steps of a caller change the state of its thread ...                 *)
LEMMA ThreadMove ==
  ASSUME TypeInv, NEW c \in Callers, NEW t \in ThreadState, InRange(t),
         thread' = [thread EXCEPT ![c] = t]
  PROVE  thread' \in [Callers -> ThreadState] /\ RangeChecked'
<1> USE DEF TypeInv, TypeOK, RangeChecked
<1>1. thread' \in [Callers -> ThreadState]
  OBVIOUS
<1>2. ASSUME NEW d \in Callers PROVE InRange(thread[d])'
  <2>1. thread'[d] = IF d = c THEN t ELSE thread[d]
    OBVIOUS
  <2> QED
    BY <2>1 DEF InRange
<1> QED
  BY <1>1, <1>2

LEMMA CallerThread ==
  ASSUME TypeInv, NEW c \in Callers, CallerStart(c) \/ CallerStep(c)
  PROVE  thread' \in [Callers -> ThreadState] /\ RangeChecked'
<1> USE LevelFacts DEF TypeInv, TypeOK, At, Goto, GotoWith
<1>0. thread[c] \in ThreadState /\ InRange(thread[c])
  BY DEF RangeChecked
<1>1. ASSUME NEW l \in Reports, DeviceReport(c, l)
      PROVE  thread' \in [Callers -> ThreadState] /\ RangeChecked'
  <2> DEFINE t == [thread[c] EXCEPT !.pc = "actual", !.level = l]
  <2>1. t \in ThreadState /\ InRange(t)
    BY <1>0, <1>1 DEF DeviceReport, ThreadState, InRange
  <2>2. thread' = [thread EXCEPT ![c] = t]
    BY <1>1 DEF DeviceReport
  <2> QED
    BY <2>1, <2>2, ThreadMove
<1>2. ASSUME NEW l \in Levels, DumpSet(c, l)
      PROVE  thread' \in [Callers -> ThreadState] /\ RangeChecked'
  <2> DEFINE t == [thread[c] EXCEPT !.pc = "dbgLevel", !.level = l]
  <2>1. t \in ThreadState /\ InRange(t)
    BY <1>0, <1>2 DEF DumpSet, ThreadState, InRange
  <2>2. thread' = [thread EXCEPT ![c] = t]
    BY <1>2 DEF DumpSet
  <2> QED
    BY <2>1, <2>2, ThreadMove
<1>3. CASE DumpReset(c)
  <2> DEFINE t == [thread[c] EXCEPT !.pc = "rstLevel"]
  <2>1. t \in ThreadState /\ InRange(t)
    BY <1>0, <1>3 DEF DumpReset, ThreadState, InRange
  <2>2. thread' = [thread EXCEPT ![c] = t]
    BY <1>3 DEF DumpReset
  <2> QED
    BY <2>1, <2>2, ThreadMove
<1>4. CASE DumpSetLevel(c)
  <2> DEFINE t == [thread[c] EXCEPT !.pc = "check"]
  <2>1. t \in ThreadState /\ InRange(t)
    BY <1>0, <1>4 DEF DumpSetLevel, ThreadState, InRange
  <2>2. thread' = [thread EXCEPT ![c] = t]
    BY <1>4 DEF DumpSetLevel
  <2> QED
    BY <2>1, <2>2, ThreadMove
<1>5. CASE DumpResetLevel(c)
  <2> DEFINE t == [thread[c] EXCEPT !.pc = "rstRead"]
  <2>1. t \in ThreadState /\ InRange(t)
    BY <1>0, <1>5 DEF DumpResetLevel, ThreadState, InRange
  <2>2. thread' = [thread EXCEPT ![c] = t]
    BY <1>5 DEF DumpResetLevel
  <2> QED
    BY <2>1, <2>2, ThreadMove
<1>6. CASE DumpResetRead(c)
  <2> DEFINE t == [thread[c] EXCEPT !.pc = "actual", !.level = actual]
  <2>1. t \in ThreadState /\ InRange(t)
    BY <1>0, <1>6 DEF DumpResetRead, ThreadState, InRange
  <2>2. thread' = [thread EXCEPT ![c] = t]
    BY <1>6 DEF DumpResetRead
  <2> QED
    BY <2>1, <2>2, ThreadMove
<1>7. CASE StoreActual(c)
  <2> DEFINE t == [thread[c] EXCEPT !.pc = "check"]
  <2>1. t \in ThreadState /\ InRange(t)
    BY <1>0, <1>7 DEF StoreActual, ThreadState, InRange
  <2>2. thread' = [thread EXCEPT ![c] = t]
    BY <1>7 DEF StoreActual
  <2> QED
    BY <2>1, <2>2, ThreadMove
<1>8. CASE CheckDebug(c)
  <2> DEFINE t == [thread[c] EXCEPT !.pc = IF debugOn THEN "override" ELSE "set"]
  <2>1. t \in ThreadState /\ InRange(t)
    BY <1>0, <1>8 DEF CheckDebug, ThreadState, InRange
  <2>2. thread' = [thread EXCEPT ![c] = t]
    BY <1>8 DEF CheckDebug
  <2> QED
    BY <2>1, <2>2, ThreadMove
<1>9. CASE Override(c)
  <2> DEFINE t == [thread[c] EXCEPT !.pc = "set", !.level = debugLevel]
  <2>1. t \in ThreadState /\ InRange(t)
    BY <1>0, <1>9 DEF Override, ThreadState, InRange
  <2>2. thread' = [thread EXCEPT ![c] = t]
    BY <1>9 DEF Override
  <2> QED
    BY <2>1, <2>2, ThreadMove
<1>10. CASE SetLevel(c)
  <2> DEFINE t == IF thread[c].level \in Levels THEN [thread[c] EXCEPT !.pc = "match"] ELSE Idle
  <2>1. t \in ThreadState /\ InRange(t)
    BY <1>0, <1>10 DEF SetLevel, Idle, ThreadState, InRange
  <2>2. thread' = [thread EXCEPT ![c] = t]
    BY <1>10 DEF SetLevel
  <2> QED
    BY <2>1, <2>2, ThreadMove
<1>n. ASSUME NEW t \in ThreadState, InRange(t), t = thread[c], t.pc \in {"match", "save"},
             NextRow(c, MaxLevel)
      PROVE  thread' \in [Callers -> ThreadState] /\ RangeChecked'
  <2> DEFINE u == [t EXCEPT !.pc = IF t.row >= MaxLevel THEN "collect" ELSE "match",
                            !.row = IF t.row >= MaxLevel THEN LOW ELSE @ + 1]
  <2>1. t.row \in Levels /\ t.level \in Levels
    BY <1>n DEF ThreadState, InRange
  <2>2. (IF t.row >= MaxLevel THEN LOW ELSE t.row + 1) \in Levels
    BY <2>1, SystemloadAssumption DEF Levels, LOW
  <2>3. u \in ThreadState /\ InRange(u)
    BY <1>n, <2>1, <2>2 DEF ThreadState, InRange
  <2>4. thread' = [thread EXCEPT ![c] = u]
    BY <1>n DEF NextRow
  <2> QED
    BY <2>3, <2>4, ThreadMove
<1>11. CASE MatchLevel(c)
  <2> DEFINE t == [thread[c] EXCEPT !.pc = "save"]
  <2>1. t \in ThreadState /\ InRange(t)
    BY <1>0, <1>11 DEF MatchLevel, ThreadState, InRange
  <2>2. thread' = [thread EXCEPT ![c] = t] \/ NextRow(c, MaxLevel)
    BY <1>11 DEF MatchLevel
  <2>3. thread[c].pc = "match"
    BY <1>11 DEF MatchLevel
  <2> QED
    BY <1>0, <1>n, <2>1, <2>2, <2>3, ThreadMove
<1>12. CASE SaveLevel(c)
  BY <1>0, <1>12, <1>n DEF SaveLevel
<1>13. CASE Collect(c)
  <2> DEFINE t == [thread[c] EXCEPT !.pc = "submit", !.array = Chosen]
  <2>1. Chosen \in SUBSET Procs
    BY DEF Chosen, NotifierInfo
  <2>2. t \in ThreadState /\ InRange(t)
    BY <1>0, <1>13, <2>1 DEF Collect, ThreadState, InRange
  <2>3. thread' = [thread EXCEPT ![c] = t]
    BY <1>13 DEF Collect
  <2> QED
    BY <2>2, <2>3, ThreadMove
<1>14. CASE SubmitArray(c)
  <2>1. Idle \in ThreadState /\ InRange(Idle)
    BY DEF Idle, ThreadState, InRange
  <2> QED
    BY <1>14, <2>1, ThreadMove DEF SubmitArray
<1> QED
  BY <1>1, <1>2, <1>3, <1>4, <1>5, <1>6, <1>7, <1>8, <1>9, <1>10, <1>11, <1>12, <1>13, <1>14 DEF CallerStart, CallerStep

LEMMA QueueGrows ==
  ASSUME NEW q \in Seq((SUBSET Procs) \X Levels), NEW to \in SUBSET Procs, NEW l \in Levels
  PROVE  Append(q, <<to, l>>) \in Seq((SUBSET Procs) \X Levels)
OBVIOUS

(* ... and one piece of shared state.                                       *)
LEMMA CallerType ==
  ASSUME TypeInv, NEW c \in Callers, CallerStart(c) \/ CallerStep(c)
  PROVE  TypeInv'
<1> USE SystemloadAssumption, LevelFacts
      DEF TypeInv, TypeOK, service, clients, history, overlap, NotifierUnchanged, At,
          Begin, End, Refuse
<1>0. thread[c] \in ThreadState /\ InRange(thread[c])
  BY DEF RangeChecked
<1>t. thread' \in [Callers -> ThreadState] /\ RangeChecked'
  BY CallerThread
<1>1. CASE CallerStart(c)
  BY <1>1, <1>t DEF CallerStart, DeviceReport, DumpSet, DumpReset
<1>2. CASE StoreActual(c) \/ CheckDebug(c) \/ Override(c)
  BY <1>0, <1>2, <1>t DEF StoreActual, CheckDebug, Override, ThreadState
<1>3. CASE DumpSetLevel(c) \/ DumpResetLevel(c) \/ DumpResetRead(c)
  BY <1>0, <1>3, <1>t DEF DumpSetLevel, DumpResetLevel, DumpResetRead, InRange
<1>4. CASE SetLevel(c) \/ MatchLevel(c)
  BY <1>4, <1>t DEF SetLevel, MatchLevel
<1>5. CASE SaveLevel(c)
  BY <1>0, <1>5, <1>t DEF SaveLevel, ThreadState
<1>6. CASE Collect(c)
  <2>1. thread[c].level \in Levels
    BY <1>0, <1>6 DEF Collect, InRange
  <2>2. ASSUME NEW pid \in Pids, map[pid] # None
        PROVE  [map[pid] EXCEPT !.level = thread[c].level] \in NotifierInfo
    <3>1. map[pid] \in NotifierInfo
      BY <2>2
    <3> QED
      BY <2>1, <3>1 DEF NotifierInfo
  <2>3. map' \in [Pids -> NotifierInfo \cup {None}]
    BY <1>6, <2>2 DEF Collect
  <2>4. sent' \in [Procs -> Levels \cup {None}]
    BY <1>6, <2>1 DEF Collect
  <2> QED
    BY <1>6, <1>t, <2>3, <2>4 DEF Collect
<1>7. CASE SubmitArray(c)
  <2>1. thread[c].level \in Levels /\ thread[c].array \in SUBSET Procs
    BY <1>0, <1>7 DEF SubmitArray, InRange, ThreadState
  <2>2. queue' \in Seq((SUBSET Procs) \X Levels)
    <3>1. CASE thread[c].array = {}
      BY <1>7, <3>1 DEF SubmitArray, Submit
    <3>2. CASE thread[c].array # {}
      <4>1. queue' = Append(queue, <<thread[c].array, thread[c].level>>)
        BY <1>7, <3>2 DEF SubmitArray, Submit
      <4> QED
        BY <2>1, <4>1, QueueGrows
    <3> QED
      BY <3>1, <3>2
  <2>3. crossed' \in {"no", "yes", "mending"} /\ misled' \subseteq Procs
    BY <1>7 DEF SubmitArray
  <2>4. UNCHANGED <<actual, debugLevel, debugOn, level, file, map, stat, proc, call,
                    recipients, obits, told, sent, saved, reported>>
    BY <1>7 DEF SubmitArray
  <2> QED
    BY <1>t, <2>2, <2>3, <2>4
<1> QED
  BY <1>1, <1>2, <1>3, <1>4, <1>5, <1>6, <1>7 DEF CallerStep

LEMMA TypeStep == TypeInv /\ [Next]_vars => TypeInv'
<1> SUFFICES ASSUME TypeInv, [Next]_vars PROVE TypeInv'
  OBVIOUS
<1>1. CASE Next
  BY <1>1, ClientType, ManagerType, CallerType DEF Next
<1>2. CASE UNCHANGED vars
  BY <1>2 DEF vars, TypeInv, TypeOK, RangeChecked, service, clients, history, overlap
<1> QED
  BY <1>1, <1>2

(* Every variable keeps its type, whatever the threads do between their     *)
(* steps; in particular systemloadLevel_, the file and every level sent are *)
(* levels although the device may report any value.                         *)
THEOREM TypeCorrect == Spec => []TypeOK
<1>1. TypeInv => TypeOK
  BY DEF TypeInv
<1> QED
  BY InitType, TypeStep, <1>1, PTL DEF Spec

-----------------------------------------------------------------------------
(* The registry.                                                            *)

(* What every step but the four that work on the registry leaves alone.     *)
Registry == <<map, proc, recipients, obits>>

(* The steps of a caller may only change the level of an entry.             *)
LEMMA EntriesCaller ==
  ASSUME TypeInv, EntriesReclaimed, NEW c \in Callers, CallerStart(c) \/ CallerStep(c)
  PROVE  EntriesReclaimed'
<1> USE DEF clients, NotifierUnchanged
<1>1. CASE UNCHANGED Registry
  BY <1>1 DEF Registry, EntriesReclaimed
<1>2. CASE CallerStart(c)
  <2>1. UNCHANGED Registry
    BY <1>2 DEF CallerStart, DeviceReport, DumpSet, DumpReset, Registry
  <2> QED
    BY <1>1, <2>1
<1>3. CASE CallerStep(c) /\ ~Collect(c)
  <2>1. UNCHANGED Registry
    BY <1>3 DEF CallerStep, StoreActual, CheckDebug, Override, SetLevel, MatchLevel,
                SaveLevel, SubmitArray, DumpSetLevel, DumpResetLevel, DumpResetRead, Registry
  <2> QED
    BY <1>1, <2>1
<1>4. CASE Collect(c)
  <2>1. ASSUME NEW pid \in Pids, map'[pid] # None
        PROVE  map[pid] # None /\ map'[pid].notifier = map[pid].notifier
    <3>1. map[pid] # None
      BY <1>4, <2>1 DEF Collect
    <3>2. map[pid] \in NotifierInfo
      BY <3>1 DEF TypeInv, TypeOK
    <3> QED
      BY <1>4, <3>1, <3>2 DEF Collect, NotifierInfo
  <2>2. UNCHANGED <<proc, recipients, obits>>
    BY <1>4 DEF Collect
  <2> QED
    BY <2>1, <2>2 DEF EntriesReclaimed
<1> QED
  BY <1>2, <1>3, <1>4

LEMMA EntriesClient ==
  ASSUME TypeInv, EntriesReclaimed, NEW p \in Procs, ClientStep(p) \/ Handle(p)
  PROVE  EntriesReclaimed'
<1> USE SystemloadAssumption DEF TypeInv, TypeOK, clients, history, service
<1>0. \A pid \in Pids : map[pid] # None => map[pid] \in NotifierInfo /\ map[pid].notifier \in Procs
  BY DEF NotifierInfo
<1>1. CASE Start(p)
  BY <1>0, <1>1 DEF Start, EntriesReclaimed
<1>2. CASE Die(p)
  BY <1>0, <1>2 DEF Die, EntriesReclaimed
<1>3. CASE \E what \in Calls : Call(p, what)
  BY <1>3 DEF Call, EntriesReclaimed
<1>4. CASE RegisterNotifier(p)
  <2>1. CASE map[PidOf[p]] = None
    <3>1. /\ map' = [map EXCEPT ![PidOf[p]] = NewInfo(p)]
          /\ recipients' = recipients \cup {p} /\ UNCHANGED proc
          /\ obits \subseteq obits' /\ (proc[p] = "dead" => p \in obits')
      BY <1>4, <2>1 DEF RegisterNotifier
    <3>2. NewInfo(p).notifier = p
      BY DEF NewInfo
    <3> QED
      BY <1>0, <3>1, <3>2 DEF EntriesReclaimed
  <2>2. CASE map[PidOf[p]] # None
    BY <1>4, <2>2 DEF RegisterNotifier, EntriesReclaimed
  <2> QED
    BY <2>1, <2>2
<1>5. CASE UnRegisterNotifier(p)
  BY <1>0, <1>5 DEF UnRegisterNotifier, EntriesReclaimed
<1>6. CASE OnRemoteNotifierDied(p)
  BY <1>0, <1>6 DEF OnRemoteNotifierDied, Registered, EntriesReclaimed
<1> QED
  BY <1>1, <1>2, <1>3, <1>4, <1>5, <1>6 DEF ClientStep, Handle

LEMMA EntriesManager ==
  ASSUME TypeInv, EntriesReclaimed,
         \/ \E pid \in Pids : OnForeground(pid) \/ OnBackground(pid)
         \/ Deliver \/ EventReportPeriod \/ Restart
  PROVE  EntriesReclaimed'
<1> USE DEF clients
<1>0. \A pid \in Pids : map[pid] # None => map[pid] \in NotifierInfo
  BY DEF TypeInv, TypeOK
<1>1. ASSUME NEW pid \in Pids, OnForeground(pid) \/ OnBackground(pid)
      PROVE  EntriesReclaimed'
  <2>1. UNCHANGED <<proc, recipients, obits>>
    BY <1>1 DEF OnForeground, OnBackground
  <2>2. ASSUME NEW q \in Pids, map'[q] # None
        PROVE  map[q] # None /\ map'[q].notifier = map[q].notifier
    BY <1>0, <1>1, <2>2 DEF OnForeground, OnBackground, NotifierInfo, TypeInv, TypeOK
  <2> QED
    BY <2>1, <2>2 DEF EntriesReclaimed
<1>2. CASE Deliver \/ EventReportPeriod
  BY <1>2 DEF Deliver, EventReportPeriod, EntriesReclaimed
<1>3. CASE Restart
  BY <1>3 DEF Restart, EntriesReclaimed, NoEntry
<1> QED
  BY <1>1, <1>2, <1>3

(* No entry of notifierMap_ outlives its process unnoticed, for any number  *)
(* of processes and pids, whatever the order of calls, deaths and their     *)
(* announcements (RegisterNotifier, UnRegisterNotifier, RemoveNotifierLock). *)
THEOREM RegistryReclaimed == Spec => []EntriesReclaimed
<1>1. Init => TypeInv /\ EntriesReclaimed
  BY InitType DEF Init, EntriesReclaimed, NoEntry
<1>2. TypeInv /\ EntriesReclaimed /\ [Next]_vars => (TypeInv /\ EntriesReclaimed)'
  <2> SUFFICES ASSUME TypeInv, EntriesReclaimed, [Next]_vars PROVE EntriesReclaimed'
    BY TypeStep
  <2>1. CASE Next
    BY <2>1, EntriesCaller, EntriesClient, EntriesManager DEF Next
  <2>2. CASE UNCHANGED vars
    BY <2>2 DEF vars, clients, EntriesReclaimed
  <2> QED
    BY <2>1, <2>2
<1> QED
  BY <1>1, <1>2, PTL DEF Spec

-----------------------------------------------------------------------------
(* The statistics task.                                                     *)

StatInv == OneReportChain /\ IsFiniteSet(stat.names)

LEMMA StatReport ==
  ASSUME TypeInv, StatInv, NEW pid \in Pids, stat' = ReportPid(stat, pid)
  PROVE  StatInv'
<1> DEFINE names == stat.names \cup {pid}
<1>1. IsFiniteSet(names) /\ Cardinality(names) \in Nat
  BY FS_AddElement, FS_CardinalityType DEF StatInv
<1>2. IsFiniteSet({}) /\ Cardinality({}) = 0
  BY FS_EmptySet
<1>3. stat.tasks \in Nat /\ MaxReport \in Nat \ {0}
  BY SystemloadAssumption DEF TypeInv, TypeOK, Statistics
<1> QED
  BY <1>1, <1>2, <1>3 DEF StatInv, OneReportChain, ReportPid

(* One chain of periodic statistics tasks, and never more names than        *)
(* MAX_REPORT_SIZE, through any number of registrations and restarts.       *)
THEOREM StatisticsBounded == Spec => []OneReportChain
<1>1. Init => TypeInv /\ StatInv
  BY InitType, FS_EmptySet, SystemloadAssumption DEF Init, StatInv, OneReportChain
<1>2. TypeInv /\ StatInv /\ [Next]_vars => (TypeInv /\ StatInv)'
  <2> SUFFICES ASSUME TypeInv, StatInv, [Next]_vars PROVE StatInv'
    BY TypeStep
  <2>0. ASSUME UNCHANGED stat PROVE StatInv'
    BY <2>0 DEF StatInv, OneReportChain
  <2>1. ASSUME NEW c \in Callers, CallerStart(c) \/ CallerStep(c) PROVE StatInv'
    <3>1. UNCHANGED stat
      BY <2>1 DEF CallerStart, CallerStep, DeviceReport, DumpSet, DumpReset, StoreActual,
                  CheckDebug, Override, SetLevel, MatchLevel, SaveLevel, Collect, SubmitArray,
                  DumpSetLevel, DumpResetLevel, DumpResetRead, NotifierUnchanged
    <3> QED
      BY <2>0, <3>1
  <2>2. ASSUME NEW p \in Procs, RegisterNotifier(p) PROVE StatInv'
    <3>1. PidOf[p] \in Pids
      BY SystemloadAssumption
    <3> QED
      BY <2>0, <2>2, <3>1, StatReport DEF RegisterNotifier, BundleReported
  <2>3. ASSUME NEW p \in Procs,
               ClientStep(p) \/ UnRegisterNotifier(p) \/ OnRemoteNotifierDied(p)
        PROVE  StatInv'
    BY <2>0, <2>3 DEF ClientStep, Start, Die, Call, UnRegisterNotifier, OnRemoteNotifierDied
  <2>4. ASSUME NEW pid \in Pids, OnForeground(pid) \/ OnBackground(pid) PROVE StatInv'
    BY <2>0, <2>4 DEF OnForeground, OnBackground
  <2>5. CASE Deliver
    BY <2>0, <2>5 DEF Deliver
  <2>6. CASE EventReportPeriod \/ Restart
    <3>1. IsFiniteSet({}) /\ Cardinality({}) = 0
      BY FS_EmptySet
    <3>2. stat \in Statistics /\ 0 < MaxReport
      BY SystemloadAssumption DEF TypeInv, TypeOK
    <3>3. CASE EventReportPeriod
      <4>1. stat'.names = {} /\ stat'.tasks = stat.tasks /\ stat'.submitted = stat.submitted
        BY <3>2, <3>3 DEF EventReportPeriod, Statistics
      <4> QED
        BY <3>1, <3>2, <4>1 DEF StatInv, OneReportChain
    <3>4. CASE Restart
      <4>1. stat'.names = {} /\ stat'.tasks = 0 /\ stat'.submitted = FALSE
        BY <3>4 DEF Restart
      <4> QED
        BY <3>1, <3>2, <4>1 DEF StatInv, OneReportChain
    <3> QED
      BY <2>6, <3>3, <3>4
  <2>7. CASE UNCHANGED vars
    BY <2>0, <2>7 DEF vars
  <2> QED
    BY <2>1, <2>2, <2>3, <2>4, <2>5, <2>6, <2>7 DEF Next, Handle
<1>3. StatInv => OneReportChain
  BY DEF StatInv
<1> QED
  BY <1>1, <1>2, <1>3, PTL DEF Spec
-----------------------------------------------------------------------------
(* The level in force and the file.                                        *)

Busy(c) == thread[c].pc # "idle"

(* While no calls overlap, or have since one that met no other ran to its   *)
(* end, at most one is under way; those that overlapped misled everyone.    *)
Alone(c) == \A d \in Callers \ {c} : ~Busy(d)

OverlapInv ==
  /\ crossed # "yes" => \A c \in Callers : Busy(c) => Alone(c)
  /\ crossed # "no" => misled = Procs
  /\ crossed = "mending" => ~Quiet

(* OnDeviceLevelChanged has stored the level in systemloadLevel_.           *)
Applying == {"match", "save", "collect", "submit"}

(* OverrideRespected, for a caller that is not idle too.                    *)
InForce ==
  IF debugOn THEN level = debugLevel ELSE (reported /\ actual \in Levels) => level = actual

(* What a caller that meets no other knows of the override and of the level *)
(* the device reported, wherever it is.                                     *)
OverrideState(t) ==
  /\ t.pc \in {"dbgLevel", "override"} => debugOn
  /\ t.pc \in {"rstLevel", "rstRead"} => ~debugOn
  /\ t.pc = "check" /\ ~debugOn => t.level = actual
  /\ t.pc = "set" => t.level = IF debugOn THEN debugLevel ELSE actual
  /\ t.pc \in Applying => InForce

(* The file lags behind the level from SetLevel until the row of the level. *)
Lags(t) == t.pc = "save" \/ (t.pc = "match" /\ t.row <= t.level)

FileState(t) ==
  /\ t.pc \in Applying => t.level = level
  /\ t.pc = "save" => t.row = level
  /\ (saved /\ t.pc \in Applying /\ ~Lags(t)) => file = level

(* Nothing of overlapping calls is left, and no call is about to change it. *)
ServiceRest ==
  crossed = "no" =>
    /\ Quiet => InForce
    /\ saved /\ (\A c \in Callers : thread[c].pc \notin Applying) => file = level

ServiceInv ==
  /\ saved => file \in Levels
  /\ crossed # "yes" =>
       \A c \in Callers : Busy(c) => OverrideState(thread[c]) /\ FileState(thread[c])
  /\ ServiceRest

(* What ServiceInv and OverlapInv read.                                     *)
ServiceView == <<service, level, file, saved, reported, thread, overlap>>

(* A caller moves nobody else.                                              *)
LEMMA CallerMoves ==
  ASSUME TypeInv, NEW c \in Callers, CallerStart(c) \/ CallerStep(c)
  PROVE  \A d \in Callers \ {c} : thread'[d] = thread[d]
<1> USE DEF Goto, GotoWith, TypeInv, TypeOK
<1>1. CASE CallerStart(c)
  BY <1>1 DEF CallerStart, DeviceReport, DumpSet, DumpReset
<1>2. CASE StoreActual(c) \/ CheckDebug(c) \/ Override(c)
  BY <1>2 DEF StoreActual, CheckDebug, Override
<1>3. CASE DumpSetLevel(c) \/ DumpResetLevel(c) \/ DumpResetRead(c)
  BY <1>3 DEF DumpSetLevel, DumpResetLevel, DumpResetRead
<1>4. CASE SetLevel(c) \/ MatchLevel(c) \/ SaveLevel(c)
  BY <1>4 DEF SetLevel, MatchLevel, SaveLevel, NextRow
<1>5. CASE Collect(c) \/ SubmitArray(c)
  BY <1>5 DEF Collect, SubmitArray
<1> QED
  BY <1>1, <1>2, <1>3, <1>4, <1>5 DEF CallerStep

(* A step that neither begins nor ends a call.                              *)
InCall(c) ==
  \/ StoreActual(c) \/ CheckDebug(c) \/ Override(c)
  \/ DumpSetLevel(c) \/ DumpResetLevel(c) \/ DumpResetRead(c)
  \/ MatchLevel(c) \/ SaveLevel(c) \/ Collect(c)

LEMMA InCallBusy ==
  ASSUME TypeInv, NEW c \in Callers, InCall(c)
  PROVE  Busy(c) /\ Busy(c)' /\ UNCHANGED <<crossed, misled>>
<1> USE DEF At, Goto, GotoWith, Busy, history, overlap
<1>0. thread \in [Callers -> ThreadState] /\ thread[c] \in ThreadState
  BY DEF TypeInv, TypeOK
<1>1. CASE StoreActual(c) \/ CheckDebug(c) \/ Override(c)
  BY <1>0, <1>1 DEF StoreActual, CheckDebug, Override, ThreadState
<1>2. CASE DumpSetLevel(c) \/ DumpResetLevel(c) \/ DumpResetRead(c)
  BY <1>0, <1>2 DEF DumpSetLevel, DumpResetLevel, DumpResetRead, ThreadState
<1>3. CASE MatchLevel(c)
  BY <1>0, <1>3 DEF MatchLevel, NextRow, ThreadState
<1>4. CASE SaveLevel(c)
  BY <1>0, <1>4 DEF SaveLevel, NextRow, ThreadState
<1>5. CASE Collect(c)
  BY <1>0, <1>5 DEF Collect, ThreadState
<1> QED
  BY <1>1, <1>2, <1>3, <1>4, <1>5 DEF InCall

(* ... and those that do.                                                   *)
LEMMA StartBusy ==
  ASSUME TypeInv, NEW c \in Callers, CallerStart(c)
  PROVE  /\ ~Busy(c) /\ Busy(c)' /\ Begin
         /\ thread'[c].pc \in {"actual", "dbgLevel", "rstLevel"}
<1>0. thread \in [Callers -> ThreadState] /\ thread[c] \in ThreadState
  BY DEF TypeInv, TypeOK
<1> QED
  BY <1>0 DEF CallerStart, DeviceReport, DumpSet, DumpReset, At, Goto, GotoWith, Busy, ThreadState

LEMMA SetBusy ==
  ASSUME TypeInv, NEW c \in Callers, SetLevel(c)
  PROVE  /\ Busy(c)
         /\ \/ thread[c].level \in Levels /\ Busy(c)' /\ UNCHANGED <<crossed, misled>>
            \/ thread[c].level \notin Levels /\ ~Busy(c)' /\ Refuse
<1>0. thread \in [Callers -> ThreadState] /\ thread[c] \in ThreadState
  BY DEF TypeInv, TypeOK
<1> QED
  BY <1>0 DEF SetLevel, At, Goto, Busy, ThreadState, overlap, Idle

(* The accounts of overlapping calls.                                       *)
LEMMA OverlapCaller ==
  ASSUME TypeInv, OverlapInv, NEW c \in Callers, CallerStart(c) \/ CallerStep(c)
  PROVE  OverlapInv'
<1>0. \A d \in Callers \ {c} : Busy(d)' <=> Busy(d)
  BY CallerMoves DEF Busy
<1>t. crossed \in {"no", "yes", "mending"}
  BY DEF TypeInv, TypeOK
<1>1. CASE CallerStart(c)
  <2>1. ~Busy(c) /\ Busy(c)' /\ Begin
    BY <1>1, StartBusy
  <2>2. CASE Quiet
    <3>1. \A d \in Callers : ~Busy(d)
      BY <2>2 DEF Quiet, Busy
    <3>2. \A d \in Callers \ {c} : ~Busy(d)'
      BY <1>0, <3>1
    <3>3. ~Quiet'
      BY <2>1 DEF Quiet, Busy
    <3>4. (crossed' # "no" => misled' = Procs)
      BY <2>1, <2>2 DEF Begin, OverlapInv
    <3> QED
      BY <3>2, <3>3, <3>4 DEF OverlapInv, Alone
  <2>3. CASE ~Quiet
    BY <2>1, <2>3 DEF Begin, OverlapInv
  <2> QED
    BY <2>2, <2>3
<1>2. CASE InCall(c)
  <2>1. Busy(c) /\ Busy(c)' /\ UNCHANGED <<crossed, misled>>
    BY <1>2, InCallBusy
  <2>2. ~Quiet'
    BY <2>1 DEF Quiet, Busy
  <2>3. \A d \in Callers : Busy(d)' <=> Busy(d)
    BY <1>0, <2>1
  <2> QED
    BY <2>1, <2>2, <2>3 DEF OverlapInv, Alone
<1>3. CASE SetLevel(c)
  <2>1. Busy(c)
    BY <1>3, SetBusy
  <2>2. CASE Busy(c)' /\ UNCHANGED <<crossed, misled>>
    <3>1. ~Quiet'
      BY <2>2 DEF Quiet, Busy
    <3>2. \A d \in Callers : Busy(d)' <=> Busy(d)
      BY <1>0, <2>1, <2>2
    <3> QED
      BY <2>2, <3>1, <3>2 DEF OverlapInv, Alone
  <2>3. CASE ~Busy(c)' /\ Refuse
    BY <1>0, <1>t, <2>1, <2>3 DEF Refuse, OverlapInv, Alone
  <2> QED
    BY <1>3, <2>2, <2>3, SetBusy
<1>4. CASE SubmitArray(c)
  <2>1. Busy(c) /\ ~Busy(c)' /\ End(thread[c].array)
    BY <1>4 DEF SubmitArray, At, Busy, Idle, TypeInv, TypeOK
  <2>2. CASE crossed = "yes"
    BY <2>1, <2>2 DEF End, overlap, OverlapInv
  <2>3. CASE crossed # "yes"
    <3>1. \A d \in Callers : ~Busy(d)'
      BY <1>0, <2>1, <2>3 DEF OverlapInv, Alone
    <3> QED
      BY <2>1, <2>3, <3>1 DEF End, OverlapInv, Alone
  <2> QED
    BY <2>2, <2>3
<1> QED
  BY <1>1, <1>2, <1>3, <1>4 DEF CallerStep, InCall

(* A failed save leaves no level behind, and any other write is a level.    *)
LEMMA SavedCaller ==
  ASSUME TypeInv, saved => file \in Levels, NEW c \in Callers, CallerStart(c) \/ CallerStep(c)
  PROVE  saved' => file' \in Levels
<1> USE DEF history
<1>1. CASE SaveLevel(c)
  BY <1>1 DEF SaveLevel, TypeInv, TypeOK, ThreadState
<1>2. CASE CallerStart(c) \/ SetLevel(c) \/ MatchLevel(c)
  BY <1>2 DEF CallerStart, DeviceReport, DumpSet, DumpReset, SetLevel, MatchLevel
<1>3. CASE StoreActual(c) \/ CheckDebug(c) \/ Override(c)
  BY <1>3 DEF StoreActual, CheckDebug, Override
<1>4. CASE DumpSetLevel(c) \/ DumpResetLevel(c) \/ DumpResetRead(c)
  BY <1>4 DEF DumpSetLevel, DumpResetLevel, DumpResetRead
<1>5. CASE Collect(c) \/ SubmitArray(c)
  BY <1>5 DEF Collect, SubmitArray
<1> QED
  BY <1>1, <1>2, <1>3, <1>4, <1>5 DEF CallerStep

(* The caller that meets no other: the others are idle before and after.    *)
LEMMA OthersIdle ==
  ASSUME TypeInv, OverlapInv, NEW c \in Callers, CallerStart(c) \/ CallerStep(c), crossed' # "yes"
  PROVE  \A d \in Callers \ {c} : ~Busy(d) /\ ~Busy(d)'
<1>1. \A d \in Callers \ {c} : ~Busy(d)
  <2>1. CASE CallerStart(c)
    BY <2>1, StartBusy DEF Begin, Quiet, Busy
  <2>2. CASE CallerStep(c)
    <3>1. Busy(c) /\ crossed # "yes"
      <4>1. CASE InCall(c)
        BY <4>1, InCallBusy
      <4>2. CASE SetLevel(c)
        BY <4>2, SetBusy DEF Refuse
      <4>3. CASE SubmitArray(c)
        BY <4>3 DEF SubmitArray, End, overlap, At, Busy
      <4> QED
        BY <2>2, <4>1, <4>2, <4>3 DEF CallerStep, InCall
    <3> QED
      BY <3>1 DEF OverlapInv, Alone
  <2> QED
    BY <2>1, <2>2
<1> QED
  BY <1>1, CallerMoves DEF Busy

LEMMA ServiceReduce ==
  ASSUME TypeInv, OverlapInv, ServiceInv, NEW c \in Callers,
         CallerStart(c) \/ CallerStep(c), crossed' # "yes",
         Busy(c)' => OverrideState(thread[c])' /\ FileState(thread[c])',
         crossed' = "no" =>
           /\ ~Busy(c)' => InForce'
           /\ saved' /\ thread'[c].pc \notin Applying => file' = level'
  PROVE  ServiceInv'
<1>1. saved' => file' \in Levels
  BY SavedCaller DEF ServiceInv
<1>2. \A d \in Callers : Busy(d)' => OverrideState(thread[d])' /\ FileState(thread[d])'
  BY OthersIdle
<1>3. Quiet' => ~Busy(c)'
  BY DEF Quiet, Busy
<1>4. (\A d \in Callers : thread'[d].pc \notin Applying) => thread'[c].pc \notin Applying
  OBVIOUS
<1>5. ServiceRest'
  BY <1>3, <1>4 DEF ServiceRest
<1> QED
  BY <1>1, <1>2, <1>5 DEF ServiceInv

(* What the caller that meets no other knows when it goes on.               *)
LEMMA ServiceKnows ==
  ASSUME TypeInv, OverlapInv, ServiceInv, NEW c \in Callers, Busy(c), crossed # "yes"
  PROVE  /\ OverrideState(thread[c]) /\ FileState(thread[c])
         /\ crossed = "no" /\ saved /\ thread[c].pc \notin Applying => file = level
<1>1. OverrideState(thread[c]) /\ FileState(thread[c])
  BY DEF ServiceInv
<1>2. \A d \in Callers \ {c} : thread[d].pc = "idle"
  BY DEF OverlapInv, Alone, Busy
<1>3. ASSUME crossed = "no", saved, thread[c].pc \notin Applying PROVE file = level
  <2>1. \A d \in Callers : thread[d].pc \notin Applying
    BY <1>2, <1>3 DEF Applying
  <2> QED
    BY <1>3, <2>1 DEF ServiceInv, ServiceRest
<1> QED
  BY <1>1, <1>3

LEMMA ServiceStart ==
  ASSUME TypeInv, OverlapInv, ServiceInv, NEW c \in Callers, CallerStart(c), crossed' # "yes"
  PROVE  ServiceInv'
<1>1. /\ ~Busy(c) /\ Busy(c)' /\ Begin
      /\ thread'[c].pc \in {"actual", "dbgLevel", "rstLevel"}
  BY StartBusy
<1>2. Quiet
  BY <1>1 DEF Begin
<1>3. (thread'[c].pc = "dbgLevel" => debugOn') /\ (thread'[c].pc = "rstLevel" => ~debugOn')
  BY DEF CallerStart, DeviceReport, DumpSet, DumpReset, Goto, GotoWith, TypeInv, TypeOK, ThreadState
<1>4. OverrideState(thread[c])' /\ FileState(thread[c])'
  BY <1>1, <1>3 DEF OverrideState, FileState, Applying
<1>5. UNCHANGED <<level, file, saved>>
  BY DEF CallerStart, DeviceReport, DumpSet, DumpReset
<1>6. crossed' = "no" => crossed = "no"
  BY <1>1, <1>2 DEF Begin, OverlapInv
<1>7. crossed' = "no" /\ saved' => file' = level'
  <2>1. \A d \in Callers : thread[d].pc \notin Applying
    BY <1>2 DEF Quiet, Applying
  <2> QED
    BY <1>5, <1>6, <2>1 DEF ServiceInv, ServiceRest
<1> QED
  BY <1>1, <1>2, <1>4, <1>7, ServiceReduce

LEMMA ServiceSettle ==
  ASSUME TypeInv, OverlapInv, ServiceInv, NEW c \in Callers,
         \/ StoreActual(c) \/ CheckDebug(c) \/ Override(c)
         \/ DumpSetLevel(c) \/ DumpResetLevel(c) \/ DumpResetRead(c),
         crossed' # "yes"
  PROVE  ServiceInv'
<1> DEFINE t == thread[c]
<1>1. Busy(c) /\ Busy(c)' /\ crossed' = crossed
  BY InCallBusy DEF InCall
<1>2. /\ OverrideState(t) /\ FileState(t)
      /\ crossed = "no" /\ saved /\ t.pc \notin Applying => file = level
  BY <1>1, ServiceKnows
<1>t. thread \in [Callers -> ThreadState] /\ t \in ThreadState /\ InRange(t) /\ InRange(thread[c])'
  BY CallerType DEF TypeInv, TypeOK, RangeChecked, CallerStep
<1>3. UNCHANGED <<level, file, saved, reported>> /\ t.pc \notin Applying
  BY DEF StoreActual, CheckDebug, Override, DumpSetLevel, DumpResetLevel, DumpResetRead, At,
         Applying, history
<1>4. thread'[c].pc \notin Applying
  BY <1>t DEF StoreActual, CheckDebug, Override, DumpSetLevel, DumpResetLevel, DumpResetRead,
              Goto, GotoWith, Applying, ThreadState
<1>5. OverrideState(thread[c])'
  <2> USE DEF At, Goto, GotoWith, ThreadState, Applying, OverrideState
  <2>1. CASE StoreActual(c)
    BY <1>t, <1>2, <2>1 DEF StoreActual
  <2>2. CASE CheckDebug(c)
    BY <1>t, <1>2, <2>2 DEF CheckDebug, service
  <2>3. CASE Override(c)
    BY <1>t, <1>2, <2>3 DEF Override, service
  <2>4. CASE DumpSetLevel(c)
    BY <1>t, <1>2, <2>4 DEF DumpSetLevel
  <2>5. CASE DumpResetLevel(c)
    BY <1>t, <1>2, <2>5 DEF DumpResetLevel
  <2>6. CASE DumpResetRead(c)
    BY <1>t, <1>2, <2>6 DEF DumpResetRead, service
  <2> QED
    BY <2>1, <2>2, <2>3, <2>4, <2>5, <2>6
<1>6. FileState(thread[c])'
  <2>1. thread'[c].pc \notin {"match", "save", "collect", "submit"}
    BY <1>4 DEF Applying
  <2> QED
    BY <2>1 DEF FileState, Applying
<1>7. crossed' = "no" /\ saved' => file' = level'
  BY <1>1, <1>2, <1>3
<1> QED
  BY <1>1, <1>5, <1>6, <1>7, ServiceReduce DEF CallerStep

LEMMA ServiceSet ==
  ASSUME TypeInv, OverlapInv, ServiceInv, NEW c \in Callers, SetLevel(c), crossed' # "yes"
  PROVE  ServiceInv'
<1> DEFINE t == thread[c]
<1>t. /\ thread \in [Callers -> ThreadState] /\ t \in ThreadState /\ InRange(t) /\ t.pc = "set"
      /\ debugLevel \in Levels /\ UNCHANGED <<actual, debugLevel, debugOn, file, saved, reported>>
  BY DEF TypeInv, TypeOK, RangeChecked, SetLevel, At, service
<1>1. Busy(c) /\ crossed # "yes"
  BY SetBusy DEF Refuse
<1>2. /\ OverrideState(t)
      /\ crossed = "no" /\ saved => file = level
  BY <1>1, <1>t, ServiceKnows DEF Applying
<1>3. t.level = IF debugOn THEN debugLevel ELSE actual
  BY <1>2, <1>t DEF OverrideState
<1>4. CASE t.level \in Levels
  <2>1. thread'[c] = [t EXCEPT !.pc = "match"] /\ level' = t.level /\ UNCHANGED overlap
    BY <1>t, <1>4 DEF SetLevel, Goto
  <2>2. thread'[c].pc = "match" /\ thread'[c].level = t.level /\ thread'[c].row = LOW
    BY <1>t, <2>1 DEF ThreadState, InRange
  <2>3. InForce'
    BY <1>t, <1>3, <2>1 DEF InForce
  <2>4. OverrideState(thread[c])'
    BY <2>2, <2>3 DEF OverrideState
  <2>5. LOW <= t.level
    BY <1>4 DEF Levels, LOW
  <2>6. FileState(thread[c])'
    BY <2>1, <2>2, <2>5 DEF FileState, Lags
  <2>7. thread'[c].pc \in Applying /\ Busy(c)'
    BY <2>2 DEF Applying, Busy
  <2> QED
    BY <1>1, <2>4, <2>6, <2>7, ServiceReduce DEF CallerStep
<1>5. CASE t.level \notin Levels
  <2>1. ~Busy(c)' /\ Refuse /\ UNCHANGED level
    BY <1>t, <1>5, SetBusy DEF SetLevel
  <2>2. crossed' = "no" => crossed = "no"
    BY <1>1, <2>1 DEF Refuse
  <2>3. ~debugOn /\ actual \notin Levels
    BY <1>t, <1>3, <1>5
  <2>4. InForce'
    BY <1>t, <2>3 DEF InForce
  <2>5. crossed' = "no" /\ saved' => file' = level'
    BY <1>t, <1>2, <2>1, <2>2
  <2> QED
    BY <1>1, <2>1, <2>4, <2>5, ServiceReduce DEF CallerStep
<1> QED
  BY <1>4, <1>5

(* The loop over the rows saves the level once.                             *)
LEMMA ServiceMatch ==
  ASSUME TypeInv, OverlapInv, ServiceInv, NEW c \in Callers, MatchLevel(c) \/ SaveLevel(c),
         crossed' # "yes"
  PROVE  ServiceInv'
<1> DEFINE t == thread[c]
<1>1. Busy(c) /\ Busy(c)' /\ crossed' = crossed
  BY InCallBusy DEF InCall
<1>2. OverrideState(t) /\ FileState(t)
  BY <1>1, ServiceKnows
<1>t. /\ thread \in [Callers -> ThreadState] /\ t \in ThreadState
      /\ UNCHANGED <<actual, debugLevel, debugOn, reported, level>>
      /\ t.pc \in {"match", "save"} /\ t.level = level /\ level \in Levels /\ t.row \in Levels
  BY <1>2 DEF TypeInv, TypeOK, MatchLevel, SaveLevel, At, service, FileState, Applying, ThreadState,
              history
<1>3. /\ thread'[c].pc \in {"match", "save", "collect"} /\ thread'[c].level = level
      /\ thread'[c].pc = "save" => t.row = level /\ thread'[c].row = level /\ t.pc = "match"
      /\ thread'[c].pc = "match" => thread'[c].row = t.row + 1
      /\ thread'[c].pc = "collect" => t.row >= MaxLevel
      /\ t.pc = "match" /\ t.row = level => thread'[c].pc = "save"
  BY <1>t DEF MatchLevel, SaveLevel, NextRow, Goto, At, ThreadState
<1>4. /\ t.pc = "match" => UNCHANGED <<file, saved>>
      /\ t.pc = "save" => t.row = level /\ (saved' => file' = level)
  BY <1>2 DEF MatchLevel, SaveLevel, At, history, FileState
<1>5. OverrideState(thread[c])'
  <2>1. InForce
    BY <1>2, <1>t DEF OverrideState, Applying
  <2>2. InForce'
    BY <1>t, <2>1 DEF InForce
  <2> QED
    BY <1>3, <2>2 DEF OverrideState
<1>6. FileState(thread[c])'
  <2>1. ASSUME saved', ~Lags(thread[c])' PROVE file' = level'
    <3>1. CASE t.pc = "save"
      BY <1>4, <1>t, <2>1, <3>1
    <3>2. CASE t.pc = "match"
      <4>1. thread'[c].pc # "save"
        BY <2>1 DEF Lags
      <4>2. t.row # level
        BY <1>3, <3>2, <4>1
      <4>3. ~(t.row <= t.level)
        <5>1. CASE thread'[c].pc = "match"
          <6>1. ~(t.row + 1 <= level)
            BY <1>3, <1>t, <2>1, <5>1 DEF Lags
          <6> QED
            BY <1>t, <4>2, <6>1 DEF Levels, LOW
        <5>2. CASE thread'[c].pc = "collect"
          <6>1. t.row >= MaxLevel /\ level <= MaxLevel /\ MaxLevel \in Nat
            BY <1>3, <1>t, <5>2, SystemloadAssumption DEF Levels, LOW
          <6> QED
            BY <1>t, <4>2, <6>1 DEF Levels, LOW
        <5> QED
          BY <1>3, <4>1, <5>1, <5>2
      <4>4. ~Lags(t)
        BY <3>2, <4>3 DEF Lags
      <4> QED
        BY <1>2, <1>4, <1>t, <2>1, <3>2, <4>4 DEF FileState, Applying
    <3> QED
      BY <1>t, <3>1, <3>2
  <2> QED
    BY <1>3, <1>t, <2>1 DEF FileState
<1>7. thread'[c].pc \in Applying
  BY <1>3 DEF Applying
<1> QED
  BY <1>1, <1>5, <1>6, <1>7, ServiceReduce DEF CallerStep

LEMMA ServiceTell ==
  ASSUME TypeInv, OverlapInv, ServiceInv, NEW c \in Callers, Collect(c) \/ SubmitArray(c),
         crossed' # "yes"
  PROVE  ServiceInv'
<1> DEFINE t == thread[c]
<1>t. /\ thread \in [Callers -> ThreadState] /\ t \in ThreadState /\ t.pc \in {"collect", "submit"}
      /\ UNCHANGED <<actual, debugLevel, debugOn, level, file, saved, reported>>
  BY DEF TypeInv, TypeOK, Collect, SubmitArray, At, service
<1>1. Busy(c) /\ crossed # "yes"
  <2>1. Busy(c)
    BY <1>t DEF Busy
  <2>2. crossed # "yes"
    BY DEF Collect, SubmitArray, End, overlap
  <2> QED
    BY <2>1, <2>2
<1>2. OverrideState(t) /\ FileState(t)
  BY <1>1, ServiceKnows
<1>3. InForce /\ t.level = level /\ (saved => file = level)
  BY <1>2, <1>t DEF OverrideState, FileState, Applying, Lags
<1>4. InForce'
  BY <1>3, <1>t DEF InForce
<1>5. CASE Collect(c)
  <2>1. thread'[c].pc = "submit" /\ thread'[c].level = level
    BY <1>3, <1>5, <1>t DEF Collect, ThreadState
  <2>2. OverrideState(thread[c])' /\ FileState(thread[c])'
    BY <1>3, <1>4, <1>t, <2>1 DEF OverrideState, FileState
  <2>3. thread'[c].pc \in Applying /\ Busy(c)'
    BY <2>1 DEF Applying, Busy
  <2> QED
    BY <1>1, <2>2, <2>3, ServiceReduce DEF CallerStep
<1>6. CASE SubmitArray(c)
  <2>1. ~Busy(c)'
    BY <1>6, <1>t DEF SubmitArray, Busy, Idle
  <2> QED
    BY <1>1, <1>3, <1>4, <1>t, <2>1, ServiceReduce DEF CallerStep
<1> QED
  BY <1>5, <1>6

LEMMA ServiceCaller ==
  ASSUME TypeInv, OverlapInv, ServiceInv, NEW c \in Callers, CallerStart(c) \/ CallerStep(c)
  PROVE  ServiceInv'
<1>1. CASE crossed' = "yes"
  <2>1. saved' => file' \in Levels
    BY SavedCaller DEF ServiceInv
  <2> QED
    BY <1>1, <2>1 DEF ServiceInv, ServiceRest
<1>2. CASE crossed' # "yes"
  BY <1>2, ServiceStart, ServiceSettle, ServiceSet, ServiceMatch, ServiceTell DEF CallerStep
<1> QED
  BY <1>1, <1>2

LEMMA ServiceKept ==
  ASSUME OverlapInv, ServiceInv, UNCHANGED ServiceView
  PROVE  OverlapInv' /\ ServiceInv'
<1> USE DEF ServiceView, service, overlap
<1>1. OverlapInv'
  BY DEF OverlapInv, Alone, Busy, Quiet
<1>2. \A c \in Callers : OverrideState(thread[c]) => OverrideState(thread[c])'
  BY DEF OverrideState, InForce
<1>3. \A c \in Callers : FileState(thread[c]) => FileState(thread[c])'
  BY DEF FileState, Lags
<1>4. ServiceRest'
  BY DEF ServiceInv, ServiceRest, Quiet, InForce
<1> QED
  BY <1>1, <1>2, <1>3, <1>4 DEF ServiceInv, Busy

LEMMA ServiceStep ==
  ASSUME TypeInv, OverlapInv, ServiceInv, [Next]_vars
  PROVE  OverlapInv' /\ ServiceInv'
<1>1. CASE \E c \in Callers : CallerStart(c) \/ CallerStep(c)
  BY <1>1, OverlapCaller, ServiceCaller
<1>2. CASE Restart
  <2>1. \A c \in Callers : ~Busy(c)'
    BY <1>2 DEF Restart, Busy, Idle
  <2>2. /\ crossed' = "no" /\ ~debugOn' /\ ~reported' /\ UNCHANGED <<file, saved>>
        /\ level' = IF file = None THEN LOW ELSE file
    BY <1>2 DEF Restart
  <2>3. OverlapInv'
    BY <2>1, <2>2 DEF OverlapInv
  <2>4. InForce'
    BY <2>2 DEF InForce
  <2>5. saved' => file' = level'
    BY <2>2, SystemloadAssumption, LevelFacts DEF ServiceInv
  <2> QED
    BY <2>1, <2>2, <2>3, <2>4, <2>5 DEF ServiceInv, ServiceRest
<1>3. CASE \E p \in Procs : ClientStep(p) \/ Handle(p)
  <2>1. UNCHANGED ServiceView
    BY <1>3 DEF ServiceView, ClientStep, Handle, Start, Die, Call, RegisterNotifier, UnRegisterNotifier,
                OnRemoteNotifierDied, history
  <2> QED
    BY <2>1, ServiceKept
<1>4. CASE (\E pid \in Pids : OnForeground(pid) \/ OnBackground(pid)) \/ Deliver \/ EventReportPeriod
  <2>1. UNCHANGED ServiceView
    BY <1>4 DEF ServiceView, OnForeground, OnBackground, Deliver, EventReportPeriod, history
  <2> QED
    BY <2>1, ServiceKept
<1>5. CASE UNCHANGED vars
  BY <1>5, ServiceKept DEF vars, ServiceView, history
<1> QED
  BY <1>1, <1>2, <1>3, <1>4, <1>5 DEF Next

LEMMA ServiceInit == Init => OverlapInv /\ ServiceInv
<1> SUFFICES ASSUME Init PROVE OverlapInv /\ ServiceInv
  OBVIOUS
<1>1. (\A c \in Callers : ~Busy(c)) /\ InForce
  BY DEF Init, Busy, Idle, InForce
<1> QED
  BY <1>1 DEF Init, OverlapInv, ServiceInv, ServiceRest

LEMMA ServiceAlways == Spec => [](TypeInv /\ OverlapInv /\ ServiceInv)
<1>1. Init => TypeInv /\ OverlapInv /\ ServiceInv
  BY InitType, ServiceInit
<1>2. TypeInv /\ OverlapInv /\ ServiceInv /\ [Next]_vars
        => (TypeInv /\ OverlapInv /\ ServiceInv)'
  BY TypeStep, ServiceStep
<1> QED
  BY <1>1, <1>2, PTL DEF Spec

(* For any threads that report levels or run hidumper: between the calls,   *)
(* once a call that met no other has ended, the file holds the level in     *)
(* force unless its latest write failed (MatchLevel goes through the rows   *)
(* and SaveLevel writes one), so a restart of the service takes up a level  *)
(* that was in force.                                                       *)
THEOREM FileFollowsLevel == Spec => []FileIsLevel
<1>1. TypeInv /\ OverlapInv /\ ServiceInv => FileIsLevel
  BY DEF FileIsLevel, Orderly, Quiet, ServiceInv, ServiceRest, Applying
<1> QED
  BY <1>1, ServiceAlways, PTL

(* For any such threads: between the calls, once a call that met no other   *)
(* has ended, a level set through hidumper is the level in force, and       *)
(* without one the level the device reported last, if it reported one since *)
(* the service was started (CheckDebug, Override, DumpReset).               *)
THEOREM OverrideInForce == Spec => []OverrideRespected
<1>1. TypeInv /\ OverlapInv /\ ServiceInv => OverrideRespected
  BY DEF OverrideRespected, Orderly, ServiceInv, ServiceRest, InForce
<1> QED
  BY <1>1, ServiceAlways, PTL

-----------------------------------------------------------------------------
(* What the registered processes are told.                                  *)

(* Only a process that made a call is registered.                           *)
CallersKnown ==
  /\ \A p \in Procs : call[p] # "none" => proc[p] # "new"
  /\ \A pid \in Pids : map[pid] # None => proc[map[pid].notifier] # "new"

(* A level was chosen for the registered process.                           *)
ToldLevel(p) == Registered(p) /\ sent[p] # None

(* The entry remembers the level chosen last: OnApplicationStateChange      *)
(* compares with it.                                                        *)
EntryLevel == \A p \in Procs : ToldLevel(p) => map[PidOf[p]].level = sent[p]

(* systemloadLevel_ has moved and nobody was chosen for it yet.             *)
Moved == {"match", "save", "collect"}

(* The call that meets no other has chosen whom to tell, or moved nothing.  *)
Settled ==
  \/ crossed = "no" /\ \A c \in Callers : thread[c].pc \notin Moved
  \/ crossed = "mending" /\ \E c \in Callers : thread[c].pc = "submit"

SentState ==
  Settled => \A p \in Procs : ToldLevel(p) /\ Eligible(map[PidOf[p]]) => sent[p] = level

(* l is what p hears last, as a relation.                                   *)
HearsLast(p, l) ==
  \/ PendingFor(p) = {} /\ told[p] = l
  \/ \E i \in PendingFor(p) : (\A j \in PendingFor(p) : j <= i) /\ queue[i][2] = l

(* A caller has chosen p and not handed the array to the queue.             *)
InHand(p) == \E c \in Callers : thread[c].pc = "submit" /\ p \in thread[c].array

HearState(p) ==
  /\ crossed # "yes" /\ InHand(p) => sent[p] = level
  /\ p \notin misled /\ proc[p] = "alive" /\ ~InHand(p) => HearsLast(p, sent[p])

QueueState == \A p \in Procs : ToldLevel(p) => HearState(p)

NoticeState == EntryLevel /\ SentState /\ QueueState

NoticeInv == CallersKnown /\ NoticeState

(* A task at the end of the queue is heard last by whom it is for, and by   *)
(* nobody else.                                                             *)
LEMMA HearsAppended ==
  ASSUME TypeInv, NEW p \in Procs, NEW to \in SUBSET Procs, NEW l \in Levels,
         queue' = Append(queue, <<to, l>>), UNCHANGED told
  PROVE  /\ p \in to => HearsLast(p, l)'
         /\ \A m : p \notin to /\ HearsLast(p, m) => HearsLast(p, m)'
<1> DEFINE n == Len(queue)
<1>1. /\ queue \in Seq((SUBSET Procs) \X Levels) /\ n \in Nat /\ DOMAIN queue = 1..n
      /\ DOMAIN queue' = 1..(n + 1) /\ queue'[n + 1] = <<to, l>>
      /\ \A i \in 1..n : queue'[i] = queue[i]
  BY DEF TypeInv, TypeOK
<1>2. p \in to => n + 1 \in PendingFor(p)' /\ \A j \in PendingFor(p)' : j <= n + 1
  BY <1>1 DEF PendingFor
<1>3. p \notin to => PendingFor(p)' = PendingFor(p)
  BY <1>1 DEF PendingFor
<1>4. \A i \in PendingFor(p) : queue'[i] = queue[i]
  BY <1>1 DEF PendingFor
<1>5. p \in to => HearsLast(p, l)'
  BY <1>1, <1>2 DEF HearsLast
<1>6. ASSUME NEW m, p \notin to, HearsLast(p, m) PROVE HearsLast(p, m)'
  BY <1>3, <1>4, <1>6 DEF HearsLast
<1> QED
  BY <1>5, <1>6

(* Running the first task changes nothing of what a live process hears last. *)
LEMMA HearsDelivered ==
  ASSUME TypeInv, Deliver, NEW p \in Procs, proc[p] = "alive", NEW m, HearsLast(p, m)
  PROVE  HearsLast(p, m)'
<1> DEFINE n == Len(queue)
<1>1. /\ queue \in Seq((SUBSET Procs) \X Levels) /\ n \in Nat /\ n >= 1 /\ DOMAIN queue = 1..n
      /\ DOMAIN queue' = 1..(n - 1) /\ \A i \in 1..(n - 1) : queue'[i] = queue[i + 1]
  BY DEF Deliver, TypeInv, TypeOK
<1>2. told'[p] = IF 1 \in PendingFor(p) THEN queue[1][2] ELSE told[p]
  BY <1>1 DEF Deliver, PendingFor
<1>3. \A i \in 1..(n - 1) : i \in PendingFor(p)' <=> i + 1 \in PendingFor(p)
  BY <1>1 DEF PendingFor
<1>4. PendingFor(p) \subseteq 1..n /\ PendingFor(p)' \subseteq 1..(n - 1)
  BY <1>1 DEF PendingFor
<1>5. CASE PendingFor(p) = {} /\ told[p] = m
  <2>1. PendingFor(p)' = {}
    BY <1>3, <1>4, <1>5
  <2> QED
    BY <1>2, <1>5, <2>1 DEF HearsLast
<1>6. ASSUME NEW i \in PendingFor(p), \A j \in PendingFor(p) : j <= i, queue[i][2] = m
      PROVE  HearsLast(p, m)'
  <2>1. CASE i = 1
    <3>1. PendingFor(p)' = {}
      BY <1>1, <1>3, <1>4, <1>6, <2>1
    <3> QED
      BY <1>2, <1>6, <2>1, <3>1 DEF HearsLast
  <2>2. CASE i # 1
    <3>1. i - 1 \in 1..(n - 1) /\ (i - 1) + 1 = i
      BY <1>1, <1>4, <1>6, <2>2
    <3>2. i - 1 \in PendingFor(p)' /\ queue'[i - 1][2] = m
      BY <1>1, <1>3, <1>6, <3>1
    <3>3. \A j \in PendingFor(p)' : j <= i - 1
      BY <1>1, <1>3, <1>4, <1>6, <3>1
    <3> QED
      BY <3>2, <3>3 DEF HearsLast
  <2> QED
    BY <2>1, <2>2
<1> QED
  BY <1>5, <1>6 DEF HearsLast

(* The relation determines HeardLast.                                       *)
LEMMA HearsHeard ==
  ASSUME TypeInv, NEW p \in Procs, NEW m, HearsLast(p, m) PROVE HeardLast(p) = m
<1>1. PendingFor(p) \subseteq Nat
  BY DEF PendingFor, TypeInv, TypeOK
<1>2. CASE PendingFor(p) = {}
  BY <1>2 DEF HearsLast, HeardLast
<1>3. ASSUME NEW i \in PendingFor(p), \A j \in PendingFor(p) : j <= i, queue[i][2] = m
      PROVE  HeardLast(p) = m
  <2>1. \A k \in PendingFor(p) : (\A j \in PendingFor(p) : j <= k) => k = i
    BY <1>1, <1>3
  <2>2. (CHOOSE k \in PendingFor(p) : \A j \in PendingFor(p) : j <= k) = i
    BY <1>3, <2>1
  <2> QED
    BY <1>3, <2>2 DEF HeardLast
<1> QED
  BY <1>2, <1>3 DEF HearsLast

(* A step that changes no entry of a process that has been told a level.    *)
LEMMA NoticeKept ==
  ASSUME TypeInv, NoticeState, UNCHANGED <<level, thread, queue, told, crossed, misled>>,
         \A p \in Procs : ToldLevel(p)' =>
           /\ ToldLevel(p) /\ map'[PidOf[p]] = map[PidOf[p]] /\ sent'[p] = sent[p]
           /\ proc'[p] = "alive" => proc[p] = "alive"
  PROVE  NoticeState'
<1>1. EntryLevel'
  BY DEF NoticeState, EntryLevel
<1>2. SentState'
  BY DEF NoticeState, SentState, Settled, Eligible
<1>3. ASSUME NEW p \in Procs, ToldLevel(p)' PROVE HearState(p)'
  <2>1. ToldLevel(p) /\ sent'[p] = sent[p] /\ (proc'[p] = "alive" => proc[p] = "alive")
    BY <1>3
  <2>2. HearState(p)
    BY <2>1 DEF NoticeState, QueueState
  <2>3. HearsLast(p, sent[p]) => HearsLast(p, sent[p])'
    BY <2>1 DEF HearsLast, PendingFor
  <2> QED
    BY <2>1, <2>2, <2>3 DEF InHand, HearState
<1> QED
  BY <1>1, <1>2, <1>3 DEF NoticeState, QueueState

(* Calls, deaths and registrations: nobody who was told a level gets a new  *)
(* entry, and only who called is registered.                                *)
LEMMA NoticeClient ==
  ASSUME TypeInv, EntriesReclaimed, NoticeInv, NEW p \in Procs, ClientStep(p) \/ Handle(p)
  PROVE  NoticeInv'
<1> USE SystemloadAssumption DEF clients, history, service, overlap
<1>0. /\ map \in [Pids -> NotifierInfo \cup {None}] /\ PidOf[p] \in Pids
      /\ proc \in [Procs -> {"new", "alive", "dead"}] /\ sent \in [Procs -> Levels \cup {None}]
      /\ call \in [Procs -> {"none", "register", "unregister"}]
      /\ \A pid \in Pids : map[pid] # None => map[pid].notifier \in Procs
  BY DEF TypeInv, TypeOK, NotifierInfo
<1>1. CASE Start(p)
  <2>1. CallersKnown'
    BY <1>0, <1>1 DEF Start, NoticeInv, CallersKnown
  <2>2. ~Registered(p)
    BY <1>0, <1>1 DEF Start, NoticeInv, CallersKnown, Registered
  <2>3. NoticeState'
    BY <1>0, <1>1, <2>2, NoticeKept DEF Start, NoticeInv, ToldLevel, Registered
  <2> QED
    BY <2>1, <2>3 DEF NoticeInv
<1>2. CASE Die(p)
  <2>1. CallersKnown'
    BY <1>0, <1>2 DEF Die, NoticeInv, CallersKnown
  <2>2. NoticeState'
    BY <1>0, <1>2, NoticeKept DEF Die, NoticeInv, ToldLevel, Registered
  <2> QED
    BY <2>1, <2>2 DEF NoticeInv
<1>3. CASE \E what \in Calls : Call(p, what)
  <2>1. CallersKnown'
    BY <1>0, <1>3 DEF Call, NoticeInv, CallersKnown
  <2>2. NoticeState'
    BY <1>3, NoticeKept DEF Call, NoticeInv, ToldLevel, Registered
  <2> QED
    BY <2>1, <2>2 DEF NoticeInv
<1>4. CASE RegisterNotifier(p)
  <2>0. NewInfo(p).notifier = p
    BY DEF NewInfo
  <2>1. CallersKnown'
    <3>1. UNCHANGED proc /\ call' = [call EXCEPT ![p] = "none"] /\ proc[p] # "new"
      BY <1>4 DEF RegisterNotifier, NoticeInv, CallersKnown
    <3>2. map' = map \/ map' = [map EXCEPT ![PidOf[p]] = NewInfo(p)]
      BY <1>4 DEF RegisterNotifier
    <3> QED
      BY <1>0, <2>0, <3>1, <3>2 DEF NoticeInv, CallersKnown
  <2>2. ASSUME NEW q \in Procs, ToldLevel(q)'
        PROVE  ToldLevel(q) /\ map'[PidOf[q]] = map[PidOf[q]] /\ sent'[q] = sent[q]
    <3>0. PidOf[q] \in Pids
      OBVIOUS
    <3>1. CASE map[PidOf[p]] = None
      <4>1. q # p
        BY <1>0, <1>4, <2>2, <3>1 DEF RegisterNotifier, ToldLevel
      <4>2. PidOf[q] # PidOf[p]
        BY <1>0, <1>4, <2>0, <2>2, <3>1, <4>1 DEF RegisterNotifier, ToldLevel, Registered
      <4> QED
        BY <1>0, <1>4, <2>2, <3>0, <3>1, <4>1, <4>2 DEF RegisterNotifier, ToldLevel, Registered
    <3>2. CASE map[PidOf[p]] # None
      BY <1>4, <2>2, <3>2 DEF RegisterNotifier, ToldLevel, Registered
    <3> QED
      BY <3>1, <3>2
  <2>3. NoticeState'
    BY <1>4, <2>2, NoticeKept DEF RegisterNotifier, NoticeInv
  <2> QED
    BY <2>1, <2>3 DEF NoticeInv
<1>5. CASE UnRegisterNotifier(p) \/ OnRemoteNotifierDied(p)
  <2>1. map' = [map EXCEPT ![PidOf[p]] = None] \/ map' = map
    BY <1>5 DEF UnRegisterNotifier, OnRemoteNotifierDied
  <2>2. UNCHANGED <<proc, sent, level, thread, queue, told, crossed, misled>>
    BY <1>5 DEF UnRegisterNotifier, OnRemoteNotifierDied
  <2>3. call' = call \/ call' = [call EXCEPT ![p] = "none"]
    BY <1>5 DEF UnRegisterNotifier, OnRemoteNotifierDied
  <2>4. CallersKnown'
    BY <1>0, <2>1, <2>2, <2>3 DEF NoticeInv, CallersKnown
  <2>5. ASSUME NEW q \in Procs, ToldLevel(q)'
        PROVE  ToldLevel(q) /\ map'[PidOf[q]] = map[PidOf[q]] /\ sent'[q] = sent[q]
    BY <1>0, <2>1, <2>2, <2>5 DEF ToldLevel, Registered
  <2>6. NoticeState'
    BY <2>2, <2>5, NoticeKept DEF NoticeInv
  <2> QED
    BY <2>4, <2>6 DEF NoticeInv
<1> QED
  BY <1>1, <1>2, <1>3, <1>4, <1>5 DEF ClientStep, Handle

(* The catch-up of OnApplicationStateChange: the application hears the      *)
(* level in force last, or was told it already.                             *)
LEMMA NoticeForeground ==
  ASSUME TypeInv, EntriesReclaimed, NoticeInv, NEW pid \in Pids, OnForeground(pid)
  PROVE  NoticeInv'
<1> USE SystemloadAssumption DEF clients, history, service, overlap
<1>q. PICK q \in Procs : q = map[pid].notifier
  BY DEF TypeInv, TypeOK, NotifierInfo, OnForeground
<1>0. /\ map \in [Pids -> NotifierInfo \cup {None}] /\ map[pid] \in NotifierInfo /\ map[pid] # None
      /\ PidOf[q] = pid /\ level \in Levels /\ level # None
      /\ sent \in [Procs -> Levels \cup {None}] /\ Registered(q)
  BY <1>q, LevelFacts DEF TypeInv, TypeOK, EntriesReclaimed, OnForeground, Registered
<1>1. /\ map'[pid].notifier = q /\ map'[pid].level = level
      /\ \A i \in Pids \ {pid} : map'[i] = map[i]
      /\ UNCHANGED <<proc, call, told, level, thread, crossed, misled>>
  BY <1>0, <1>q DEF OnForeground, NotifierInfo
<1>2. \/ queue' = Append(queue, <<{q}, level>>) /\ sent' = [sent EXCEPT ![q] = level]
      \/ UNCHANGED <<queue, sent>> /\ map[pid].level = level
  <2>1. {q} # {}
    OBVIOUS
  <2> QED
    BY <1>0, <1>q, <2>1 DEF OnForeground, Submit
<1>3. CallersKnown'
  BY <1>0, <1>1, <1>q DEF NoticeInv, CallersKnown
<1>4. ASSUME NEW p \in Procs, p # q, ToldLevel(p)'
      PROVE  ToldLevel(p) /\ map'[PidOf[p]] = map[PidOf[p]] /\ sent'[p] = sent[p]
  <2>1. PidOf[p] \in Pids \ {pid}
    BY <1>1, <1>4 DEF ToldLevel, Registered
  <2> QED
    BY <1>0, <1>1, <1>2, <1>4, <2>1 DEF ToldLevel, Registered
<1>5. ToldLevel(q)' => sent'[q] = level
  <2>1. CASE UNCHANGED <<queue, sent>> /\ map[pid].level = level
    BY <1>0, <2>1 DEF NoticeInv, NoticeState, EntryLevel, ToldLevel
  <2> QED
    BY <1>0, <1>2, <2>1
<1>6. EntryLevel'
  BY <1>0, <1>1, <1>4, <1>5 DEF NoticeInv, NoticeState, EntryLevel
<1>7. SentState'
  <2>1. Settled' => Settled
    BY <1>1 DEF Settled
  <2> QED
    BY <1>0, <1>1, <1>4, <1>5, <2>1 DEF NoticeInv, NoticeState, SentState
<1>8. ASSUME NEW p \in Procs, ToldLevel(p)' PROVE HearState(p)'
  <2>1. CASE p = q
    <3>1. sent'[p] = level
      BY <1>5, <1>8, <2>1
    <3>2. ASSUME p \notin misled, proc[p] = "alive", ~InHand(p) PROVE HearsLast(p, level)'
      <4>1. CASE queue' = Append(queue, <<{q}, level>>)
        BY <1>0, <1>1, <2>1, <4>1, HearsAppended
      <4>2. CASE UNCHANGED <<queue, sent>>
        <5>1. HearState(p)
          BY <1>0, <1>8, <2>1, <4>2 DEF NoticeInv, NoticeState, QueueState, ToldLevel
        <5>2. HearsLast(p, level)
          BY <3>1, <3>2, <4>2, <5>1 DEF HearState
        <5> QED
          BY <1>1, <4>2, <5>2 DEF HearsLast, PendingFor
      <4> QED
        BY <1>2, <4>1, <4>2
    <3>3. HearsLast(p, level)' => HearsLast(p, sent[p])'
      BY <1>1, <3>1 DEF HearsLast
    <3> QED
      BY <1>1, <3>1, <3>2, <3>3 DEF HearState, InHand
  <2>2. CASE p # q
    <3>1. ToldLevel(p) /\ sent'[p] = sent[p]
      BY <1>4, <1>8, <2>2
    <3>2. HearState(p)
      BY <3>1 DEF NoticeInv, NoticeState, QueueState
    <3>3. \A m : HearsLast(p, m) => HearsLast(p, m)'
      <4>1. CASE queue' = Append(queue, <<{q}, level>>)
        BY <1>0, <1>1, <2>2, <4>1, HearsAppended
      <4>2. CASE UNCHANGED queue
        BY <1>1, <4>2 DEF HearsLast, PendingFor
      <4> QED
        BY <1>2, <4>1, <4>2
    <3>4. HearsLast(p, sent[p]) => HearsLast(p, sent[p])'
      BY <3>1, <3>3 DEF HearsLast
    <3> QED
      BY <1>1, <3>1, <3>2, <3>4 DEF HearState, InHand
  <2> QED
    BY <2>1, <2>2
<1> QED
  BY <1>3, <1>6, <1>7, <1>8 DEF NoticeInv, NoticeState, QueueState

(* An application in the background is not told, so nothing need be true    *)
(* of what it was told last.                                                *)
LEMMA NoticeBackground ==
  ASSUME TypeInv, EntriesReclaimed, NoticeInv, NEW pid \in Pids, OnBackground(pid)
  PROVE  NoticeInv'
<1> USE SystemloadAssumption DEF clients, history, service, overlap
<1>0. map \in [Pids -> NotifierInfo \cup {None}] /\ map[pid] \in NotifierInfo /\ map[pid] # None
  BY DEF TypeInv, TypeOK, OnBackground
<1>1. /\ map'[pid].notifier = map[pid].notifier
      /\ map'[pid].level = map[pid].level /\ ~Eligible(map[pid])'
      /\ \A i \in Pids \ {pid} : map'[i] = map[i]
      /\ UNCHANGED <<proc, call, told, level, thread, queue, sent, crossed, misled>>
  BY <1>0 DEF OnBackground, NotifierInfo, Eligible
<1>2. CallersKnown'
  BY <1>0, <1>1 DEF NoticeInv, CallersKnown
<1>3. ASSUME NEW p \in Procs, ToldLevel(p)'
      PROVE  /\ ToldLevel(p) /\ map'[PidOf[p]].level = map[PidOf[p]].level
             /\ Eligible(map[PidOf[p]])' => Eligible(map[PidOf[p]])
  <2>1. CASE PidOf[p] = pid
    BY <1>0, <1>1, <1>3, <2>1 DEF ToldLevel, Registered
  <2>2. CASE PidOf[p] # pid
    BY <1>0, <1>1, <1>3, <2>2 DEF ToldLevel, Registered, Eligible
  <2> QED
    BY <2>1, <2>2
<1>4. EntryLevel'
  BY <1>1, <1>3 DEF NoticeInv, NoticeState, EntryLevel
<1>5. SentState'
  BY <1>1, <1>3 DEF NoticeInv, NoticeState, SentState, Settled
<1>6. QueueState'
  BY <1>1, <1>3 DEF NoticeInv, NoticeState, QueueState, HearState, InHand, HearsLast, PendingFor
<1> QED
  BY <1>2, <1>4, <1>5, <1>6 DEF NoticeInv, NoticeState

(* The steps of a caller.  After calls that overlapped only the entries are *)
(* accounted for.                                                           *)
LEMMA NoticeCrossed ==
  ASSUME OverlapInv', crossed' = "yes", CallersKnown', EntryLevel' PROVE NoticeInv'
<1>1. misled' = Procs /\ ~Settled'
  BY DEF OverlapInv, Settled
<1> QED
  BY <1>1 DEF NoticeInv, NoticeState, SentState, QueueState, HearState

(* All but two steps of a caller leave the registry, the queue and the      *)
(* history of notices alone.                                                *)
LEMMA NoticeMove ==
  ASSUME TypeInv, OverlapInv, NoticeInv, NEW c \in Callers, CallerStart(c) \/ CallerStep(c),
         UNCHANGED <<map, sent, told, queue, proc, call>>,
         crossed' # "yes" => misled' = misled,
         thread[c].pc # "submit", thread'[c].pc # "submit",
         crossed' = "no" =>
           /\ crossed = "no"
           /\ thread'[c].pc \in Moved \/ (thread[c].pc \notin Moved /\ UNCHANGED level)
  PROVE  NoticeInv'
<1>1. CallersKnown' /\ EntryLevel'
  BY DEF NoticeInv, NoticeState, CallersKnown, EntryLevel, ToldLevel, Registered
<1>2. CASE crossed' = "yes"
  BY <1>1, <1>2, OverlapCaller, NoticeCrossed
<1>3. CASE crossed' # "yes"
  <2>1. \A d \in Callers \ {c} : thread[d].pc = "idle" /\ thread'[d].pc = "idle"
    BY <1>3, OthersIdle DEF Busy
  <2>2. \A d \in Callers : thread[d].pc # "submit" /\ thread'[d].pc # "submit"
    BY <2>1
  <2>3. SentState'
    <3>1. Settled' => crossed' = "no" /\ thread'[c].pc \notin Moved
      BY <2>2 DEF Settled
    <3>2. Settled' => crossed = "no" /\ thread[c].pc \notin Moved /\ UNCHANGED level
      BY <3>1
    <3>3. Settled' => Settled /\ UNCHANGED level
      BY <2>1, <3>2 DEF Settled, Moved
    <3> QED
      BY <3>3 DEF NoticeInv, NoticeState, SentState, ToldLevel, Registered, Eligible
  <2>4. ASSUME NEW p \in Procs, ToldLevel(p)' PROVE HearState(p)'
    <3>1. HearState(p)
      BY <2>4 DEF NoticeInv, NoticeState, QueueState, ToldLevel, Registered
    <3>2. ~InHand(p) /\ ~InHand(p)'
      BY <2>2 DEF InHand
    <3>3. misled' = misled
      BY <1>3
    <3> QED
      BY <3>1, <3>2, <3>3 DEF HearState, HearsLast, PendingFor
  <2> QED
    BY <1>1, <2>3, <2>4 DEF NoticeInv, NoticeState, QueueState
<1> QED
  BY <1>2, <1>3

(* Collect: what it writes in the entries is what it chose.                 *)
LEMMA CollectEntries ==
  ASSUME TypeInv, EntriesReclaimed, NoticeInv, NEW c \in Callers, Collect(c)
  PROVE  /\ CallersKnown' /\ EntryLevel'
         /\ \A pid \in Pids : map'[pid] # None =>
              map[pid] # None /\ (Eligible(map[pid])' <=> Eligible(map[pid]))
         /\ \A p \in Procs : ToldLevel(p)' =>
              /\ Registered(p) /\ (p \in Chosen <=> Eligible(map[PidOf[p]]))
              /\ sent'[p] = IF p \in Chosen THEN thread[c].level ELSE sent[p]
              /\ p \notin Chosen => ToldLevel(p)
<1> DEFINE t == thread[c]
<1> USE SystemloadAssumption DEF clients, history, service
<1>0. /\ map \in [Pids -> NotifierInfo \cup {None}] /\ sent \in [Procs -> Levels \cup {None}]
      /\ t \in ThreadState /\ t.pc = "collect"
      /\ UNCHANGED <<proc, call, told, level, queue>>
  BY DEF TypeInv, TypeOK, Collect, At
<1>2. ASSUME NEW pid \in Pids, map'[pid] # None
      PROVE  /\ map[pid] # None /\ map'[pid].notifier = map[pid].notifier
             /\ Eligible(map[pid])' <=> Eligible(map[pid])
             /\ map'[pid].level = IF Eligible(map[pid]) THEN t.level ELSE map[pid].level
  <2>1. map[pid] # None
    BY <1>2 DEF Collect
  <2>2. map[pid] \in NotifierInfo
    BY <1>0, <2>1
  <2>3. map'[pid] = IF Eligible(map[pid]) THEN [map[pid] EXCEPT !.level = t.level] ELSE map[pid]
    BY <1>0, <2>1 DEF Collect
  <2>4. CASE Eligible(map[pid])
    BY <2>1, <2>2, <2>3, <2>4 DEF Eligible, NotifierInfo
  <2>5. CASE ~Eligible(map[pid])
    BY <2>1, <2>3, <2>5 DEF Eligible
  <2> QED
    BY <2>4, <2>5
<1>3. CallersKnown'
  BY <1>0, <1>2 DEF NoticeInv, CallersKnown
<1>4. ASSUME NEW p \in Procs, ToldLevel(p)'
      PROVE  /\ Registered(p) /\ (p \in Chosen <=> Eligible(map[PidOf[p]]))
             /\ sent'[p] = IF p \in Chosen THEN t.level ELSE sent[p]
  <2>1. Registered(p)
    BY <1>2, <1>4 DEF ToldLevel, Registered
  <2>2. ASSUME p \in Chosen PROVE Eligible(map[PidOf[p]])
    <3>1. PICK pid \in Pids : map[pid] # None /\ Eligible(map[pid]) /\ map[pid].notifier = p
      BY <2>2 DEF Chosen
    <3> QED
      BY <3>1 DEF EntriesReclaimed
  <2>3. ASSUME Eligible(map[PidOf[p]]) PROVE p \in Chosen
    BY <2>1, <2>3 DEF Chosen, Registered
  <2>4. sent'[p] = IF p \in Chosen THEN t.level ELSE sent[p]
    BY <1>0 DEF Collect
  <2> QED
    BY <2>1, <2>2, <2>3, <2>4
<1>5. ASSUME NEW p \in Procs, ToldLevel(p)', p \notin Chosen PROVE ToldLevel(p)
  <2>1. Registered(p) /\ sent'[p] = sent[p]
    BY <1>4, <1>5
  <2> QED
    BY <1>5, <2>1 DEF ToldLevel
<1>6. EntryLevel'
  <2> SUFFICES ASSUME NEW p \in Procs, ToldLevel(p)' PROVE map'[PidOf[p]].level = sent'[p]
    BY DEF EntryLevel
  <2>1. map'[PidOf[p]] # None
    BY DEF ToldLevel, Registered
  <2> QED
    BY <1>2, <1>4, <1>5, <2>1 DEF NoticeInv, NoticeState, EntryLevel
<1> QED
  BY <1>2, <1>3, <1>4, <1>5, <1>6

LEMMA NoticeCollect ==
  ASSUME TypeInv, OverlapInv, ServiceInv, EntriesReclaimed, NoticeInv, NEW c \in Callers, Collect(c)
  PROVE  NoticeInv'
<1> DEFINE t == thread[c]
<1> USE SystemloadAssumption DEF clients, history, service
<1>s. CallerStep(c) /\ InCall(c)
  BY DEF CallerStep, InCall
<1>0. /\ thread \in [Callers -> ThreadState] /\ t \in ThreadState /\ t.pc = "collect"
      /\ UNCHANGED <<proc, call, told, level, queue, crossed, misled>>
  BY DEF TypeInv, TypeOK, Collect, At, overlap
<1>1. /\ CallersKnown' /\ EntryLevel'
      /\ \A pid \in Pids : map'[pid] # None =>
           map[pid] # None /\ (Eligible(map[pid])' <=> Eligible(map[pid]))
      /\ \A p \in Procs : ToldLevel(p)' =>
           /\ Registered(p) /\ (p \in Chosen <=> Eligible(map[PidOf[p]]))
           /\ sent'[p] = IF p \in Chosen THEN thread[c].level ELSE sent[p]
           /\ p \notin Chosen => ToldLevel(p)
  BY CollectEntries
<1>2. CASE crossed = "yes"
  BY <1>0, <1>1, <1>2, <1>s, OverlapCaller, NoticeCrossed
<1>3. CASE crossed # "yes"
  <2>1. t.level = level
    BY <1>0, <1>3, ServiceKnows DEF Busy, FileState, Applying
  <2>2. thread'[c].pc = "submit" /\ thread'[c].array = Chosen
    BY <1>0 DEF Collect, ThreadState
  <2>3. \A d \in Callers \ {c} : thread[d].pc = "idle" /\ thread'[d].pc = "idle"
    BY <1>0, <1>3, <1>s, OthersIdle DEF Busy
  <2>4. \A p : ~InHand(p) /\ (InHand(p)' <=> p \in Chosen)
    BY <1>0, <2>2, <2>3 DEF InHand
  <2>5. crossed = "no" => ~Settled
    BY <1>0 DEF Settled, Moved
  <2>6. SentState'
    <3> SUFFICES ASSUME NEW p \in Procs, ToldLevel(p)', Eligible(map[PidOf[p]])'
                 PROVE  sent'[p] = level'
      BY DEF SentState
    <3>1. map'[PidOf[p]] # None /\ PidOf[p] \in Pids
      BY DEF ToldLevel, Registered
    <3> QED
      BY <1>0, <1>1, <2>1, <3>1
  <2>7. ASSUME NEW p \in Procs, ToldLevel(p)' PROVE HearState(p)'
    <3>1. CASE p \in Chosen
      BY <1>0, <1>1, <2>1, <2>4, <2>7, <3>1 DEF HearState
    <3>2. CASE p \notin Chosen
      <4>1. HearState(p) /\ sent'[p] = sent[p]
        BY <1>1, <2>7, <3>2 DEF NoticeInv, NoticeState, QueueState
      <4>2. p \notin misled /\ proc[p] = "alive" => HearsLast(p, sent[p])
        BY <2>4, <4>1 DEF HearState
      <4>3. HearsLast(p, sent[p]) => HearsLast(p, sent[p])'
        BY <1>0, <4>1 DEF HearsLast, PendingFor
      <4> QED
        BY <1>0, <2>4, <3>2, <4>2, <4>3 DEF HearState
    <3> QED
      BY <3>1, <3>2
  <2> QED
    BY <1>1, <2>6, <2>7 DEF NoticeInv, NoticeState, QueueState
<1> QED
  BY <1>2, <1>3

LEMMA NoticeSubmit ==
  ASSUME TypeInv, OverlapInv, ServiceInv, NoticeInv, NEW c \in Callers, SubmitArray(c)
  PROVE  NoticeInv'
<1> DEFINE t == thread[c]
<1> USE DEF clients, history, service
<1>s. CallerStep(c)
  BY DEF CallerStep
<1>0. /\ t \in ThreadState /\ t.pc = "submit" /\ t.array \in SUBSET Procs /\ level \in Levels
      /\ UNCHANGED <<map, sent, proc, call, told, level>> /\ thread'[c].pc = "idle" /\ End(t.array)
  BY DEF TypeInv, TypeOK, SubmitArray, At, ThreadState, Idle
<1>1. CallersKnown' /\ EntryLevel'
  BY <1>0 DEF NoticeInv, NoticeState, CallersKnown, EntryLevel, ToldLevel, Registered
<1>2. CASE crossed = "yes"
  BY <1>0, <1>1, <1>2, <1>s, OverlapCaller, NoticeCrossed DEF End, overlap
<1>3. CASE crossed # "yes"
  <2>1. t.level = level /\ crossed' = "no" /\ misled' = misled \ t.array
    BY <1>0, <1>3, ServiceKnows DEF Busy, FileState, Applying, End
  <2>2. \A d \in Callers \ {c} : thread[d].pc = "idle" /\ thread'[d].pc = "idle"
    BY <1>s, <2>1, OthersIdle DEF Busy
  <2>3. \A p : (InHand(p) <=> p \in t.array) /\ ~InHand(p)'
    BY <1>0, <2>2 DEF InHand
  <2>4. Settled
    BY <1>0, <1>3, <2>2 DEF Settled, Moved, TypeInv, TypeOK
  <2>5. SentState'
    BY <1>0, <2>4 DEF NoticeInv, NoticeState, SentState, ToldLevel, Registered, Eligible
  <2>6. \/ t.array = {} /\ UNCHANGED queue
        \/ queue' = Append(queue, <<t.array, level>>)
    BY <2>1 DEF SubmitArray, Submit
  <2>7. ASSUME NEW p \in Procs, ToldLevel(p)' PROVE HearState(p)'
    <3>1. ToldLevel(p) /\ HearState(p)
      BY <1>0, <2>7 DEF NoticeInv, NoticeState, QueueState, ToldLevel, Registered
    <3>2. ASSUME p \notin misled', proc[p] = "alive" PROVE HearsLast(p, sent[p])'
      <4>1. CASE p \in t.array
        <5>1. sent[p] = level
          BY <1>3, <2>3, <3>1, <4>1 DEF HearState
        <5>2. queue' = Append(queue, <<t.array, level>>)
          BY <2>6, <4>1
        <5>3. HearsLast(p, level)'
          BY <1>0, <4>1, <5>2, HearsAppended
        <5> QED
          BY <1>0, <5>1, <5>3 DEF HearsLast
      <4>2. CASE p \notin t.array
        <5>1. HearsLast(p, sent[p])
          BY <2>1, <2>3, <3>1, <3>2, <4>2 DEF HearState
        <5>2. \A m : HearsLast(p, m) => HearsLast(p, m)'
          <6>1. CASE UNCHANGED queue
            BY <1>0, <6>1 DEF HearsLast, PendingFor
          <6>2. CASE queue' = Append(queue, <<t.array, level>>)
            BY <1>0, <4>2, <6>2, HearsAppended
          <6> QED
            BY <2>6, <6>1, <6>2
        <5> QED
          BY <1>0, <5>1, <5>2 DEF HearsLast
      <4> QED
        BY <4>1, <4>2
    <3> QED
      BY <1>0, <2>3, <3>2 DEF HearState
  <2> QED
    BY <1>1, <2>5, <2>7 DEF NoticeInv, NoticeState, QueueState
<1> QED
  BY <1>2, <1>3

LEMMA NoticeCaller ==
  ASSUME TypeInv, OverlapInv, ServiceInv, EntriesReclaimed, NoticeInv, NEW c \in Callers,
         CallerStart(c) \/ CallerStep(c)
  PROVE  NoticeInv'
<1> DEFINE t == thread[c]
<1> USE DEF NotifierUnchanged, service, history, clients, overlap
<1>0. thread \in [Callers -> ThreadState] /\ t \in ThreadState
  BY DEF TypeInv, TypeOK
<1>1. CASE Collect(c)
  BY <1>1, NoticeCollect
<1>2. CASE SubmitArray(c)
  BY <1>2, NoticeSubmit
<1>3. CASE SetLevel(c)
  <2>1. /\ t.pc = "set" /\ thread'[c].pc # "submit"
        /\ thread'[c].pc \in Moved \/ UNCHANGED level
    <3>1. CASE t.level \in Levels
      BY <1>0, <1>3, <3>1 DEF SetLevel, At, Goto, ThreadState, Moved
    <3>2. CASE t.level \notin Levels
      BY <1>0, <1>3, <3>2 DEF SetLevel, At, Idle
    <3> QED
      BY <3>1, <3>2
  <2>2. UNCHANGED <<map, sent, told, queue, proc, call, misled>>
    BY <1>3 DEF SetLevel, Refuse
  <2>3. crossed' = "no" => crossed = "no"
    BY <1>3 DEF SetLevel, Refuse
  <2> QED
    BY <2>1, <2>2, <2>3, NoticeMove DEF Moved
<1>4. CASE MatchLevel(c) \/ SaveLevel(c)
  <2>1. t.pc \in Moved /\ thread'[c].pc \in Moved
    BY <1>0, <1>4 DEF MatchLevel, SaveLevel, NextRow, At, Goto, Moved, ThreadState
  <2>2. UNCHANGED <<map, sent, told, queue, proc, call, crossed, misled>>
    BY <1>4 DEF MatchLevel, SaveLevel
  <2> QED
    BY <2>1, <2>2, NoticeMove DEF Moved
<1>5. CASE CallerStart(c)
  <2>1. t.pc = "idle" /\ thread'[c].pc \in {"actual", "dbgLevel", "rstLevel"} /\ Begin
    BY <1>5, StartBusy DEF Busy
  <2>2. UNCHANGED <<map, sent, told, queue, proc, call, level>>
    BY <1>5 DEF CallerStart, DeviceReport, DumpSet, DumpReset
  <2>3. /\ crossed' = "no" => crossed = "no"
        /\ crossed' # "yes" => misled' = misled
    BY <2>1 DEF Begin, OverlapInv
  <2> QED
    BY <2>1, <2>2, <2>3, NoticeMove DEF Moved
<1>6. CASE DumpSetLevel(c) \/ DumpResetLevel(c) \/ DumpResetRead(c)
  <2>1. /\ t.pc \in {"dbgLevel", "rstLevel", "rstRead"}
        /\ thread'[c].pc \in {"check", "rstRead", "actual"}
    BY <1>0, <1>6 DEF DumpSetLevel, DumpResetLevel, DumpResetRead, At, Goto, GotoWith, ThreadState
  <2>2. UNCHANGED <<map, sent, told, queue, proc, call, level, crossed, misled>>
    BY <1>6 DEF DumpSetLevel, DumpResetLevel, DumpResetRead
  <2> QED
    BY <2>1, <2>2, NoticeMove DEF Moved
<1>7. CASE StoreActual(c) \/ CheckDebug(c) \/ Override(c)
  <2>1. /\ t.pc \in {"actual", "check", "override"}
        /\ thread'[c].pc \in {"check", "override", "set"}
    BY <1>0, <1>7 DEF StoreActual, CheckDebug, Override, At, Goto, GotoWith, ThreadState
  <2>2. UNCHANGED <<map, sent, told, queue, proc, call, level, crossed, misled>>
    BY <1>7 DEF StoreActual, CheckDebug, Override
  <2> QED
    BY <2>1, <2>2, NoticeMove DEF Moved
<1> QED
  BY <1>1, <1>2, <1>3, <1>4, <1>5, <1>6, <1>7 DEF CallerStep

LEMMA NoticeStep ==
  ASSUME TypeInv, OverlapInv, ServiceInv, EntriesReclaimed, NoticeInv, [Next]_vars
  PROVE  NoticeInv'
<1> USE DEF service, clients, history, overlap
<1>1. CASE \E d \in Callers : CallerStart(d) \/ CallerStep(d)
  BY <1>1, NoticeCaller
<1>2. CASE \E p \in Procs : ClientStep(p) \/ Handle(p)
  BY <1>2, NoticeClient
<1>3. CASE \E pid \in Pids : OnForeground(pid) \/ OnBackground(pid)
  BY <1>3, NoticeForeground, NoticeBackground
<1>4. CASE Deliver
  <2>1. UNCHANGED <<map, sent, proc, call, level, thread, crossed, misled>>
    BY <1>4 DEF Deliver
  <2>2. CallersKnown' /\ EntryLevel' /\ SentState'
    BY <2>1 DEF NoticeInv, NoticeState, CallersKnown, EntryLevel, SentState, Settled, ToldLevel,
                Registered, Eligible
  <2>3. ASSUME NEW p \in Procs, ToldLevel(p)' PROVE HearState(p)'
    <3>1. HearState(p)
      BY <2>1, <2>3 DEF NoticeInv, NoticeState, QueueState, ToldLevel, Registered
    <3>2. proc[p] = "alive" => \A m : HearsLast(p, m) => HearsLast(p, m)'
      BY <1>4, HearsDelivered
    <3>3. proc[p] = "alive" /\ HearsLast(p, sent[p]) => HearsLast(p, sent[p])'
      BY <2>1, <3>2 DEF HearsLast
    <3> QED
      BY <2>1, <3>1, <3>3 DEF HearState, InHand
  <2> QED
    BY <2>2, <2>3 DEF NoticeInv, NoticeState, QueueState
<1>5. CASE EventReportPeriod \/ UNCHANGED vars
  <2>1. UNCHANGED <<map, sent, told, queue, proc, call, level, thread, crossed, misled>>
    BY <1>5 DEF EventReportPeriod, vars
  <2>2. CallersKnown' /\ NoticeState'
    BY <2>1, NoticeKept DEF NoticeInv, CallersKnown, ToldLevel, Registered
  <2> QED
    BY <2>2 DEF NoticeInv
<1>6. CASE Restart
  <2>1. \A p \in Procs : ~Registered(p)' /\ call'[p] = "none"
    BY <1>6, SystemloadAssumption DEF Restart, Registered, NoEntry
  <2>2. \A pid \in Pids : map'[pid] = None
    BY <1>6 DEF Restart, NoEntry
  <2> QED
    BY <2>1, <2>2 DEF NoticeInv, NoticeState, CallersKnown, EntryLevel, SentState, QueueState,
                      ToldLevel
<1> QED
  BY <1>1, <1>2, <1>3, <1>4, <1>5, <1>6 DEF Next

LEMMA NoticeInit == Init => NoticeInv
<1> SUFFICES ASSUME Init PROVE NoticeInv
  OBVIOUS
<1>1. \A p \in Procs : ~Registered(p)
  BY SystemloadAssumption DEF Init, Registered, NoEntry
<1>2. CallersKnown
  BY DEF Init, CallersKnown, NoEntry
<1> QED
  BY <1>1, <1>2 DEF NoticeInv, NoticeState, EntryLevel, SentState, QueueState, ToldLevel

LEMMA NoticeAlways == Spec => [](TypeInv /\ NoticeInv)
<1>1. Init => NoticeInv
  BY NoticeInit
<1>2. TypeInv /\ OverlapInv /\ ServiceInv /\ EntriesReclaimed /\ NoticeInv /\ [Next]_vars
        => NoticeInv'
  BY NoticeStep
<1> QED
  BY <1>1, <1>2, ServiceAlways, RegistryReclaimed, PTL DEF Spec

(* For any threads that report levels or run hidumper, processes, pids and  *)
(* levels: between the calls, once a call that met no other has ended,      *)
(* every registered process that may be told was chosen the level in force  *)
(* last: the catch-up of OnApplicationStateChange and the array of          *)
(* OnDeviceLevelChangedLock leave nobody behind.                            *)
THEOREM NoticesCurrent == Spec => []SentIsCurrent
<1>1. TypeInv /\ NoticeInv => SentIsCurrent
  <2> SUFFICES ASSUME NoticeInv, Orderly PROVE SentIsCurrent
    BY DEF SentIsCurrent
  <2>1. Settled
    BY DEF Orderly, Quiet, Settled, Moved
  <2> QED
    BY <2>1 DEF NoticeInv, NoticeState, SentState, SentIsCurrent, ToldLevel
<1> QED
  BY <1>1, NoticeAlways, PTL

(* For any such threads: between the calls the serial queue delivers to a   *)
(* live registered process last what was chosen for it last, although the   *)
(* array is submitted outside notifierMutex_; after calls that overlapped,  *)
(* to whom a later call that met no other told a level.                     *)
THEOREM NoticesInOrder == Spec => []DeliveredInOrder
<1>1. TypeInv /\ NoticeInv => DeliveredInOrder
  <2> SUFFICES ASSUME TypeInv, NoticeInv, Quiet, NEW p \in Procs \ misled,
                      Registered(p), proc[p] = "alive", sent[p] # None
               PROVE  HeardLast(p) = sent[p]
    BY DEF DeliveredInOrder
  <2>1. HearState(p) /\ ~InHand(p)
    BY DEF NoticeInv, NoticeState, QueueState, Quiet, ToldLevel, InHand
  <2>2. HearsLast(p, sent[p])
    BY <2>1 DEF HearState
  <2> QED
    BY <2>2, HearsHeard
<1> QED
  BY <1>1, NoticeAlways, PTL
=============================================================================
