---------------------------- MODULE RequestLimit ----------------------------
(***************************************************************************)
(* ResSchedService::RemoteRequestCheck, which every request passes first:  *)
(* the limit on the requests of one uid and of all uids in a window, and   *)
(* the statistics of what it and the permission check refuse.  mutex_      *)
(* makes the limit atomic.  The statistics are atomics of their own that   *)
(* two binder threads may interleave; here a request takes one step.       *)
(***************************************************************************)
EXTENDS Naturals, FiniteSets, Functions

CONSTANTS
  Callers,                         \* uids that call
  SINGLE_UID_REQUEST_LIMIT_COUNT, ALL_UID_REQUEST_LIMIT_COUNT,
  LIMIT_REQUEST_TIME,              \* length of a window, in ticks
  FOUR_HOUR_TIME,                  \* delay of the limit statistics, in ticks
  ONE_DAY_TIME_MILLS,              \* period of the refusal statistics
  MaxTime,                         \* bound: ticks
  MaxCounted                       \* bound: refusals counted, of each kind

ASSUME RequestsAssumption ==
  /\ IsFiniteSet(Callers)
  /\ SINGLE_UID_REQUEST_LIMIT_COUNT \in Nat \ {0}
  /\ ALL_UID_REQUEST_LIMIT_COUNT \in Nat \ {0}
  /\ LIMIT_REQUEST_TIME \in Nat \ {0} /\ FOUR_HOUR_TIME \in Nat \ {0}
  /\ ONE_DAY_TIME_MILLS \in Nat \ {0} /\ MaxTime \in Nat
  /\ MaxCounted \in Nat

VARIABLES
  clock,                  \* GetNowMillTime, in ticks
  appRequestCount, allRequestCount, nextCheckTime,  \* of the window
  isPrintLimitLog,
  isReportBigData, bigDataReportCount, nextReportBigDataTime,
  errLogCount,            \* errLogRecordMap_, one type
  lastEventReportTime,
  acceptedAt              \* history: accepted requests by tick and uid

limitVars == <<clock, appRequestCount, allRequestCount, nextCheckTime,
               isPrintLimitLog, isReportBigData, bigDataReportCount,
               nextReportBigDataTime, errLogCount, lastEventReportTime, acceptedAt>>

LimitTypeOK ==
  /\ clock \in 0..MaxTime /\ allRequestCount \in 0..ALL_UID_REQUEST_LIMIT_COUNT
  /\ appRequestCount \in [Callers -> 0..SINGLE_UID_REQUEST_LIMIT_COUNT]
  /\ nextCheckTime \in Nat /\ nextReportBigDataTime \in Nat
  /\ isPrintLimitLog \in BOOLEAN /\ isReportBigData \in BOOLEAN
  /\ bigDataReportCount \in Nat /\ errLogCount \in Nat
  /\ lastEventReportTime \in Nat
  /\ acceptedAt \in [0..MaxTime -> [Callers -> Nat]]

LimitInit ==
  /\ clock = 0 /\ appRequestCount = [u \in Callers |-> 0] /\ allRequestCount = 0
  /\ nextCheckTime = 0 /\ isPrintLimitLog = TRUE /\ isReportBigData = FALSE
  /\ bigDataReportCount = 0 /\ nextReportBigDataTime = 0
  /\ errLogCount = 0 /\ lastEventReportTime = 0
  /\ acceptedAt = [t \in 0..MaxTime |-> [u \in Callers |-> 0]]

-----------------------------------------------------------------------------
(* ReportBigData: due statistics are written and cleared.                  *)
BigDataDue == isReportBigData /\ clock >= nextReportBigDataTime

(* Mutant: the next window begins at once.                                 *)
CheckAndUpdateLimitDataAtOnce ==
  [all  |-> IF clock >= nextCheckTime THEN 0 ELSE allRequestCount,
   app  |-> IF clock >= nextCheckTime THEN [u \in Callers |-> 0] ELSE appRequestCount,
   next |-> IF clock >= nextCheckTime THEN clock ELSE nextCheckTime]
(* CheckAndUpdateLimitData: the first request past a window opens the next. *)
CheckAndUpdateLimitData ==
  [all  |-> IF clock >= nextCheckTime THEN 0 ELSE allRequestCount,
   app  |-> IF clock >= nextCheckTime THEN [u \in Callers |-> 0] ELSE appRequestCount,
   next |-> IF clock >= nextCheckTime THEN clock + LIMIT_REQUEST_TIME ELSE nextCheckTime]

(* Mutant: the limits are off by one.                                      *)
IsLimitRequestOver(u) ==
  LET window == CheckAndUpdateLimitData
  IN  \/ window.all > ALL_UID_REQUEST_LIMIT_COUNT
      \/ window.app[u] > SINGLE_UID_REQUEST_LIMIT_COUNT

IsLimitRequest(u) ==
  LET window == CheckAndUpdateLimitData
  IN  \/ window.all >= ALL_UID_REQUEST_LIMIT_COUNT
      \/ window.app[u] >= SINGLE_UID_REQUEST_LIMIT_COUNT

(* PrintLimitLog: once per window.                                         *)
PrintLimitLog(limited) == isPrintLimitLog' =
  IF limited THEN FALSE ELSE (clock >= nextCheckTime \/ isPrintLimitLog)

(* InreaseBigDataCount: the first refusal starts the delay.                *)
InreaseBigDataCount ==
  /\ isReportBigData' = TRUE
  /\ bigDataReportCount' = (IF BigDataDue THEN 0 ELSE bigDataReportCount) + 1
  /\ nextReportBigDataTime' =
       IF isReportBigData /\ ~BigDataDue THEN nextReportBigDataTime
       ELSE clock + FOUR_HOUR_TIME
ReportBigData ==
  /\ isReportBigData' = (isReportBigData /\ ~BigDataDue)
  /\ bigDataReportCount' = (IF BigDataDue THEN 0 ELSE bigDataReportCount)
  /\ UNCHANGED nextReportBigDataTime

RemoteRequestCheck(u) ==
  LET limited == IsLimitRequest(u)
      window == CheckAndUpdateLimitData
      one == IF limited THEN 0 ELSE 1
  IN  /\ nextCheckTime' = window.next
      /\ allRequestCount' = window.all + one
      /\ appRequestCount' = [window.app EXCEPT ![u] = @ + one]
      /\ acceptedAt' = [acceptedAt EXCEPT ![clock][u] = @ + one]
      /\ IF limited THEN InreaseBigDataCount ELSE ReportBigData
      /\ PrintLimitLog(limited)

(* The check of the permission of an accepted request, when it refuses:    *)
(* the refusals of a type are counted and, once a day, written.            *)
ReportPermissionErrorEvent ==
  IF clock < lastEventReportTime + ONE_DAY_TIME_MILLS
    THEN errLogCount' = errLogCount + 1 /\ UNCHANGED lastEventReportTime
    ELSE errLogCount' = 0 /\ lastEventReportTime' = clock
CheckReportDataParcel(permitted) ==
  IF permitted THEN UNCHANGED <<errLogCount, lastEventReportTime>>
               ELSE ReportPermissionErrorEvent

Request(u, permitted) ==
  /\ bigDataReportCount <= MaxCounted /\ errLogCount <= MaxCounted
  /\ RemoteRequestCheck(u)
  /\ IF IsLimitRequest(u) THEN UNCHANGED <<errLogCount, lastEventReportTime>>
                          ELSE CheckReportDataParcel(permitted)
  /\ UNCHANGED clock

ClockTicks ==
  /\ clock < MaxTime /\ clock' = clock + 1
  /\ UNCHANGED <<appRequestCount, allRequestCount, nextCheckTime, isPrintLimitLog,
                 isReportBigData, bigDataReportCount, nextReportBigDataTime,
                 errLogCount, lastEventReportTime, acceptedAt>>

LimitNext ==
  \/ ClockTicks
  \/ \E u \in Callers, permitted \in BOOLEAN : Request(u, permitted)

-----------------------------------------------------------------------------
AcceptedLately(u) ==
  SumFunction([t \in {i \in 0..clock : i + LIMIT_REQUEST_TIME > clock} |-> acceptedAt[t][u]])
(* The windows of the limit are not aligned with the callers' bursts; yet  *)
(* in every span as long as a window, whenever it ends, one uid passes at  *)
(* most twice its limit and all uids together at most twice theirs.        *)
LimitHolds ==
  /\ \A u \in Callers : AcceptedLately(u) <= 2 * SINGLE_UID_REQUEST_LIMIT_COUNT
  /\ SumFunction([u \in Callers |-> AcceptedLately(u)]) <= 2 * ALL_UID_REQUEST_LIMIT_COUNT
=============================================================================
