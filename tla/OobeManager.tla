---------------------------- MODULE OobeManager ----------------------------
(***************************************************************************)
(* OOBEManager: tasks that wait until the user has agreed to the basic     *)
(* statement of the out-of-box experience.  The agreement is a row of the  *)
(* settings data service; it is read in one step and applied in another by *)
(* four kinds of reader, each on a thread of its own: StartListen, a put   *)
(* off registration (ReRegisterObserver), the observer's OnChange and the  *)
(* delayed CheckOobeValue.                                                 *)
(***************************************************************************)
EXTENDS Integers

CONSTANTS
  OobeTasks,       \* tasks that are submitted
  MAX_RETRY_COUNT, \* 150 in the code
  MaxListens       \* how often the data service is added

ASSUME OobeAssumption == MAX_RETRY_COUNT \in Nat /\ MaxListens \in Nat

Readers == {"listen", "reregister", "change", "check"}
NoRetry == -1
Errors == {"ERR_NO_INIT", "ERR_INVALID_OPERATION", "ERR_OTHER"}

VARIABLES
  agreed,            \* the row of the data service (external)
  oobeValue,         \* oobeValue_
  oobeTasks,         \* oobeTasks_
  ran,               \* history: how often each task was executed
  submitted,         \* history: tasks submitted
  isConnectDataShareSucc,
  isDataShareReady,
  readyCallback,     \* the ready callback: "none", "set" (flag set), "done"
  dataShareFunctions,  \* number of put off registrations
  observer,          \* observer_ is registered with the data service
  changeNotice,      \* the data service has a change to deliver
  retry,             \* count of the delayed CheckOobeValue, or none; the tasks of
                     \* two registrations are one
  reader,            \* where each reader is
  listens,
  excuse             \* history: what may have hidden the agreement

oobeVars == <<agreed, oobeValue, oobeTasks, ran, submitted,
              isConnectDataShareSucc, isDataShareReady, readyCallback,
              dataShareFunctions, observer, changeNotice, retry, reader,
              listens, excuse>>

OobeTypeOK ==
  /\ agreed \in BOOLEAN /\ oobeValue \in {"INVALID", "IS_FALSE", "IS_TRUE"}
  /\ oobeTasks \subseteq submitted /\ submitted \subseteq OobeTasks
  /\ ran \in [OobeTasks -> Nat]
  /\ isConnectDataShareSucc \in BOOLEAN /\ isDataShareReady \in BOOLEAN
  /\ readyCallback \in {"none", "set", "done"}
  /\ dataShareFunctions \in Nat /\ observer \in BOOLEAN /\ changeNotice \in BOOLEAN
  /\ retry \in 0..MAX_RETRY_COUNT \cup {NoRetry}
  /\ reader \in [Readers -> {"idle", "read", "0", "1", "register"} \cup Errors]
  /\ listens \in 0..MaxListens
  /\ excuse \subseteq {"gap", "stale", "error", "retries"}

(* Initialize: the constructor reads the row.                              *)
OobeInit ==
  /\ agreed \in BOOLEAN
  /\ oobeValue \in {"INVALID", IF agreed THEN "IS_TRUE" ELSE "IS_FALSE"}
  /\ isConnectDataShareSucc \in BOOLEAN
  /\ (oobeValue # "INVALID" => isConnectDataShareSucc)
  /\ oobeTasks = {} /\ submitted = {} /\ ran = [t \in OobeTasks |-> 0]
  /\ isDataShareReady = FALSE /\ readyCallback = "none" /\ dataShareFunctions = 0
  /\ observer = FALSE /\ changeNotice = FALSE /\ retry = NoRetry
  /\ reader = [r \in Readers |-> "idle"] /\ listens = 0 /\ excuse = {}

(* GetValue: a query of the data service.                                  *)
GetValue(r) ==
  /\ reader[r] = "read"
  /\ \E result \in Errors \cup {IF agreed THEN "1" ELSE "0"} :
       /\ reader' = [reader EXCEPT ![r] = result]
       /\ isConnectDataShareSucc' = (result # "ERR_NO_INIT")
       /\ excuse' = IF result \in Errors
                        /\ (r \in {"change", "check"} \/ oobeValue # "INVALID")
                      THEN excuse \cup {"error"} ELSE excuse
  /\ UNCHANGED <<agreed, oobeValue, oobeTasks, ran, submitted, isDataShareReady,
                 readyCallback, dataShareFunctions, observer, changeNotice,
                 retry, listens>>

(* What the reader does after FlushOobeValue.                              *)
AfterFlush(r, result) ==
  /\ reader' = [reader EXCEPT ![r] =
                  IF r \in {"listen", "reregister"} THEN "register" ELSE "idle"]
  /\ retry' = IF r = "check"
                THEN IF result = "ERR_INVALID_OPERATION" THEN retry + 1 ELSE NoRetry
                ELSE retry

(* Mutant: the tasks stay in the list.                                     *)
FlushOobeValueKeeps(r) ==
  /\ reader[r] \in {"0", "1"} \cup Errors
  /\ ran' = IF reader[r] = "1"
              THEN [t \in OobeTasks |-> ran[t] + (IF t \in oobeTasks THEN 1 ELSE 0)]
              ELSE ran
  /\ oobeValue' = CASE reader[r] = "1" -> "IS_TRUE" [] reader[r] = "0" -> "IS_FALSE"
                    [] OTHER -> oobeValue
  /\ AfterFlush(r, reader[r])
  /\ UNCHANGED <<agreed, oobeTasks, submitted, isConnectDataShareSucc,
                 isDataShareReady, readyCallback, dataShareFunctions, observer,
                 changeNotice, listens, excuse>>
(* FlushOobeValue after its query: the tasks run under the lock.           *)
FlushOobeValue(r) ==
  /\ reader[r] \in {"0", "1"} \cup Errors
  /\ \/ /\ reader[r] = "1"
        /\ oobeValue' = "IS_TRUE" /\ oobeTasks' = {}
        /\ ran' = [t \in OobeTasks |-> ran[t] + (IF t \in oobeTasks THEN 1 ELSE 0)]
        /\ UNCHANGED excuse
     \/ /\ reader[r] = "0" /\ oobeValue' = "IS_FALSE"
        /\ excuse' = IF agreed THEN excuse \cup {"stale"} ELSE excuse
        /\ UNCHANGED <<oobeTasks, ran>>
     \/ /\ reader[r] \in Errors
        /\ UNCHANGED <<oobeValue, oobeTasks, ran, excuse>>
  /\ AfterFlush(r, reader[r])
  /\ UNCHANGED <<agreed, submitted, isConnectDataShareSucc, isDataShareReady,
                 readyCallback, dataShareFunctions, observer, changeNotice, listens>>

(* Mutant: the ready flag is not looked at, so that a registration is put  *)
(* off although the callback is over.                                      *)
RegisterObserverUnready(r) ==
  /\ reader[r] = "register" /\ ~isConnectDataShareSucc /\ oobeValue # "IS_TRUE"
  /\ reader' = [reader EXCEPT ![r] = "idle"]
  /\ dataShareFunctions' = dataShareFunctions + 1
  /\ UNCHANGED <<agreed, oobeValue, oobeTasks, ran, submitted, excuse, listens,
                 isConnectDataShareSucc, isDataShareReady, readyCallback,
                 observer, changeNotice, retry>>
(* The rest of StartListen and of ReRegisterObserver.                      *)
RegisterObserver(r) ==
  /\ reader[r] = "register" /\ reader' = [reader EXCEPT ![r] = "idle"]
  /\ \/ /\ oobeValue = "IS_TRUE"
        /\ UNCHANGED <<isConnectDataShareSucc, dataShareFunctions, observer, retry>>
     \/ /\ oobeValue # "IS_TRUE" /\ ~isConnectDataShareSucc
        /\ dataShareFunctions' = dataShareFunctions
                                 + (IF isDataShareReady THEN 0 ELSE 1)
        /\ UNCHANGED <<isConnectDataShareSucc, observer, retry>>
     \/ /\ oobeValue # "IS_TRUE" /\ isConnectDataShareSucc
        /\ \E helper \in BOOLEAN :   \* CreateDataShareHelper
             /\ isConnectDataShareSucc' = helper
             /\ observer' = (helper \/ observer)
             /\ retry' = IF helper THEN 0 ELSE retry
        /\ UNCHANGED dataShareFunctions
  /\ UNCHANGED <<agreed, oobeValue, oobeTasks, ran, submitted, isDataShareReady,
                 readyCallback, changeNotice, listens, excuse>>

(* InitDataShareObserver: the data service was added.                      *)
StartListen ==
  /\ listens < MaxListens /\ listens' = listens + 1
  /\ reader["listen"] = "idle" /\ reader' = [reader EXCEPT !["listen"] = "read"]
  /\ UNCHANGED <<agreed, oobeValue, oobeTasks, ran, submitted, excuse,
                 isConnectDataShareSucc, isDataShareReady, readyCallback,
                 dataShareFunctions, observer, changeNotice, retry>>

(* DisableDataShareObserver.                                               *)
UnregisterObserver ==
  /\ listens > 0 /\ reader["listen"] = "idle"
  /\ \E helper \in BOOLEAN :
       /\ isConnectDataShareSucc' = helper
       /\ observer' = (observer /\ ~helper)
       /\ changeNotice' = (changeNotice /\ observer')
       /\ excuse' = IF changeNotice /\ helper THEN excuse \cup {"gap"} ELSE excuse
  /\ UNCHANGED <<agreed, oobeValue, oobeTasks, ran, submitted, isDataShareReady,
                 readyCallback, dataShareFunctions, retry, reader, listens>>

OnReceiveDataShareReadyCallBack ==
  /\ readyCallback = "none" /\ readyCallback' = "set" /\ isDataShareReady' = TRUE
  /\ UNCHANGED <<agreed, oobeValue, oobeTasks, ran, submitted, excuse, listens,
                 isConnectDataShareSucc, dataShareFunctions, observer,
                 changeNotice, retry, reader>>
(* The put off registrations read the row again, one after the other; one  *)
(* reader stands for them.                                                 *)
ExecuteDataShareFunction ==
  /\ readyCallback = "set" /\ readyCallback' = "done"
  /\ dataShareFunctions' = 0
  /\ reader' = IF dataShareFunctions > 0
                 THEN [reader EXCEPT !["reregister"] = "read"] ELSE reader
  /\ UNCHANGED <<agreed, oobeValue, oobeTasks, ran, submitted, excuse, listens,
                 isConnectDataShareSucc, isDataShareReady, observer,
                 changeNotice, retry>>

OnChange ==
  /\ changeNotice /\ changeNotice' = FALSE
  /\ reader["change"] = "idle" /\ reader' = [reader EXCEPT !["change"] = "read"]
  /\ UNCHANGED <<agreed, oobeValue, oobeTasks, ran, submitted, excuse, listens,
                 isConnectDataShareSucc, isDataShareReady, readyCallback,
                 dataShareFunctions, observer, retry>>

(* The delayed check: it reads only while no value was read yet.           *)
CheckOobeValue ==
  /\ retry # NoRetry /\ reader["check"] = "idle"
  /\ IF oobeValue = "INVALID" /\ retry < MAX_RETRY_COUNT
       THEN reader' = [reader EXCEPT !["check"] = "read"]
            /\ UNCHANGED <<retry, excuse>>
       ELSE retry' = NoRetry /\ UNCHANGED reader
            /\ excuse' = IF oobeValue = "INVALID" THEN excuse \cup {"retries"}
                         ELSE excuse
  /\ UNCHANGED <<agreed, oobeValue, oobeTasks, ran, submitted, listens,
                 isConnectDataShareSucc, isDataShareReady, readyCallback,
                 dataShareFunctions, observer, changeNotice>>

SubmitTask(t) ==
  /\ t \notin submitted /\ submitted' = submitted \cup {t}
  /\ IF oobeValue = "IS_TRUE"
       THEN ran' = [ran EXCEPT ![t] = @ + 1] /\ UNCHANGED oobeTasks
       ELSE oobeTasks' = oobeTasks \cup {t} /\ UNCHANGED ran
  /\ UNCHANGED <<agreed, oobeValue, excuse, listens, isConnectDataShareSucc,
                 isDataShareReady, readyCallback, dataShareFunctions, observer,
                 changeNotice, retry, reader>>

(* The user agrees (external); a registered observer is told.              *)
UserAgrees ==
  /\ ~agreed /\ agreed' = TRUE
  /\ changeNotice' = observer
  /\ excuse' = IF ~observer /\ (\E r \in Readers : reader[r] \notin {"idle", "read"})
                   /\ (oobeValue # "INVALID" \/ \E r \in Readers : reader[r] = "0")
                 THEN excuse \cup {"gap"} ELSE excuse
  /\ UNCHANGED <<oobeValue, oobeTasks, ran, submitted, listens,
                 isConnectDataShareSucc, isDataShareReady, readyCallback,
                 dataShareFunctions, observer, retry, reader>>

OobeNext ==
  \/ \E r \in Readers : GetValue(r) \/ FlushOobeValue(r)
  \/ \E r \in {"listen", "reregister"} : RegisterObserver(r)
  \/ StartListen \/ UnregisterObserver \/ OnReceiveDataShareReadyCallBack
  \/ ExecuteDataShareFunction \/ OnChange \/ CheckOobeValue
  \/ \E t \in OobeTasks : SubmitTask(t)
  \/ UserAgrees

-----------------------------------------------------------------------------
(* A task runs at most once and never before the user agreed.  Once the    *)
(* agreement is known or its observer registered and nothing is under way, *)
(* every task has run, unless one of four things hid the agreement: it     *)
(* came after a read and before the registration, an older read was        *)
(* applied after it, a read failed that is not retried, or the retries ran *)
(* out.                                                                    *)
OobeTasksRun ==
  /\ \A t \in OobeTasks : ran[t] <= 1 /\ (ran[t] = 1 => agreed)
  /\ agreed /\ (observer \/ oobeValue = "IS_TRUE") /\ ~changeNotice /\ excuse = {}
       /\ retry = NoRetry /\ (\A r \in Readers : reader[r] = "idle")
       => \A t \in submitted : ran[t] = 1

(* A registration that was put off because the data service was not ready  *)
(* is not forgotten: it waits only while the ready callback is to come     *)
(* (RegisterObserver tests the flag before it puts itself off).            *)
OobeNotForgotten == dataShareFunctions > 0 => readyCallback # "done"
============================================================================
