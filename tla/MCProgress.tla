----------------------------- MODULE MCProgress -----------------------------
(***************************************************************************)
(* The two parts with something that must happen in the end: the screen    *)
(* requests of SocPerfPlugin and the link of a client to the service.      *)
(* They share no state: part is chosen at the start, that part takes its   *)
(* steps and the other stays as it starts.                                 *)
(***************************************************************************)
EXTENDS SocPerfScreen, ClientLink

VARIABLE part

progressVars == <<part, ssVars, linkVars>>

ScreenAlone == part = "screen" /\ UNCHANGED <<part, linkVars>>
LinkAlone == part = "link" /\ UNCHANGED <<part, ssVars>>

(* Only the part that runs chooses how it starts.                          *)
ProgressInit ==
  \/ part = "screen" /\ serviceUp = TRUE /\ ScreenInit /\ LinkInit
  \/ part = "link" /\ ssFfrt = TRUE /\ ScreenInit /\ LinkInit

ProgressNext ==
  \/ ScreenAlone /\ ScreenNext
  \/ LinkAlone /\ LinkNext

(* The dispatcher handles what was reported and ffrt runs its tasks; the   *)
(* ability manager starts the service again and delivers its notices, and  *)
(* the client's callbacks run.                                             *)
ProgressFairness ==
  /\ WF_progressVars(ScreenAlone /\ HandleScreenStatusAnalysis)
  /\ WF_progressVars(ScreenAlone /\ ScreenOffTask)
  /\ WF_progressVars(ScreenAlone /\ WakeUpTimeOut)
  /\ WF_progressVars(ScreenAlone /\ HandleWakeUpTimeOut)
  /\ WF_progressVars(LinkAlone /\ ServiceStarts)
  /\ WF_progressVars(LinkAlone /\ OnAddSystemAbilityConnects)
  /\ WF_progressVars(LinkAlone /\ RecoverEventListener)
  /\ WF_progressVars(LinkAlone /\ StopRemoteObject)

ProgressSpec == ProgressInit /\ [][ProgressNext]_progressVars /\ ProgressFairness

(* The type invariants of the two parts.                                   *)
ProgressTypeOK == part \in {"screen", "link"} /\ ScreenTypeOK /\ LinkTypeOK
=============================================================================
