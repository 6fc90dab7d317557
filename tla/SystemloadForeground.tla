------------------------- MODULE SystemloadForeground -------------------------
(***************************************************************************)
(* Systemload with a history variable: the level that was in force when    *)
(* the application registered under a pid went to the background.          *)
(***************************************************************************)
EXTENDS Systemload

VARIABLE bgLevel  \* [Pids -> Levels or None]

FgInit == Init /\ bgLevel = [pid \in Pids |-> None]

Remember(pid) ==
  CASE map'[pid] = None                                -> None
    [] map[pid] # None /\ map[pid].foreground /\ ~map'[pid].foreground -> level
    [] map'[pid].foreground                            -> None
    [] OTHER                                           -> bgLevel[pid]

FgNext == Next /\ bgLevel' = [pid \in Pids |-> Remember(pid)]

FgSpec == FgInit /\ [][FgNext]_<<vars, bgLevel>>

(* An application that left the foreground at one level and returns at       *)
(* another, while no report is being handled, is sent the new one: what      *)
(* TestNotifierSystemloadListener006 shows for an application registered at  *)
(* level LOW.  OnApplicationStateChange compares with NotifierInfo::level,   *)
(* which RegisterNotifier leaves at LOW whatever the level in force.         *)
ForegroundCatchesUp ==
  [][\A pid \in Pids :
       (OnForeground(pid) /\ Quiet /\ bgLevel[pid] \notin {None, level})
          => queue' # queue]_<<vars, bgLevel>>
=============================================================================
