-------------------------- MODULE ListenerRegistry --------------------------
(***************************************************************************)
(* What a process may expect of the event listeners it registers: the      *)
(* service sends the process only events it still listens to.  A           *)
(* registration may be served at once or later, and service may be lost,   *)
(* but an event the process stopped listening to is never served again.    *)
(***************************************************************************)
CONSTANT RegistryKeys   \* what can be listened to

VARIABLES want, serve   \* keys the process listens to, keys it is served

RegistryInit == want = {} /\ serve = {}

Add(k) ==
  /\ want' = want \cup {k}
  /\ serve' \in {serve, serve \cup {k}}
Remove(k) ==
  /\ k \in want
  /\ want' = want \ {k} /\ serve' = serve \ {k}
Restore ==
  /\ serve' \in SUBSET want /\ serve \subseteq serve' /\ UNCHANGED want
Lose ==
  /\ serve' \in SUBSET serve /\ UNCHANGED want
(* The process ends, and what it wanted with it.                           *)
End == want' = {} /\ serve' = {}

RegistryNext ==
  \/ \E k \in RegistryKeys : Add(k) \/ Remove(k)
  \/ Restore \/ Lose \/ End

RegistrySpec == RegistryInit /\ [][RegistryNext]_<<want, serve>>
=============================================================================
