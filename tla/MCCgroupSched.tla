--------------------------- MODULE MCCgroupSched ---------------------------
(* CgroupSched for TLC.  Processes of application 1: a main process m with a  *)
(* page and a service ability and a window, and a second main process n (an  *)
(* extension) with an ability or a render process r and a child process c,   *)
(* both attached to m.                                                       *)
EXTENDS CgroupSched

CONSTANTS m, n, r, c, page, service, ext, win

MCUids == {1}
MCUidOf == [p \in Pids |-> 1]
MCTypeOf == [p \in Pids |-> CASE p = m -> "NORMAL" [] p = n -> "EXTENSION"
                              [] p = r -> "RENDER" [] p = c -> "CHILD"]
MCHostOf == [p \in Pids |-> IF p \in {r, c} THEN m ELSE None]
MCOwnerOf == [x \in Abilities \cup Windows |-> IF x = ext THEN n ELSE m]
=============================================================================
