------------------------ MODULE MCSystemloadForeground ------------------------
(* SystemloadForeground for TLC: one application.                            *)
EXTENDS SystemloadForeground

MCPids == {1}
MCPidOf == [p \in Procs |-> 1]
=============================================================================
