---------------------------- MODULE MCSystemload ----------------------------
(* Systemload for TLC.  The application processes all have pid 1, one after  *)
(* the other; a native process has pid 2.                                    *)
EXTENDS Systemload

MCPids == 1..2
MCPidOf == [p \in Procs |-> IF p \in HapProcs THEN 1 ELSE 2]
=============================================================================
