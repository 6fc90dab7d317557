\* The registry alone: calls, deaths, takeover of a pid, crashes.
SPECIFICATION FairSpec
CONSTANTS
  None = None
  Calls = {"register", "unregister"}
  Procs = {a1, a2, n1}
  Pids <- MCPids
  PidOf <- MCPidOf
  HapProcs = {a1, a2}
  Mortal = {a1, a2, n1}
  Named = {a1, a2, n1}
  Devices = {}
  Dumpers = {}
  MaxLevel = 1
  MaxReport = 2
  QueueBound = 1
INVARIANTS EntriesReclaimed OneReportChain
PROPERTIES DeadForgotten
