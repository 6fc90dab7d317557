\* An application registered while the level is not LOW.
SPECIFICATION FgSpec
CONSTANTS
  None = None
  Calls = {"register", "unregister"}
  Procs = {a1}
  Pids <- MCPids
  PidOf <- MCPidOf
  HapProcs = {a1}
  Mortal = {a1}
  Named = {a1}
  Devices = {c1}
  Dumpers = {c1}
  MaxLevel = 1
  MaxReport = 1
  QueueBound = 2
PROPERTIES ForegroundCatchesUp
