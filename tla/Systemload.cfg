\* Two caller threads, crashes included.
SPECIFICATION Spec
CONSTANTS
  None = None
  Calls = {"register"}
  Procs = {a1}
  Pids <- MCPids
  PidOf <- MCPidOf
  HapProcs = {a1}
  Mortal = {}
  Named = {}
  Devices = {c1}
  Dumpers = {c2}
  MaxLevel = 1
  MaxReport = 1
  QueueBound = 2
INVARIANTS TypeOK SentIsCurrent DeliveredInOrder FileIsLevel OverrideRespected
