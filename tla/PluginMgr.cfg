SPECIFICATION Spec
CONSTANTS
  a = a
  b = b
  t = t
  v = v
  Plugins = {a, b}
  Types = {t}
  Values = {v}
  Wants <- MCWants
  Ext <- MCExt
  Quitters = {}
  Reporters = {r1}
  Window = 1
  Wrap = 2
  MayStop = TRUE
  MaxReports = 4
  MaxTime = 2
  None = None
CHECK_DEADLOCK FALSE
INVARIANTS TypeOK BannedIsOff BanIsBurst RepairRestores
PROPERTIES CalledInOrder StopIsQuiet
