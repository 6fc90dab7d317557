SPECIFICATION FairSpec
CONSTANTS
  a = a
  b = b
  t = t
  v = v
  Plugins = {a, b}
  Types = {t}
  Values = {v}
  Wants <- ReachWants
  Ext <- ReachExt
  Quitters = {b}
  Reporters = {r1}
  Window = 2
  Wrap = 8
  MayStop = FALSE
  MaxReports = 4
  MaxTime = 0
  None = None
CHECK_DEADLOCK FALSE
PROPERTIES ReportReaches
