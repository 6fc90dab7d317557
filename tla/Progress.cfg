\* What must happen in the end: screen requests, recovery of listeners.
SPECIFICATION ProgressSpec
CHECK_DEADLOCK FALSE
CONSTANTS
  DeviceModes = {"FULL", "MAIN", "GLOBAL_FULL", "OTHER"}
  Orientations = {"LANDSCAPE", "PORTRAIT"}
  MaxDelayed = 1
  EventTypes = {e1}
  ListenerGroups = {l1, l2}
  LinkListeners = {a}
  MaxServiceDeaths = 1
  MaxClientDeaths = 1
INVARIANTS ProgressTypeOK ScreenRequestsAgree
PROPERTIES ScreenOffApplied RegistryKept ListenersRecover
