\* The parts that share no state, one after the other.
SPECIFICATION PartsSpec
VIEW PartView
CHECK_DEADLOCK FALSE
CONSTANTS
  g1 = g1  g2 = g2  other = other  s1 = s1  s2 = s2
  Uids = {g1, other, g2}
  AppTypeOf <- FocusTypes
  NoType = NoType
  KeyTypes = {"OTHER"}
  KeyNames = {g1}
  MoveApps = {}
  CameraApps = {}
  CustGames = {g1, other}
  MaxScenes = 2
  MaxLost = 1
  Levels = {5, 10, 15, 40}
  Thresholds = {10, 20}
  MaxDeaths = 1
  MaxRefused = 1
  OobeTasks = {t1}
  MAX_RETRY_COUNT = 1
  MaxListens = 2
  Sessions = {s1, s2}
  PidOf <- AudioPidOf
  Volumes = {v1}
  Pids = {p1, p2}
  InvalidPids = {p2}
  MaxManagerDeaths = 1
  StartApps = {p1, p2}
  MAX_CONTINUOUS_START_NUM = 3
  MAX_NO_REPEAT_APP_COUNT = 2
  MaxTasks = 2
  Callers = {p1, p2}
  SINGLE_UID_REQUEST_LIMIT_COUNT = 2
  ALL_UID_REQUEST_LIMIT_COUNT = 3
  LIMIT_REQUEST_TIME = 2
  FOUR_HOUR_TIME = 3
  ONE_DAY_TIME_MILLS = 3
  MaxTime = 4
  MaxCounted = 1
  BinderThreads = {b1}
  SyncPlugins = {p1, p2}
  Granted = {"native", "listed_native"}
  CACHE_CAPACITY = 2
  FragmentCounts = {1, 3}
  ExeSenders = {s1, s2}
  StartSender = s1
  MaxExeDeaths = 1
  MaxRssDeaths = 1
  NodeIds = {1, 2, 3}
  AskedValues = {6, 9}
  ConfigFiles <- SocConfigs
  ConfigItems <- CfgItems
  ConfigStrings <- CfgStrings
  SwitchStrings <- SwStrings
  SocPerfLib = "soc"
  LibStates <- SwLibs
  MAX_INSTANCE_COUNT = 1
  MaxQueued = 2
  TaskPids = {n, a, b, s}
  NoPid = n
  SystemVersions = {v1, v2}
  MaxExits = 2
  MaxBoots = 3
  Identities = {i1, i2}
  NoIdentity = none
  Watched <- WatchedEvents
  MaxSubs = 2
  MaxCesDeaths = 1
  MaxInbox = 1
  MaxCallbacks = 2
  CgProcs = {p1, p2}
  CgReporters = {p1}
  MaxPosted = 2
  SuspendClients = {p1, p2}
  MaxSuspendDeaths = 1
  JsFunctions = {f1}
  MaxLoadLevel = 2
  MaxLoadChanges = 3
  MaxJsListeners = 3
  KillKinds = {k1}
  KillThreads = {t1, t2}
  MAX_CACHE_REASON_COUNT = 1
  MaxKillConfigs = 2
  MaxKills = 2
INVARIANTS
  PartsTypeOK
  SocPerfRight
  ObserversRight
  CommonEventsRight
  AudioReportsRight
  OobeRight
  ProcessesKnown
  LimitsRight
  CallsRight
  ExecutorHasPlugins
  NodeWritesDefined
  ConfigRight
  RecognizedRight
  FrameAwareRight
