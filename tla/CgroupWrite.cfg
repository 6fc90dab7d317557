\* A process whose group may not be written.
SPECIFICATION Spec
CONSTANTS
  None = None
  m = m
  n = n
  r = r
  c = c
  page = page
  service = service
  ext = ext
  win = win
  Pids = {m}
  Uids <- MCUids
  UidOf <- MCUidOf
  TypeOf <- MCTypeOf
  HostOf <- MCHostOf
  OwnerOf <- MCOwnerOf
  Abilities = {}
  ServiceIds = {}
  Windows = {}
  WebPids = {}
  MayFail = {m}
PROPERTIES CurOnlyAfterWrite
