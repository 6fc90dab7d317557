\* A host with a render process, and failing writes of the host.
SPECIFICATION Spec
CONSTANTS
  None = None
  m = m
  n = n
  r = r
  c = c
  page = page
  service = service
  ext = ext
  win = win
  Pids = {m, r}
  Uids <- MCUids
  UidOf <- MCUidOf
  TypeOf <- MCTypeOf
  HostOf <- MCHostOf
  OwnerOf <- MCOwnerOf
  Abilities = {}
  ServiceIds = {}
  Windows = {}
  WebPids = {}
  MayFail = {m}
INVARIANTS FocusedIsTracked RenderFollowsHost
