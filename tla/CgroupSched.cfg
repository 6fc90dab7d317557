\* Two main processes of one application, every ability and window event.
SPECIFICATION Spec
CONSTANTS
  None = None
  m = m
  n = n
  r = r
  c = c
  page = page
  service = service
  ext = ext
  win = win
  Pids = {m, n}
  Uids <- MCUids
  UidOf <- MCUidOf
  TypeOf <- MCTypeOf
  HostOf <- MCHostOf
  OwnerOf <- MCOwnerOf
  Abilities = {page, service, ext}
  ServiceIds = {service, ext}
  Windows = {win}
  WebPids = {n}
  MayFail = {}
INVARIANTS TypeOK TopAppIsFocused GroupIsCurrent SubWinTaskIsTimed
