CONSTANTS
  u = u
  v = v
  w = w
  A = A
  B = B
  Urls = {u, v, w}
  Domains = {A, B}
  Requests <- MCRequests
  NoRequest = NoRequest
  NoDomain = NoDomain
  Enqueuers = {e1}
  Takers = {t1}
  Clearers = {}
  NoCaller = NoCaller
  Allowed = {A, B}
  Strategy = "Priority"
  RespectDepth = FALSE
  MaxDepth <- MCNone
  Limit <- MCNone
  Delay = 0
SPECIFICATION Spec
INVARIANTS NoLockCycle
