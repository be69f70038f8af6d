CONSTANTS
  u = u
  v = v
  w = w
  A = A
  B = B
  Urls = {u, v, w}
  Domains = {A, B}
  Requests <- MCFewRequests
  NoRequest = NoRequest
  NoDomain = NoDomain
  Enqueuers = {e1}
  Takers = {t1, t2}
  Clearers = {e1}
  NoCaller = NoCaller
  Allowed = {A, B}
  Strategy = "Priority"
  RespectDepth = FALSE
  MaxDepth <- MCNone
  Limit = 2
  Delay = 1
SPECIFICATION FairSpec
PROPERTIES ImplementsFrontier NextReturns PacesEachTaker
