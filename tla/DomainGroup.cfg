CONSTANTS
  u = u
  v = v
  w = w
  A = A
  B = B
  Urls = {u, v, w}
  Domains = {A, B}
  Requests <- MCRequests
  NoRequest = NoRequest
  NoDomain = NoDomain
  Enqueuers = {e1, t1}
  Takers = {e1, t1}
  Clearers = {e1}
  NoCaller = NoCaller
  Allowed = {A, B}
  Strategy = "Priority"
  RespectDepth = FALSE
  MaxDepth <- MCNone
  Limit = 1
  Delay = 1
SPECIFICATION Spec
INVARIANTS TypeOK NoUrlLost DomainsListed OverrunBounded HoldersMove
PROPERTIES HighestFirst
