CONSTANTS
  a = a
  b = b
  Urls = {a, b}
  Requests <- MCPriorities
  NoRequest = NoRequest
  Enqueuers = {e1, e2}
  Takers = {t1}
  Clearers = {e2}
  NoCaller = NoCaller
  Discipline = "priority"
  MaxDepth <- MCNoLimit
SPECIFICATION Spec
INVARIANTS NoUrlLost
