CONSTANTS
  a = a
  b = b
  c = c
  example = example
  other = other
  Urls = {a, b, c}
  Requests <- MCRequests
  NoRequest = NoRequest
  NoCaller = NoCaller
  Discipline = "lifo"
  MaxDepth = 1
  Tasks = {t1, t2}
  Main = Main
  ConcurrentRequests = 2
  ConcurrentItems = 1
  StartRequests <- MCStart
  Links <- MCLinks
  Items <- MCItems
  Domains = {example, other}
  DomainOf <- MCDomain
  Faults = {}
  ErrorActions = {}
  MaxSignals = 2
SPECIFICATION Spec
INVARIANTS ItemsAccounted SlotsSupplied OnlyAPauseBlocks
CHECK_DEADLOCK FALSE
