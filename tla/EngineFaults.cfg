CONSTANTS
  a = a
  b = b
  c = c
  example = example
  other = other
  Urls = {a, b, c}
  Requests <- MCRequests
  NoRequest = NoRequest
  NoCaller = NoCaller
  Discipline = "fifo"
  MaxDepth = 1
  Tasks = {t1, t2}
  Main = Main
  ConcurrentRequests = 2
  ConcurrentItems = 1
  StartRequests <- MCStart
  Links <- MCLinks
  Items <- MCItems
  Domains = {example, other}
  DomainOf <- MCDomain
  Faults = {"start", "request", "download", "response", "meta", "parse", "item"}
  ErrorActions = {"retry", "abort", "skip"}
  MaxSignals = 0
SPECIFICATION FairSpec
INVARIANTS TypeOK ActiveTasksExact RequestsAccounted CrawlComplete
PROPERTIES ImplementsCrawl Terminates
