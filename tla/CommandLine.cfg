SPECIFICATION Spec
CONSTANTS
    s1 = s1
    s2 = s2
    s3 = s3
    urls = urls
    limit = limit
    Keys = {urls, limit}
    Wanted <- MCWanted
    Givers = {s1, s2, s3}
    Later <- MCLater
    Quotes = {s2}
    Sets = {s1, s2, s3}
    Starts = {p1}
    Gens = {g1}
    Crawls = {c1}
    Files = {}
    KeyOf <- MCKeyOf
    ShapeOf <- MCShapeOf
    Format = "python"
    Template <- MCTemplate
    MaxKills = 1
INVARIANTS TypeOK SetsKept CrawlSees
\* The commands end.
CHECK_DEADLOCK FALSE
