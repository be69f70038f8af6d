----------------------------- MODULE Middleware -----------------------------
(***************************************************************************)
(* The middlewares of a request as values: the order a chain puts them in, *)
(* which of them a request meets, and the arithmetic of the rate limiter   *)
(* on the ages of its timestamps.                                          *)
(***************************************************************************)
EXTENDS Integers, Sequences, FiniteSets

LOCAL INSTANCE Folds
LOCAL INSTANCE SequencesExt

Priorities == {1000, 800, 500, 200, 0}

\* "pass" is DefaultHeadersMiddleware, "filter" UrlFilterMiddleware, "delay"
\* RandomDelayMiddleware and "limit" RateLimitMiddleware. A ConditionalMiddleware
\* is what it wraps, applied to the requests of its predicate.
RequestKinds == {"pass", "filter", "delay", "limit"}

\* "pass" is ResponseLoggerMiddleware, "retry" RetryMiddleware and "custom" one
\* of the user's, which may answer an Err.
ResponseKinds == {"pass", "retry", "custom"}

Middlewares(kinds, R) == [kind: kinds, priority: Priorities, applies: SUBSET R]

\* add() pushes and sorts with a stable sort, higher priorities first: a newcomer
\* goes behind its equals.
Add(chain, m) ==
    SelectSeq(chain, LAMBDA x : x.priority >= m.priority)
        \o <<m>>
        \o SelectSeq(chain, LAMBDA x : x.priority < m.priority)

\* A chain that was built with add(); new() keeps the order it is given.
Sorted(added) == FoldLeft(Add, <<>>, added)

\* Denied patterns first, then the allowed ones, of which there may be none.
FilterAccepts(url, allowed, denied) ==
    url \notin denied /\ (allowed = {} \/ url \in allowed)

-----------------------------------------------------------------------------
(* The timestamps of the limiter, oldest first, as ages *)

\* The front is popped while it is too old.
Expired(ages, window) ==
    LET gone == {i \in DOMAIN ages : \A j \in 1 .. i : ages[j] >= window}
    IN  SubSeq(ages, Cardinality(gone) + 1, Len(ages))

\* How long the next request has to wait, with the expired ages gone.
LimitWait(ages, max, window) ==
    IF Len(ages) >= max /\ ages # <<>> THEN window - ages[1] ELSE 0

=============================================================================
