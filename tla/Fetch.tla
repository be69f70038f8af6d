------------------------------- MODULE Fetch -------------------------------
(***************************************************************************)
(* A request on its way: through the request middlewares, the downloader   *)
(* and the response middlewares, and what becomes of it when one of them   *)
(* fails: the error handler, the error statistics and the retry.           *)
(*                                                                         *)
(* Main is Engine::run, which takes the requests one after the other; the  *)
(* task it spawns for a request goes by the name of the request. Slots,    *)
(* pausing, links and items are in module Engine. Time is counted in ticks *)
(* of a second.                                                            *)
(***************************************************************************)
EXTENDS Middleware, ErrorPolicy

CONSTANTS
    Requests, NoRequest,  \* one request for each URL
    StartQueue,           \* the queue when the start requests are enqueued: the
                          \* scheduler has dropped the repetitions
    Main,                 \* the task that runs Engine::run
    ConcurrentRequests,   \* EngineConfig: tasks at a time
    Permits,              \* DownloaderConfig: downloads at a time
    RequestMiddlewares, ResponseMiddlewares,   \* as they are added
    Allowed, Denied,      \* the URL filter's patterns
    MaxRequests, Window,  \* the rate limiter
    MaxPause,             \* the longest of the random delays
    RetryLimit, Pause,    \* RetryMiddleware: max_retries, retry_delay_ms
    DownloadErrors,       \* what the downloader may fail with
    Faults                \* "parse": the spider may fail to parse a response

\* Each filter and limiter has patterns and timestamps of its own: there is one.
OneOfEach(chain) ==
    \A i, j \in DOMAIN chain :
        chain[i].kind = chain[j].kind /\ chain[i].kind # "pass" => i = j

FetchConstants ==
    /\ PolicyConstants
    /\ IsFiniteSet(Requests)
    /\ Main \notin Requests /\ NoRequest \notin Requests
    /\ StartQueue \in Seq(Requests)
    /\ \A i, j \in DOMAIN StartQueue : StartQueue[i] = StartQueue[j] => i = j
    /\ {ConcurrentRequests, Permits, MaxRequests, Window} \subseteq Nat  \* 0 is accepted
    /\ RequestMiddlewares \in Seq(Middlewares(RequestKinds, Requests))
    /\ ResponseMiddlewares \in Seq(Middlewares(ResponseKinds, Requests))
    /\ Allowed \subseteq Requests /\ Denied \subseteq Requests
    /\ {MaxPause, RetryLimit, Pause} \subseteq Nat
    /\ DownloadErrors \subseteq Errors
    /\ OneOfEach(RequestMiddlewares)
    /\ Faults \subseteq {"parse"}

ASSUME FetchAssumption == FetchConstants

VARIABLES
    seen, queue,  \* the scheduler
    current,      \* the request run() has taken
    pc,           \* where each actor stands
    pos,          \* the middleware it is to call next
    sleep,        \* the seconds it still sleeps, at least
    ages,         \* the timestamps of the rate limiter, as ages
    let,          \* history: the ages of the requests it has let through, while
                  \* they are below Window
    permits,      \* the free permits of the downloader's semaphore
    bad,          \* the requests answered with one of the retry status codes
    again,        \* those whose response has a retry_request in its meta
    downloads,    \* history: how often each request was downloaded
    err,          \* the error each actor handles, or has handled last
    errors,       \* ErrorManager's statistics
    unhandled,    \* history: how often its handler returned an Err
    guard,        \* who holds the write guard of the engine's statistics
    stats         \* request_count, response_count, error_count

schedVars == <<seen, queue, current>>
limitVars == <<ages, let>>
replyVars == <<permits, bad, downloads>>
errorVars == <<err, errors, unhandled>>
statVars  == <<guard, stats>>
vars == <<schedVars, pc, pos, sleep, limitVars, replyVars, again, errorVars, statVars>>

Actors == Requests \cup {Main}

Request(a) == IF a = Main THEN current ELSE a

\* The error run() and its tasks make of a failure that is not the downloader's.
Plain == [kind |-> "other", code |-> "any", url |-> FALSE, tried |-> 0, after |-> -1]

MainStates == {"next", "chain", "held", "spawn", "rejected", "record", "decide",
               "retry", "settle", "reap", "end"}

TaskStates == {"none", "permit", "download", "failed", "respond", "chain", "reply",
               "again", "rejected", "record", "decide", "retry", "settle", "done"}

TypeOK ==
    /\ seen \subseteq Requests /\ queue \in Seq(Requests)
    /\ current \in Requests \cup {NoRequest}
    /\ pc \in [Actors -> MainStates \cup TaskStates]
    /\ pos \in [Actors -> Nat \ {0}] /\ sleep \in [Actors -> Nat]
    /\ ages \in Seq(0 .. Window) /\ let \in Seq(0 .. Window)
    /\ permits \in 0 .. Permits
    /\ bad \subseteq Requests /\ again \subseteq Requests
    /\ downloads \in [Requests -> Nat]
    /\ err \in [Actors -> Errors]
    /\ errors \in [Counters -> Nat] /\ unhandled \in Nat
    /\ guard \subseteq Actors
    /\ stats \in [{"request", "response", "error"} -> Nat]

Init ==
    /\ seen = {StartQueue[i] : i \in DOMAIN StartQueue} /\ queue = StartQueue
    /\ current = NoRequest
    /\ pc = [a \in Actors |-> IF a = Main THEN "next" ELSE "none"]
    /\ pos = [a \in Actors |-> 1] /\ sleep = [a \in Actors |-> 0]
    /\ ages = <<>> /\ let = <<>>
    /\ permits = Permits
    /\ bad = {} /\ again = {}
    /\ downloads = [r \in Requests |-> 0]
    /\ err = [a \in Actors |-> Plain]
    /\ errors = NoErrors /\ unhandled = 0
    /\ guard = {}
    /\ stats = [c \in {"request", "response", "error"} |-> 0]

Goes(a, from, to) == pc[a] = from /\ pc' = [pc EXCEPT ![a] = to]

\* stats.write().await, with a guard that is dropped at once.
Counts(what) == guard = {} /\ stats' = [stats EXCEPT ![what] = @ + 1] /\ UNCHANGED guard

\* A memory scheduler drops a request whose URL it has seen.
Enqueue(r) ==
    /\ queue' = IF r \in seen THEN queue ELSE Append(queue, r)
    /\ seen' = seen \cup {r}
    /\ UNCHANGED current

Sleeps(a, n) == sleep' = [sleep EXCEPT ![a] = n]

Fails(a, e) == err' = [err EXCEPT ![a] = e] /\ UNCHANGED <<errors, unhandled>>

-----------------------------------------------------------------------------
(* The middlewares of a chain, for a request or for a response *)

RequestChain  == Sorted(RequestMiddlewares)
ResponseChain == Sorted(ResponseMiddlewares)

Chain(a) == IF a = Main THEN RequestChain ELSE ResponseChain

AtMiddleware(a) == pc[a] = "chain" /\ sleep[a] = 0 /\ pos[a] \in DOMAIN Chain(a)

\* should_process_request, and the predicate of a ConditionalMiddleware.
Applies(a) == Request(a) \in Chain(a)[pos[a]].applies

\* Actor a is to call a middleware of this kind.
Calls(a, kind) == AtMiddleware(a) /\ Applies(a) /\ Chain(a)[pos[a]].kind = kind

Advances(a) ==
    /\ pos' = [pos EXCEPT ![a] = @ + 1]
    /\ UNCHANGED <<schedVars, replyVars, errorVars, statVars>>

Accepted(a) ==
    /\ \/ AtMiddleware(a) /\ ~Applies(a)
       \/ Calls(a, "pass")
       \/ Calls(a, "custom")
       \/ Calls(a, "filter") /\ FilterAccepts(Request(a), Allowed, Denied)
    /\ Advances(a)
    /\ UNCHANGED <<pc, sleep, limitVars, again>>

\* The first Err ends the chain. run()'s error names the URL, a task's does not.
Rejected(a) ==
    /\ \/ Calls(a, "custom")
       \/ Calls(a, "filter") /\ ~FilterAccepts(Request(a), Allowed, Denied)
    /\ Goes(a, "chain", "rejected")
    /\ Fails(a, IF a = Main THEN WithUrl(Plain) ELSE Plain)
    /\ UNCHANGED <<schedVars, pos, sleep, limitVars, replyVars, again, statVars>>

Delayed ==
    /\ Calls(Main, "delay")
    /\ \E n \in 0 .. MaxPause : Sleeps(Main, n)
    /\ Advances(Main)
    /\ UNCHANGED <<pc, limitVars, again>>

\* The limiter lets a request through: nothing is kept of it for a window of 0.
LetsThrough == let' = Expired(Append(let, 0), Window)

\* Mutation: the sleep is not awaited.
LimitedAtOnce ==
    /\ Calls(Main, "limit")
    /\ ages' = Append(Expired(ages, Window), 0)
    /\ LetsThrough
    /\ Advances(Main)
    /\ UNCHANGED <<pc, sleep, again>>

\* The timestamp is that of the call, and the sleep is slept without the lock.
Limited ==
    LET young == Expired(ages, Window)
        wait  == LimitWait(young, MaxRequests, Window)
    IN  /\ Calls(Main, "limit")
        /\ ages' = Append(young, 0)
        /\ \/ wait = 0 /\ LetsThrough /\ UNCHANGED <<pc, sleep>>
           \/ wait > 0 /\ Goes(Main, "chain", "held") /\ Sleeps(Main, wait) /\ UNCHANGED let
        /\ Advances(Main)
        /\ UNCHANGED again

LetThrough ==
    /\ sleep[Main] = 0 /\ Goes(Main, "held", "chain")
    /\ LetsThrough
    /\ UNCHANGED <<schedVars, pos, sleep, ages, replyVars, again, errorVars, statVars>>

\* The meta of a response is empty, so its retry_count is always 0.
Retried(r) ==
    /\ Calls(r, "retry")
    /\ IF r \in bad /\ RetryLimit > 0
       THEN again' = again \cup {r} /\ Sleeps(r, Pause)
       ELSE UNCHANGED <<again, sleep>>
    /\ Advances(r)
    /\ UNCHANGED <<pc, limitVars>>

EndOfChain(a) == pc[a] = "chain" /\ sleep[a] = 0 /\ pos[a] \notin DOMAIN Chain(a)

-----------------------------------------------------------------------------
(* run() *)

\* The spawned tasks; a finished one counts as reaped.
Live == {r \in Requests : pc[r] \notin {"none", "done"}}

TakeRequest ==
    /\ queue # <<>> /\ Cardinality(Live) < ConcurrentRequests
    /\ Goes(Main, "next", "chain")
    /\ current' = Head(queue) /\ queue' = Tail(queue)
    /\ pos' = [pos EXCEPT ![Main] = 1]
    /\ UNCHANGED <<seen, sleep, limitVars, replyVars, again, errorVars, statVars>>

SpawnTask ==
    /\ EndOfChain(Main) /\ pc[current] \in {"none", "done"}
    /\ Counts("request")
    /\ pc' = [pc EXCEPT ![Main] = "next", ![current] = "permit"]
    /\ pos' = [pos EXCEPT ![current] = 1]
    /\ current' = NoRequest
    /\ UNCHANGED <<seen, queue, sleep, limitVars, replyVars, again, errorVars>>

LeaveLoop ==
    /\ \/ Goes(Main, "next", "end") /\ queue = <<>>
       \/ Goes(Main, "reap", "end")
    /\ Live = {}
    /\ UNCHANGED <<schedVars, pos, sleep, limitVars, replyVars, again, errorVars, statVars>>

-----------------------------------------------------------------------------
(* The task of request r *)

\* Mutation: the downloader does not wait for a permit.
AcquireUnchecked(r) ==
    /\ Goes(r, "permit", "download")
    /\ permits' = permits - 1
    /\ UNCHANGED <<schedVars, pos, sleep, limitVars, bad, downloads, again>>
    /\ UNCHANGED <<errorVars, statVars>>

Acquire(r) ==
    /\ permits > 0 /\ Goes(r, "permit", "download")
    /\ permits' = permits - 1
    /\ UNCHANGED <<schedVars, pos, sleep, limitVars, bad, downloads, again>>
    /\ UNCHANGED <<errorVars, statVars>>

\* The permit goes back when download() returns, with a response or an error.
Release(r) ==
    /\ permits' = permits + 1
    /\ downloads' = [downloads EXCEPT ![r] = @ + 1]
    /\ UNCHANGED <<schedVars, pos, sleep, limitVars, again, statVars>>

\* Any status is a response.
Downloaded(r) ==
    /\ Goes(r, "download", "respond") /\ Release(r)
    /\ \E b \in BOOLEAN : bad' = IF b THEN bad \cup {r} ELSE bad \ {r}
    /\ UNCHANGED errorVars

DownloadFails(r) ==
    /\ Goes(r, "download", "failed") /\ Release(r)
    /\ \E e \in DownloadErrors : Fails(r, WithUrl(e))
    /\ UNCHANGED bad

CountResponse(r) ==
    /\ Goes(r, "respond", "chain") /\ Counts("response")
    /\ UNCHANGED <<schedVars, pos, sleep, limitVars, replyVars, again, errorVars>>

\* A retry_request comes before the parsing, and in its place.
EndReply(r) ==
    /\ EndOfChain(r)
    /\ Goes(r, "chain", IF r \in again THEN "again" ELSE "reply")
    /\ UNCHANGED <<schedVars, pos, sleep, limitVars, replyVars, again, errorVars, statVars>>

EnqueueAgain(r) ==
    /\ Goes(r, "again", "done") /\ Enqueue(r)
    /\ UNCHANGED <<pos, sleep, limitVars, replyVars, again, errorVars, statVars>>

Parsed(r) ==
    /\ \/ Goes(r, "reply", "done") /\ UNCHANGED errorVars
       \/ /\ "parse" \in Faults /\ Goes(r, "reply", "rejected")
          /\ Fails(r, WithUrl(Plain))
    /\ UNCHANGED <<schedVars, pos, sleep, limitVars, replyVars, again, statVars>>

-----------------------------------------------------------------------------
(* An error *)

\* After a failed download the guard of the statistics is dropped at once. In the
\* other branches it lives until the branch ends.
CountError(a) ==
    /\ guard = {}
    /\ stats' = [stats EXCEPT !.error = @ + 1]
    /\ \/ Goes(a, "failed", "record") /\ UNCHANGED guard
       \/ Goes(a, "rejected", "record") /\ guard' = {a}
    /\ UNCHANGED <<schedVars, pos, sleep, limitVars, replyVars, again, errorVars>>

\* ErrorManager::handle_error, before and after the handler's own work.
Record(a) ==
    /\ Goes(a, "record", "decide")
    /\ errors' = RecordError(errors, err[a])
    /\ UNCHANGED <<schedVars, pos, sleep, limitVars, replyVars, again, err, unhandled>>
    /\ UNCHANGED statVars

\* Mutation: the guard lives on when Abort leaves the loop of run().
DecideHolding(a) ==
    /\ \E act \in Decisions(err[a]) :
          /\ Goes(a, "decide", IF act.kind = "retry" THEN "retry"
                               ELSE IF act.kind = "abort" /\ a = Main THEN "reap"
                               ELSE "settle")
          /\ Sleeps(a, IF act.kind = "retry" THEN act.delay ELSE 0)
          /\ IF act.kind = "fail"
             THEN unhandled' = unhandled + 1 /\ UNCHANGED errors
             ELSE errors' = RecordAction(errors, act) /\ UNCHANGED unhandled
    /\ UNCHANGED <<schedVars, pos, limitVars, replyVars, again, err, statVars>>

\* Abort leaves the loop of run() and drops the guard; a task only logs it.
Decide(a) ==
    /\ \E act \in Decisions(err[a]) :
          /\ Goes(a, "decide", IF act.kind = "retry" THEN "retry"
                               ELSE IF act.kind = "abort" /\ a = Main THEN "reap"
                               ELSE "settle")
          /\ Sleeps(a, IF act.kind = "retry" THEN act.delay ELSE 0)
          /\ guard' = IF act.kind = "abort" /\ a = Main THEN guard \ {a} ELSE guard
          /\ IF act.kind = "fail"
             THEN unhandled' = unhandled + 1 /\ UNCHANGED errors
             ELSE errors' = RecordAction(errors, act) /\ UNCHANGED unhandled
    /\ UNCHANGED <<schedVars, pos, limitVars, replyVars, again, err, stats>>

\* Mutation: a retry gets past the scheduler's test of the URL, and nothing counts it.
RequeueUncounted(a) ==
    /\ sleep[a] = 0 /\ Goes(a, "retry", "settle")
    /\ queue' = Append(queue, Request(a))
    /\ UNCHANGED <<seen, current, pos, sleep, limitVars, replyVars, again, errorVars, statVars>>

\* Mutation: the retry is counted in the statistics, whose guard is still held.
RequeueCounted(a) ==
    /\ sleep[a] = 0 /\ Goes(a, "retry", "settle")
    /\ Enqueue(Request(a)) /\ Counts("request")
    /\ UNCHANGED <<pos, sleep, limitVars, replyVars, again, errorVars>>

\* A handler retries the request that failed, after its delay.
Requeue(a) ==
    /\ sleep[a] = 0 /\ Goes(a, "retry", "settle")
    /\ Enqueue(Request(a))
    /\ UNCHANGED <<pos, sleep, limitVars, replyVars, again, errorVars, statVars>>

\* ErrorOccurred is sent, and the branch ends.
Settle(a) ==
    /\ Goes(a, "settle", IF a = Main THEN "next" ELSE "done")
    /\ guard' = guard \ {a}
    /\ UNCHANGED <<schedVars, pos, sleep, limitVars, replyVars, again, errorVars, stats>>

-----------------------------------------------------------------------------
(* Time *)

Aged(s) == [i \in DOMAIN s |-> IF s[i] < Window THEN s[i] + 1 ELSE Window]

\* Every age and every sleep moves on by a second. A sleep may last longer.
Tick ==
    /\ ages' = Aged(ages)
    /\ let' = Expired(Aged(let), Window)
    /\ sleep' = [a \in Actors |-> IF sleep[a] > 0 THEN sleep[a] - 1 ELSE 0]
    /\ UNCHANGED <<schedVars, pc, pos, replyVars, again, errorVars, statVars>>

ChainStep(a) == Accepted(a) \/ Rejected(a)

ErrorStep(a) == CountError(a) \/ Record(a) \/ Decide(a) \/ Requeue(a) \/ Settle(a)

MainStep ==
    \/ TakeRequest \/ ChainStep(Main) \/ Delayed \/ Limited \/ LetThrough
    \/ SpawnTask \/ LeaveLoop \/ ErrorStep(Main)

TaskStep(r) ==
    \/ Acquire(r) \/ Downloaded(r) \/ DownloadFails(r) \/ CountResponse(r)
    \/ ChainStep(r) \/ Retried(r) \/ EndReply(r) \/ EnqueueAgain(r) \/ Parsed(r)
    \/ ErrorStep(r)

Next == MainStep \/ (\E r \in Requests : TaskStep(r)) \/ Tick

\* tokio polls every task again and again, timers fire, every download ends, by
\* the client's timeout at the latest, and both its semaphore and the lock of the
\* statistics serve who waits in turn.
Fairness ==
    /\ WF_vars(Tick) /\ SF_vars(MainStep)
    /\ \A r \in Requests : SF_vars(TaskStep(r))

Spec == Init /\ [][Next]_vars /\ Fairness

-----------------------------------------------------------------------------
(* Properties *)

\* A maximum of 0 keeps back what a maximum of 1 does: the first of a window has no
\* timestamp to wait for.
Allowance == IF MaxRequests = 0 THEN 1 ELSE MaxRequests

\* A window holds at most one request more than the limiter allows, however long
\* the requests before it slept (middleware/src/lib.rs RateLimitMiddleware).
RateBounded == Len(let) <= Allowance + 1

Stand(state) == Cardinality({a \in Actors : pc[a] = state})

\* The engine's error_count, ErrorManager's statistics and the errors in flight
\* agree at every moment, whatever the handlers answer (core/src/error_handler.rs
\* ErrorManager::handle_error; the error branches of engine run).
ErrorsAccounted ==
    /\ stats["error"] = errors["total"] + Stand("record")
    /\ errors["total"] = errors["network"] + errors["http"] + errors["parse"]
                         + errors["middleware"] + errors["other"]
    /\ errors["total"] = errors["retry"] + errors["abort"] + errors["skip"]
                         + errors["ignore"] + unhandled + Stand("decide")

\* What DefaultErrorHandler and RetryMiddleware each allow a request.
Retries == IF RetryLimit > MaxRetries THEN RetryLimit ELSE MaxRetries

\* However the two and the custom handlers ask for it, no request is downloaded more
\* often than one retry_count, which both read, would allow (core/src/error_handler.rs
\* handle_error, middleware/src/lib.rs RetryMiddleware, engine run). That count
\* reaches neither of them a second time: what keeps the bound is that the scheduler
\* drops a URL it has seen, and with it the retries that are due (RetryIsQueued of Engine).
DownloadsBounded == \A r \in Requests : downloads[r] <= Retries + 1

\* The crawl ends, although a retry sleeps with the guard of the statistics in
\* its hands and every other actor needs it (engine run, its error branches).
FetchEnds == <>(pc[Main] = "end" /\ Live = {})

\* The actors that need the guard of the statistics for their next step.
NeedsStats(a) ==
    pc[a] \in {"respond", "failed", "rejected"} \/ (a = Main /\ EndOfChain(a))

\* Actor a can take its next step, now or when it has slept.
Proceeds(a) ==
    /\ pc[a] \notin {"none", "done", "end"}
    /\ pc[a] = "permit" => permits > 0
    /\ NeedsStats(a) => guard = {}
    /\ pc[a] = "next" =>
          IF queue = <<>> THEN Live = {} ELSE Cardinality(Live) < ConcurrentRequests
    /\ pc[a] = "reap" => Live = {}

WaitsFor(a, b) ==
    \/ pc[a] = "permit" /\ pc[b] = "download"
    \/ NeedsStats(a) /\ b \in guard
    \/ pc[a] \in {"next", "reap"} /\ b \in Live

\* A limit of zero, which nothing rejects: nobody ever gives actor a what it needs.
Starved(a) ==
    \/ pc[a] = "permit" /\ Permits = 0
    \/ pc[a] = "next" /\ queue # <<>> /\ ConcurrentRequests = 0

\* Permits and the guard of the statistics never make the actors wait in a
\* circle: who cannot proceed waits for somebody who can, or who waits for
\* somebody who can. All that holds a crawl up is a sleep, or a limit of zero
\* (engine run, its error branches, which keep the guard while the handler decides
\* and a retry sleeps; downloader/src/lib.rs download).
OnlySleepHoldsUp ==
    \A a \in Actors :
        \/ pc[a] \in {"none", "done", "end"} \/ Proceeds(a) \/ Starved(a)
        \/ \E b \in Actors :
              /\ WaitsFor(a, b)
              /\ \/ Proceeds(b) \/ Starved(b)
                 \/ \E c \in Actors : WaitsFor(b, c) /\ Proceeds(c)

-----------------------------------------------------------------------------
(* The inductive invariant *)

\* Why: from taking a request until it gives it up, run() has one.
CurrentHeld ==
    /\ pc[Main] \in MainStates
    /\ pc[Main] \notin {"next", "reap", "end"} => current \in Requests

\* Why: a request is queued, with run() or spawned, never two of these, and the
\* scheduler has seen it.
Placed ==
    /\ \A i, j \in DOMAIN queue : queue[i] = queue[j] => i = j
    /\ \A i \in DOMAIN queue :
          pc[queue[i]] = "none" /\ queue[i] # current /\ queue[i] \in seen
    /\ current \in Requests => pc[current] = "none" /\ current \in seen
    /\ \A r \in Requests : pc[r] # "none" => r \in seen

\* Why: a task downloads once.
DownloadsCounted ==
    \A r \in Requests :
        downloads[r] = IF pc[r] \in {"none", "permit", "download"} THEN 0 ELSE 1

\* Why: the downloads under way have the permits that are not free.
PermitsCounted == permits + Cardinality({r \in Requests : pc[r] = "download"}) = Permits

Held == pc[Main] = "held"

\* Why: the limiter keeps one timestamp too many for as long as a request sleeps,
\* and that request sleeps until the oldest is too old.
LimiterFull ==
    /\ Len(ages) <= Allowance + 1
    /\ Len(ages) = Allowance + 1 =>
          ages[1] >= Window \/ (Held /\ sleep[Main] + ages[1] >= Window)

\* Why: a request was let through before the next one was stamped.
Behind == IF Held THEN 0 ELSE 1

LetBeforeStamped ==
    /\ Len(let) <= Len(ages) + Behind
    /\ \A i \in DOMAIN let :
          LET j == i + Len(ages) - Len(let) + Behind
          IN  j \in DOMAIN ages => let[i] >= ages[j]

\* Why: what was let through is in the order of time, and within the window.
LetInOrder ==
    /\ \A i \in DOMAIN let : let[i] < Window
    /\ \A i, j \in DOMAIN let : i <= j => let[i] >= let[j]

\* Why: who has the guard of the statistics is in an error branch, where it waits
\* for nobody.
GuardInPlace ==
    /\ \A a \in guard : pc[a] \in {"record", "decide", "retry", "settle"}
    /\ \A r \in Requests : pc[r] \in TaskStates

\* The conjunction that is inductive.
IInv ==
    /\ TypeOK /\ CurrentHeld /\ Placed /\ DownloadsCounted /\ PermitsCounted
    /\ LimiterFull /\ LetBeforeStamped /\ LetInOrder /\ ErrorsAccounted
    /\ GuardInPlace

=============================================================================
