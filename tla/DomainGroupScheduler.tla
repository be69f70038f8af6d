------------------------ MODULE DomainGroupScheduler ------------------------
(***************************************************************************)
(* The scheduler that groups requests by domain: a priority queue per      *)
(* domain and a priority queue of domains, each set behind a Mutex, with   *)
(* a limit and a delay per domain.                                         *)
(*                                                                         *)
(* enqueue and clear hold the Mutex of the queues while they wait for the  *)
(* one of the domains; next holds the one of the domains while it waits    *)
(* for the one of the queues. The Mutexes of the times and of the counts   *)
(* are held for a single access, except that clear keeps the times locked  *)
(* until it has the counts.                                                *)
(***************************************************************************)
EXTENDS Integers, FiniteSets

CONSTANTS
    Urls, Domains,
    Requests,     \* the requests callers may offer
    NoRequest, NoDomain,
    Enqueuers,    \* the tasks that call enqueue ...
    Takers,       \* ... next ...
    Clearers,     \* ... and clear; one task may be in several of the sets
    NoCaller,     \* the holder of a free Mutex
    Allowed,      \* the domains is_domain_allowed admits
    Strategy,     \* strategy
    RespectDepth, \* respect_depth
    MaxDepth,     \* max_depth, -1 for None
    Limit,        \* max_requests_per_domain, -1 for None
    Delay         \* domain_delay_ms, 0 for None

Callers == Enqueuers \cup Takers \cup Clearers

GroupConstants ==
    /\ Requests \subseteq [url: Urls, domain: Domains, method: {"GET", "POST"},
                           depth: Int, priority: Int]
    /\ \A r, s \in Requests : r.url = s.url => r.domain = s.domain
    /\ NoRequest \notin Requests /\ NoDomain \notin Domains
    /\ IsFiniteSet(Takers) /\ NoCaller \notin Callers
    /\ Strategy \in {"Priority", "BreadthFirst", "DepthFirst"}
    /\ RespectDepth \in BOOLEAN
    /\ MaxDepth \in Nat \cup {-1} /\ Limit \in Nat \cup {-1} /\ Delay \in Nat

ASSUME GroupAssumption == GroupConstants

VARIABLES
    seen,    \* seen_urls
    queues,  \* domain_queues: of each domain, the requests and their priorities
    listed,  \* the keys of domain_priority_queue ...
    rank,    \* ... and their priorities, kept when the domain is popped
    age,     \* time since last_request_times, no more than Delay
    counts,  \* domain_request_counts
    dq,      \* the task that holds the Mutex of domain_queues ...
    dpq,     \* ... and of domain_priority_queue
    pc,      \* where each caller stands
    arg,     \* the request it is enqueueing
    cur,     \* the domain it is trying
    handed,  \* history: the URLs handed out since the last clear
    started, \* history: requests handed out per domain since the last clear
    since    \* history: time since each taker was handed a request of a domain

store == <<seen, queues, listed, rank, age, counts>>
history == <<handed, started, since>>
vars == <<store, dq, dpq, pc, arg, cur, history>>

Places == {"idle", "mark", "push", "list", "popping", "checking", "timing", "delaying",
           "taking", "stamping", "counting", "clearDomains", "clearTimes", "clearCounts"}

\* An entry of a PriorityQueue<Request, i32>.
Entries == [item: Requests, rank: Int]

TypeOK ==
    /\ seen \subseteq Urls
    /\ queues \in [Domains -> SUBSET Entries]
    /\ listed \subseteq Domains /\ rank \in [Domains -> Int]
    /\ age \in [Domains -> 0 .. Delay] /\ counts \in [Domains -> Nat]
    /\ dq \in Callers \cup {NoCaller} /\ dpq \in Callers \cup {NoCaller}
    /\ pc \in [Callers -> Places]
    /\ arg \in [Enqueuers -> Requests \cup {NoRequest}]
    /\ cur \in [Takers -> Domains \cup {NoDomain}]
    /\ handed \subseteq Urls /\ started \in [Domains -> Nat]
    /\ since \in [Takers \X Domains -> 0 .. Delay]

Init ==
    /\ seen = {} /\ queues = [d \in Domains |-> {}]
    /\ listed = {} /\ rank = [d \in Domains |-> 0]
    /\ age = [d \in Domains |-> Delay] /\ counts = [d \in Domains |-> 0]
    /\ dq = NoCaller /\ dpq = NoCaller
    /\ pc = [c \in Callers |-> "idle"]
    /\ arg = [c \in Enqueuers |-> NoRequest]
    /\ cur = [c \in Takers |-> NoDomain]
    /\ handed = {} /\ started = [d \in Domains |-> 0]
    /\ since = [k \in Takers \X Domains |-> Delay]

Goes(c, from, to) == pc[c] = from /\ pc' = [pc EXCEPT ![c] = to]

\* The entries peek() or pop() may return: ties are left to the heap's layout.
Highest(q) == {e \in q : \A f \in q : f.rank <= e.rank}

-----------------------------------------------------------------------------
(* enqueue *)

\* A request without a depth passes every limit, as one of depth 0 does.
TooDeep(r) == RespectDepth /\ MaxDepth # -1 /\ (r.depth < 0 \/ r.depth > MaxDepth)

EffectivePriority(r) ==
    CASE Strategy = "Priority" -> r.priority
      [] Strategy # "Priority" /\ ~RespectDepth -> 0
      [] Strategy = "BreadthFirst" /\ RespectDepth -> -r.depth
      [] Strategy = "DepthFirst" /\ RespectDepth -> r.depth

\* Mutation: a POST is taken for another request than a GET of its URL.
HasSeenMethod(c, r) ==
    /\ Goes(c, "idle", "mark")
    /\ r.url \notin seen \/ r.method = "POST"
    /\ r.domain \in Allowed /\ ~TooDeep(r)
    /\ arg' = [arg EXCEPT ![c] = r]
    /\ UNCHANGED <<store, dq, dpq, cur, history>>

\* The tests of enqueue; a request that fails one changes nothing.
HasSeen(c, r) ==
    /\ Goes(c, "idle", "mark")
    /\ r.url \notin seen /\ r.domain \in Allowed /\ ~TooDeep(r)
    /\ arg' = [arg EXCEPT ![c] = r]
    /\ UNCHANGED <<store, dq, dpq, cur, history>>

\* Mutation: the request is marked instead of its URL.
MarkSeenRequest(c) ==
    /\ Goes(c, "mark", "push")
    /\ seen' = seen \cup {arg[c]}
    /\ UNCHANGED <<queues, listed, rank, age, counts, dq, dpq, arg, cur, history>>

MarkSeen(c) ==
    /\ Goes(c, "mark", "push")
    /\ seen' = seen \cup {arg[c].url}
    /\ UNCHANGED <<queues, listed, rank, age, counts, dq, dpq, arg, cur, history>>

Twins(q, r) == {e \in q : e.item.url = r.url /\ e.item.method = r.method}

\* PriorityQueue::push keeps an equal item and files it under the new priority.
File(q, r) ==
    LET p == EffectivePriority(r)
    IN  IF Twins(q, r) = {}
        THEN q \cup {[item |-> r, rank |-> p]}
        ELSE (q \ Twins(q, r)) \cup {[item |-> e.item, rank |-> p] : e \in Twins(q, r)}

\* The Mutex of the queues is kept.
Push(c) ==
    /\ Goes(c, "push", "list")
    /\ dq = NoCaller /\ dq' = c
    /\ queues' = [queues EXCEPT ![arg[c].domain] = File(queues[arg[c].domain], arg[c])]
    /\ UNCHANGED <<seen, listed, rank, age, counts, dpq, arg, cur, history>>

\* Mutation: a domain that is listed keeps its priority.
ListDomainOnce(c) ==
    /\ Goes(c, "list", "idle")
    /\ dpq = NoCaller /\ dq' = NoCaller
    /\ listed' = listed \cup {arg[c].domain}
    /\ \E e \in Highest(queues[arg[c].domain]) :
          rank' = IF arg[c].domain \in listed THEN rank
                  ELSE [rank EXCEPT ![arg[c].domain] = e.rank]
    /\ arg' = [arg EXCEPT ![c] = NoRequest]
    /\ UNCHANGED <<seen, queues, age, counts, dpq, cur, history>>

\* Mutation: the Mutex of the queues is not released.
ListDomainLocked(c) ==
    /\ Goes(c, "list", "idle")
    /\ dpq = NoCaller
    /\ listed' = listed \cup {arg[c].domain}
    /\ \E e \in Highest(queues[arg[c].domain]) : rank' = [rank EXCEPT ![arg[c].domain] = e.rank]
    /\ arg' = [arg EXCEPT ![c] = NoRequest]
    /\ UNCHANGED <<seen, queues, age, counts, dq, dpq, cur, history>>

ListDomain(c) ==
    /\ Goes(c, "list", "idle")
    /\ dpq = NoCaller /\ dq' = NoCaller
    /\ listed' = listed \cup {arg[c].domain}
    /\ \E e \in Highest(queues[arg[c].domain]) : rank' = [rank EXCEPT ![arg[c].domain] = e.rank]
    /\ arg' = [arg EXCEPT ![c] = NoRequest]
    /\ UNCHANGED <<seen, queues, age, counts, dpq, cur, history>>

-----------------------------------------------------------------------------
(* next *)

LockDomains(c) ==
    /\ Goes(c, "idle", "popping")
    /\ dpq = NoCaller /\ dpq' = c
    /\ UNCHANGED <<store, dq, arg, cur, history>>

\* The loop is left when no domain is listed, and next returns None.
PopDomain(c) ==
    \/ /\ listed # {}
       /\ Goes(c, "popping", "checking")
       /\ \E d \in listed :
             /\ \A x \in listed : rank[x] <= rank[d]
             /\ listed' = listed \ {d}
             /\ cur' = [cur EXCEPT ![c] = d]
       /\ UNCHANGED <<seen, queues, rank, age, counts, dq, dpq, arg, history>>
    \/ /\ listed = {}
       /\ Goes(c, "popping", "idle")
       /\ dpq' = NoCaller
       /\ UNCHANGED <<store, dq, arg, cur, history>>

\* A domain of which nothing was counted yet is not at its limit, be it 0.
LimitReached(d) == Limit # -1 /\ counts[d] > 0 /\ counts[d] >= Limit

\* Mutation: one request more.
CheckLimitLate(c) ==
    /\ Goes(c, "checking",
            IF Limit # -1 /\ counts[cur[c]] > Limit THEN "popping" ELSE "timing")
    /\ UNCHANGED <<store, dq, dpq, arg, cur, history>>

\* Mutation: the domain is put back as if it had to be delayed.
CheckLimitPutBack(c) ==
    /\ Goes(c, "checking", IF LimitReached(cur[c]) THEN "delaying" ELSE "timing")
    /\ UNCHANGED <<store, dq, dpq, arg, cur, history>>

\* A domain at its limit stays out of the list, its requests in its queue.
CheckLimit(c) ==
    /\ Goes(c, "checking", IF LimitReached(cur[c]) THEN "popping" ELSE "timing")
    /\ UNCHANGED <<store, dq, dpq, arg, cur, history>>

CheckDelay(c) ==
    /\ Goes(c, "timing", IF age[cur[c]] < Delay THEN "delaying" ELSE "taking")
    /\ UNCHANGED <<store, dq, dpq, arg, cur, history>>

\* Mutation: the domain is put back and served all the same.
PutBackServing(c) ==
    /\ Goes(c, "delaying", "taking")
    /\ dq = NoCaller
    /\ listed' = listed \cup {cur[c]}
    /\ UNCHANGED <<seen, queues, rank, age, counts, dq, dpq, arg, cur, history>>

\* The queues are locked for as long as it takes to put the domain back.
PutBack(c) ==
    /\ Goes(c, "delaying", "popping")
    /\ dq = NoCaller
    /\ IF queues[cur[c]] = {}
       THEN UNCHANGED <<listed, rank>>
       ELSE /\ listed' = listed \cup {cur[c]}
            /\ \E e \in Highest(queues[cur[c]]) : rank' = [rank EXCEPT ![cur[c]] = e.rank]
    /\ UNCHANGED <<seen, queues, age, counts, dq, dpq, arg, cur, history>>

\* Mutation: the domain is not listed again.
ServeUnlisted(c, d, e) ==
    /\ Goes(c, "taking", "stamping")
    /\ queues' = [queues EXCEPT ![d] = queues[d] \ {e}]
    /\ dpq' = NoCaller
    /\ handed' = handed \cup {e.item.url}
    /\ started' = [started EXCEPT ![d] = started[d] + 1]
    /\ since' = [since EXCEPT ![<<c, d>>] = 0]
    /\ UNCHANGED <<listed, rank>>

\* Entry e is popped, its domain listed again if it has more of them, and both
\* Mutexes are released.
Serve(c, d, e) ==
    /\ Goes(c, "taking", "stamping")
    /\ queues' = [queues EXCEPT ![d] = queues[d] \ {e}]
    /\ IF queues[d] = {e}
       THEN UNCHANGED <<listed, rank>>
       ELSE /\ listed' = listed \cup {d}
            /\ \E f \in Highest(queues[d] \ {e}) : rank' = [rank EXCEPT ![d] = f.rank]
    /\ dpq' = NoCaller
    /\ handed' = handed \cup {e.item.url}
    /\ started' = [started EXCEPT ![d] = started[d] + 1]
    /\ since' = [since EXCEPT ![<<c, d>>] = 0]

\* The loop goes on if the domain turns out to have no requests.
TakeRequest(c) ==
    /\ pc[c] = "taking" /\ dq = NoCaller
    /\ IF queues[cur[c]] = {}
       THEN Goes(c, "taking", "popping") /\ UNCHANGED <<queues, listed, rank, dpq, history>>
       ELSE \E e \in Highest(queues[cur[c]]) : Serve(c, cur[c], e)
    /\ UNCHANGED <<seen, age, counts, dq, arg, cur>>

StampTime(c) ==
    /\ \A k \in Clearers : pc[k] # "clearCounts"
    /\ Goes(c, "stamping", "counting")
    /\ age' = [age EXCEPT ![cur[c]] = 0]
    /\ UNCHANGED <<seen, queues, listed, rank, counts, dq, dpq, arg, cur, history>>

CountRequest(c) ==
    /\ Goes(c, "counting", "idle")
    /\ counts' = [counts EXCEPT ![cur[c]] = counts[cur[c]] + 1]
    /\ cur' = [cur EXCEPT ![c] = NoDomain]
    /\ UNCHANGED <<seen, queues, listed, rank, age, dq, dpq, arg, history>>

-----------------------------------------------------------------------------
(* clear *)

ClearQueues(c) ==
    /\ Goes(c, "idle", "clearDomains")
    /\ dq = NoCaller /\ dq' = c
    /\ queues' = [d \in Domains |-> {}]
    /\ UNCHANGED <<seen, listed, rank, age, counts, dpq, arg, cur, history>>

ClearDomains(c) ==
    /\ Goes(c, "clearDomains", "clearTimes")
    /\ dpq = NoCaller /\ dpq' = c
    /\ listed' = {}
    /\ UNCHANGED <<seen, queues, rank, age, counts, dq, arg, cur, history>>

ClearTimes(c) ==
    /\ Goes(c, "clearTimes", "clearCounts")
    /\ age' = [d \in Domains |-> Delay]
    /\ since' = [k \in Takers \X Domains |-> Delay]
    /\ UNCHANGED <<seen, queues, listed, rank, counts, dq, dpq, arg, cur, handed, started>>

\* Mutation: the seen URLs are kept.
ClearCountsOnly(c) ==
    /\ Goes(c, "clearCounts", "idle")
    /\ counts' = [d \in Domains |-> 0]
    /\ handed' = {} /\ started' = [d \in Domains |-> 0]
    /\ dq' = NoCaller /\ dpq' = NoCaller
    /\ UNCHANGED <<seen, queues, listed, rank, age, arg, cur, since>>

\* With the counts go the seen URLs, and all Mutexes are released.
ClearCounts(c) ==
    /\ Goes(c, "clearCounts", "idle")
    /\ counts' = [d \in Domains |-> 0]
    /\ seen' = {}
    /\ handed' = {} /\ started' = [d \in Domains |-> 0]
    /\ dq' = NoCaller /\ dpq' = NoCaller
    /\ UNCHANGED <<queues, listed, rank, age, arg, cur, since>>

-----------------------------------------------------------------------------
\* Time passes for all domains at once.
Older(t) == IF t < Delay THEN t + 1 ELSE t

Tick ==
    /\ age' = [d \in Domains |-> Older(age[d])]
    /\ since' = [k \in Takers \X Domains |-> Older(since[k])]
    /\ UNCHANGED <<seen, queues, listed, rank, counts, dq, dpq, pc, arg, cur, handed, started>>

Enqueue(c) ==
    \/ \E r \in Requests : HasSeen(c, r)
    \/ MarkSeen(c) \/ Push(c) \/ ListDomain(c)

Take(c) ==
    \/ LockDomains(c) \/ PopDomain(c) \/ CheckLimit(c) \/ CheckDelay(c) \/ PutBack(c)
    \/ TakeRequest(c) \/ StampTime(c) \/ CountRequest(c)

Clear(c) == ClearQueues(c) \/ ClearDomains(c) \/ ClearTimes(c) \/ ClearCounts(c)

Next ==
    \/ \E c \in Enqueuers : Enqueue(c)
    \/ \E c \in Takers : Take(c)
    \/ \E c \in Clearers : Clear(c)
    \/ Tick

Spec == Init /\ [][Next]_vars

\* A taker that can move does, a clear that is almost done ends, time goes by. A
\* Mutex serves its waiters in order, so who waits for the times gets them.
FairSpec ==
    /\ Spec /\ WF_vars(Tick)
    /\ \A c \in Takers : WF_vars(Take(c)) /\ SF_vars(StampTime(c))
    /\ \A c \in Clearers : WF_vars(ClearCounts(c))

-----------------------------------------------------------------------------
(* Properties *)

Clearing == \E c \in Clearers : pc[c] \in {"clearDomains", "clearTimes", "clearCounts"}

QueuedUrls == UNION {{e.item.url : e \in queues[d]} : d \in Domains}
InFlightUrls == {arg[c].url : c \in {x \in Enqueuers : pc[x] = "push"}}

\* A URL that is refused from now on is not lost: outside a clear it is queued,
\* handed out, or about to be pushed.
NoUrlLost == ~Clearing => seen \subseteq QueuedUrls \cup InFlightUrls \cup handed

\* The places at which a taker works on a domain that it popped.
Trying == {"checking", "timing", "delaying", "taking"}
Tried == {cur[c] : c \in {x \in Takers : pc[x] \in Trying}}
Filing(d) == \E c \in Enqueuers : pc[c] = "list" /\ arg[c].domain = d

\* No domain is forgotten: if it has requests, it is in the list, or in the hands
\* of next, or of an enqueue that will list it; or it is at its limit, and then
\* its requests stay where they are until a clear.
DomainsListed ==
    \A d \in Domains :
        queues[d] # {} => d \in listed \cup Tried \/ Filing(d) \/ LimitReached(d)

\* Grouping keeps the order of priorities: what next hands out has the highest
\* priority of all queued requests whose domain is not at its limit.
HighestFirst ==
    [][\A c \in Takers : pc[c] = "taking" /\ pc'[c] = "stamping" =>
          \A d \in Domains : ~LimitReached(d) =>
             \A f \in queues[d] :
                \E e \in queues[cur[c]] \ queues'[cur[c]] : f.rank <= e.rank]_vars

\* The limit is tested and counted in different critical sections. With N tasks
\* in next a domain exceeds it by N - 1 at most, and never with one task.
OverrunBounded ==
    Limit > 0 => \A d \in Domains : started[d] <= Limit + Cardinality(Takers) - 1

\* Each task sees the delay: between two requests of one domain that it is
\* handed, without a clear between them, at least Delay goes by.
PacesEachTaker ==
    [][\A c \in Takers : pc[c] = "taking" /\ pc'[c] = "stamping" => since[<<c, cur[c]>>] = Delay]_vars

\* Two tasks wait for each other's Mutex.
LockCycle ==
    /\ \E c \in Takers : dpq = c /\ pc[c] \in {"delaying", "taking"}
    /\ \/ \E c \in Enqueuers : dq = c /\ pc[c] = "list"
       \/ \E c \in Clearers : dq = c /\ pc[c] = "clearDomains"

\* k has locked what c needs for its next step.
Awaits(c, k) ==
    \/ pc[c] \in {"push", "delaying", "taking"} /\ dq = k
    \/ pc[c] \in {"list", "clearDomains"} /\ dpq = k
    \/ pc[c] = "stamping" /\ k \in Clearers /\ pc[k] = "clearCounts"

Moves(c) == pc[c] # "idle" /\ \A k \in Callers : ~Awaits(c, k)

\* Nothing but the lock cycle stops a call: whoever has locked what another one
\* needs is inside a call, where it can take its next step, or it needs what a
\* third one has locked, who can.
HoldersMove ==
    LockCycle \/ \A c, k \in Callers :
        Awaits(c, k) => Moves(k) \/ \E j \in Callers : Awaits(k, j) /\ Moves(j)

\* next returns, though it spins as long as all it finds has to be delayed; the
\* lock cycle is the only thing that can stop it.
NextReturns == \A c \in Takers : pc[c] = "popping" ~> pc[c] = "idle" \/ LockCycle

\* "The Scheduler is thread-safe and can be accessed from multiple tasks."
NoLockCycle == ~LockCycle

\* One hand-out per URL between two clears, as long as a single task enqueues and
\* clears: no two entries share a URL, whatever their methods and domains, what is
\* queued or in flight is marked and was not handed out, and a request about to
\* be marked is not. (Two enqueuers break that.)
OnceInv ==
    /\ \A c, d \in Domains : \A e \in queues[c], f \in queues[d] :
          e.item.url = f.item.url => c = d /\ e = f
    /\ QueuedUrls \cap InFlightUrls = {}
    /\ QueuedUrls \cup InFlightUrls \subseteq seen
    /\ ~Clearing => handed \subseteq seen \ (QueuedUrls \cup InFlightUrls)
    /\ \A c \in Enqueuers : pc[c] = "mark" => arg[c].url \notin seen

\* This scheduler, too, implements the frontier. A URL waits from the moment it is
\* marked, and is taken when next pops it; clear, which goes through four
\* Mutexes, forgets them all when it empties the queues.
F == INSTANCE Frontier WITH
        waiting <- QueuedUrls \cup InFlightUrls,
        taken   <- IF Clearing THEN {} ELSE handed

ImplementsFrontier == F!Spec

-----------------------------------------------------------------------------
(* Why: the parts of the inductive invariant. *)

\* Who is inside which call, and which Mutexes it holds there.
LocksInPlace ==
    \A c \in Callers :
        /\ pc[c] \in {"mark", "push", "list"} => c \in Enqueuers /\ arg[c] \in Requests
        /\ pc[c] \in Trying \cup {"popping", "stamping", "counting"} => c \in Takers
        /\ pc[c] \in Trying \cup {"stamping", "counting"} => cur[c] \in Domains
        /\ pc[c] \in {"clearDomains", "clearTimes", "clearCounts"} => c \in Clearers
        /\ dq = c <=> pc[c] \in {"list", "clearDomains", "clearTimes", "clearCounts"}
        /\ dpq = c <=> pc[c] \in Trying \cup {"popping", "clearTimes", "clearCounts"}

\* While the queues are cleared they stay empty, and soon the list is empty too.
ClearedInPlace ==
    \A c \in Clearers :
        /\ pc[c] \in {"clearDomains", "clearTimes", "clearCounts"} =>
              \A d \in Domains : queues[d] = {}
        /\ pc[c] \in {"clearTimes", "clearCounts"} => listed = {}

\* A listed or popped domain has requests, the first of which has the priority of
\* the domain, unless its queue has changed and the list has not caught up.
Settled(d) == ~Filing(d) /\ \A c \in Clearers : pc[c] # "clearDomains"

RanksExact ==
    \A d \in listed \cup Tried : Settled(d) => \E e \in Highest(queues[d]) : e.rank = rank[d]

\* The popped domain has the highest priority and is not listed any more.
TriedFirst ==
    \A c \in Takers : pc[c] \in Trying =>
        cur[c] \notin listed /\ \A d \in listed : rank[d] <= rank[cur[c]]

\* What is handed out is counted, or about to be; and a taker that passed the
\* test of the limit leaves room for itself.
Pending(d) == {c \in Takers : pc[c] \in {"stamping", "counting"} /\ cur[c] = d}

CountsInPlace ==
    /\ \A d \in Domains : started[d] <= counts[d] + Cardinality(Pending(d))
    /\ Limit > 0 => \A c \in Takers : pc[c] \in {"timing", "delaying", "taking"} =>
          counts[cur[c]] + Cardinality(Pending(cur[c])) <= Limit + Cardinality(Takers) - 2

\* The time a taker sees is no longer than the time since its own request.
PacedInv ==
    \A c \in Takers :
        /\ \A d \in Domains :
              age[d] <= since[<<c, d>>] \/ (pc[c] = "stamping" /\ cur[c] = d)
        /\ pc[c] = "taking" => since[<<c, cur[c]>>] = Delay

IInv ==
    /\ TypeOK /\ LocksInPlace /\ ClearedInPlace
    /\ NoUrlLost /\ DomainsListed /\ RanksExact /\ TriedFirst
    /\ CountsInPlace /\ OverrunBounded /\ PacedInv
=============================================================================
