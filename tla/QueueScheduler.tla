--------------------------- MODULE QueueScheduler ---------------------------
(***************************************************************************)
(* The four single-queue schedulers of the crate scheduler:                *)
(*                                                                         *)
(*   MemoryScheduler         Discipline = "priority"                       *)
(*   FifoScheduler           Discipline = "fifo"                           *)
(*   BreadthFirstScheduler   Discipline = "fifo", with MaxDepth            *)
(*   DepthFirstScheduler     Discipline = "lifo", with MaxDepth            *)
(*                                                                         *)
(* They share one shape: a DashSet of seen URLs that is read and written   *)
(* without holding a lock across the two, and one Mutex around the queue.  *)
(* An enqueue is therefore three separate steps (has_seen, mark_seen,      *)
(* push), and any number of callers may be between them.                   *)
(***************************************************************************)
EXTENDS Integers, Sequences, FiniteSets

CONSTANTS
    Urls,        \* the URLs in play
    Requests,    \* the requests callers may offer
    NoRequest,   \* the argument of a caller that is not inside enqueue
    Enqueuers,   \* the tasks that call enqueue ...
    Takers,      \* ... next ...
    Clearers,    \* ... and clear; one task may be in several of the sets
    NoCaller,    \* the holder of a free Mutex
    Discipline,  \* which end of the queue next() serves
    MaxDepth     \* max_depth of the BFS and DFS schedulers, -1 for None

Callers == Enqueuers \cup Takers \cup Clearers

SchedulerConstants ==
    /\ Requests \subseteq [url: Urls, method: {"GET", "POST"},
                           depth: Int, priority: Int]
    /\ NoRequest \notin Requests
    /\ NoCaller \notin Callers
    /\ Discipline \in {"fifo", "lifo", "priority"}
    /\ MaxDepth \in Nat \cup {-1}

ASSUME SchedulerAssumption == SchedulerConstants

VARIABLES
    seen,    \* seen_urls
    queue,   \* the queue: each request with the priority it is filed under
    lock,    \* the task holding the queue's Mutex across an await or a call
    step,    \* where each caller stands inside its call
    arg,     \* the request it is enqueueing
    handed   \* history: how often next() returned a URL since the last clear

vars == <<seen, queue, lock, step, arg, handed>>

Entries == [item: Requests, rank: Int]

TypeOK ==
    /\ seen \subseteq Urls
    /\ queue \in Seq(Entries)
    /\ lock \in Clearers \cup {NoCaller}
    /\ step \in [Callers -> {"idle", "mark", "push", "wipe"}]
    /\ arg \in [Callers -> Requests \cup {NoRequest}]
    /\ handed \in [Urls -> Nat]

Init ==
    /\ seen = {}
    /\ queue = <<>>
    /\ lock = NoCaller
    /\ step = [c \in Callers |-> "idle"]
    /\ arg = [c \in Callers |-> NoRequest]
    /\ handed = [u \in Urls |-> 0]

-----------------------------------------------------------------------------
(* enqueue *)

\* "depth_value as usize > max_depth": a negative depth wraps to a huge usize.
TooDeep(r) == MaxDepth # -1 /\ (r.depth < 0 \/ r.depth > MaxDepth)

\* The tests of enqueue up to its decision to accept the request; a request
\* that fails one returns Ok(()) and changes nothing. The read of seen_urls and
\* the later insertion are not one step.
HasSeen(c, r) ==
    /\ step[c] = "idle"
    /\ r.url \notin seen /\ ~TooDeep(r)
    /\ step' = [step EXCEPT ![c] = "mark"]
    /\ arg' = [arg EXCEPT ![c] = r]
    /\ UNCHANGED <<seen, queue, lock, handed>>

MarkSeen(c) ==
    /\ step[c] = "mark"
    /\ seen' = seen \cup {arg[c].url}
    /\ step' = [step EXCEPT ![c] = "push"]
    /\ UNCHANGED <<queue, lock, arg, handed>>

\* Equality of requests, as the PriorityQueue sees it.
SameRequest(r, s) == r.url = s.url /\ r.method = s.method

\* PriorityQueue::push keeps an equal item that is queued already and only
\* files it under the new priority; Vec::push appends whatever it is given.
File(q, r) ==
    LET twins == {i \in DOMAIN q : SameRequest(q[i].item, r)}
    IN  IF Discipline = "priority" /\ twins # {}
        THEN [i \in DOMAIN q |->
                IF i \in twins THEN [q[i] EXCEPT !.rank = r.priority] ELSE q[i]]
        ELSE Append(q, [item |-> r, rank |-> r.priority])

\* The Mutex is taken, the request filed and the Mutex released without an
\* await in between.
Push(c) ==
    /\ step[c] = "push"
    /\ lock = NoCaller
    /\ queue' = File(queue, arg[c])
    /\ step' = [step EXCEPT ![c] = "idle"]
    /\ arg' = [arg EXCEPT ![c] = NoRequest]
    /\ UNCHANGED <<seen, lock, handed>>

-----------------------------------------------------------------------------
(* next and clear *)

\* The positions next() may serve; ties between equal priorities are broken
\* by the heap's layout, which the code leaves open.
Ready ==
    CASE Discipline = "fifo" -> {1}
      [] Discipline = "lifo" -> {Len(queue)}
      [] OTHER -> {i \in DOMAIN queue :
                     \A j \in DOMAIN queue : queue[j].rank <= queue[i].rank}

Without(q, i) == [j \in 1 .. (Len(q) - 1) |-> IF j < i THEN q[j] ELSE q[j + 1]]

\* On an empty queue next() returns None and changes nothing.
TakeAt(c, i) ==
    /\ step[c] = "idle"
    /\ lock = NoCaller
    /\ queue # <<>>
    /\ i \in Ready
    /\ queue' = Without(queue, i)
    /\ handed' = [handed EXCEPT ![queue[i].item.url] = @ + 1]
    /\ UNCHANGED <<seen, lock, step, arg>>

TakeRequest(c) == \E i \in DOMAIN queue : TakeAt(c, i)

\* Mutation: the Mutex is released before the seen set is cleared.
ClearQueueUnlocked(c) ==
    /\ step[c] = "idle"
    /\ lock = NoCaller
    /\ queue' = <<>>
    /\ handed' = [u \in Urls |-> 0]
    /\ step' = [step EXCEPT ![c] = "wipe"]
    /\ UNCHANGED <<seen, lock, arg>>

\* clear() empties the queue under the Mutex and, still holding it, the set of
\* seen URLs, which nobody reads or writes under that Mutex.
ClearQueue(c) ==
    /\ step[c] = "idle"
    /\ lock = NoCaller
    /\ lock' = c
    /\ queue' = <<>>
    /\ handed' = [u \in Urls |-> 0]
    /\ step' = [step EXCEPT ![c] = "wipe"]
    /\ UNCHANGED <<seen, arg>>

ClearSeen(c) ==
    /\ step[c] = "wipe"
    /\ seen' = {}
    /\ lock' = NoCaller
    /\ step' = [step EXCEPT ![c] = "idle"]
    /\ UNCHANGED <<queue, arg, handed>>

-----------------------------------------------------------------------------
Enqueue(c) ==
    \/ \E r \in Requests : HasSeen(c, r)
    \/ MarkSeen(c)
    \/ Push(c)

Clear(c) == ClearQueue(c) \/ ClearSeen(c)

Next ==
    \/ \E c \in Enqueuers : Enqueue(c)
    \/ \E c \in Takers : TakeRequest(c)
    \/ \E c \in Clearers : Clear(c)

Spec == Init /\ [][Next]_vars

-----------------------------------------------------------------------------
(* Properties *)

QueuedUrls == {queue[i].item.url : i \in DOMAIN queue}

\* URLs marked as seen whose request is still on its way into the queue.
InFlightUrls == {arg[c].url : c \in {d \in Enqueuers : step[d] = "push"}}

\* A URL the scheduler refuses from now on is never lost: whatever callers race,
\* outside a clear() it is queued, was handed out by next(), or is between
\* mark_seen and push in some caller.
NoUrlLost ==
    lock = NoCaller =>
        \A u \in seen : u \in QueuedUrls \cup InFlightUrls \/ handed[u] > 0

\* Who is inside which call: the strengthening that makes NoUrlLost inductive.
CallsWellFormed ==
    \A c \in Callers :
        /\ step[c] \in {"mark", "push"} => c \in Enqueuers /\ arg[c] \in Requests
        /\ step[c] = "wipe" => lock = c

IInv == TypeOK /\ CallsWellFormed /\ NoUrlLost

\* One hand-out per URL between two clears: the purpose of seen_urls.
HandedOutOnce == \A u \in Urls : handed[u] <= 1

\* Why one hand-out per URL holds when a single task enqueues and clears: a URL
\* is in at most one of queue, push and hand-out, all of them are marked, and a
\* request about to be marked is not. (Two enqueuers break that.)
OnceInv ==
    /\ \A i, j \in DOMAIN queue : queue[i].item.url = queue[j].item.url => i = j
    /\ QueuedUrls \cap InFlightUrls = {}
    /\ QueuedUrls \cup InFlightUrls \subseteq seen
    /\ \A u \in Urls : handed[u] > 0 =>
            handed[u] = 1 /\ u \in seen \ (QueuedUrls \cup InFlightUrls)
    /\ \A c \in Enqueuers : step[c] = "mark" => arg[c].url \notin seen
    /\ lock # NoCaller => queue = <<>> /\ \A u \in Urls : handed[u] = 0

\* The scheduler implements the frontier. A URL waits from the moment it is
\* marked, and is taken when next() returns it.
F == INSTANCE Frontier WITH
        waiting <- QueuedUrls \cup InFlightUrls,
        taken   <- {u \in Urls : handed[u] > 0}

ImplementsFrontier == F!Spec
=============================================================================
