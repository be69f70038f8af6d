------------------------------- MODULE Engine -------------------------------
(***************************************************************************)
(* Engine::run: the main loop that hands requests of the scheduler to      *)
(* spawned tasks, the tasks themselves, and the item processor.            *)
(*                                                                         *)
(* Every actor is a tokio task, so any interleaving of their awaits is a   *)
(* behaviour. The scheduler is module QueueScheduler: Main and the tasks   *)
(* are its callers, and their enqueue calls keep its three steps.          *)
(***************************************************************************)
EXTENDS Integers, Sequences, FiniteSets

CONSTANTS
    Urls, Requests, NoRequest, NoCaller, Discipline, MaxDepth,  \* QueueScheduler
    Tasks,               \* identities for the spawned tasks, reused once reaped
    Main,                \* the task that runs Engine::run
    ConcurrentRequests,  \* config.concurrent_requests
    ConcurrentItems,     \* config.concurrent_items: capacity of the item channel
    StartRequests,       \* what spider.start_requests() yields
    Links,               \* the requests spider.parse finds on a page, by URL
    Items,               \* how many items it scrapes from a page, by URL
    Domains, DomainOf,   \* the download slots, and the slot of each URL
    Faults,              \* the stages that may fail
    ErrorActions,        \* what error_manager.handle_error may decide
    MaxSignals           \* bound on the EnginePaused/EngineResumed signals sent

Actors == Tasks \cup {Main}

Stages == {"start", "request", "download", "response", "meta", "parse", "item"}

VARIABLES
    seen, queue, lock, step, arg, handed,   \* the scheduler
    main,      \* where run() stands
    seeds,     \* start requests not enqueued yet
    current,   \* the request run() got from next(), or is to retry
    active,    \* active_tasks
    aborted,   \* history: run() left its loop on ErrorAction::Abort
    pc,        \* where each task stands
    req,       \* the request of each task
    out,       \* the requests it still has to enqueue
    left,      \* the items it still has to send
    slots,     \* the queue of each download slot
    channel,   \* the number of items in the item channel
    item,      \* where the item processor stands
    running,   \* the running flag
    setters,   \* spawned signal handlers that have yet to set running
    sent,      \* signals sent so far
    stats,     \* request_count, response_count, item_count and error_count
    scraped,   \* history: items accepted by the channel
    parsed     \* history: URLs whose page was parsed

schedVars   == <<seen, queue, lock, step, arg, handed>>
mainVars    == <<main, seeds, current, active, aborted>>
taskVars    == <<pc, req, out, left, slots, parsed>>
itemVars    == <<channel, item, scraped>>
controlVars == <<running, setters, sent>>
vars == <<schedVars, mainVars, taskVars, itemVars, controlVars, stats>>

S == INSTANCE QueueScheduler WITH
        Enqueuers <- Actors, Takers <- {Main}, Clearers <- {}

\* "skip" stands for Skip, Ignore and an error of the handler itself: the three
\* only log.
ASSUME EngineAssumption ==
    /\ S!SchedulerConstants
    /\ IsFiniteSet(Tasks) /\ Main \notin Tasks
    /\ ConcurrentRequests \in 0 .. Cardinality(Tasks)
    /\ ConcurrentItems \in Nat \ {0}
    /\ StartRequests \subseteq Requests
    /\ Links \in [Urls -> SUBSET Requests]
    /\ Items \in [Urls -> Nat]
    /\ DomainOf \in [Urls -> Domains]
    /\ Faults \subseteq Stages
    /\ ErrorActions \subseteq {"retry", "abort", "skip"}
    /\ MaxSignals \in Nat

MainStates == {"seed", "reseed", "loop", "fill", "request", "counted", "refill",
               "wait", "reap", "items", "close", "closed", "failed", "parked"}

TaskStates == {"free", "begin", "queued", "download", "responded", "accepted",
               "parsed", "links", "linked", "sending", "retry", "done", "parked"}

Counters == [request: Nat, response: Nat, item: Nat, error: Nat]

TypeOK ==
    /\ S!TypeOK
    /\ main \in MainStates
    /\ seeds \subseteq Requests
    /\ current \in Requests \cup {NoRequest}
    /\ active \in Nat
    /\ aborted \in BOOLEAN
    /\ pc \in [Tasks -> TaskStates]
    /\ req \in [Tasks -> Requests \cup {NoRequest}]
    /\ out \in [Tasks -> SUBSET Requests]
    /\ left \in [Tasks -> Nat]
    /\ slots \in [Domains -> Seq(Requests)]
    /\ channel \in 0 .. ConcurrentItems
    /\ item \in {"recv", "process", "done", "parked"}
    /\ running \in BOOLEAN
    /\ setters \in [BOOLEAN -> Nat]
    /\ sent \in 0 .. MaxSignals
    /\ stats \in Counters
    /\ scraped \in Nat
    /\ parsed \subseteq Urls

Init ==
    /\ S!Init
    /\ main = "seed"
    /\ seeds = StartRequests
    /\ current = NoRequest
    /\ active = 0
    /\ aborted = FALSE
    /\ pc = [t \in Tasks |-> "free"]
    /\ req = [t \in Tasks |-> NoRequest]
    /\ out = [t \in Tasks |-> {}]
    /\ left = [t \in Tasks |-> 0]
    /\ slots = [d \in Domains |-> <<>>]
    /\ channel = 0
    /\ item = "recv"
    /\ running = TRUE
    /\ setters = [b \in BOOLEAN |-> 0]
    /\ sent = 0
    /\ stats = [request |-> 0, response |-> 0, item |-> 0, error |-> 0]
    /\ scraped = 0
    /\ parsed = {}

\* The spawned tasks that FuturesUnordered still holds.
Live == {t \in Tasks : pc[t] # "free"}

Error == stats' = [stats EXCEPT !.error = @ + 1]

May(stage, action) == stage \in Faults /\ action \in ErrorActions

-----------------------------------------------------------------------------
(* run(): start requests. *)

\* scheduler.enqueue(r) by actor a, one disjunct per step of the call. Returned
\* says when the call comes back: at once if the scheduler drops the request.
Returns(a, r) ==
    \/ /\ step[a] = "idle"
       /\ r.url \in seen \/ S!TooDeep(r)
       /\ UNCHANGED schedVars
    \/ arg[a] = r /\ S!Push(a)

Proceeds(a, r) ==
    \/ S!HasSeen(a, r)
    \/ arg[a] = r /\ S!MarkSeen(a)

\* The request run() is enqueueing: a start request, or one to retry.
Offered(r) ==
    \/ main = "seed" /\ r \in seeds
    \/ main \in {"reseed", "refill"} /\ r = current

MainEnqueues(r) ==
    /\ Offered(r)
    /\ Proceeds(Main, r)
    /\ UNCHANGED <<mainVars, taskVars, itemVars, controlVars, stats>>

MainEnqueued(r) ==
    /\ Offered(r)
    /\ Returns(Main, r)
    /\ seeds' = seeds \ {r}
    /\ current' = NoRequest
    /\ main' = IF main = "refill" THEN "fill" ELSE "seed"
    /\ UNCHANGED <<active, aborted, taskVars, itemVars, controlVars, stats>>

\* start_requests() yields an Err where r was due. Retry enqueues the request
\* the error handler names; Abort makes run() return early, with running still
\* set and nothing closed.
SeedFails(r) ==
    /\ main = "seed" /\ r \in seeds /\ step[Main] = "idle"
    /\ Error
    /\ seeds' = seeds \ {r}
    /\ \/ May("start", "retry") /\ main' = "reseed" /\ current' = r
       \/ May("start", "abort") /\ main' = "failed" /\ UNCHANGED current
       \/ May("start", "skip") /\ UNCHANGED <<main, current>>
    /\ UNCHANGED <<active, aborted, schedVars, taskVars, itemVars, controlVars>>

StartCrawl ==
    /\ main = "seed" /\ seeds = {}
    /\ main' = "loop"
    /\ UNCHANGED <<seeds, current, active, aborted>>
    /\ UNCHANGED <<schedVars, taskVars, itemVars, controlVars, stats>>

-----------------------------------------------------------------------------
(* run(): the main loop. *)

SchedulerEmpty == queue = <<>>

MainGoes(from, to) ==
    /\ main = from /\ main' = to
    /\ UNCHANGED <<seeds, current, active, aborted>>
    /\ UNCHANGED <<schedVars, taskVars, itemVars, controlVars, stats>>

\* Mutation: the loop condition forgets the tasks in flight.
MoreToDoQueueOnly == ~SchedulerEmpty

MoreToDo == ~SchedulerEmpty \/ active > 0 \/ Live # {}

EnterLoop == MoreToDo /\ running /\ MainGoes("loop", "fill")

\* pause_notify.notified() is only answered by resume() and close(), and neither
\* can be called while run() holds the engine: a parked actor stays parked.
MainParks == MoreToDo /\ ~running /\ MainGoes("loop", "parked")

LeaveLoop == ~MoreToDo /\ MainGoes("loop", "reap")

MayStartMore == active < ConcurrentRequests /\ ~SchedulerEmpty /\ running

TakeNext ==
    /\ main = "fill" /\ MayStartMore
    /\ \E i \in DOMAIN queue : S!TakeAt(Main, i) /\ current' = queue[i].item
    /\ main' = "request"
    /\ UNCHANGED <<seeds, active, aborted>>
    /\ UNCHANGED <<taskVars, itemVars, controlVars, stats>>

StopFilling == ~MayStartMore /\ MainGoes("fill", "wait")

\* The request middlewares accept the request, and it is counted.
CountRequest ==
    /\ main = "request" /\ main' = "counted"
    /\ stats' = [stats EXCEPT !.request = @ + 1]
    /\ UNCHANGED <<seeds, current, active, aborted>>
    /\ UNCHANGED <<schedVars, taskVars, itemVars, controlVars>>

\* Mutation: active_tasks is not incremented.
PushTaskUncounted == active' = active

\* The spawned task goes into FuturesUnordered.
PushTask == active' = active + 1

\* When its slot is found, and was given time if need be, a task is spawned for it.
SpawnTask(t) ==
    /\ main = "counted" /\ pc[t] = "free"
    /\ pc' = [pc EXCEPT ![t] = "begin"]
    /\ req' = [req EXCEPT ![t] = current]
    /\ PushTask
    /\ main' = "fill"
    /\ current' = NoRequest
    /\ UNCHANGED <<seeds, aborted, out, left, slots, parsed>>
    /\ UNCHANGED <<schedVars, itemVars, controlVars, stats>>

\* They reject it. Abort is the one error action that ends the crawl.
RejectRequest ==
    /\ main = "request"
    /\ Error
    /\ \/ May("request", "retry") /\ main' = "refill" /\ UNCHANGED <<current, aborted>>
       \/ May("request", "abort") /\ main' = "reap" /\ aborted' = TRUE /\ current' = NoRequest
       \/ May("request", "skip") /\ main' = "fill" /\ current' = NoRequest /\ UNCHANGED aborted
    /\ UNCHANGED <<seeds, active, schedVars, taskVars, itemVars, controlVars>>

\* Mutation: active_tasks is not decremented when a task is reaped.
ReapsUncounted(t, to) ==
    /\ pc[t] = "done"
    /\ pc' = [pc EXCEPT ![t] = "free"]
    /\ req' = [req EXCEPT ![t] = NoRequest]
    /\ main' = to
    /\ UNCHANGED <<seeds, current, active, aborted, out, left, slots, parsed>>
    /\ UNCHANGED <<schedVars, itemVars, controlVars, stats>>

\* Mutation: it is decremented a second time.
ReapsTwice(t, to) ==
    /\ pc[t] = "done"
    /\ pc' = [pc EXCEPT ![t] = "free"]
    /\ req' = [req EXCEPT ![t] = NoRequest]
    /\ active' = active - 2
    /\ main' = to
    /\ UNCHANGED <<seeds, current, aborted, out, left, slots, parsed>>
    /\ UNCHANGED <<schedVars, itemVars, controlVars, stats>>

\* tasks.next() returns: a finished task leaves FuturesUnordered.
Reaps(t, to) ==
    /\ pc[t] = "done"
    /\ pc' = [pc EXCEPT ![t] = "free"]
    /\ req' = [req EXCEPT ![t] = NoRequest]
    /\ active' = active - 1
    /\ main' = to
    /\ UNCHANGED <<seeds, current, aborted, out, left, slots, parsed>>
    /\ UNCHANGED <<schedVars, itemVars, controlVars, stats>>

AwaitTask(t) == main = "wait" /\ Reaps(t, "loop")

NothingLeft ==
    /\ Live = {} /\ active = 0 /\ SchedulerEmpty
    /\ MainGoes("wait", "reap")

ShortSleep ==
    /\ Live = {} /\ ~(active = 0 /\ SchedulerEmpty)
    /\ MainGoes("wait", "loop")

-----------------------------------------------------------------------------
(* run(): after the loop. *)

AwaitRest(t) == main = "reap" /\ Reaps(t, "reap")

CloseChannel == Live = {} /\ MainGoes("reap", "items")

AwaitItems == item = "done" /\ MainGoes("items", "close")

CloseEngine ==
    /\ main = "close" /\ main' = "closed"
    /\ running' = FALSE
    /\ UNCHANGED <<seeds, current, active, aborted, setters, sent>>
    /\ UNCHANGED <<schedVars, taskVars, itemVars, stats>>

MainStep ==
    \/ \E r \in Requests : MainEnqueues(r) \/ MainEnqueued(r) \/ SeedFails(r)
    \/ StartCrawl \/ EnterLoop \/ MainParks \/ LeaveLoop
    \/ TakeNext \/ StopFilling \/ CountRequest \/ RejectRequest \/ NothingLeft \/ ShortSleep
    \/ \E t \in Tasks : SpawnTask(t) \/ AwaitTask(t) \/ AwaitRest(t)
    \/ CloseChannel \/ AwaitItems \/ CloseEngine

-----------------------------------------------------------------------------
(* A spawned task. *)

TaskGoes(t, from, to) == pc[t] = from /\ pc' = [pc EXCEPT ![t] = to]

\* The places where a task tests the running flag before going on.
Checkpoints == {"begin", "responded", "accepted", "parsed", "linked"}

TaskParks(t) ==
    /\ pc[t] \in Checkpoints /\ ~running
    /\ pc' = [pc EXCEPT ![t] = "parked"]
    /\ UNCHANGED <<req, out, left, slots, parsed>>
    /\ UNCHANGED <<schedVars, mainVars, itemVars, controlVars, stats>>

AddToSlot(t) ==
    LET d == DomainOf[req[t].url] IN
    /\ running /\ TaskGoes(t, "begin", "queued")
    /\ slots' = [slots EXCEPT ![d] = Append(@, req[t])]
    /\ UNCHANGED <<req, out, left, parsed>>
    /\ UNCHANGED <<schedVars, mainVars, itemVars, controlVars, stats>>

\* Mutation: next_request looks at the first request without removing it.
TakeFromSlotPeeking(t) ==
    /\ TaskGoes(t, "queued", "download")
    /\ req' = [req EXCEPT ![t] = Head(slots[DomainOf[req[t].url]])]
    /\ UNCHANGED <<out, left, slots, parsed>>
    /\ UNCHANGED <<schedVars, mainVars, itemVars, controlVars, stats>>

\* Whichever request is first in the slot: not always the one the task added.
TakeFromSlot(t) ==
    LET d == DomainOf[req[t].url] IN
    /\ pc[t] = "queued"
    /\ IF slots[d] = <<>>
       THEN TaskGoes(t, "queued", "done") /\ UNCHANGED <<slots, req>>
       ELSE /\ TaskGoes(t, "queued", "download")
            /\ req' = [req EXCEPT ![t] = Head(slots[d])]
            /\ slots' = [slots EXCEPT ![d] = Tail(@)]
    /\ UNCHANGED <<out, left, parsed>>
    /\ UNCHANGED <<schedVars, mainVars, itemVars, controlVars, stats>>

\* The decision of the error manager inside a task: Abort is only logged there.
Handle(t, stage) ==
    \/ /\ May(stage, "retry")
       /\ pc' = [pc EXCEPT ![t] = "retry"]
       /\ out' = [out EXCEPT ![t] = {req[t]}]
    \/ /\ May(stage, "abort") \/ May(stage, "skip")
       /\ pc' = [pc EXCEPT ![t] = "done"]
       /\ UNCHANGED out

Download(t) ==
    /\ TaskGoes(t, "download", "responded")
    /\ UNCHANGED <<req, out, left, slots, parsed>>
    /\ UNCHANGED <<schedVars, mainVars, itemVars, controlVars, stats>>

\* Mutation: a failed download is not counted.
DownloadFailsUncounted(t) ==
    /\ pc[t] = "download"
    /\ Handle(t, "download")
    /\ UNCHANGED <<req, left, slots, parsed, stats>>
    /\ UNCHANGED <<schedVars, mainVars, itemVars, controlVars>>

DownloadFails(t) ==
    /\ pc[t] = "download"
    /\ Error /\ Handle(t, "download")
    /\ UNCHANGED <<req, left, slots, parsed>>
    /\ UNCHANGED <<schedVars, mainVars, itemVars, controlVars>>

AcceptResponse(t) ==
    /\ running /\ TaskGoes(t, "responded", "accepted")
    /\ stats' = [stats EXCEPT !.response = @ + 1]
    /\ UNCHANGED <<req, out, left, slots, parsed>>
    /\ UNCHANGED <<schedVars, mainVars, itemVars, controlVars>>

RejectResponse(t) ==
    /\ running /\ pc[t] = "responded"
    /\ stats' = [stats EXCEPT !.response = @ + 1, !.error = @ + 1]
    /\ Handle(t, "response")
    /\ UNCHANGED <<req, left, slots, parsed>>
    /\ UNCHANGED <<schedVars, mainVars, itemVars, controlVars>>

\* A response middleware left a "retry_request" in the metadata.
RetryByMeta(t) ==
    /\ running /\ "meta" \in Faults
    /\ TaskGoes(t, "accepted", "retry")
    /\ out' = [out EXCEPT ![t] = {req[t]}]
    /\ UNCHANGED <<req, left, slots, parsed>>
    /\ UNCHANGED <<schedVars, mainVars, itemVars, controlVars, stats>>

Parse(t) ==
    LET u == req[t].url IN
    /\ running /\ TaskGoes(t, "accepted", "parsed")
    /\ out' = [out EXCEPT ![t] = Links[u]]
    /\ left' = [left EXCEPT ![t] = Items[u]]
    /\ parsed' = parsed \cup {u}
    /\ UNCHANGED <<req, slots>>
    /\ UNCHANGED <<schedVars, mainVars, itemVars, controlVars, stats>>

ParseFails(t) ==
    /\ running /\ pc[t] = "accepted"
    /\ Error /\ Handle(t, "parse")
    /\ UNCHANGED <<req, left, slots, parsed>>
    /\ UNCHANGED <<schedVars, mainVars, itemVars, controlVars>>

FollowLinks(t) ==
    /\ running /\ TaskGoes(t, "parsed", "links")
    /\ UNCHANGED <<req, out, left, slots, parsed>>
    /\ UNCHANGED <<schedVars, mainVars, itemVars, controlVars, stats>>

TaskEnqueues(t, r) ==
    /\ pc[t] \in {"links", "retry"} /\ r \in out[t]
    /\ Proceeds(t, r)
    /\ UNCHANGED <<mainVars, taskVars, itemVars, controlVars, stats>>

\* Mutation: parsing ends with the first link the scheduler answers for.
TaskEnqueuedOnce(t, r) ==
    /\ pc[t] \in {"links", "retry"} /\ r \in out[t]
    /\ Returns(t, r)
    /\ out' = [out EXCEPT ![t] = {}]
    /\ pc' = IF pc[t] = "retry" THEN [pc EXCEPT ![t] = "done"] ELSE pc
    /\ UNCHANGED <<req, left, slots, parsed>>
    /\ UNCHANGED <<mainVars, itemVars, controlVars, stats>>

TaskEnqueued(t, r) ==
    /\ pc[t] \in {"links", "retry"} /\ r \in out[t]
    /\ Returns(t, r)
    /\ out' = [out EXCEPT ![t] = @ \ {r}]
    /\ pc' = IF pc[t] = "retry" THEN [pc EXCEPT ![t] = "done"] ELSE pc
    /\ UNCHANGED <<req, left, slots, parsed>>
    /\ UNCHANGED <<mainVars, itemVars, controlVars, stats>>

LinksDone(t) ==
    /\ out[t] = {} /\ TaskGoes(t, "links", "linked")
    /\ UNCHANGED <<req, out, left, slots, parsed>>
    /\ UNCHANGED <<schedVars, mainVars, itemVars, controlVars, stats>>

StartSending(t) ==
    /\ running
    /\ TaskGoes(t, "linked", IF left[t] = 0 THEN "done" ELSE "sending")
    /\ UNCHANGED <<req, out, left, slots, parsed>>
    /\ UNCHANGED <<schedVars, mainVars, itemVars, controlVars, stats>>

\* item_tx.send waits while the channel is full.
SendItem(t) ==
    /\ TaskGoes(t, "sending", IF left[t] = 1 THEN "done" ELSE "sending")
    /\ channel < ConcurrentItems
    /\ channel' = channel + 1
    /\ scraped' = scraped + 1
    /\ left' = [left EXCEPT ![t] = @ - 1]
    /\ UNCHANGED <<req, out, slots, parsed, item>>
    /\ UNCHANGED <<schedVars, mainVars, controlVars, stats>>

TaskStep(t) ==
    \/ TaskParks(t) \/ AddToSlot(t) \/ TakeFromSlot(t)
    \/ Download(t) \/ DownloadFails(t)
    \/ AcceptResponse(t) \/ RejectResponse(t)
    \/ RetryByMeta(t) \/ Parse(t) \/ ParseFails(t) \/ FollowLinks(t)
    \/ \E r \in Requests : TaskEnqueues(t, r) \/ TaskEnqueued(t, r)
    \/ LinksDone(t) \/ StartSending(t) \/ SendItem(t)

-----------------------------------------------------------------------------
(* The item processor. *)

ReceiveItem ==
    /\ item = "recv" /\ channel > 0
    /\ channel' = channel - 1
    /\ item' = "process"
    /\ UNCHANGED <<scraped, schedVars, mainVars, taskVars, controlVars, stats>>

ProcessItem ==
    /\ item = "process" /\ running
    /\ item' = "recv"
    /\ \/ stats' = [stats EXCEPT !.item = @ + 1]
       \/ "item" \in Faults /\ Error
    /\ UNCHANGED <<channel, scraped, schedVars, mainVars, taskVars, controlVars>>

\* Mutation: a pause ends the processor.
ItemEndsPaused ==
    /\ item = "process" /\ ~running
    /\ item' = "done"
    /\ UNCHANGED <<channel, scraped, schedVars, mainVars, taskVars, controlVars, stats>>

ItemParks ==
    /\ item = "process" /\ ~running
    /\ item' = "parked"
    /\ UNCHANGED <<channel, scraped, schedVars, mainVars, taskVars, controlVars, stats>>

\* Mutation: the processor stops as soon as the channel's senders are gone.
EndItemsEarly ==
    /\ item = "recv"
    /\ main = "items" /\ Live = {}
    /\ item' = "done"
    /\ UNCHANGED <<channel, scraped, schedVars, mainVars, taskVars, controlVars, stats>>

\* recv() returns None once the channel is empty and its last sender dropped.
EndItems ==
    /\ item = "recv" /\ channel = 0
    /\ main = "items" /\ Live = {}
    /\ item' = "done"
    /\ UNCHANGED <<channel, scraped, schedVars, mainVars, taskVars, controlVars, stats>>

ItemStep == ReceiveItem \/ ProcessItem \/ ItemParks \/ EndItems

-----------------------------------------------------------------------------
(* Signals. Their handlers spawn a task that sets the flag some time later. *)

SendSignal(b) ==
    /\ sent < MaxSignals
    /\ main \notin {"closed", "failed"}
    /\ sent' = sent + 1
    /\ setters' = [setters EXCEPT ![b] = @ + 1]
    /\ UNCHANGED <<running, schedVars, mainVars, taskVars, itemVars, stats>>

SetRunning(b) ==
    /\ setters[b] > 0
    /\ setters' = [setters EXCEPT ![b] = @ - 1]
    /\ running' = b
    /\ UNCHANGED <<sent, schedVars, mainVars, taskVars, itemVars, stats>>

Over == main \in {"closed", "failed"} /\ UNCHANGED vars

Next ==
    \/ MainStep
    \/ \E t \in Tasks : TaskStep(t)
    \/ ItemStep
    \/ \E b \in BOOLEAN : SendSignal(b) \/ SetRunning(b)
    \/ Over

Spec == Init /\ [][Next]_vars

\* Tokio polls every task that is ready, downloads and parses return, and a
\* spawned setter gets the flag's lock.
Fairness ==
    /\ WF_vars(MainStep)
    /\ \A t \in Tasks : WF_vars(TaskStep(t))
    /\ WF_vars(ItemStep)
    /\ \A b \in BOOLEAN : WF_vars(SetRunning(b))

FairSpec == Spec /\ Fairness

-----------------------------------------------------------------------------
(* Properties *)

\* The counter that decides how many tasks may start and when run() ends is the
\* number of tasks FuturesUnordered holds, and never exceeds the limit.
ActiveTasksExact ==
    /\ active = Cardinality(Live)
    /\ active <= ConcurrentRequests

\* Main is busy with the request it got from next(), up to its task.
MainHolds == current # NoRequest /\ main # "reseed"

Busy == {t \in Tasks : pc[t] \notin {"free", "done"}} \cup {m \in {Main} : MainHolds}

Phase == CASE main \in {"seed", "reseed"} -> "seeding"
           [] main = "failed" \/ aborted -> "aborted"
           [] main \in {"reap", "items", "close", "closed"} /\ ~aborted -> "finished"
           [] OTHER -> "crawling"

\* run() is a crawl: it stops looking for work only when no request waits in
\* the scheduler and no task can add one, unless it aborts.
C == INSTANCE Crawl WITH
        Workers <- Actors, waiting <- Len(queue), busy <- Busy, phase <- Phase

ImplementsCrawl == C!Spec

\* A page that was parsed has had all its links offered by the time the engine
\* closes: each is marked as seen and was handed out, or is beyond the depth
\* limit. Start requests likewise, when none of them failed.
CrawlComplete ==
    main = "closed" /\ ~aborted =>
        /\ \A u \in parsed : \A r \in Links[u] :
                S!TooDeep(r) \/ handed[r.url] > 0
        /\ "start" \notin Faults =>
                \A r \in StartRequests : S!TooDeep(r) \/ handed[r.url] > 0
        /\ \A u \in seen : handed[u] > 0

\* The strengthening that makes TypeOK, ActiveTasksExact and CrawlComplete
\* inductive, given the scheduler's own invariant. Where an actor stands when it
\* is inside enqueue, and what it is enqueueing:
CallsInPlace ==
    /\ step[Main] # "idle" => Offered(arg[Main])
    /\ \A t \in Tasks :
          step[t] # "idle" => pc[t] \in {"links", "retry"} /\ arg[t] \in out[t]
    /\ \A a \in Actors : step[a] = "push" => arg[a].url \in seen

\* what a place in the program tells about the data:
PlacesMatchData ==
    /\ main \in {"request", "counted", "refill"} => current \in Requests
    /\ main \in {"request", "counted"} => active < ConcurrentRequests
    /\ main \notin {"seed", "reseed", "failed"} => seeds = {}
    /\ \A t \in Tasks : pc[t] # "free" => req[t] \in Requests
    /\ \A t \in Tasks : pc[t] = "sending" => left[t] > 0

\* a request that should reach the scheduler has, or an actor still holds it:
NoRequestDropped ==
    /\ \A u \in parsed : \A r \in Links[u] :
          \/ S!TooDeep(r) \/ r.url \in seen
          \/ \E t \in Tasks : r \in out[t] /\ pc[t] \in {"parsed", "links", "parked"}
    /\ "start" \notin Faults =>
          \A r \in StartRequests : S!TooDeep(r) \/ r.url \in seen \/ r \in seeds

\* and nobody is left to enqueue once run() has left its loop.
QuietAfterLoop ==
    main \in {"reap", "items", "close", "closed"} /\ ~aborted =>
        queue = <<>> /\ Live = {}

IInv ==
    /\ TypeOK /\ ActiveTasksExact
    /\ CallsInPlace /\ PlacesMatchData /\ NoRequestDropped /\ QuietAfterLoop

\* Every scraped item has left the pipeline when the engine closes: counted as
\* an item, or as an error.
ItemsAccounted ==
    main = "closed" =>
        /\ stats.item <= scraped /\ scraped <= stats.item + stats.error
        /\ "item" \notin Faults => stats.item = scraped

\* A request in the statistics that has no response is either on its way, with
\* run() or with a task, or counted as an error; responses never outnumber requests.
Unanswered ==
    {t \in Tasks : pc[t] \in {"begin", "queued", "download", "responded"}}
        \cup {m \in {Main} : main = "counted"}

RequestsAccounted ==
    running =>
        /\ stats.response + Cardinality(Unanswered) <= stats.request
        /\ stats.request <= stats.response + Cardinality(Unanswered) + stats.error

\* A task that takes from its slot always finds a request: the slot's queue
\* holds one for each task between add_request and next_request.
SlotsSupplied ==
    \A d \in Domains :
        Len(slots[d]) =
            Cardinality({t \in Tasks : pc[t] = "queued" /\ DomainOf[req[t].url] = d})

\* Who can take a step of its own.
MainMoves ==
    /\ main \notin {"closed", "failed", "parked"}
    /\ main \in {"request", "counted", "reseed", "refill"} => current \in Requests
    /\ main = "counted" => \E t \in Tasks : pc[t] = "free"
    /\ main \in {"wait", "reap"} => Live = {} \/ \E t \in Tasks : pc[t] = "done"
    /\ main = "items" => item = "done"
    /\ step[Main] = "push" => lock = NoCaller

TaskMoves(t) ==
    /\ pc[t] \notin {"free", "done", "parked"}
    /\ pc[t] = "retry" => out[t] # {}
    /\ pc[t] = "sending" => channel < ConcurrentItems
    /\ step[t] = "push" => lock = NoCaller

ItemMoves ==
    \/ item = "process"
    \/ item = "recv" /\ (channel > 0 \/ (main = "items" /\ Live = {}))

\* run() never waits for itself: a task that cannot go on waits for the item
\* processor, run() for a task or for the item processor, and whom they wait for
\* can go on, or is parked by a pause.
OnlyAPauseBlocks ==
    /\ \A t \in Tasks :
          \/ pc[t] \in {"free", "done", "parked"} \/ TaskMoves(t)
          \/ ItemMoves \/ item = "parked"
    /\ \/ main \in {"closed", "failed", "parked"} \/ MainMoves
       \/ ItemMoves \/ item = "parked"
       \/ \E t \in Tasks : TaskMoves(t) \/ pc[t] = "parked"

\* Why ItemsAccounted: an item the channel has accepted is in it, with the item
\* processor, or counted; and the processor ends when none can come any more.
Pending == channel + (IF item \in {"process", "parked"} THEN 1 ELSE 0)

ItemsTracked ==
    /\ stats.item + Pending <= scraped
    /\ scraped <= stats.item + stats.error + Pending
    /\ "item" \notin Faults => stats.item + Pending = scraped
    /\ item = "done" => channel = 0 /\ Live = {} /\ main \in {"items", "close", "closed"}
    /\ main \in {"close", "closed"} => item = "done"

\* Why RequestsAccounted: without signals nobody parks, and it holds to the end.
Unpaused ==
    /\ sent = 0 /\ setters = [b \in BOOLEAN |-> 0]
    /\ main # "closed" => running
    /\ \A t \in Tasks : pc[t] # "parked"
    /\ main \in {"items", "close", "closed"} => Live = {}

RequestsTracked ==
    /\ stats.response + Cardinality(Unanswered) <= stats.request
    /\ stats.request <= stats.response + Cardinality(Unanswered) + stats.error

\* Why ImplementsCrawl: run() holds a request at some places only, and aborts once.
CurrentInPlace ==
    /\ main \notin {"request", "counted", "refill", "reseed"} => current = NoRequest
    /\ aborted => main \in {"reap", "items", "close", "closed"}

\* The scheduler has seen whatever it has handed out,
KnownRequests ==
    /\ \A i \in DOMAIN queue : queue[i].item.url \in seen
    /\ \A d \in Domains : \A i \in DOMAIN slots[d] : slots[d][i].url \in seen
    /\ \A t \in Tasks : pc[t] # "free" => req[t].url \in seen
    /\ main \in {"request", "counted", "refill"} => current.url \in seen

\* so the enqueue of a retry comes back at once.
RetriesIdle ==
    /\ main = "refill" => step[Main] = "idle"
    /\ \A t \in Tasks : pc[t] = "retry" => out[t] = {req[t]} /\ step[t] = "idle"

\* Why OnlyAPauseBlocks, with the parts above: the tasks are gone when run()
\* waits for the item processor.
WaitsInPlace ==
    /\ main \in {"items", "close", "closed"} => Live = {}
    /\ main = "reseed" => current \in Requests

\* "Retry the request": when the enqueue of a request that is to be retried has
\* returned, the scheduler holds it.
RetryIsQueued ==
    [][\A t \in Tasks :
          pc[t] = "retry" /\ pc'[t] = "done" =>
              \E i \in DOMAIN queue' : queue'[i].item.url = req[t].url]_vars

\* Without pauses the crawl ends.
Terminates == <>(main \in {"closed", "failed"})
=============================================================================
