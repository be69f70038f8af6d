# TLA+ models and proofs for scrapy-rs

scrapy-rs is a crawling framework: a spider yields requests and parses pages,
an engine schedules the requests, downloads them in parallel, follows the links
it finds and sends the scraped items through a pipeline. Everything runs as
tokio tasks that share state behind async locks, so what is hard about it is
what happens between two awaits. This directory models that part of the code in
TLA+, checks the models with TLC on small instances, and proves the properties
that matter most with TLAPS for instances of any size.

Line numbers below refer to the repository; `PROJECT.json` maps every definition
to the lines it models.

## 1. The system and its components

| component | state | operations | hard behaviour |
|---|---|---|---|
| Queue schedulers: memory, fifo, breadth-first, depth-first (`scheduler/src/schedulers`) | a concurrent set of seen URLs; a queue behind a mutex | `enqueue`, `next`, `clear`, `is_empty`, `len`, `has_seen`, `mark_seen` | the seen set is read and written without a lock across the two; any number of tasks are inside `enqueue` at once; `clear` empties both, one after the other |
| Domain group scheduler (same directory) | a queue per domain, a queue of domains, seen URLs, last request times and counts, each behind its own lock | the same interface | two locks taken in opposite orders, a limit tested before and counted after the locks, delays by spinning |
| Engine, `run()` (`engine/src/lib.rs`) | scheduler, spawned tasks (`FuturesUnordered` and `active_tasks`), item channel, `running` flag, `pause_notify`, statistics | seed, fill, spawn, reap, wait for items, close | when to stop: the scheduler, the tasks in flight and the counter have to agree; a full item channel; pauses; seven places that call the error handler |
| Engine life cycle (`engine/src/lib.rs`) | the same, the two ends of the item channel, handlers and monitors | `run` from its first line to its last, `close`, `pause`, `resume`, `save_state`, `load_state` | what survives a run that ends, aborts, or is dropped at an await; timeouts in `close`; one step of a close failing |
| Download slots (`engine/src/slot.rs`) | per domain: a queue, the active requests, their size, the last request time, a closing flag | `add_request`, `next_request`, `finish_request`, `close`, `is_idle`, `needs_throttle` | five locks taken one at a time; a delay tested outside the lock of the queue |
| Resource controller (`engine/src/resource_control.rs`) | usage, limits, a running flag, a monitor task | `start`, `stop`, `throttle_if_needed` | stop and start between two ticks |
| Error manager and default handler (`core/src/error_handler.rs`) | counters per kind of error and of action | `handle_error`: Ignore, Retry, Abort, Skip | retry counts, a backoff that wraps, counting in steps that others interleave |
| Signals (`core/src/signal.rs`) | handlers per signal | `connect`, `send_catch_log` | handlers that spawn tasks |
| Middlewares (`middleware`) | chains ordered by priority; a rate limiter's timestamps | `process_request`, `process_response` | order of the chain, waiting while holding state, retries |
| Pipelines (`pipeline`) | an output file, chains | `open_spider`, `process_item`, `close_spider` | a JSON array closed by seeking back, writes that fail half-way |
| Downloader (`downloader`) | an HTTP client, a semaphore | `download` | permits; the rest is I/O |
| Monitoring (`monitoring`) | a bounded event history | subscribe, collect | lagging receivers; not a workspace member |
| Settings and command line (`src/src`) | one settings file, a spiders directory | `settings`, `startproject`, `genspider`, `crawl`, `runspider` | processes that load, change and rewrite one file without a lock, or are killed while they write it |
| Python bindings, benchmarks, examples | - | - | wrapping |

How they interact. `run()` offers the spider's start requests to the scheduler.
Its main loop takes requests with `next()` while fewer than
`concurrent_requests` tasks are active, passes each through the request
middlewares and spawns a task for it. The task puts its request into the slot of
its domain and takes the slot's first request (not always the one it put in),
downloads it, passes the response through the response middlewares, has the
spider parse it, enqueues every link in the scheduler and sends every item into
the bounded channel that the item processor empties. Each of these stages may
fail; the error manager then decides whether to retry, skip, or abort. `run()`
leaves its loop when the scheduler is empty and no task is left, waits for
whatever remains, drops the channel, waits for the item processor and closes.
The handlers of `EnginePaused` and `EngineResumed` spawn tasks that set the
`running` flag, which every actor reads at its own checkpoints. The owner of an engine
calls `run()`, may drop it half-way, and then calls `close()`, `pause()` or `resume()` while
whatever `run()` has spawned goes on. The command line builds an engine from a settings
file that any number of commands load and rewrite.

What makes each component correct:

* Scheduler: a URL it has marked as seen, and so will refuse from now on, is not
  lost; it is handed out once.
* Engine: the counter of active tasks is exact; the loop ends only when nothing
  can produce more work, and does end; every link of a parsed page has been
  handed out by then, every scraped item processed, every request accounted for
  in the statistics; a retried request is really queued; a resumed engine moves.
* Slot: whoever adds a request and is let in finds one; none is handed out twice;
  the delay lies between two requests; active requests and their size are what is
  active.
* Domain group scheduler: the same as the other schedulers; besides, a domain with
  requests is never forgotten, grouping keeps the order of priorities, limit and
  delay hold per domain, and the calls return.
* Life cycle and pipelines: after a run the output file is one well-formed array with
  every counted item in it; a close returns whatever its hooks do, and little is lost when it
  overtakes the crawl; nothing that was spawned stays for ever.
* Middlewares, downloader and errors: the rate limit is kept, a request is downloaded
  again no more often than `max_retries` allows, every error is counted once everywhere, permits
  come back, and the crawl ends although locks are held over sleeps.
* Settings and command line: a value that was saved stays until somebody overwrites it, and
  a crawl runs with what was saved.

## 2. Modules

| module | what it is | code |
|---|---|---|
| `Frontier` | what a scheduler promises: a URL enters once, leaves once, is never dropped, and `clear` forgets everything | trait `Scheduler` |
| `QueueScheduler` | the four single-queue schedulers at the grain of their awaits | `memory_`, `fifo_`, `breadth_first_`, `depth_first_scheduler.rs` |
| `MCQueueScheduler` | its instances for TLC | |
| `QueueSchedulerProofs` | its theorems | |
| `Crawl` | what a run promises: work comes only from start requests and busy workers, and the crawl finishes only when none is waiting and nobody is busy | `Engine::run` |
| `Engine` | `run()`, its tasks, the item processor and the signal handlers, composed with `QueueScheduler` | `engine/src/lib.rs`, the queue of `slot.rs` |
| `MCEngine` | its instances for TLC | |
| `EngineProofs`, `EnginePromises` | its theorems: the invariant, and what rests on it | |
| `Slot` | one download slot at the grain of its locks | `slot.rs` |
| `MCSlot`, `SlotProofs` | its instances for TLC, its theorems | |
| `DomainGroupScheduler` | the scheduler with a queue, a limit and a delay per domain | `domain_group_scheduler.rs` |
| `MCDomainGroupScheduler`, `DomainGroupProofs` | its instances for TLC, its theorems | |
| `Pipelines` | a chain of pipeline stages, the JSON file token by token | `pipeline/src/lib.rs` |
| `Lifecycle`, `MCLifecycle`, `LifecycleProofs` | `run`, `close`, `pause`, `resume` and what outlives a call, driving `Pipelines`; its theorems | `engine/src/lib.rs`, `resource_control.rs` |
| `Middleware` | chains, URL filter and rate limiter as values | `middleware/src/lib.rs` |
| `ErrorPolicy` | classification, decision and counting of errors | `core/src/error.rs`, `error_handler.rs` |
| `Fetch`, `MCFetch`, `FetchProofs` | requests through middlewares, downloader and error branches, driving the two above; its theorems | `engine/src/lib.rs`, `middleware`, `downloader` |
| `Settings` | what each file format keeps of a setting, and what the adapters make of it | `src/src/settings.rs`, `config_adapters.rs` |
| `CommandLine`, `MCCommandLine`, `CommandLineProofs` | the commands as processes over one settings file; its theorems | `src/src/main.rs` |

### QueueScheduler

`seen` is the `DashSet`, `queue` the vector or priority queue, `lock` whoever
holds the queue's mutex across an await (only `clear` does). `step[c]` says where
caller `c` stands inside its call and `arg[c]` what it enqueues, so an `enqueue`
is three steps, `HasSeen`, `MarkSeen` and `Push`, which is what the code's
`has_seen(..).await`, `mark_seen(..).await` and `queue.lock().await` make
observable. A call that returns at once without a change (a URL already seen, a
request too deep, `next` on an empty queue) is no action. `Discipline` and
`MaxDepth` tell the schedulers apart: first in first out, last in first out, or
by priority with the `PriorityQueue` crate's rule that an equal item (same URL
and method) is not added twice but refiled under the new priority. Ties of
priority are broken by a nondeterministic choice. `handed` counts hand-outs, for
the properties only.

Mutations. The definitions marked "Mutation" in the modules are not part of any
specification. Each changes one action the way a plausible bug would; a property
is kept only if one of them breaks it.

### Engine

The actors are `Main` (the task inside `run()`), a pool `Tasks` of identities for
spawned tasks (an identity returns to the pool when `FuturesUnordered` yields the
finished task) and the item processor. `main`, `pc[t]` and `item` say where each
stands; every value of them is a point between two awaits. A step covers the code
from one such point to the next, including every assignment in between. The
scheduler is an instance of `QueueScheduler` whose callers are `Main` and the
tasks: their `enqueue` calls keep the three steps, so the engine is checked
against the scheduler's races and not against an ideal queue.

* Seeding: `MainEnqueues`, `MainEnqueued`, `SeedFails`, `StartCrawl`.
* Main loop: `EnterLoop`, `MainParks`, `LeaveLoop` (the loop condition and the pause
  test), `TakeNext`, `StopFilling`, `RejectRequest`, `CountRequest`, `SpawnTask` with
  `PushTask` (the inner loop; tasks go on while `run()` is between the last two, at `"counted"`),
  `AwaitTask`, `NothingLeft`, `ShortSleep` (its end).
* After the loop: `AwaitRest`, `CloseChannel`, `AwaitItems`, `CloseEngine`.
* A task: `AddToSlot`, `TakeFromSlot`, `Download`, `DownloadFails`,
  `AcceptResponse`, `RejectResponse`, `RetryByMeta`, `Parse`, `ParseFails`,
  `FollowLinks`, `TaskEnqueues`, `TaskEnqueued`, `LinksDone`, `StartSending`,
  `SendItem`, and `TaskParks` at each checkpoint.
* Item processor: `ReceiveItem`, `ProcessItem`, `ItemParks`, `EndItems`.
* Signals: `SendSignal` (a handler spawns its setter task), `SetRunning` (that task
  gets the lock).

Abstractions. The read of `running` at a checkpoint and the local step after it
are one action: the code's reader releases the lock before it acts, and the only
thing another actor could put in between is a change of the flag that nobody
looks at again before the next checkpoint. The two checkpoints around
`RetryByMeta` (lines 886 and 925) are one place. A parked actor stays parked: `notified()`
is answered only by `resume()` and `close()`, and neither can be called while
`run(&mut self)` holds the engine. Requests a page links to form a set, so the
order in which a task enqueues them is arbitrary. The delay, the throttle and the
active set of a slot, time, logging and the resource controller are left out.
The error manager may decide any action of `ErrorActions` at any stage of
`Faults`, with the failed request as the one to retry; inside a task `Abort` only
logs, as in the code.

### Slot

A worker is a task that calls `add_request`, `next_request` and `finish_request` in
turn, as the tasks of `run()` do; `pc[t]` is the lock it takes next, and each action
is one critical section of `slot.rs`:

* `AddRequest` (the queue, and the scheduler if the slot has one);
* `next_request`: `CheckClosing`, `CheckDelay`, `Wake`, `Pop`, `Stamp`, `Activate`, `Charge`;
* `finish_request`: `Deactivate`, `Recharge`; and `Close` at any time.

With a scheduler, `Pop` asks it for a request and removes the first entry of the
queue with the same URL and method; which one the scheduler offers is left open,
because the slot must be right for any. `CheckDelay` may send a worker to sleep
while it keeps the read guard of `last_request_time` (the temporary of the `if let`
lives until its end in the 2021 edition), so `Stamp`, which writes that field, waits
for the sleepers. Readers are let in past a waiting writer, which tokio's fair lock
would not do: the model has more behaviours than the code there. `Charge` adds `MIN_RESPONSE_SIZE` to
`active_size`, and `Recharge` takes that back and adds the size of the response, as the
code does.

Time is discrete and relative: `age` is the time since `last_request_time` and is capped at
`Delay`, beyond which the code cannot tell times apart; so no bound on a clock
is needed. `check_if_closing` and `is_idle` only write the log and are left out.

### DomainGroupScheduler

Who holds `domain_queues` and `domain_priority_queue` is state (`dq`, `dpq`), and an
action is what a task does between two acquisitions:

* `enqueue`: `HasSeen` (with the domain filter and the depth limit), `MarkSeen`, `Push`
  (takes `dq` and keeps it), `ListDomain` (takes `dpq`, releases both);
* `next`: `LockDomains` (takes `dpq`), `PopDomain`, `CheckLimit`, `CheckDelay`,
  `PutBack` (a delayed domain, needs `dq`), `TakeRequest` (needs `dq`; releases both), `StampTime`,
  `CountRequest`;
* `clear`: `ClearQueues`, `ClearDomains`, `ClearTimes`, `ClearCounts`, one lock more each,
  until all four are released.

The mutexes of times and counts are held for a single access except by `clear`,
between `ClearTimes` and `ClearCounts`; `StampTime` waits for that. A request without
depth is one of depth 0, which every test of the code treats alike. `rank` keeps the
priority of a popped domain, so that it can be compared with the rest. The branch
of `next` that finds a popped domain without requests is part of `TakeRequest`, and
`RanksExact`, a part of the proved invariant, says that it is never taken. Time is
relative, as in `Slot`. `started`, `since` and `handed` are history, for the properties.
The functions `is_empty` and `len` change nothing and are left out.

### Pipelines and Lifecycle

`Pipelines` has one action per operation of one stage: a JSON stage works behind its file
mutex and has no await inside, while a pass along the chain can be overtaken between two
stages. `content[i]` is the file of stage `i` as a sequence of tokens, `"["`, the items, `","` and
`"]"`, with `"torn"` for a piece of an item, so that the two bytes `close_spider` seeks back
over are either the last comma or the end of something else. `PipeFaults` names the operation that
may fail: the file (`"open"`), the bracket, a write, the comma after it, the seal, or
a stage of the user's own (`"custom"`). `PipelineType::Chained` has no such stage; a chain that has
one is itself a user's `Pipeline`. A stage of kind `"append"` ignores the seek, as a file opened for
appending does.

`Lifecycle` has `run()` from its first test to its last line, in the places of `place`, and the
`close()` it ends with. The test of the flag, the start of the resource controller and the two
connections of handlers are a step each, so a `run()` may be dropped with a monitor and no handler,
or with the handler of one signal only (`handlers[b]`). The owner makes one call at a time (`run` borrows the engine
mutably), and may drop `run()` at any of its awaits (`CancelRun`), as the benchmark does
with `select!` and a timeout. What `run()` has spawned outlives it: tasks, item
processor, handlers, monitors. A `run()` that starts the controller between the stop of an earlier one and
the next tick leaves two monitors side by side. The test of the running flag and the wait
that follows are two steps, `TestPaused` and `Park`, because `notify_waiters` wakes only who waits
already. `close()` goes stage by stage; `PipelinesTimeOut` and `HooksTimeOut` are its five
seconds, and a stage that fails to close leaves those after it open. A second `run()`
finds the receiver gone and ends in a panic. The crawl itself is reduced to tasks that pass one
checkpoint and send their items, since `Engine` has the rest.

### Middleware, ErrorPolicy and Fetch

`Middleware` builds a chain with `Add` as `add()` does (push and stable sort), and has the limiter's
arithmetic on ages instead of timestamps. `ErrorPolicy` tells errors apart by what the
decisions look at; `CalculateRetryDelay` wraps modulo `WordSize` twice, in the power and in
the product, before it takes the minimum with `max_delay`, as a release build does; a
custom handler answers instead of all that, and may return an error itself.

`Fetch` is `run()` taking requests (`Main`) and one task per request. Each middleware call is a
step. `Limited` appends the timestamp of the call and then sleeps without the lock; `let` records when
requests were really let through (`LetsThrough`). A download takes a permit of the semaphore and
gives it back with a response or an error. In the error branches the guard of the statistics is
held until the branch ends, the handler's delay included (`guard`), except after a
failed download. Slots, pausing, links and items are left to `Engine`. Every limit may be zero, as nothing rejects
that: a semaphore without permits, a limiter with a maximum of zero (which keeps back what a maximum
of one does, `Allowance`) or a window of no length.

### Settings and CommandLine

A value is its shape and who gave it. What the command line's parser makes of an argument is
a boolean, a number (that fits 32 bits, 64, or no unsigned integer), null or a text. `save`
writes a text into a Python file between quotes as it is, and `from_python` reads line by line, so of a text with line
breaks (`"broken"`) only the first line stays with its key, and each later line with an
`=` is an assignment of its own: `settings AGENT $'x\nLIMIT = 3'` gives `LIMIT` a
value too, if the `HashMap` puts the entry of `AGENT` behind that of `LIMIT` or there is
none. The constant `Later` says what the later lines of a giver's text assign, `Lines` what a whole entry assigns,
and `Rendered` is the set of what a load may find, one element per order of the
entries. A line whose value is one quote makes every load panic (`Quotes`, `Panics`); the first
line is such a line if the text begins with a line break. What was read once has one line per value and is read again
as it was, lists included: this is part of the invariant (`Read`). TOML has no null, and YAML is not
compiled in. Left out is a cut inside an entry, by a kill or by an overlapping write.

In `CommandLine` each
command is a process that may be killed at any step. `fs::write` truncates and then
writes, so a reader in between finds an empty file and goes on with defaults; `state = "whole"`
says that the file is what one command has written. `log` and `base` are history: the writes,
and how many of them each command had read.

## 3. Runs

| run | question | states |
|---|---|---|
| `QueueConcurrent` | no marked URL is lost, whoever races (`NoUrlLost`) | 2,102 |
| `EngineFaults` | every stage may fail, every action may be decided; the engine implements `Crawl` and ends | 133,417 |
| `EnginePause` | pause and resume at any time: every item of a crawl that ends is processed, every slot supplied, and only a pause blocks | 147,656 |
| `EngineRetry` | expected violation: a retried request is not queued | |
| `SlotUse` | delay, hand-outs, active requests and size of a slot with a scheduler, closed at any time; everything added is processed, nothing left behind | 135,257 |
| `DomainGroup` | two tasks in every call at once: no URL and no domain forgotten, priorities kept, the limit exceeded by one at most, and only the lock cycle blocks | 2,620,709 |
| `DomainFrontier` | one enqueuing task and two that take: the scheduler implements `Frontier`, each task sees the delay, and `next` returns | 272,665 |
| `DomainDeadlock` | expected violation: `enqueue` and `next` wait for each other | |
| `Lifecycle` | the file is whole after a run, closes return and lose one item each and one more at most, and after a close or a good end every monitor ends | 849,786 |
| `LifecycleWaiters` | expected violation: a task woken by `close()` waits for ever | |
| `Fetch` | rate, errors, downloads, who waits for whom, and the end of the crawl | 36,333 |
| `CommandLine` | a saved setting is kept, and a crawl runs with it | 2,787,392 |

Bounds. The site has three pages: `a` links to `b` and `c`, `b` to `c` by a longer
path, and `c` back to `a`, so a link is found twice at different depths, a page is
found by two tasks at once, and there is a cycle. Both `a` and `b` are start
requests, so that two tasks can be at work from the beginning. `a` and `b` share
a slot, `c` has another. Two tasks are enough for every race of the code, whose
actors interact in pairs. The item channel holds one item and the pages have three between
them, the fewest with which a sender waits while the processor has one in hand; two signals give both orders of a pause and a resume. `EngineFaults` limits the
depth to 1, which leaves the deeper request for page `c` out; so does
`EnginePause`. The first serves its queue at the front and the second at the back.
`QueueConcurrent` has two enqueuing tasks, a taker and a clearer, and two requests
of one URL with different methods and priorities. The counters of the
statistics are unbounded and need no bound, because a URL is enqueued a
bounded number of times; `MaxSignals` bounds the signals.

`SlotUse` has three workers and three requests with different keys, the smallest case in
which two workers wait out one delay while a third arrives or takes what they came
for. Requests that share a key are admitted by the module and by its theorems;
`ActiveExact` speaks of different keys only, as the active map keeps one entry per key.

`DomainGroup` has three requests of one domain, two of them with the same URL, whose priorities lie
around that of the other domain's request, so that the domains are reordered when one is pushed, popped
or put back. Both tasks enqueue and both take, and one of them also clears, so that every pair of
calls races, two `next` calls above all: with a limit of one, both can pass the test before either
counts, and two requests are handed out. In `DomainFrontier` a third task enqueues and clears, as the
refinement asks for one such task, and the two takers race each other over a limit of two, so that a taker can be
handed two requests of one domain and its pace shows; one request less keeps the run with fairness
small. Both use a delay of one tick. The theorems of section 4 hold for any number of tasks, any limit and any delay.

`Lifecycle` has one task with four items, a channel of capacity 1, and the chain
`<<custom, json>>`. `MaxCloses = 2` bounds the closes: two of them may lose three items, and the
fourth is one that must not be lost. `MaxCalls = 2` calls of `run`, `pause`, `resume` and signals taken together give a
second run, a pause followed by a resume, and a run with a signal in it; dropping `run()` is
not counted. Middlewares may fail to open, a start request may abort, a comma
may fail to be written, and both the custom stage and the hooks may take more than five
seconds. `LifecycleWaiters` has `MaxCalls = 1`, which is enough.

`Fetch` has three requests, two tasks at a time, one permit, one retry (`MaxRetries` and `RetryLimit`), and a limiter that lets one request
through per window of two ticks, with a random delay of up to one; the filter denies one
request, a response middleware may reject another, downloads fail with an error that is retryable or
one that is not, or answer with a status to retry, and a custom handler for `"other"` may
retry, abort or fail. `WordSize = 256` stands for 2^64.

`CommandLine` has three settings commands. Two give texts with line breaks to the key for which
`startproject` has written a list: one assigns the second key a number of the wrong kind as
well, the other has a lone quote. The third gives the second key a number that fits. One each of
`startproject`, `genspider` and `crawl`; a Python file, the format with the most
conversions; and one kill. The theorems hold for the other formats and any number of all of them.

Fairness (`FairSpec`). Weak fairness of `Main`, of every task, of the item processor
and of the setter tasks: tokio polls every task that is ready and its mutexes and
locks are fair. A download and a call of the spider are assumed to return; the
downloader has a timeout. No fairness is assumed of the choices inside an actor,
such as whether a stage fails, nor of `SendSignal`.
In `Slot`, weak fairness of each worker and of time; nobody has to call `close`. In
`DomainGroupScheduler`, weak fairness of every taker, of time and of the last step of
`clear`, and strong fairness of `StampTime`, because tokio's mutex serves its waiters in
order, however often `clear` takes it again. `NextReturns` needs
time: while all listed domains have to be delayed, `next` pops and puts back the same
domain with the list locked until the delay is over. It is conditional on the lock
cycle, which `DomainDeadlock` shows to be reachable.
`Lifecycle!Spec` asks only for what `CloseReturns` and `MonitorsEnd` need: a step of a close that is
possible is taken, a timeout included, but a hook that is `Slow` owes nothing; a
monitor comes to its next tick. The latter alone ends no monitor: somebody has to stop the controller, and
`MonitorsEnd` is about who does, after any dropped, aborted or failed run. `FairSpec` adds the item processor, the tasks and the two steps of
waiting. In `Fetch`, time is weakly fair and every actor strongly fair: permits and the
lock of the statistics come and go, and tokio's semaphore and `RwLock` serve who waits in
turn. `CommandLine` assumes nothing, as it has safety properties only.

### What the expected violations show

* `EngineRetry` (`RetryIsQueued`). A retry goes through `enqueue`, whose seen set
  holds the URL since the request was first queued; the request is dropped
  silently and counted as a retry. The proof of `IsACrawl` shows that this is so for every
  retry: it rests on the fact that a retry changes nothing in the scheduler.
* `DomainDeadlock` (`NoLockCycle`). `enqueue` has pushed and waits for the list of domains; `next` has
  popped a domain and waits for the queues. Both wait for ever, and with them everyone who
  uses the scheduler.
* `LifecycleWaiters` (`WaitersEnd`). The owner drops `run()` and calls `close()`, which
  clears `running`; a task that comes to its checkpoint now parks there, until the notification at the end of
  the same call wakes it, which is meant to let it terminate. `running` stays unset, so the item processor parks at its
  own test, and the task waits in `send()` on the full channel for ever. A second `close()` makes room
  for one more item at most.

### Behaviours the properties take into account

* Two enqueuing tasks can both pass `has_seen` before either calls `mark_seen`; a queue that is not the
  priority queue then holds the request twice, and hands it out twice. `HandedOutOnce` and the refinement of `Frontier` are therefore
  stated for one enqueuing task; the engine's properties do not rest on them.
* The handler of `EngineResumed` sets the flag and notifies nobody, so an actor of `run()` that
  parked on the earlier pause never wakes. `EnginePause` checks what holds of a crawl that ends, and that
  such an actor is the only reason for one that does not (`OnlyAPauseBlocks`).
* Two workers can read `last_request_time` before either writes it, wait out the same delay and
  go together. What holds is `BurstBounded`: each worker sees the delay between its own requests, so
  a slot with N workers sends at most N requests per delay.
* `finish_request` adds the size of the response to `active_size` and nothing subtracts it.
* The limiter stamps a request before it sleeps, so a window can hold one request more than
  `max_requests`. `RateBounded` states that bound.
* A retry never reaches the downloader again, because the scheduler drops it. This is the finding of
  `EngineRetry`, and no property takes it for correct: `DownloadsBounded` bounds the downloads by what the
  retry count allows, which holds of the code as it is and must hold of a code that does retry.
* A close that overtakes the item processor takes the file from under it. Each close wakes it once, so
  one item is counted and not filed for each of them, and one more that it had in hand (`LossBounded`).
* A domain at its limit keeps its requests queued and leaves the list. They still wait in the
  sense of `Frontier`, which promises no hand-out.

## 4. Proofs

All theorems hold for every set of URLs, requests and tasks, every site, every
limit, delay and strategy, and every choice of faults the assumptions of the modules
admit (`SchedulerAssumption`, `EngineAssumption`, `SlotAssumption`, `GroupAssumption`,
`LifecycleAssumption`, `FetchAssumption`, `CommandLineAssumption`). Those say what the code's types say: requests are
records, the caller identities are distinct from the markers, at most as many
tasks are spawned as the configuration allows, the channel has a positive
capacity (tokio panics otherwise). Where the code accepts a limit of zero, so do the theorems.

**Scheduler** (`QueueSchedulerProofs`). The inductive invariant is
`IInv == TypeOK /\ CallsWellFormed /\ NoUrlLost`. `NoUrlLost` needs to know who
holds the lock and that a caller about to push has a request, which is
`CallsWellFormed`; the argument per action is a comparison of `QueuedUrls` before and
after, by lemmas about `File` and `Without`. `HandedOutOnce` and the refinement of
`Frontier` hold for a single enqueuing task that is also the only one to clear
(stated as an assumption of the two theorems, and necessary: see the race above; the refinement has a run for the domain group
scheduler, and for this one the theorem), with `OnceInv` as the inductive invariant: a URL is in at most
one of queue, push and hand-out.

**Engine** (`EngineProofs`). First, `SchedulerInvariant`: the engine's steps are steps
of the scheduler or leave it alone, so the scheduler's theorem transfers through
the instance and need not be proved again. Then
`IInv == TypeOK /\ ActiveTasksExact /\ CallsInPlace /\ PlacesMatchData /\ NoRequestDropped /\ QuietAfterLoop`:

* `CallsInPlace`: who is inside `enqueue` stands at a place that enqueues, with a
  request it holds;
* `PlacesMatchData`: what a place says of the data, such as that `main = "request"`
  means room for one more task;
* `NoRequestDropped`: a link of a parsed page is seen, too deep, or still held by a
  task that has yet to offer it;
* `QuietAfterLoop`: after the loop, without an abort, the queue is empty and no task
  is left.

`CrawlComplete` follows from these and the scheduler's `NoUrlLost`: at the close
nobody holds a request, so every link is seen; a seen URL that is neither queued
nor being pushed was handed out. The proof has one lemma per group of actors
(main, tasks, items, signals) and one per kind of change they share.

**Engine, its promises** (`EnginePromises`). Each rests on `IInv` and adds an invariant of its own:

* `SlotsSupplied` is inductive: a task adds its request before it waits, and whoever takes one
  leaves.
* `ItemsTracked` gives `ItemsAccounted`: an item the channel accepted is in it, with the processor,
  or counted, and the processor ends only after the last task.
* `RequestsTracked` gives `RequestsAccounted`. It needs `Unpaused` (a parked task is not on its
  way any more, so the theorem assumes `MaxSignals = 0`, as the run does), and `SlotsSupplied`,
  as a task that found its slot empty would end uncounted.
* `ImplementsCrawl` needs three facts that are about different parts of the engine.
  `CurrentInPlace`: `run()` holds a request only between `next()` and the spawn or the
  retry, so that the crawl's `busy` is empty when the loop ends. `KnownRequests`: every request in
  the queue, a slot or a task has been seen. With it `RetriesIdle`: the
  enqueue of a retry returns at once and files nothing. Without this the task that
  retries would retire and discover in one step, which no crawl does. One lemma per kind
  of step maps it to a step of `Crawl` or to a stutter.
* `OnlyAPauseBlocks` (`NobodyWaitsInACircle`) is the safety half of `Terminates`: in every state each actor
  can take a step, or waits for one who can or who is parked. `WaitsInPlace` says that the
  tasks are gone when `run()` waits for the processor, `RoomForATask` (from `ActiveTasksExact`) that a spawn finds room,
  `ItemsTracked` that the processor is there while a task is, and `RetriesIdle` that a retry has something to enqueue.
  `MainMoves`, `TaskMoves` and `ItemMoves` spell out when an actor can step; TLC has confirmed on the small
  instances that they agree with `ENABLED`, which the prover cannot expand.
* `NoRoomNoEnd`: with `concurrent_requests = 0` nothing is ever taken from the scheduler (`Starved`), so
  `CrawlComplete` rules out a close. This is a theorem about a hazard that no run could show well.

**Slot** (`SlotProofs`). `IInv == TypeOK /\ HeldInPlace /\ OnceInv /\ PacedInv /\ Supplied /\ NeverSaturates`:

* `OnceInv`: a request is offered, queued in one place, or handed out; with it every
  step is a step of `Frontier` or a stutter (`HandsOutOnce`);
* `PacedInv`: `last_request_time` is never older than what a worker was last handed, a sleep lasts for
  the rest of the delay, and a worker past its sleep has seen all of it (`PacesEachWorker`);
* `Supplied`: the queue is at least as long as the number of workers on their way to
  it. `AskingSteps` and `QueueSteps` reduce the proof to `AddRequest` and `Pop`. `NoneLeftBehind`: nor is it longer, until
  the slot closes (`LeftStep`), which is the safety half of `Drains`. The two make `QueueFits`;
* `NeverSaturates`: the size holds the minimum for every charged request, so that the saturating
  subtraction is exact; `ChargedSteps` does the same for it.

`ActiveExact` follows from `HeldOnce` (what a worker holds was handed out, and to nobody else) when
no two requests share URL and method, which is an assumption of its theorem.

**Domain group scheduler** (`DomainGroupProofs`). `IInv`, at the end of `DomainGroupScheduler`, has these parts
besides `TypeOK`, `NoUrlLost`, `DomainsListed` and `OverrunBounded`:

* `LocksInPlace`: which mutexes a task holds at each place, and that it holds a
  request or a domain there; everything else rests on it, because it makes
  the tasks at certain places mutually exclusive;
* `ClearedInPlace`: queues and list stay empty while `clear` goes through its locks;
* `RanksExact`: a listed or popped domain has requests, and its rank is that of the
  first of them, except for the domain an `enqueue` is about to list and between the
  first two steps of `clear`;
* `TriedFirst`: the popped domain ranks highest and is not listed. With `RanksExact` and
  `DomainsListed` this gives `HighestFirst`, since while a taker holds both locks
  nobody is filing or clearing;
* `CountsInPlace`: what was handed out is counted or pending, and a taker that
  passed the limit leaves room for itself; as the list is locked from the test to the
  hand-out, at most one taker is there, and the others are what can be pending. This
  bounds the overrun by N - 1 for N takers, and `SoleTakerKeepsTheLimit` follows;
* `PacedInv`: the age of a domain is no more than the time since the taker's own last
  request of it, unless the taker has yet to stamp it, when it cannot be asking.

Beside `IInv` there are two more results.

* `SoleEnqueuerImplementsFrontier`, for a single task that enqueues and clears and any number that
  take. `OnceInv` says that a URL is in one queue, once, or on its way to it, and was not handed out. A URL
  waits from `MarkSeen` on and is taken by `TakeRequest`; `ClearQueues`
  forgets everything, and the three locks `clear` still has to take are stutters.
* `OnlyTheLockCycleBlocks`. `Awaits(c, k)` says that `c` needs what `k` has locked. From
  `LocksInPlace`: whoever keeps others waiting can go on or waits for a third who can, with the
  one exception of the cycle that `DomainDeadlock` finds. So that cycle is the only deadlock, and a single caller never
  meets it (`SoleCallerNeverBlocks`).

**Life cycle and pipelines** (`LifecycleProofs`). `IInv`, at the end of `Lifecycle`, is
`TypeOK /\ FilesTracked /\ OpenInPlace /\ ProcessorInPlace /\ CountedFiled`, and speaks of the JSON
stages nothing went wrong with (`Intact`):

* `FilesTracked`: while the handle is there the file is an array still open, `Opened(filed)`;
  without it, empty or the closed array. That two bytes back from the end is always the last
  comma, or there is nothing to overwrite, is the lemma `OpenedSealed`; that an item and its comma
  lead from one open array to the next is `OpenedAppend`;
* `OpenInPlace`: what a `run()` has opened and not closed has its handle, and what it has closed has
  none and is not empty. It says nothing once `run()` was cut short;
* `ProcessorInPlace`: the item processor is done when the close of `run()` begins, and has counted
  nothing before `run()` spawns it;
* `CountedFiled`: while a `run()` crawls, an item that is past a stage is in its file, since the
  stage had its handle (`OpenInPlace`), and the processor no longer runs when handles are taken.

`FileWhole` is what these four say of a `run()` that ended well. What one operation
does to a stage (`OpenEffect`, `ProcessEffect`, `CloseEffect`) is proved apart from who calls it.

`LossIsBounded` is about the other closes and has an invariant of its own, `LossInv`, which is
inductive relative to `IInv`. `OpensFirst` and `NothingLost`: until a close begins, the processor finds
every intact file open, because the first `run()` opens them before it spawns the processor. `ClosedInPlace`: a close
clears the flag, so from then on the processor takes an item through the stages only if
it has passed its test already or was woken since. `LossTracked` counts: what is lost, an item that is in
hand (`InHand`) and a wake-up the current close still owes (`Waking`) make up one per close and one more.

**Fetch** (`FetchProofs`). `IInv == TypeOK /\ CurrentHeld /\ Placed /\ DownloadsCounted /\ PermitsCounted /\
LimiterFull /\ LetBeforeStamped /\ LetInOrder /\ ErrorsAccounted /\ GuardInPlace`:

* `Placed`: a request is queued, with `run()` or spawned, never two of these, and is seen. So a
  requeue changes nothing, and `DownloadsCounted` gives `DownloadsBounded`: this proof would not survive a retry
  that is really queued, and then a count of the retries has to take the place of `Placed`;
* `PermitsCounted`: free permits and downloads under way make up the configured number;
* `LimiterFull`: the limiter has at most one timestamp too many, and that only while a request
  sleeps until the oldest is too old. `LetBeforeStamped`: a request is let through before
  the next one is stamped, so the list of those let through, aligned from its end, is
  never younger than the timestamps. `RateBounded` follows, since the two lists differ in
  length by one at most. The lemmas `Stamped`, `LetOneThrough`, `AgedAlike` and `ExpiredTail` are
  about the lists alone. `WindowStep` is for a window of some length, `NoWindowStep` for one of none, in
  which nothing is kept;
* `ErrorsAccounted` is inductive with the number of actors at each place of an error branch;
* `GuardInPlace`: who has the guard of the statistics is in an error branch, where nothing but a sleep
  holds it up. With `PermitsCounted` (a missing permit is with a download) this gives `OnlySleepHoldsUp`, the
  safety half of `FetchEnds`: every actor can proceed, or waits for one who can, or for one who waits for
  one who can, or for one whom a limit of zero starves (`Starved`). `Proceeds` agrees with `ENABLED` on the small instance.
  What such a limit does is a theorem of its own: without permits nothing is ever downloaded, and a `run()` that has
  counted a request never ends (`NoPermitNoEnd`, by `InLine`: whoever waits for a permit waits for ever).

Three theorems are about `CalculateRetryDelay` alone, for any word size: it never exceeds `max_delay`
(`BackoffBounded`), it is the exponential backoff as long as the product fits in the word
(`BackoffExact`), and it is zero once the power of two has wrapped to zero (`BackoffVanishes`).

**Command line** (`CommandLineProofs`). `IInv == TypeOK /\ WritersPast /\ StartsBlind /\ ReadsKept /\ SetsKept /\ CrawlSees`.
The property of one file, `Keeps(raw, n)`, is carried from the file to what a command
has loaded (`ReadsKept`), to what it writes (`SetsKept`, where the writer's own
reading decides whom it overtakes) and to the configuration of a crawl (`CrawlSees`). `WritersPast` says
that who has written never loads again, so that overtaking, once true, stays true. A write keeps what its author had
read but for the keys its own entry assigns (`ParsedKeeps`), and this needs `TypeOK`: all the other
entries of a Python file have one line, as they come from a load.

What is only model-checked: liveness, and that under limits that are not zero (`Terminates`, `Drains`, `NextReturns`, `FetchEnds`, `CloseReturns`,
`MonitorsEnd`). Liveness and enabledness are beyond the prover, and so are induction over data and
recursive operators. Of the first four, what a proof can reach is proved: that nobody waits in a circle
(`NobodyWaitsInACircle` of `EnginePromises` and of `FetchProofs`, `OnlyTheLockCycleBlocks`) and that nothing stays
behind (`NeitherShortNorLeft`); what remains for TLC is that the steps that are possible are taken, and are finitely many.
Every invariant and every action property of a passing run is stated by a theorem.

## 5. Not modelled

* Monitoring: commented out of the workspace and of the dependencies (`Cargo.toml:9` and `:43`), so no
  program contains it.
* The Python bindings, which copy objects in and out; the crawl they run is the engine
  modelled here. Benchmarks and examples use the library; the way the benchmark drops
  `run()` is part of `Lifecycle`.
* `save_state` and `load_state`: they copy the statistics to a file and back and touch nothing a
  crawl reads, so a crawl resumed with them starts over with an empty scheduler.
* In `Engine`: the delay, the throttle and the active set of a slot (they are in `Slot`), the time
  and resource statistics, the log. `SlotManager`'s map from domains to slots: `get_slot` is one
  step under a write lock, and `Engine` assumes one slot per domain.
* What a resource monitor measures and the sleeps it leads to: they delay a crawl and change
  nothing in it.
* `ErrorStats::merge`, the error callbacks and `download_with_retries`, which nothing in the
  repository calls.
* Network I/O, parsing of pages, headers, the text of log messages.

The main extension left is `Engine` over `DomainGroupScheduler`: a domain at its limit keeps its
requests queued, so `is_empty` stays false and `run()` would not leave its loop. `DomainsListed`
says that this is the only way for a domain to be forgotten; what becomes of `run()` then is not
modelled. The hazards without a property are listed in `PROJECT.json` with a note.
