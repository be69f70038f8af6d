----------------------------- MODULE Lifecycle -----------------------------
(***************************************************************************)
(* The life of an Engine: run() from its first to its last line, the close *)
(* it ends with, and what its owner may do around it: drop run() half-way, *)
(* call close(), pause() or resume().                                      *)
(*                                                                         *)
(* run() borrows the engine, so the owner makes one call at a time; what   *)
(* run() spawned outlives it: tasks, item processor, signal handlers and   *)
(* monitors. The crawl is reduced to tasks that test the running flag and  *)
(* scrape items; module Engine has the rest of it. The item processor      *)
(* drives the stages of module Pipelines.                                  *)
(***************************************************************************)
EXTENDS Pipelines, FiniteSets

CONSTANTS
    Tasks,       \* the tasks of the crawl
    Scrapes,     \* the items each of them scrapes, in order
    Main, Proc,  \* run() and the item processor
    Capacity,    \* config.concurrent_items
    Faults,      \* "opened": a middleware does not open; "start": a start
                 \* request fails and the error handler says Abort
    Slow,        \* what may take more than five seconds to close: a custom
                 \* stage of the pipelines, or a hook of middlewares or spider
    MaxCalls,    \* bound on the calls of run(), pause() and resume() and the
                 \* signals sent, taken together
    MaxCloses    \* bound on the owner's calls of close()

LifecycleConstants ==
    /\ PipelinesConstants
    /\ Scrapes \in [Tasks -> Seq(Items)]
    /\ Main # Proc /\ {Main, Proc} \cap Tasks = {}
    /\ Capacity \in Nat \ {0}
    /\ Faults \subseteq {"opened", "start"}
    /\ Slow \subseteq {"pipelines", "hooks"}
    /\ MaxCalls \in Nat /\ MaxCloses \in Nat

ASSUME LifecycleAssumption == LifecycleConstants

VARIABLES
    call,      \* the owner's call in progress
    place,     \* where it stands
    stage,     \* the pipeline stage it is to open or close next
    result,    \* how the last run() ended
    runs,      \* the times run() got past its first test
    closes,    \* history: the calls of close() by the owner
    running,   \* running
    closed,    \* history: has close() begun, and anything set running since
    handlers,  \* of each kind, the handlers run() has connected
    setters,   \* spawned handlers that have yet to set running
    sent,      \* pauses, resumes and signals so far
    tx, rx,    \* whether item_tx and item_rx are Some
    task,      \* where each spawned task stands
    left,      \* the items it has yet to send
    wait,      \* how far each actor is in waiting on pause_notify
    channel,   \* the item channel
    proc,      \* where the item processor stands
    held,      \* the item it has received, in a sequence of at most one
    at,        \* the stage that is to process it next
    counted,   \* the items in stats.item_count
    flag,      \* the resource controller's running
    monitors   \* the runs whose monitor is alive

callVars    == <<call, place, stage, result, runs, closes>>
controlVars == <<running, closed, handlers, setters, sent>>
crawlVars   == <<tx, rx, task, left, wait>>
procVars    == <<channel, proc, held, at>>
helperVars  == <<flag, monitors>>
vars == <<callVars, controlVars, crawlVars, procVars, counted, helperVars,
          pipeVars>>

Actors == Tasks \cup {Main, Proc}

Places == {"none", "monitor", "connect", "connected", "opened", "opening", "start", "crawl", "drain",
           "stopping", "closing", "hooks", "notify", "controller"}

TypeOK ==
    /\ PipeTypeOK
    /\ call \in {"none", "run", "close"}
    /\ place \in Places
    /\ stage \in 1 .. (Len(Chain) + 1)
    /\ result \in {"none", "ok", "error", "cancelled", "panic"}
    /\ runs \in 0 .. MaxCalls /\ closes \in 0 .. MaxCloses
    /\ running \in BOOLEAN
    /\ closed \in {"no", "yes", "revived"}
    /\ handlers \in [BOOLEAN -> Nat] /\ setters \in [BOOLEAN -> Nat] /\ sent \in 0 .. MaxCalls
    /\ tx \in BOOLEAN /\ rx \in BOOLEAN
    /\ task \in [Tasks -> {"none", "begin", "sending", "done"}]
    /\ left \in [Tasks -> Seq(Items)]
    /\ wait \in [Actors -> {"no", "tested", "parked", "woken"}]
    /\ channel \in Seq(Items) /\ Len(channel) <= Capacity
    /\ proc \in {"none", "recv", "item", "process", "done"}
    /\ held \in Seq(Items) /\ Len(held) <= 1
    /\ at \in 1 .. (Len(Chain) + 1)
    /\ counted \subseteq Items
    /\ flag \in BOOLEAN /\ monitors \subseteq 0 .. MaxCalls

Init ==
    /\ PipeInit
    /\ call = "none" /\ place = "none" /\ stage = 1 /\ result = "none" /\ runs = 0
    /\ closes = 0
    /\ running = FALSE /\ closed = "no"
    /\ handlers = [b \in BOOLEAN |-> 0] /\ setters = [b \in BOOLEAN |-> 0] /\ sent = 0
    /\ tx = TRUE /\ rx = TRUE
    /\ task = [t \in Tasks |-> "none"]
    /\ left = Scrapes
    /\ wait = [a \in Actors |-> "no"]
    /\ channel = <<>> /\ proc = "none" /\ held = <<>> /\ at = 1
    /\ counted = {}
    /\ flag = FALSE /\ monitors = {}

Runs == running' = TRUE /\ closed' = IF closed = "yes" THEN "revived" ELSE closed

\* notify_waiters wakes who is waiting already, and nobody else.
NotifyWaiters ==
    wait' = [a \in Actors |-> IF wait[a] = "parked" THEN "woken" ELSE wait[a]]

-----------------------------------------------------------------------------
(* The running flag, tested and waited for *)

\* Where run(), a task and the item processor test the flag.
AtCheckpoint(a) ==
    \/ a = Main /\ place = "crawl"
    \/ a = Proc /\ proc = "item"
    \/ a \in Tasks /\ task[a] = "begin"

\* The flag is read and its lock released before notified() is awaited.
TestPaused(a) ==
    /\ AtCheckpoint(a) /\ wait[a] = "no" /\ ~running
    /\ wait' = [wait EXCEPT ![a] = "tested"]
    /\ UNCHANGED <<callVars, controlVars, tx, rx, task, left, procVars, counted>>
    /\ UNCHANGED <<helperVars, pipeVars>>

Park(a) ==
    /\ wait[a] = "tested"
    /\ wait' = [wait EXCEPT ![a] = "parked"]
    /\ UNCHANGED <<callVars, controlVars, tx, rx, task, left, procVars, counted>>
    /\ UNCHANGED <<helperVars, pipeVars>>

\* Mutation: the flag is not tested.
PassesUntested(a) == AtCheckpoint(a) /\ wait' = [wait EXCEPT ![a] = "no"]

Passes(a) ==
    /\ AtCheckpoint(a)
    /\ wait[a] = "woken" \/ (wait[a] = "no" /\ running)
    /\ wait' = [wait EXCEPT ![a] = "no"]

-----------------------------------------------------------------------------
(* run() *)

RunGoes(from, to) ==
    /\ call = "run" /\ place = from /\ place' = to
    /\ UNCHANGED <<call, result, runs, closes>>

\* Nothing that run() has set up is undone.
RunEnds(how) ==
    /\ call' = "none" /\ place' = "none" /\ stage' = 1
    /\ result' = how
    /\ UNCHANGED <<runs, closes>>

\* A run() that finds the flag set returns an error and has changed nothing.
StartRun ==
    /\ call = "none" /\ ~running /\ runs + sent < MaxCalls
    /\ Runs
    /\ call' = "run" /\ place' = "monitor" /\ stage' = 1
    /\ result' = "none" /\ runs' = runs + 1
    /\ UNCHANGED <<closes, handlers, setters, sent, crawlVars, procVars, counted>>
    /\ UNCHANGED <<helperVars, pipeVars>>

\* The resource controller spawns a monitor unless it is on.
StartController ==
    /\ RunGoes("monitor", "connect")
    /\ flag' = TRUE
    /\ monitors' = IF flag THEN monitors ELSE monitors \cup {runs}
    /\ UNCHANGED <<stage, controlVars, crawlVars, procVars, counted, pipeVars>>

\* Handlers for EnginePaused (b = FALSE) and EngineResumed (b = TRUE), one more
\* of each with every run(); none is ever disconnected.
Connect(b, from, to) ==
    /\ RunGoes(from, to)
    /\ handlers' = [handlers EXCEPT ![b] = @ + 1]
    /\ UNCHANGED <<stage, running, closed, setters, sent, crawlVars, procVars, counted>>
    /\ UNCHANGED <<helperVars, pipeVars>>

ConnectPaused == Connect(FALSE, "connect", "connected")
ConnectResumed == Connect(TRUE, "connected", "opened")

\* spider_opened of the two chains of middlewares.
OpenMiddlewares ==
    /\ \/ RunGoes("opened", "opening") /\ UNCHANGED stage
       \/ /\ call = "run" /\ place = "opened" /\ "opened" \in Faults
          /\ RunEnds("error")
    /\ UNCHANGED <<controlVars, crawlVars, procVars, counted>>
    /\ UNCHANGED <<helperVars, pipeVars>>

OpenPipelines ==
    /\ call = "run" /\ place = "opening"
    /\ \/ stage \notin Stages /\ RunGoes("opening", "start") /\ UNCHANGED <<stage, pipeVars>>
       \/ /\ stage \in Stages /\ OpenStage(stage, TRUE)
          /\ stage' = stage + 1
          /\ UNCHANGED <<call, place, result, runs, closes>>
       \/ stage \in Stages /\ OpenStage(stage, FALSE) /\ RunEnds("error")
    /\ UNCHANGED <<controlVars, crawlVars, procVars, counted>>
    /\ UNCHANGED <<helperVars>>

\* The early return when a start request fails and the handler says Abort.
AbortStart ==
    /\ call = "run" /\ place = "start" /\ "start" \in Faults
    /\ RunEnds("error")
    /\ UNCHANGED <<controlVars, crawlVars, procVars, counted, helperVars, pipeVars>>

\* The start requests are queued and the item processor is spawned. The receiver
\* can be taken once: a second run that gets here panics.
StartCrawl ==
    /\ call = "run" /\ place = "start"
    /\ \/ /\ rx /\ rx' = FALSE /\ proc' = "recv"
          /\ RunGoes("start", "crawl") /\ UNCHANGED stage
       \/ ~rx /\ RunEnds("panic") /\ UNCHANGED <<rx, proc>>
    /\ UNCHANGED <<tx, task, left, wait, channel, held, at, controlVars, counted>>
    /\ UNCHANGED <<helperVars, pipeVars>>

SpawnTask(t) ==
    /\ call = "run" /\ Passes(Main)
    /\ task[t] = "none"
    /\ task' = [task EXCEPT ![t] = "begin"]
    /\ UNCHANGED <<callVars, controlVars, tx, rx, left, procVars, counted>>
    /\ UNCHANGED <<helperVars, pipeVars>>

\* Every task is reaped, the test of the loop fails, and the engine's own sender
\* is dropped.
FinishCrawl ==
    /\ \A t \in Tasks : task[t] = "done"
    /\ wait[Main] \in {"no", "woken"}
    /\ RunGoes("crawl", "drain")
    /\ tx' = FALSE /\ wait' = [wait EXCEPT ![Main] = "no"]
    /\ UNCHANGED <<stage, rx, task, left, controlVars, procVars, counted>>
    /\ UNCHANGED <<helperVars, pipeVars>>

\* Mutation: run() does not wait for the item processor.
AwaitNobody ==
    /\ RunGoes("drain", "stopping")
    /\ UNCHANGED <<stage, controlVars, crawlVars, procVars, counted>>
    /\ UNCHANGED <<helperVars, pipeVars>>

AwaitProcessor ==
    /\ proc = "done"
    /\ RunGoes("drain", "stopping")
    /\ UNCHANGED <<stage, controlVars, crawlVars, procVars, counted>>
    /\ UNCHANGED <<helperVars, pipeVars>>

\* The owner drops run() at one of its awaits, as tokio::select! and timeout do.
\* What it has spawned is detached, and its channel ends stay where they are.
CancelRun ==
    /\ call = "run"
    /\ RunEnds("cancelled")
    /\ wait' = [wait EXCEPT ![Main] = "no"]
    /\ UNCHANGED <<controlVars, tx, rx, task, left, procVars, counted>>
    /\ UNCHANGED <<helperVars, pipeVars>>

-----------------------------------------------------------------------------
(* What run() has spawned *)

TaskScrapes(t) ==
    /\ task[t] = "begin" /\ Passes(t)
    /\ task' = [task EXCEPT ![t] = "sending"]
    /\ UNCHANGED <<callVars, controlVars, tx, rx, left, procVars, counted>>
    /\ UNCHANGED <<helperVars, pipeVars>>

\* Mutation: the channel has no limit.
TaskSendsUnbounded(t) ==
    /\ task[t] = "sending"
    /\ \/ /\ left[t] # <<>>
          /\ channel' = Append(channel, Head(left[t]))
          /\ left' = [left EXCEPT ![t] = Tail(@)]
          /\ UNCHANGED task
       \/ /\ left[t] = <<>>
          /\ task' = [task EXCEPT ![t] = "done"]
          /\ UNCHANGED <<channel, left>>
    /\ UNCHANGED <<callVars, controlVars, tx, rx, wait, proc, held, at, counted>>
    /\ UNCHANGED <<helperVars, pipeVars>>

\* The items go out one after the other, whatever becomes of the flag.
TaskSends(t) ==
    /\ task[t] = "sending"
    /\ \/ /\ left[t] # <<>> /\ Len(channel) < Capacity
          /\ channel' = Append(channel, Head(left[t]))
          /\ left' = [left EXCEPT ![t] = Tail(@)]
          /\ UNCHANGED task
       \/ /\ left[t] = <<>>
          /\ task' = [task EXCEPT ![t] = "done"]
          /\ UNCHANGED <<channel, left>>
    /\ UNCHANGED <<callVars, controlVars, tx, rx, wait, proc, held, at, counted>>
    /\ UNCHANGED <<helperVars, pipeVars>>

Receive ==
    /\ proc = "recv" /\ channel # <<>>
    /\ held' = <<Head(channel)>> /\ channel' = Tail(channel)
    /\ proc' = "item"
    /\ UNCHANGED <<at, callVars, controlVars, crawlVars, counted>>
    /\ UNCHANGED <<helperVars, pipeVars>>

\* recv() answers None once the engine and every task have dropped their sender.
EndProcessor ==
    /\ proc = "recv" /\ channel = <<>>
    /\ ~tx /\ \A t \in Tasks : task[t] \in {"none", "done"}
    /\ proc' = "done"
    /\ UNCHANGED <<channel, held, at, callVars, controlVars, crawlVars, counted>>
    /\ UNCHANGED <<helperVars, pipeVars>>

StartItem ==
    /\ proc = "item" /\ Passes(Proc)
    /\ proc' = "process" /\ at' = 1
    /\ UNCHANGED <<channel, held, callVars, controlVars, tx, rx, task, left, counted>>
    /\ UNCHANGED <<helperVars, pipeVars>>

ItemPasses ==
    /\ proc = "process" /\ at \in Stages
    /\ ProcessStage(at, held[1], TRUE)
    /\ at' = at + 1
    /\ UNCHANGED <<channel, proc, held, callVars, controlVars, crawlVars, counted>>
    /\ UNCHANGED <<helperVars>>

ItemFails ==
    /\ proc = "process" /\ at \in Stages
    /\ ProcessStage(at, held[1], FALSE)
    /\ proc' = "recv" /\ held' = <<>> /\ at' = 1
    /\ UNCHANGED <<channel, callVars, controlVars, crawlVars, counted>>
    /\ UNCHANGED <<helperVars>>

CountItem ==
    /\ proc = "process" /\ at \notin Stages
    /\ counted' = counted \cup {held[1]}
    /\ proc' = "recv" /\ held' = <<>> /\ at' = 1
    /\ UNCHANGED <<channel, callVars, controlVars, crawlVars>>
    /\ UNCHANGED <<helperVars, pipeVars>>

\* A spawned signal handler sets the flag, whenever it gets to.
Setter(b) ==
    /\ setters[b] > 0
    /\ setters' = [setters EXCEPT ![b] = @ - 1]
    /\ IF b THEN Runs ELSE running' = FALSE /\ UNCHANGED closed
    /\ UNCHANGED <<handlers, sent, callVars, crawlVars, procVars, counted>>
    /\ UNCHANGED <<helperVars, pipeVars>>

\* A monitor ends when it finds the flag off between two ticks.
MonitorEnds(m) ==
    /\ m \in monitors /\ ~flag
    /\ monitors' = monitors \ {m}
    /\ UNCHANGED <<flag, callVars, controlVars, crawlVars, procVars, counted>>
    /\ UNCHANGED <<pipeVars>>

-----------------------------------------------------------------------------
(* pause(), resume(), and signals from whoever holds the signal manager *)

Signals(b) ==
    /\ runs + sent < MaxCalls /\ sent' = sent + 1
    /\ setters' = [setters EXCEPT ![b] = @ + handlers[b]]
    /\ UNCHANGED handlers

Pause ==
    /\ call = "none" /\ running
    /\ running' = FALSE /\ UNCHANGED closed
    /\ Signals(FALSE)
    /\ UNCHANGED <<callVars, crawlVars, procVars, counted>>
    /\ UNCHANGED <<helperVars, pipeVars>>

Resume ==
    /\ call = "none" /\ ~running
    /\ Runs
    /\ NotifyWaiters
    /\ Signals(TRUE)
    /\ UNCHANGED <<callVars, tx, rx, task, left, procVars, counted>>
    /\ UNCHANGED <<helperVars, pipeVars>>

SendSignal(b) ==
    /\ handlers[b] > 0 /\ Signals(b)
    /\ UNCHANGED <<running, closed, callVars, crawlVars, procVars, counted>>
    /\ UNCHANGED <<helperVars, pipeVars>>

-----------------------------------------------------------------------------
(* close(), called by run() or by the owner *)

CloseGoes(from, to) ==
    /\ call \in {"run", "close"} /\ place = from /\ place' = to
    /\ UNCHANGED <<call, result, runs, closes>>

CallClose ==
    /\ call = "none" /\ closes < MaxCloses
    /\ closes' = closes + 1
    /\ call' = "close" /\ place' = "stopping"
    /\ UNCHANGED <<stage, result, runs, controlVars, crawlVars, procVars, counted>>
    /\ UNCHANGED <<helperVars, pipeVars>>

BeginClose ==
    /\ CloseGoes("stopping", "closing")
    /\ stage' = 1
    /\ running' = FALSE
    /\ closed' = IF closed = "no" THEN "yes" ELSE closed
    /\ UNCHANGED <<handlers, setters, sent, crawlVars, procVars, counted>>
    /\ UNCHANGED <<helperVars, pipeVars>>

\* A stage that fails to close leaves the ones after it open.
ClosePipelines ==
    /\ \/ stage \notin Stages /\ CloseGoes("closing", "hooks") /\ UNCHANGED <<stage, pipeVars>>
       \/ /\ stage \in Stages /\ CloseStage(stage, TRUE)
          /\ CloseGoes("closing", "closing") /\ stage' = stage + 1
       \/ /\ stage \in Stages /\ CloseStage(stage, FALSE)
          /\ CloseGoes("closing", "hooks") /\ UNCHANGED stage
    /\ UNCHANGED <<controlVars, crawlVars, procVars, counted>>
    /\ UNCHANGED <<helperVars>>

Custom == stage \in Stages /\ Chain[stage] = "custom"

\* Five seconds pass in a stage that takes its time: the rest is not closed. A
\* JSON stage has no await once it has its file, so its close is not cut short.
PipelinesTimeOut ==
    /\ "pipelines" \in Slow /\ Custom
    /\ CloseGoes("closing", "hooks")
    /\ Spoils(stage)
    /\ UNCHANGED <<stage, content, handle, filed, controlVars, crawlVars, procVars, counted>>
    /\ UNCHANGED <<helperVars>>

\* spider_closed of the middlewares and closed of the spider, one after the
\* other: their errors are logged, and so are the timeouts.
HooksEnd ==
    /\ CloseGoes("hooks", "notify")
    /\ UNCHANGED <<stage, controlVars, crawlVars, procVars, counted, helperVars, pipeVars>>

\* Mutation: nothing cuts the hooks short.
NoTimeOut == FALSE /\ HooksEnd

HooksTimeOut == "hooks" \in Slow /\ HooksEnd

\* The end time is set, and the waiters notified.
NotifyAtClose ==
    /\ CloseGoes("notify", "controller")
    /\ NotifyWaiters
    /\ UNCHANGED <<stage, controlVars, tx, rx, task, left, procVars, counted>>
    /\ UNCHANGED <<helperVars, pipeVars>>

\* Mutation: the controller is stopped at the end of a run() only.
StopControllerOfRun ==
    /\ call \in {"run", "close"} /\ place = "controller"
    /\ RunEnds(IF call = "run" THEN "ok" ELSE result)
    /\ flag' = IF call = "run" THEN FALSE ELSE flag
    /\ UNCHANGED <<monitors, controlVars, crawlVars, procVars, counted>>
    /\ UNCHANGED <<pipeVars>>

\* ResourceController::stop, and the call returns.
StopController ==
    /\ call \in {"run", "close"} /\ place = "controller"
    /\ RunEnds(IF call = "run" THEN "ok" ELSE result)
    /\ flag' = FALSE
    /\ UNCHANGED <<monitors, controlVars, crawlVars, procVars, counted>>
    /\ UNCHANGED <<pipeVars>>

-----------------------------------------------------------------------------
Run ==
    \/ StartRun \/ StartController \/ ConnectPaused \/ ConnectResumed
    \/ OpenMiddlewares \/ OpenPipelines \/ AbortStart
    \/ StartCrawl \/ FinishCrawl \/ AwaitProcessor
    \/ \E t \in Tasks : SpawnTask(t)

TaskStep(t) == TaskScrapes(t) \/ TaskSends(t)

ProcStep == Receive \/ EndProcessor \/ StartItem \/ ItemPasses \/ ItemFails \/ CountItem

CloseStep ==
    \/ CallClose \/ BeginClose \/ ClosePipelines \/ PipelinesTimeOut
    \/ HooksEnd \/ HooksTimeOut \/ NotifyAtClose \/ StopController

Next ==
    \/ Run \/ CancelRun \/ CloseStep
    \/ \E t \in Tasks : TaskStep(t)
    \/ ProcStep
    \/ \E a \in Actors : TestPaused(a) \/ Park(a)
    \/ \E b \in BOOLEAN : Setter(b) \/ SendSignal(b)
    \/ Pause \/ Resume
    \/ \E m \in 1 .. MaxCalls : MonitorEnds(m)

\* tokio polls every spawned task again and again and timers fire. A hook that
\* is Slow owes nothing; its timeout does.
ClosingFairly ==
    \/ BeginClose
    \/ ClosePipelines /\ ~(Custom /\ "pipelines" \in Slow)
    \/ PipelinesTimeOut
    \/ "hooks" \notin Slow /\ HooksEnd
    \/ HooksTimeOut \/ NotifyAtClose \/ StopController

Fairness ==
    /\ WF_vars(ClosingFairly)
    /\ \A m \in 1 .. MaxCalls : WF_vars(MonitorEnds(m))

Spec == Init /\ [][Next]_vars /\ Fairness

\* The tasks and the item processor are polled again and again as well.
FairSpec ==
    /\ Spec /\ WF_vars(ProcStep)
    /\ \A t \in Tasks : WF_vars(TaskStep(t))
    /\ \A a \in Actors : WF_vars(TestPaused(a)) /\ WF_vars(Park(a))

-----------------------------------------------------------------------------
(* Properties *)

\* After a run() that nobody cut short, a JSON file that was open throughout is
\* one well-formed array, and it holds every item that item_count counts
\* (pipeline/src/lib.rs close_spider, engine run and close).
FileWhole ==
    call = "none" /\ result = "ok" =>
        \A i \in Files :
            Chain[i] = "json" /\ i \notin spoiled =>
                /\ content[i] = Rendered(filed[i])
                /\ \A x \in counted : \E k \in DOMAIN filed[i] : filed[i][k] = x

Filed(i, x) == \E k \in DOMAIN filed[i] : filed[i][k] = x

\* The counted items that are missing from a file nothing went wrong with.
Lost == {x \in counted : \E i \in Files \ spoiled : ~Filed(i, x)}

\* close() neither ends the item processor nor waits for it, and a JSON stage
\* without its handle accepts items and drops them: an item is counted and not
\* filed for each close(), which wakes the processor once, and one that it had in
\* hand, as long as nothing sets running again (engine run, close;
\* pipeline/src/lib.rs process_dynamic_item).
LossBounded == runs <= 1 /\ closed # "revived" => Cardinality(Lost) <= closes + 1

\* Whatever the hooks of pipelines, middlewares and spider do, a close() that
\* has begun returns (engine close: a timeout for each of them).
CloseReturns == (call = "close") ~> (call # "close")

\* Whatever runs have been dropped, aborted or ended in a panic, and even if one has
\* left its monitor beside an older one: once close() is called, or a run() ends
\* well, every monitor ends, unless another run() begins before
\* (resource_control.rs start, stop; engine run, close).
MonitorsEnd ==
    (call = "close" \/ (call = "none" /\ result = "ok")) ~> (monitors = {} \/ call = "run")

\* The comment of the notification in close() says that it unblocks any waiting
\* tasks so they can terminate (engine close, and the pause checks of run).
WaitersEnd ==
    \A t \in Tasks :
        (closed = "yes" /\ call = "none" /\ wait[t] # "no") ~>
            (task[t] = "done" \/ closed # "yes")

-----------------------------------------------------------------------------
(* The inductive invariant of FileWhole *)

\* The array of the items of s while it is open.
Opened(s) ==
    [k \in 1 .. (2 * Len(s) + 1) |->
        IF k = 1 THEN "[" ELSE IF k % 2 = 0 THEN s[k \div 2] ELSE ","]

Intact == {i \in Stages : Chain[i] = "json"} \ spoiled

\* Why: a file nothing went wrong with is an open array, a closed one, or was
\* never opened.
FilesTracked ==
    \A i \in Intact :
        /\ handle[i] => content[i] = Opened(filed[i])
        /\ ~handle[i] => content[i] \in {<<>>, Rendered(filed[i])}

\* The places of run() until all stages are open.
Starting == {"monitor", "connect", "connected", "opened", "opening"}

\* Why: run() has opened a stage and not closed it yet,
HasOpened(i) ==
    /\ call = "run"
    /\ \/ place \in Starting /\ stage > i
       \/ place \in {"start", "crawl", "drain", "stopping"}
       \/ place = "closing" /\ stage <= i

\* or it has closed it,
HasClosed(i) ==
    \/ /\ call = "run"
       /\ place \in {"hooks", "notify", "controller"} \/ (place = "closing" /\ stage > i)
    \/ call # "run" /\ result = "ok"

OpenInPlace ==
    \A i \in Intact :
        /\ HasOpened(i) => handle[i]
        /\ HasClosed(i) => ~handle[i] /\ content[i] # <<>>

\* Why: the processor holds an item, is there once the crawl has begun, and done
\* when the close of run() begins.
Closing ==
    \/ call = "run" /\ place \in {"stopping", "closing", "hooks", "notify", "controller"}
    \/ call # "run" /\ result = "ok"

ProcessorInPlace ==
    /\ proc \in {"item", "process"} => Len(held) = 1
    /\ proc = "none" => counted = {}
    /\ rx => proc = "none"
    /\ Closing => proc = "done"

\* Why: run() counts no item that the stages it has passed have not filed.
Crawling == call = "run" /\ place \in {"crawl", "drain"}

CountedFiled ==
    Crawling \/ Closing =>
        \A i \in Intact :
            /\ \A x \in counted : Filed(i, x)
            /\ proc = "process" /\ at > i => Filed(i, held[1])

IInv ==
    /\ TypeOK /\ FilesTracked /\ OpenInPlace /\ ProcessorInPlace /\ CountedFiled

-----------------------------------------------------------------------------
(* The inductive invariant of LossBounded *)

OneRun == runs <= 1 /\ closed # "revived"

\* Why: a close clears the flag, so the processor goes on with an item only when
\* it has passed its test already or has been woken since,
InHand == proc = "process" \/ (proc = "item" /\ wait[Proc] = "woken")

\* and a close() of the owner wakes it once.
Waking == call = "close" /\ place \in {"stopping", "closing", "hooks", "notify"}

ClosedInPlace ==
    /\ closed = "yes" => ~running
    /\ place \in {"closing", "hooks", "notify", "controller"} => closed # "no"
    /\ call = "close" => closes > 0
    /\ proc # "item" => wait[Proc] = "no"

\* Why: the first run() opens the stages before it spawns the processor.
OpensFirst ==
    /\ call = "run" => runs > 0
    /\ runs = 0 \/ (runs = 1 /\ place \in Starting \cup {"start"}) => rx

\* Why: until a close begins the processor finds every file open that nothing
\* went wrong with.
NothingLost ==
    OneRun /\ closed = "no" =>
        \A i \in Files \ spoiled :
            /\ \A x \in counted : Filed(i, x)
            /\ proc = "process" /\ at > i => Filed(i, held[1])
            /\ \/ ~rx \/ place = "start"
               \/ place \in Starting /\ stage > i
               => handle[i]

LossTracked ==
    /\ IsFiniteSet(counted)
    /\ OneRun => Cardinality(Lost) + (IF InHand THEN 1 ELSE 0)
                   + (IF Waking THEN 1 ELSE 0) <= closes + 1

LossInv == ClosedInPlace /\ OpensFirst /\ NothingLost /\ LossTracked

=============================================================================
