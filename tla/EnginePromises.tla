--------------------------- MODULE EnginePromises ---------------------------
(***************************************************************************)
(* Proofs of what Engine promises beyond EngineProofs: every slot has a    *)
(* request for each task that waits on it, every scraped item and every    *)
(* request are accounted for, a run is a crawl in the sense of module      *)
(* Crawl, its actors never wait for each other in a circle, and with a     *)
(* limit of zero it never ends. They rest on the invariant of              *)
(* EngineProofs.                                                           *)
(***************************************************************************)
EXTENDS EngineProofs, SequenceTheorems

-----------------------------------------------------------------------------
(* The slots *)

\* The tasks between add_request and next_request of slot d.
Waiting(d) == {t \in Tasks : pc[t] = "queued" /\ DomainOf[req[t].url] = d}

\* A step that leaves the slots and those who wait on them alone.
LEMMA SlotsKept ==
    ASSUME SlotsSupplied, slots' = slots,
           \A t \in Tasks : /\ pc'[t] = "queued" <=> pc[t] = "queued"
                            /\ pc[t] = "queued" => req'[t] = req[t]
    PROVE  SlotsSupplied'
<1>1. \A d \in Domains : Waiting(d)' = Waiting(d)
  BY DEF Waiting
<1> QED
  BY <1>1 DEF SlotsSupplied, Waiting

\* What a task that arrives or leaves does to the number of those who wait.
LEMMA WaitingCounts ==
    ASSUME NEW d \in Domains, NEW t \in Tasks
    PROVE  /\ IsFiniteSet(Waiting(d)) /\ Cardinality(Waiting(d)) \in Nat
           /\ t \notin Waiting(d) =>
                Cardinality(Waiting(d) \cup {t}) = Cardinality(Waiting(d)) + 1
           /\ t \in Waiting(d) =>
                Cardinality(Waiting(d) \ {t}) = Cardinality(Waiting(d)) - 1
<1>1. IsFiniteSet(Waiting(d))
  BY EngineAssumption, FS_Subset DEF Waiting
<1> QED
  BY <1>1, FS_AddElement, FS_RemoveElement, FS_CardinalityType

\* A task that adds its request waits on the slot from then on.
LEMMA AddSupplies ==
    ASSUME TypeOK, PlacesMatchData, SlotsSupplied, NEW t \in Tasks, AddToSlot(t)
    PROVE  SlotsSupplied'
<1> SUFFICES ASSUME NEW d \in Domains
             PROVE  Len(slots'[d]) = Cardinality(Waiting(d)')
  BY DEF SlotsSupplied, Waiting
<1>1. /\ pc[t] = "begin" /\ pc'[t] = "queued" /\ req' = req
      /\ \A s \in Tasks \ {t} : pc'[s] = pc[s]
  BY DEF AddToSlot, TaskGoes, TypeOK
<1>2. req[t] \in Requests /\ slots[d] \in Seq(Requests)
  BY <1>1 DEF PlacesMatchData, TypeOK
<1>3. Len(slots[d]) = Cardinality(Waiting(d))
  BY DEF SlotsSupplied, Waiting
<1>4. CASE DomainOf[req[t].url] = d
  <2>1. slots'[d] = Append(slots[d], req[t])
    BY <1>4 DEF AddToSlot, TypeOK
  <2>2. Len(slots'[d]) = Len(slots[d]) + 1
    BY <1>2, <2>1
  <2>3. Waiting(d)' = Waiting(d) \cup {t} /\ t \notin Waiting(d)
    BY <1>1, <1>4 DEF Waiting
  <2> QED
    BY <1>3, <2>2, <2>3, WaitingCounts
<1>5. CASE DomainOf[req[t].url] # d
  <2>1. slots'[d] = slots[d]
    BY <1>5 DEF AddToSlot, TypeOK
  <2>2. Waiting(d)' = Waiting(d)
    BY <1>1, <1>5 DEF Waiting
  <2> QED
    BY <1>3, <2>1, <2>2
<1> QED
  BY <1>4, <1>5

\* A task that waits finds a request, and its turn is over.
LEMMA TakeSupplies ==
    ASSUME TypeOK, PlacesMatchData, SlotsSupplied, NEW t \in Tasks, TakeFromSlot(t)
    PROVE  SlotsSupplied' /\ pc'[t] = "download"
<1>1. PICK e : e = DomainOf[req[t].url]
  OBVIOUS
<1>2. pc[t] = "queued" /\ req[t] \in Requests
  BY DEF TakeFromSlot, PlacesMatchData
<1>3. e \in Domains
  BY <1>1, <1>2, EngineAssumption DEF S!SchedulerConstants
<1>4. \A d \in Domains : slots[d] \in Seq(Requests)
  BY DEF TypeOK
<1>5. \A d \in Domains : Len(slots[d]) = Cardinality(Waiting(d))
  BY DEF SlotsSupplied, Waiting
<1>6. t \in Waiting(e) /\ \A d \in Domains \ {e} : t \notin Waiting(d)
  BY <1>1, <1>2 DEF Waiting
<1>7. Len(slots[e]) # 0
  <2>1. Cardinality(Waiting(e) \ {t}) = Cardinality(Waiting(e)) - 1
    BY <1>3, <1>6, WaitingCounts
  <2>2. IsFiniteSet(Waiting(e) \ {t})
    BY <1>3, WaitingCounts, FS_Subset
  <2>3. Cardinality(Waiting(e) \ {t}) \in Nat
    BY <2>2, FS_CardinalityType
  <2> QED
    BY <1>3, <1>5, <2>1, <2>3, WaitingCounts
<1>8. slots[e] # <<>>
  BY <1>3, <1>4, <1>7
<1>9. /\ pc' = [pc EXCEPT ![t] = "download"]
      /\ slots' = [slots EXCEPT ![e] = Tail(@)]
      /\ \A s \in Tasks \ {t} : req'[s] = req[s]
  BY <1>1, <1>8 DEF TakeFromSlot, TaskGoes, TypeOK
<1>10. pc'[t] = "download" /\ \A s \in Tasks \ {t} : pc'[s] = pc[s]
  BY <1>9 DEF TypeOK
<1>11. ASSUME NEW d \in Domains
       PROVE  Len(slots'[d]) = Cardinality(Waiting(d)')
  <2>1. Waiting(d)' = Waiting(d) \ {t}
    BY <1>9, <1>10 DEF Waiting
  <2>2. CASE d = e
    <3>1. slots'[d] = Tail(slots[d])
      BY <1>3, <1>9, <2>2 DEF TypeOK
    <3>2. Len(slots'[d]) = Len(slots[d]) - 1
      BY <1>4, <1>8, <2>2, <3>1
    <3> QED
      BY <1>5, <1>6, <2>1, <2>2, <3>2, WaitingCounts
  <2>3. CASE d # e
    <3>1. slots'[d] = slots[d]
      BY <1>9, <2>3 DEF TypeOK
    <3>2. Waiting(d)' = Waiting(d)
      BY <1>6, <2>1, <2>3
    <3> QED
      BY <1>5, <3>1, <3>2
  <2> QED
    BY <2>2, <2>3
<1> QED
  BY <1>10, <1>11 DEF SlotsSupplied, Waiting

\* No other step touches a slot or a task that waits on one.
LEMMA SlotsStep ==
    ASSUME TypeOK, PlacesMatchData, SlotsSupplied, [Next]_vars
    PROVE  SlotsSupplied'
<1> DEFINE Aside == /\ slots' = slots
                    /\ \A t \in Tasks : /\ pc'[t] = "queued" <=> pc[t] = "queued"
                                        /\ pc[t] = "queued" => req'[t] = req[t]
<1>1. Aside => SlotsSupplied'
  BY SlotsKept
<1>2. UNCHANGED vars => Aside
  BY DEF vars, taskVars
<1>3. MainStep => Aside
  <2>1. \A t \in Tasks : SpawnTask(t) \/ AwaitTask(t) \/ AwaitRest(t) => Aside
    BY DEF SpawnTask, AwaitTask, AwaitRest, Reaps, TypeOK
  <2>2. CASE UNCHANGED taskVars
    BY <2>2 DEF taskVars
  <2>3. MainStep => UNCHANGED taskVars
                      \/ \E t \in Tasks : SpawnTask(t) \/ AwaitTask(t) \/ AwaitRest(t)
    BY DEF MainStep, MainEnqueues, MainEnqueued, SeedFails, StartCrawl, EnterLoop,
           MainParks, LeaveLoop, TakeNext, StopFilling, CountRequest, RejectRequest,
           NothingLeft, ShortSleep, CloseChannel, AwaitItems, CloseEngine, MainGoes
  <2> QED
    BY <2>1, <2>2, <2>3
<1>4. \A t \in Tasks : TaskStep(t) => Aside \/ AddToSlot(t) \/ TakeFromSlot(t)
  <2> SUFFICES ASSUME NEW t \in Tasks, TaskStep(t), ~AddToSlot(t), ~TakeFromSlot(t)
               PROVE  Aside
    OBVIOUS
  <2>1. slots' = slots /\ req' = req
    BY DEF TaskStep, TaskParks, Download, DownloadFails, AcceptResponse,
           RejectResponse, RetryByMeta, Parse, ParseFails, FollowLinks, LinksDone,
           StartSending, SendItem, TaskEnqueues, TaskEnqueued, taskVars
  <2>2. /\ \A s \in Tasks \ {t} : pc'[s] = pc[s]
        /\ pc[t] # "queued" /\ pc'[t] # "queued"
    BY DEF TaskStep, TaskParks, Checkpoints, Download, DownloadFails, AcceptResponse,
           RejectResponse, RetryByMeta, Parse, ParseFails, FollowLinks, LinksDone,
           StartSending, SendItem, TaskEnqueues, TaskEnqueued, taskVars, TaskGoes,
           Handle, TypeOK
  <2> QED
    BY <2>1, <2>2
<1>5. ItemStep => Aside
  BY DEF ItemStep, ReceiveItem, ProcessItem, ItemParks, EndItems, taskVars
<1>6. \A b \in BOOLEAN : SendSignal(b) \/ SetRunning(b) => Aside
  BY DEF SendSignal, SetRunning, taskVars
<1> HIDE DEF Aside
<1> QED
  BY <1>1, <1>2, <1>3, <1>4, <1>5, <1>6, AddSupplies, TakeSupplies DEF Next, Over

\* At the start every slot is empty and nobody waits.
LEMMA SlotsInit == Init => SlotsSupplied
<1> SUFFICES ASSUME Init, NEW d \in Domains
             PROVE  Len(slots[d]) = Cardinality(Waiting(d))
  BY DEF SlotsSupplied, Waiting
<1>1. Waiting(d) = {} /\ slots[d] = <<>>
  BY DEF Init, Waiting
<1>2. Cardinality(Waiting(d)) = 0
  BY <1>1, FS_EmptySet
<1>3. Len(slots[d]) = 0
  BY <1>1
<1> QED
  BY <1>2, <1>3

\* For any site, any domains and any number of tasks, the queue of a slot holds
\* one request for each task between add_request and next_request, so no task of
\* run() ever finds its slot empty.
THEOREM SuppliesSlots == Spec => []SlotsSupplied
<1>1. IInv => TypeOK /\ PlacesMatchData
  BY DEF IInv
<1> QED
  BY <1>1, SlotsInit, SlotsStep, EngineInvariance, PTL DEF Spec
-----------------------------------------------------------------------------
(* The items *)

\* What each way to count does to the four counters.
LEMMA CountsOne ==
    ASSUME NEW s \in Counters, NEW c \in Counters
    PROVE  /\ s.request \in Nat /\ s.response \in Nat /\ s.item \in Nat /\ s.error \in Nat
           /\ c = [s EXCEPT !.request = @ + 1] =>
                /\ c.request = s.request + 1 /\ c.response = s.response
                /\ c.item = s.item /\ c.error = s.error
           /\ c = [s EXCEPT !.response = @ + 1] =>
                /\ c.request = s.request /\ c.response = s.response + 1
                /\ c.item = s.item /\ c.error = s.error
           /\ c = [s EXCEPT !.item = @ + 1] =>
                /\ c.request = s.request /\ c.response = s.response
                /\ c.item = s.item + 1 /\ c.error = s.error
           /\ c = [s EXCEPT !.error = @ + 1] =>
                /\ c.request = s.request /\ c.response = s.response
                /\ c.item = s.item /\ c.error = s.error + 1
           /\ c = [s EXCEPT !.response = @ + 1, !.error = @ + 1] =>
                /\ c.request = s.request /\ c.response = s.response + 1
                /\ c.item = s.item /\ c.error = s.error + 1
  BY DEF Counters

\* All but one of them leave the items alone.
LEMMA NoItemCounted ==
    ASSUME NEW s \in Counters, NEW c \in Counters,
           \/ c = s
           \/ c = [s EXCEPT !.request = @ + 1] \/ c = [s EXCEPT !.response = @ + 1]
           \/ c = [s EXCEPT !.error = @ + 1]
           \/ c = [s EXCEPT !.response = @ + 1, !.error = @ + 1]
    PROVE  c.item = s.item /\ c.error >= s.error
<1>1. s.error \in Nat
  BY CountsOne
<1>2. c.item = s.item /\ (c.error = s.error \/ c.error = s.error + 1)
  BY CountsOne
<1> QED
  BY <1>1, <1>2

\* At the start nothing is scraped.
LEMMA ItemsInit == Init => ItemsTracked
  BY DEF Init, ItemsTracked, Pending

\* A step that neither accepts an item nor takes one on, and counts errors at most.
LEMMA ItemsKept ==
    ASSUME TypeOK, stats' \in Counters, ItemsTracked,
           UNCHANGED <<channel, item, scraped>>,
           stats'.item = stats.item, stats'.error >= stats.error,
           item = "done" => Live' = {} /\ main' \in {"items", "close", "closed"},
           main' \in {"close", "closed"} => item = "done"
    PROVE  ItemsTracked'
<1>1. Pending' = Pending
  BY DEF Pending
<1>2. /\ stats.item \in Nat /\ stats.error \in Nat
      /\ stats'.item \in Nat /\ stats'.error \in Nat
  BY DEF TypeOK, Counters
<1>3. Pending \in Nat /\ scraped \in Nat
  BY DEF TypeOK, Pending
<1>4. stats'.item + Pending' <= scraped'
  BY <1>1, <1>2, <1>3 DEF ItemsTracked
<1>5. scraped' <= stats'.item + stats'.error + Pending'
  <2> DEFINE e == stats.error
             f == stats'.error
  <2>1. scraped <= stats.item + e + Pending
    BY DEF ItemsTracked
  <2>2. e <= f /\ e \in Nat /\ f \in Nat
    BY <1>2
  <2> HIDE DEF e, f
  <2>3. scraped' <= stats'.item + f + Pending'
    BY <1>1, <1>2, <1>3, <2>1, <2>2
  <2> QED
    BY <2>3 DEF f
<1>6. "item" \notin Faults => stats'.item + Pending' = scraped'
  BY <1>1 DEF ItemsTracked
<1>7. item' = "done" =>
        channel' = 0 /\ Live' = {} /\ main' \in {"items", "close", "closed"}
  BY DEF ItemsTracked
<1>8. main' \in {"close", "closed"} => item' = "done"
  OBVIOUS
<1> QED
  BY <1>4, <1>5, <1>6, <1>7, <1>8 DEF ItemsTracked

\* The steps of run().
LEMMA MainItems ==
    ASSUME TypeOK, ItemsTracked, stats' \in Counters, MainStep
    PROVE  ItemsTracked'
<1>1. UNCHANGED <<channel, item, scraped>>
  BY DEF MainStep, MainEnqueues, MainEnqueued, SeedFails, StartCrawl, EnterLoop,
         MainParks, LeaveLoop, TakeNext, StopFilling, CountRequest, RejectRequest,
         NothingLeft, ShortSleep, SpawnTask, AwaitTask, AwaitRest, CloseChannel,
         AwaitItems, CloseEngine, MainGoes, Reaps, itemVars
<1>2. stats'.item = stats.item /\ stats'.error >= stats.error
  <2>1. \/ stats' = stats \/ stats' = [stats EXCEPT !.request = @ + 1]
        \/ stats' = [stats EXCEPT !.error = @ + 1]
    BY DEF MainStep, MainEnqueues, MainEnqueued, SeedFails, StartCrawl, EnterLoop,
           MainParks, LeaveLoop, TakeNext, StopFilling, CountRequest, RejectRequest,
           NothingLeft, ShortSleep, SpawnTask, AwaitTask, AwaitRest, CloseChannel,
           AwaitItems, CloseEngine, MainGoes, Reaps, Error
  <2>2. stats \in Counters
    BY DEF TypeOK
  <2> QED
    BY <2>1, <2>2, NoItemCounted
<1>3. \/ AwaitItems \/ CloseEngine
      \/ main \notin {"items", "close", "closed"}
            /\ main' \notin {"close", "closed"}
  BY DEF MainStep, MainEnqueues, MainEnqueued, Offered, SeedFails, StartCrawl,
         EnterLoop, MainParks, LeaveLoop, TakeNext, StopFilling, CountRequest,
         RejectRequest, NothingLeft, ShortSleep, SpawnTask, AwaitTask, AwaitRest,
         CloseChannel, MainGoes, Reaps, mainVars
<1>4. AwaitItems \/ CloseEngine =>
        /\ main' \in {"close", "closed"} /\ item = "done" /\ Live' = Live
  BY DEF AwaitItems, CloseEngine, MainGoes, ItemsTracked, Live, taskVars
<1> QED
  BY <1>1, <1>2, <1>3, <1>4, ItemsKept DEF ItemsTracked

\* The steps of a task: it sends an item, or leaves the items alone.
LEMMA TaskItems ==
    ASSUME TypeOK, ItemsTracked, stats' \in Counters, NEW t \in Tasks, TaskStep(t)
    PROVE  ItemsTracked'
<1>1. pc[t] # "free" /\ t \in Live /\ main' = main
  BY DEF TaskStep, TaskParks, Checkpoints, AddToSlot, TakeFromSlot, Download,
         DownloadFails, AcceptResponse, RejectResponse, RetryByMeta, Parse, ParseFails,
         FollowLinks, LinksDone, StartSending, SendItem, TaskEnqueues, TaskEnqueued,
         TaskGoes, mainVars, Live
<1>2. item # "done"
  BY <1>1 DEF ItemsTracked
<1>3. CASE SendItem(t)
  <2>1. /\ channel' = channel + 1 /\ scraped' = scraped + 1
        /\ UNCHANGED <<item, stats, main>>
    BY <1>1, <1>3 DEF SendItem
  <2>2. /\ stats.item \in Nat /\ stats.error \in Nat /\ scraped \in Nat
        /\ channel \in Int
    BY EngineAssumption DEF TypeOK, Counters
  <2> QED
    BY <1>2, <2>1, <2>2 DEF ItemsTracked, Pending
<1>4. CASE ~SendItem(t)
  <2>1. UNCHANGED <<channel, item, scraped>>
    BY <1>4 DEF TaskStep, TaskParks, AddToSlot, TakeFromSlot, Download, DownloadFails,
         AcceptResponse, RejectResponse, RetryByMeta, Parse, ParseFails, FollowLinks,
         LinksDone, StartSending, TaskEnqueues, TaskEnqueued, itemVars
  <2>2. stats'.item = stats.item /\ stats'.error >= stats.error
    <3>1. \/ stats' = stats \/ stats' = [stats EXCEPT !.response = @ + 1]
          \/ stats' = [stats EXCEPT !.error = @ + 1]
          \/ stats' = [stats EXCEPT !.response = @ + 1, !.error = @ + 1]
      BY <1>4 DEF TaskStep, TaskParks, AddToSlot, TakeFromSlot, Download, DownloadFails,
           AcceptResponse, RejectResponse, RetryByMeta, Parse, ParseFails, FollowLinks,
           LinksDone, StartSending, TaskEnqueues, TaskEnqueued, Error
    <3>2. stats \in Counters
      BY DEF TypeOK
    <3> QED
      BY <3>1, <3>2, NoItemCounted
  <2> QED
    BY <1>1, <1>2, <2>1, <2>2, ItemsKept DEF ItemsTracked
<1> QED
  BY <1>3, <1>4

\* The steps of the item processor.
LEMMA ProcessorItems ==
    ASSUME TypeOK, ItemsTracked, stats' \in Counters, ItemStep
    PROVE  ItemsTracked'
<1>1. Live' = Live /\ main' = main
  BY DEF ItemStep, ReceiveItem, ProcessItem, ItemParks, EndItems, Live, taskVars,
         mainVars
<1>2. CASE ReceiveItem
  BY <1>1, <1>2 DEF ReceiveItem, TypeOK, Counters, ItemsTracked, Pending
<1>3. CASE ProcessItem
  <2>1. \/ stats'.item = stats.item + 1 /\ stats'.error = stats.error
        \/ /\ "item" \in Faults
           /\ stats'.item = stats.item /\ stats'.error = stats.error + 1
    BY <1>3, CountsOne DEF ProcessItem, Error, TypeOK
  <2>2. /\ item = "process" /\ item' = "recv" /\ main' = main
        /\ UNCHANGED <<channel, scraped>>
    BY <1>1, <1>3 DEF ProcessItem
  <2>3. /\ stats.item \in Nat /\ stats.error \in Nat /\ scraped \in Nat
        /\ channel \in Int
    BY EngineAssumption DEF TypeOK, Counters
  <2> QED
    BY <2>1, <2>2, <2>3 DEF ItemsTracked, Pending
<1>4. CASE ItemParks
  BY <1>1, <1>4 DEF ItemParks, TypeOK, Counters, ItemsTracked, Pending
<1>5. CASE EndItems
  BY <1>1, <1>5 DEF EndItems, TypeOK, Counters, ItemsTracked, Pending
<1> QED
  BY <1>2, <1>3, <1>4, <1>5 DEF ItemStep

\* Every step keeps track of the items.
LEMMA ItemsStep ==
    ASSUME TypeOK, TypeOK', ItemsTracked, [Next]_vars
    PROVE  ItemsTracked'
<1>1. stats' \in Counters
  BY DEF TypeOK
<1>2. (UNCHANGED vars) \/ (\E b \in BOOLEAN : SendSignal(b) \/ SetRunning(b))
        => ItemsTracked'
  <2>1. (UNCHANGED vars) \/ (\E b \in BOOLEAN : SendSignal(b) \/ SetRunning(b))
          => UNCHANGED <<channel, item, scraped, stats, main, pc>>
    BY DEF vars, SendSignal, SetRunning, itemVars, mainVars, taskVars
  <2> QED
    BY <2>1 DEF ItemsTracked, Pending, Live
<1> QED
  BY <1>1, <1>2, MainItems, TaskItems, ProcessorItems DEF Next, Over

\* Items are tracked in every execution.
LEMMA ItemsInvariance == Spec => []ItemsTracked
<1>1. IInv => TypeOK
  BY DEF IInv
<1> QED
  BY <1>1, ItemsInit, ItemsStep, EngineInvariance, PTL DEF Spec

\* When run() has closed the engine, every item a task has sent is counted as an
\* item or failed in the pipelines with an error, whatever the capacity of the
\* channel and however many signals pause the crawl.
THEOREM AccountsForItems == Spec => []ItemsAccounted
<1>1. TypeOK /\ ItemsTracked => ItemsAccounted
  BY DEF TypeOK, Counters, ItemsTracked, Pending, ItemsAccounted
<1>2. IInv => TypeOK
  BY DEF IInv
<1> QED
  BY <1>1, <1>2, ItemsInvariance, EngineInvariance, PTL
-----------------------------------------------------------------------------
(* The requests, in a crawl that gets no signals *)

\* At the start nothing is requested and nobody is paused.
LEMMA RequestsInit == Init => Unpaused /\ RequestsTracked
<1> SUFFICES ASSUME Init
             PROVE  Unpaused /\ RequestsTracked
  OBVIOUS
<1>1. Unanswered = {} /\ Unpaused
  BY DEF Init, Unanswered, Unpaused
<1>2. Cardinality(Unanswered) = 0
  BY <1>1, FS_EmptySet
<1>3. stats.request = 0 /\ stats.response = 0 /\ stats.error = 0
  BY DEF Init
<1> QED
  BY <1>1, <1>2, <1>3 DEF RequestsTracked

\* Nobody sets the running flag but run() when it closes, so nobody parks.
LEMMA UnpausedStep ==
    ASSUME MaxSignals = 0, TypeOK, Unpaused, [Next]_vars
    PROVE  Unpaused'
<1>1. CASE UNCHANGED vars
  BY <1>1 DEF vars, Unpaused, Live, controlVars, mainVars, taskVars
<1>2. CASE MainStep
  <2>1. UNCHANGED <<setters, sent>>
    BY <1>2 DEF MainStep, MainEnqueues, MainEnqueued, SeedFails, StartCrawl, EnterLoop,
         MainParks, LeaveLoop, TakeNext, StopFilling, CountRequest, RejectRequest,
         NothingLeft, ShortSleep, SpawnTask, AwaitTask, AwaitRest, CloseChannel,
         AwaitItems, CloseEngine, MainGoes, Reaps, controlVars
  <2>2. main' # "closed" => running' = running /\ main # "closed"
    BY <1>2 DEF MainStep, MainEnqueues, MainEnqueued, Offered, SeedFails, StartCrawl,
         EnterLoop, MainParks, LeaveLoop, TakeNext, StopFilling, CountRequest,
         RejectRequest, NothingLeft, ShortSleep, SpawnTask, AwaitTask, AwaitRest,
         CloseChannel, AwaitItems, CloseEngine, MainGoes, Reaps, controlVars, mainVars
  <2>3. \A t \in Tasks : pc'[t] # "parked"
    BY <1>2 DEF MainStep, MainEnqueues, MainEnqueued, SeedFails, StartCrawl, EnterLoop,
         MainParks, LeaveLoop, TakeNext, StopFilling, CountRequest, RejectRequest,
         NothingLeft, ShortSleep, SpawnTask, AwaitTask, AwaitRest, CloseChannel,
         AwaitItems, CloseEngine, MainGoes, Reaps, taskVars, Unpaused, TypeOK
  <2>4. main' \in {"items", "close", "closed"} =>
            Live' = Live /\ (main \in {"items", "close"} \/ Live = {})
    BY <1>2 DEF MainStep, MainEnqueues, MainEnqueued, Offered, SeedFails, StartCrawl,
         EnterLoop, MainParks, LeaveLoop, TakeNext, StopFilling, CountRequest,
         RejectRequest, NothingLeft, ShortSleep, SpawnTask, AwaitTask, AwaitRest,
         CloseChannel, AwaitItems, CloseEngine, MainGoes, Reaps, taskVars, mainVars,
         Live
  <2> QED
    BY <2>1, <2>2, <2>3, <2>4 DEF Unpaused
<1>3. ASSUME NEW t \in Tasks, TaskStep(t)
      PROVE  Unpaused'
  <2>1. /\ pc[t] # "free" /\ pc'[t] # "free" /\ UNCHANGED <<mainVars, controlVars>>
        /\ \A s \in Tasks \ {t} : pc'[s] = pc[s]
        /\ TaskParks(t) \/ pc'[t] # "parked"
    BY <1>3 DEF TaskStep, TaskParks, Checkpoints, AddToSlot, TakeFromSlot, Download,
         DownloadFails, AcceptResponse, RejectResponse, RetryByMeta, Parse, ParseFails,
         FollowLinks, LinksDone, StartSending, SendItem, TaskEnqueues, TaskEnqueued,
         TaskGoes, Handle, Unpaused, TypeOK, taskVars
  <2>2. t \in Live /\ Live' = Live
    BY <2>1 DEF Live
  <2>3. running /\ ~TaskParks(t)
    BY <2>2 DEF Unpaused, TaskParks
  <2> QED
    BY <2>1, <2>2, <2>3 DEF Unpaused, mainVars, controlVars
<1>4. CASE ItemStep
  BY <1>4 DEF ItemStep, ReceiveItem, ProcessItem, ItemParks, EndItems, Unpaused, Live,
         mainVars, taskVars, controlVars
<1>5. \A b \in BOOLEAN : ~SendSignal(b) /\ ~SetRunning(b)
  BY DEF SendSignal, SetRunning, Unpaused
<1> QED
  BY <1>1, <1>2, <1>3, <1>4, <1>5 DEF Next, Over

\* What a request that is counted, answered or failed does to the number of those
\* on their way.
LEMMA UnansweredCounts ==
    /\ IsFiniteSet(Unanswered) /\ Cardinality(Unanswered) \in Nat
    /\ \A a \in Actors :
          /\ a \notin Unanswered =>
                Cardinality(Unanswered \cup {a}) = Cardinality(Unanswered) + 1
          /\ a \in Unanswered =>
                Cardinality(Unanswered \ {a}) = Cardinality(Unanswered) - 1
<1>1. IsFiniteSet(Actors)
  BY EngineAssumption, FS_AddElement DEF Actors
<1>2. IsFiniteSet(Unanswered)
  <2>1. Unanswered \subseteq Actors
    BY DEF Unanswered, Actors
  <2> QED
    BY <1>1, <2>1, FS_Subset
<1> QED
  BY <1>2, FS_AddElement, FS_RemoveElement, FS_CardinalityType

\* run() hands a request on its way to a task.
LEMMA UnansweredMoves ==
    ASSUME TypeOK, NEW t \in Tasks, SpawnTask(t)
    PROVE  Cardinality(Unanswered') = Cardinality(Unanswered)
<1>1. Main \in Actors /\ Main \notin Tasks
  BY EngineAssumption DEF Actors
<1>2. Main \in Unanswered /\ t \notin Unanswered
  BY <1>1 DEF SpawnTask, Unanswered
<1>3. Unanswered' = (Unanswered \ {Main}) \cup {t}
  BY <1>1 DEF SpawnTask, Unanswered, TypeOK
<1>4. /\ IsFiniteSet(Unanswered) /\ Cardinality(Unanswered) \in Nat
      /\ Cardinality(Unanswered \ {Main}) = Cardinality(Unanswered) - 1
  BY <1>1, <1>2, UnansweredCounts
<1>5. IsFiniteSet(Unanswered \ {Main}) /\ t \notin Unanswered \ {Main}
  BY <1>2, <1>4, FS_Subset
<1>6. Cardinality((Unanswered \ {Main}) \cup {t}) = Cardinality(Unanswered \ {Main}) + 1
  BY <1>5, FS_AddElement
<1> QED
  BY <1>3, <1>4, <1>6

\* A step that counts errors at most and neither counts nor answers a request.
LEMMA RequestsKept ==
    ASSUME stats \in Counters, stats' \in Counters, RequestsTracked,
           Cardinality(Unanswered') = Cardinality(Unanswered),
           stats'.request = stats.request, stats'.response = stats.response,
           stats'.error >= stats.error
    PROVE  RequestsTracked'
<1> DEFINE n == Cardinality(Unanswered)
<1>1. n \in Nat /\ Cardinality(Unanswered') = n
  BY UnansweredCounts
<1>2. /\ stats.request \in Nat /\ stats.response \in Nat
      /\ stats.error \in Nat /\ stats'.error \in Nat
  BY DEF Counters
<1>3. stats.response + n <= stats.request /\ stats.request <= stats.response + n + stats.error
  BY DEF RequestsTracked
<1> HIDE DEF n
<1>4. stats.request <= stats.response + n + stats'.error
  BY <1>1, <1>2, <1>3
<1> QED
  BY <1>1, <1>3, <1>4 DEF RequestsTracked

\* One request leaves: answered, failed, or both.
LEMMA RequestLeaves ==
    ASSUME stats \in Counters, stats' \in Counters, RequestsTracked,
           NEW t \in Unanswered, Unanswered' = Unanswered \ {t},
           stats'.request = stats.request,
           \/ stats'.response = stats.response + 1 /\ stats'.error = stats.error
           \/ stats'.response = stats.response + 1 /\ stats'.error = stats.error + 1
           \/ stats'.response = stats.response /\ stats'.error = stats.error + 1
    PROVE  RequestsTracked'
<1> DEFINE n == Cardinality(Unanswered)
<1>1. n \in Nat /\ Cardinality(Unanswered') = n - 1
  BY UnansweredCounts DEF Unanswered, Actors
<1>2. stats.request \in Nat /\ stats.response \in Nat /\ stats.error \in Nat
  BY DEF Counters
<1>3. stats.response + n <= stats.request /\ stats.request <= stats.response + n + stats.error
  BY DEF RequestsTracked
<1> HIDE DEF n
<1>4. /\ stats'.response + (n - 1) <= stats.request
      /\ stats.request <= stats'.response + (n - 1) + stats'.error
  BY <1>1, <1>2, <1>3
<1> QED
  BY <1>1, <1>4 DEF RequestsTracked

\* The steps of run().
LEMMA MainRequests ==
    ASSUME TypeOK, stats' \in Counters, RequestsTracked, MainStep
    PROVE  RequestsTracked'
<1>0. stats \in Counters
  BY DEF TypeOK
<1>1. ASSUME NEW t \in Tasks, SpawnTask(t)
      PROVE  RequestsTracked'
  <2>1. stats' = stats
    BY <1>1 DEF SpawnTask
  <2>2. stats.error \in Nat
    BY <1>0 DEF Counters
  <2> QED
    BY <1>0, <1>1, <2>1, <2>2, UnansweredMoves, RequestsKept
<1>2. CASE CountRequest
  <2> DEFINE n == Cardinality(Unanswered)
  <2>1. Main \in Actors /\ Main \notin Tasks
    BY EngineAssumption DEF Actors
  <2>2. Unanswered' = Unanswered \cup {Main} /\ Main \notin Unanswered
    BY <1>2, <2>1 DEF CountRequest, Unanswered, taskVars
  <2>3. n \in Nat /\ Cardinality(Unanswered') = n + 1
    BY <2>1, <2>2, UnansweredCounts
  <2>4. /\ stats'.request = stats.request + 1 /\ stats'.response = stats.response
        /\ stats'.error = stats.error
    BY <1>0, <1>2, CountsOne DEF CountRequest
  <2>5. stats.request \in Nat /\ stats.response \in Nat /\ stats.error \in Nat
    BY <1>0 DEF Counters
  <2>6. /\ stats.response + n <= stats.request
        /\ stats.request <= stats.response + n + stats.error
    BY DEF RequestsTracked
  <2> HIDE DEF n
  <2>7. /\ stats.response + (n + 1) <= stats.request + 1
        /\ stats.request + 1 <= stats.response + (n + 1) + stats.error
    BY <2>3, <2>5, <2>6
  <2> QED
    BY <2>3, <2>4, <2>7 DEF RequestsTracked
<1>3. ASSUME ~CountRequest, \A t \in Tasks : ~SpawnTask(t)
      PROVE  RequestsTracked'
  <2>1. Unanswered' = Unanswered
    <3>1. \A t \in Tasks : AwaitTask(t) \/ AwaitRest(t) => Unanswered' = Unanswered
      BY DEF AwaitTask, AwaitRest, Reaps, Unanswered, TypeOK
    <3>2. (\E t \in Tasks : AwaitTask(t) \/ AwaitRest(t)) \/ UNCHANGED pc
      BY <1>3 DEF MainStep, MainEnqueues, MainEnqueued, SeedFails, StartCrawl, EnterLoop,
           MainParks, LeaveLoop, TakeNext, StopFilling, RejectRequest, NothingLeft,
           ShortSleep, CloseChannel, AwaitItems, CloseEngine, MainGoes, taskVars
    <3>3. main' = "counted" <=> main = "counted"
      BY <1>3 DEF MainStep, MainEnqueues, MainEnqueued, Offered, SeedFails, StartCrawl,
           EnterLoop, MainParks, LeaveLoop, TakeNext, StopFilling, RejectRequest,
           NothingLeft, ShortSleep, AwaitTask, AwaitRest, CloseChannel, AwaitItems,
           CloseEngine, MainGoes, Reaps, mainVars
    <3> QED
      BY <3>1, <3>2, <3>3 DEF Unanswered
  <2>2. stats' = stats \/ stats' = [stats EXCEPT !.error = @ + 1]
    BY <1>3 DEF MainStep, MainEnqueues, MainEnqueued, SeedFails, StartCrawl, EnterLoop,
         MainParks, LeaveLoop, TakeNext, StopFilling, RejectRequest, NothingLeft,
         ShortSleep, AwaitTask, AwaitRest, CloseChannel, AwaitItems, CloseEngine,
         MainGoes, Reaps, Error
  <2>3. stats'.request = stats.request /\ stats'.response = stats.response
    BY <1>0, <2>2, CountsOne
  <2>4. stats'.error >= stats.error
    BY <1>0, <2>2, NoItemCounted
  <2> QED
    BY <1>0, <2>1, <2>3, <2>4, RequestsKept
<1> QED
  BY <1>1, <1>2, <1>3

\* The steps of a task. It needs a supplied slot: a task that found its slot empty
\* would end without an answer or an error.
LEMMA TaskRequests ==
    ASSUME TypeOK, stats' \in Counters, PlacesMatchData, SlotsSupplied, Unpaused',
           RequestsTracked, NEW t \in Tasks, TaskStep(t)
    PROVE  RequestsTracked'
<1>0. stats \in Counters /\ pc \in [Tasks -> TaskStates]
  BY DEF TypeOK
<1>1. CASE AcceptResponse(t) \/ RejectResponse(t) \/ DownloadFails(t)
  <2>1. t \in Unanswered /\ Unanswered' = Unanswered \ {t}
    BY <1>0, <1>1, EngineAssumption
       DEF AcceptResponse, RejectResponse, DownloadFails, TaskGoes, Handle,
           Unanswered, mainVars
  <2>2. \/ stats' = [stats EXCEPT !.response = @ + 1]
        \/ stats' = [stats EXCEPT !.response = @ + 1, !.error = @ + 1]
        \/ stats' = [stats EXCEPT !.error = @ + 1]
    BY <1>1 DEF AcceptResponse, RejectResponse, DownloadFails, Error
  <2>3. /\ stats'.request = stats.request
        /\ \/ stats'.response = stats.response + 1 /\ stats'.error = stats.error
           \/ stats'.response = stats.response + 1 /\ stats'.error = stats.error + 1
           \/ stats'.response = stats.response /\ stats'.error = stats.error + 1
    BY <1>0, <2>2, CountsOne
  <2> QED
    BY <1>0, <2>1, <2>3, RequestLeaves
<1>2. CASE ~AcceptResponse(t) /\ ~RejectResponse(t) /\ ~DownloadFails(t)
  <2>1. Unanswered' = Unanswered
    <3>1. /\ pc[t] \in {"begin", "queued", "download", "responded"}
                <=> pc'[t] \in {"begin", "queued", "download", "responded"}
          /\ \A s \in Tasks \ {t} : pc'[s] = pc[s]
      <4>1. CASE TakeFromSlot(t)
        BY <1>0, <4>1, TakeSupplies DEF TakeFromSlot, TaskGoes
      <4>2. CASE ~TakeFromSlot(t)
        BY <1>0, <1>2, <4>2 DEF TaskStep, TaskParks, AddToSlot, Download, RetryByMeta,
             Parse, ParseFails, FollowLinks, LinksDone, StartSending, SendItem,
             TaskEnqueues, TaskEnqueued, TaskGoes, Handle, Unpaused, taskVars
      <4> QED
        BY <4>1, <4>2
    <3>2. main' = main
      BY <1>2 DEF TaskStep, TaskParks, AddToSlot, TakeFromSlot, Download, RetryByMeta,
           Parse, ParseFails, FollowLinks, LinksDone, StartSending, SendItem,
           TaskEnqueues, TaskEnqueued, mainVars
    <3> QED
      BY <3>1, <3>2 DEF Unanswered
  <2>2. stats' = stats \/ stats' = [stats EXCEPT !.error = @ + 1]
    BY <1>2 DEF TaskStep, TaskParks, AddToSlot, TakeFromSlot, Download, RetryByMeta,
         Parse, ParseFails, FollowLinks, LinksDone, StartSending, SendItem,
         TaskEnqueues, TaskEnqueued, Error
  <2>3. stats'.request = stats.request /\ stats'.response = stats.response
    BY <1>0, <2>2, CountsOne
  <2>4. stats'.error >= stats.error
    BY <1>0, <2>2, NoItemCounted
  <2> QED
    BY <1>0, <2>1, <2>3, <2>4, RequestsKept
<1> QED
  BY <1>1, <1>2

\* Every step keeps track of the requests.
LEMMA RequestsStep ==
    ASSUME TypeOK, TypeOK', PlacesMatchData, SlotsSupplied, Unpaused', RequestsTracked,
           [Next]_vars
    PROVE  RequestsTracked'
<1>0. stats \in Counters /\ stats' \in Counters
  BY DEF TypeOK
<1>1. CASE UNCHANGED <<main, pc, stats>>
  BY <1>1 DEF RequestsTracked, Unanswered
<1>2. CASE ItemStep
  <2>1. Unanswered' = Unanswered
    BY <1>2 DEF ItemStep, ReceiveItem, ProcessItem, ItemParks, EndItems, Unanswered,
                mainVars, taskVars
  <2>2. \/ stats' = stats \/ stats' = [stats EXCEPT !.item = @ + 1]
        \/ stats' = [stats EXCEPT !.error = @ + 1]
    BY <1>2 DEF ItemStep, ReceiveItem, ProcessItem, ItemParks, EndItems, Error
  <2>3. /\ stats'.request = stats.request /\ stats'.response = stats.response
        /\ stats'.error = stats.error \/ stats'.error = stats.error + 1
    BY <1>0, <2>2, CountsOne
  <2>4. stats.error \in Nat
    BY <1>0 DEF Counters
  <2>5. stats'.error >= stats.error
    BY <2>3, <2>4
  <2> QED
    BY <1>0, <2>1, <2>3, <2>5, RequestsKept
<1>3. (UNCHANGED vars) \/ (\E b \in BOOLEAN : SendSignal(b) \/ SetRunning(b))
        => UNCHANGED <<main, pc, stats>>
  BY DEF vars, SendSignal, SetRunning, mainVars, taskVars
<1> QED
  BY <1>0, <1>1, <1>2, <1>3, MainRequests, TaskRequests DEF Next, Over

\* In a crawl that gets no signals every request counted is answered, on its way or
\* counted as an error, whichever stages fail and whatever is decided then.
THEOREM AccountsForRequests ==
    ASSUME MaxSignals = 0
    PROVE  Spec => []RequestsAccounted
<1>1. IInv => TypeOK /\ PlacesMatchData
  BY DEF IInv
<1>2. Spec => []Unpaused
  BY <1>1, RequestsInit, UnpausedStep, EngineInvariance, PTL DEF Spec
<1>3. Spec => []RequestsTracked
  BY <1>1, <1>2, RequestsInit, RequestsStep, EngineInvariance, SuppliesSlots, PTL DEF Spec
<1>4. RequestsTracked => RequestsAccounted
  BY DEF RequestsTracked, RequestsAccounted
<1> QED
  BY <1>3, <1>4, PTL

-----------------------------------------------------------------------------
(* What the scheduler has handed out, it has seen *)

\* Filing adds one entry, or refiles a twin, and taking removes one.
LEMMA QueueChanges ==
    ASSUME NEW q \in Seq(S!Entries)
    PROVE  /\ \A r \in Requests :
                /\ Len(S!File(q, r)) \in {Len(q), Len(q) + 1}
                /\ \A i \in DOMAIN S!File(q, r) :
                      \/ S!File(q, r)[i].item.url = r.url
                      \/ \E j \in DOMAIN q : S!File(q, r)[i].item.url = q[j].item.url
           /\ \A i \in DOMAIN q :
                /\ Len(S!Without(q, i)) = Len(q) - 1
                /\ \A j \in DOMAIN S!Without(q, i) :
                      \E m \in DOMAIN q : S!Without(q, i)[j] = q[m]
<1>1. ASSUME NEW r \in Requests
      PROVE  /\ Len(S!File(q, r)) \in {Len(q), Len(q) + 1}
             /\ \A i \in DOMAIN S!File(q, r) :
                   \/ S!File(q, r)[i].item.url = r.url
                   \/ \E j \in DOMAIN q : S!File(q, r)[i].item.url = q[j].item.url
  <2> DEFINE twins == {i \in DOMAIN q : S!SameRequest(q[i].item, r)}
             refiled == [i \in DOMAIN q |->
                           IF i \in twins THEN [q[i] EXCEPT !.rank = r.priority] ELSE q[i]]
             added == Append(q, [item |-> r, rank |-> r.priority])
  <2>1. S!File(q, r) = refiled \/ S!File(q, r) = added
    BY DEF S!File
  <2>2. CASE S!File(q, r) = refiled
    <3>1. \A i \in DOMAIN q : q[i] \in S!Entries
      OBVIOUS
    <3>2. DOMAIN refiled = DOMAIN q /\ \A i \in DOMAIN q : refiled[i].item = q[i].item
      BY <3>1 DEF S!Entries
    <3>3. Len(refiled) = Len(q)
      BY <3>2
    <3> HIDE DEF refiled
    <3> QED
      BY <2>2, <3>2, <3>3
  <2>3. CASE S!File(q, r) = added
    <3>1. PICK e : e = [item |-> r, rank |-> r.priority]
      OBVIOUS
    <3>2. e \in S!Entries /\ e.item = r
      BY <3>1, EngineAssumption DEF S!Entries, S!SchedulerConstants
    <3>3. /\ Len(Append(q, e)) = Len(q) + 1
          /\ \A i \in 1 .. Len(q) + 1 :
                Append(q, e)[i] = IF i <= Len(q) THEN q[i] ELSE e
      BY <3>2
    <3> QED
      BY <2>3, <3>1, <3>2, <3>3
  <2> QED
    BY <2>1, <2>2, <2>3
<1>2. ASSUME NEW i \in DOMAIN q
      PROVE  /\ Len(S!Without(q, i)) = Len(q) - 1
             /\ \A j \in DOMAIN S!Without(q, i) :
                   \E m \in DOMAIN q : S!Without(q, i)[j] = q[m]
  <2> DEFINE w == [j \in 1 .. (Len(q) - 1) |-> IF j < i THEN q[j] ELSE q[j + 1]]
  <2>1. S!Without(q, i) = w
    BY DEF S!Without
  <2>2. Len(q) \in Nat \ {0} /\ i \in 1 .. Len(q)
    OBVIOUS
  <2>3. Len(w) = Len(q) - 1 /\ DOMAIN w = 1 .. (Len(q) - 1)
    BY <2>2
  <2>4. ASSUME NEW j \in 1 .. (Len(q) - 1)
        PROVE  \E m \in DOMAIN q : w[j] = q[m]
    <3>1. j \in DOMAIN q /\ j + 1 \in DOMAIN q
      BY <2>2
    <3>2. w[j] = q[j] \/ w[j] = q[j + 1]
      OBVIOUS
    <3> HIDE DEF w
    <3> QED
      BY <3>1, <3>2
  <2> HIDE DEF w
  <2> QED
    BY <2>1, <2>3, <2>4
<1> QED
  BY <1>1, <1>2

\* A step that hands out and files nothing.
LEMMA KnownKept ==
    ASSUME KnownRequests, seen \subseteq seen', queue' = queue, slots' = slots,
           \A t \in Tasks : pc'[t] # "free" => pc[t] # "free" /\ req'[t] = req[t],
           main' \in {"request", "counted", "refill"} =>
                main \in {"request", "counted", "refill"} /\ current' = current
    PROVE  KnownRequests'
  BY DEF KnownRequests

\* A call of the scheduler.
LEMMA KnownCall ==
    ASSUME IInv, S!TypeOK, KnownRequests, NEW a \in Actors, NEW r \in Requests,
           Proceeds(a, r) \/ Returns(a, r), slots' = slots,
           \A t \in Tasks : pc'[t] # "free" => pc[t] # "free" /\ req'[t] = req[t],
           main' \in {"request", "counted", "refill"} =>
                main \in {"request", "counted", "refill"} /\ current' = current
    PROVE  KnownRequests' /\ (queue' # queue => step[a] = "push" /\ S!Push(a))
<1>1. seen \subseteq seen'
  BY CallInv
<1>2. queue' = queue \/ (step[a] = "push" /\ arg[a] = r /\ S!Push(a))
  BY DEF Proceeds, Returns, S!HasSeen, S!MarkSeen, S!Push, schedVars
<1>3. CASE queue' = queue
  BY <1>1, <1>3, KnownKept
<1>4. CASE step[a] = "push" /\ arg[a] = r /\ S!Push(a)
  <2>1. queue' = S!File(queue, r) /\ seen' = seen /\ r.url \in seen
    BY <1>4 DEF S!Push, IInv, CallsInPlace
  <2>2. queue \in Seq(S!Entries)
    BY DEF S!TypeOK
  <2>3. \A i \in DOMAIN queue' : queue'[i].item.url \in seen'
    BY <2>1, <2>2, QueueChanges DEF KnownRequests
  <2> QED
    BY <1>4, <2>1, <2>3 DEF KnownRequests
<1> QED
  BY <1>2, <1>3, <1>4

\* Every step hands out and files requests the scheduler has seen.
LEMMA KnownStep ==
    ASSUME IInv, S!TypeOK, KnownRequests, [Next]_vars
    PROVE  KnownRequests'
<1>0. TypeOK /\ Main \in Actors /\ Main \notin Tasks
  BY EngineAssumption DEF IInv, Actors
<1>1. CASE UNCHANGED <<schedVars, slots, pc, req, main, current>>
  BY <1>1, KnownKept DEF schedVars
<1>2. ASSUME NEW r \in Requests, MainEnqueues(r) \/ MainEnqueued(r)
      PROVE  KnownRequests'
  <2>1. /\ Proceeds(Main, r) \/ Returns(Main, r)
        /\ UNCHANGED taskVars
        /\ main' \in {"request", "counted", "refill"} =>
             main \in {"request", "counted", "refill"} /\ current' = current
    BY <1>2 DEF MainEnqueues, MainEnqueued, Offered, mainVars
  <2> QED
    BY <1>0, <2>1, KnownCall DEF taskVars
<1>3. CASE TakeNext
  <2>1. PICK i \in DOMAIN queue : S!TakeAt(Main, i) /\ current' = queue[i].item
    BY <1>3 DEF TakeNext
  <2>2. queue' = S!Without(queue, i) /\ seen' = seen
    BY <2>1 DEF S!TakeAt
  <2>3. \A j \in DOMAIN queue' : \E m \in DOMAIN queue : queue'[j] = queue[m]
    BY <2>2, QueueChanges DEF S!TypeOK
  <2>4. current'.url \in seen'
    BY <2>1, <2>2 DEF KnownRequests
  <2> QED
    BY <1>3, <2>2, <2>3, <2>4 DEF KnownRequests, TakeNext, taskVars
<1>4. ASSUME NEW t \in Tasks, SpawnTask(t)
      PROVE  KnownRequests'
  BY <1>0, <1>4 DEF SpawnTask, KnownRequests, TypeOK, schedVars
<1>5. MainStep => KnownRequests'
  <2> SUFFICES ASSUME MainStep, ~TakeNext, \A t \in Tasks : ~SpawnTask(t),
                      \A r \in Requests : ~MainEnqueues(r) /\ ~MainEnqueued(r)
               PROVE  KnownRequests'
    BY <1>2, <1>3, <1>4
  <2>1. /\ UNCHANGED <<schedVars, slots>>
        /\ main' \in {"request", "counted", "refill"} =>
              main \in {"request", "counted", "refill"} /\ current' = current
    BY DEF MainStep, SeedFails, StartCrawl, EnterLoop, MainParks, LeaveLoop,
         StopFilling, CountRequest, RejectRequest, NothingLeft, ShortSleep, AwaitTask,
         AwaitRest, CloseChannel, AwaitItems, CloseEngine, MainGoes, Reaps, taskVars
  <2>2. \A t \in Tasks : pc'[t] # "free" => pc[t] # "free" /\ req'[t] = req[t]
    BY <1>0 DEF MainStep, SeedFails, StartCrawl, EnterLoop, MainParks, LeaveLoop,
         StopFilling, CountRequest, RejectRequest, NothingLeft, ShortSleep, AwaitTask,
         AwaitRest, CloseChannel, AwaitItems, CloseEngine, MainGoes, Reaps, taskVars,
         TypeOK
  <2> QED
    BY <2>1, <2>2, KnownKept DEF schedVars
<1>6. ASSUME NEW t \in Tasks, NEW r \in Requests, TaskEnqueues(t, r) \/ TaskEnqueued(t, r)
      PROVE  KnownRequests'
  <2>1. /\ t \in Actors /\ (Proceeds(t, r) \/ Returns(t, r))
        /\ slots' = slots /\ UNCHANGED mainVars
        /\ \A s \in Tasks : pc'[s] # "free" => pc[s] # "free" /\ req'[s] = req[s]
    BY <1>0, <1>6 DEF TaskEnqueues, TaskEnqueued, Actors, taskVars, TypeOK
  <2> QED
    BY <2>1, KnownCall DEF mainVars
<1>7. ASSUME NEW t \in Tasks, AddToSlot(t)
      PROVE  KnownRequests'
  <2>1. PICK e : e = DomainOf[req[t].url]
    OBVIOUS
  <2>2. req[t] \in Requests /\ req[t].url \in seen
    BY <1>7 DEF AddToSlot, TaskGoes, KnownRequests, IInv, PlacesMatchData
  <2>3. slots' = [slots EXCEPT ![e] = Append(@, req[t])]
    BY <1>7, <2>1 DEF AddToSlot
  <2>4. \A d \in Domains : \A i \in DOMAIN slots'[d] : slots'[d][i].url \in seen
    <3> SUFFICES ASSUME NEW d \in Domains
                 PROVE  \A i \in DOMAIN slots'[d] : slots'[d][i].url \in seen
      OBVIOUS
    <3>1. slots[d] \in Seq(Requests) /\ \A i \in DOMAIN slots[d] : slots[d][i].url \in seen
      BY <1>0 DEF TypeOK, KnownRequests
    <3>2. slots'[d] = slots[d] \/ slots'[d] = Append(slots[d], req[t])
      BY <1>0, <2>3 DEF TypeOK
    <3>3. \A i \in 1 .. Len(slots[d]) + 1 :
            Append(slots[d], req[t])[i] = IF i <= Len(slots[d]) THEN slots[d][i] ELSE req[t]
      BY <2>2, <3>1
    <3>4. DOMAIN Append(slots[d], req[t]) = 1 .. Len(slots[d]) + 1
      BY <2>2, <3>1
    <3> QED
      BY <2>2, <3>1, <3>2, <3>3, <3>4
  <2> QED
    BY <1>0, <1>7, <2>4 DEF AddToSlot, TaskGoes, KnownRequests, TypeOK, schedVars,
           mainVars
<1>8. ASSUME NEW t \in Tasks, TakeFromSlot(t)
      PROVE  KnownRequests'
  <2>1. PICK e : e = DomainOf[req[t].url]
    OBVIOUS
  <2>2. req[t] \in Requests /\ req[t].url \in Urls
    BY <1>8, EngineAssumption
       DEF TakeFromSlot, IInv, PlacesMatchData, S!SchedulerConstants
  <2>3. e \in Domains
    BY <2>1, <2>2, EngineAssumption
  <2>4. slots[e] \in Seq(Requests) /\ \A i \in DOMAIN slots[e] : slots[e][i].url \in seen
    BY <1>0, <2>3 DEF TypeOK, KnownRequests
  <2>5. CASE slots[e] = <<>>
    BY <1>0, <1>8, <2>1, <2>5, KnownKept
       DEF TakeFromSlot, TaskGoes, TypeOK, schedVars, mainVars
  <2>6. CASE slots[e] # <<>>
    <3>1. /\ Head(slots[e]).url \in seen
          /\ \A i \in DOMAIN Tail(slots[e]) : Tail(slots[e])[i].url \in seen
      BY <2>4, <2>6
    <3>2. /\ req' = [req EXCEPT ![t] = Head(slots[e])]
          /\ slots' = [slots EXCEPT ![e] = Tail(@)]
      BY <1>8, <2>1, <2>6 DEF TakeFromSlot
    <3>3. \A d \in Domains : slots'[d] = IF d = e THEN Tail(slots[e]) ELSE slots[d]
      BY <1>0, <3>2 DEF TypeOK
    <3>4. \A s \in Tasks : req'[s] = IF s = t THEN Head(slots[e]) ELSE req[s]
      BY <1>0, <3>2 DEF TypeOK
    <3>5. /\ \A s \in Tasks : pc'[s] # "free" => pc[s] # "free"
          /\ UNCHANGED <<schedVars, mainVars>>
      BY <1>0, <1>8 DEF TakeFromSlot, TaskGoes, TypeOK
    <3> QED
      BY <3>1, <3>3, <3>4, <3>5 DEF KnownRequests, schedVars, mainVars
  <2> QED
    BY <2>5, <2>6
<1>9. \A t \in Tasks : TaskStep(t) => KnownRequests'
  <2> SUFFICES ASSUME NEW t \in Tasks, TaskStep(t), ~AddToSlot(t), ~TakeFromSlot(t),
                      \A r \in Requests : ~TaskEnqueues(t, r) /\ ~TaskEnqueued(t, r)
               PROVE  KnownRequests'
    BY <1>6, <1>7, <1>8
  <2>1. UNCHANGED <<schedVars, mainVars, slots, req>>
    BY DEF TaskStep, TaskParks, Download, DownloadFails, AcceptResponse, RejectResponse,
         RetryByMeta, Parse, ParseFails, FollowLinks, LinksDone, StartSending, SendItem
  <2>2. \A s \in Tasks : pc'[s] # "free" => pc[s] # "free"
    BY <1>0 DEF TaskStep, TaskParks, Checkpoints, Download, DownloadFails, AcceptResponse,
         RejectResponse, RetryByMeta, Parse, ParseFails, FollowLinks, LinksDone,
         StartSending, SendItem, TaskGoes, Handle, TypeOK
  <2> QED
    BY <2>1, <2>2, KnownKept DEF schedVars, mainVars
<1>10. ItemStep \/ (\E b \in BOOLEAN : SendSignal(b) \/ SetRunning(b)) \/ (UNCHANGED vars)
         => UNCHANGED <<schedVars, slots, pc, req, main, current>>
  BY DEF ItemStep, ReceiveItem, ProcessItem, ItemParks, EndItems, SendSignal, SetRunning,
         vars, taskVars, mainVars
<1> QED
  BY <1>1, <1>5, <1>9, <1>10 DEF Next, Over

\* run() holds a request where it is about to spawn or retry it, and nowhere else.
LEMMA CurrentStep ==
    ASSUME CurrentInPlace, [Next]_vars
    PROVE  CurrentInPlace'
<1>1. CASE MainStep
  BY <1>1 DEF MainStep, MainEnqueues, MainEnqueued, Offered, SeedFails, StartCrawl,
         EnterLoop, MainParks, LeaveLoop, TakeNext, StopFilling, CountRequest,
         RejectRequest, NothingLeft, ShortSleep, SpawnTask, AwaitTask, AwaitRest,
         CloseChannel, AwaitItems, CloseEngine, MainGoes, Reaps, mainVars,
         CurrentInPlace
<1>2. ~MainStep => UNCHANGED mainVars
  BY DEF Next, Over, TaskStep, TaskParks, AddToSlot, TakeFromSlot, Download,
         DownloadFails, AcceptResponse, RejectResponse, RetryByMeta, Parse, ParseFails,
         FollowLinks, LinksDone, StartSending, SendItem, TaskEnqueues, TaskEnqueued,
         ItemStep, ReceiveItem, ProcessItem, ItemParks, EndItems, SendSignal, SetRunning,
         vars
<1>3. CASE UNCHANGED mainVars
  BY <1>3 DEF mainVars, CurrentInPlace
<1> QED
  BY <1>1, <1>2, <1>3

\* A request whose URL is seen does not get into the scheduler: its enqueue comes
\* back from the first test.
LEMMA SeenReturns ==
    ASSUME NEW a \in Actors, NEW r \in Requests, step[a] = "idle", r.url \in seen
    PROVE  ~Proceeds(a, r) /\ (Returns(a, r) => UNCHANGED schedVars)
  BY DEF Proceeds, Returns, S!HasSeen, S!MarkSeen, S!Push

\* Nobody who retries is ever inside enqueue.
LEMMA RetriesStep ==
    ASSUME IInv, KnownRequests, RetriesIdle, [Next]_vars
    PROVE  RetriesIdle'
<1>0. TypeOK /\ Main \in Actors /\ Main \notin Tasks /\ Tasks \subseteq Actors
  BY EngineAssumption DEF IInv, Actors
<1>1. CASE UNCHANGED <<schedVars, pc, req, out, main>>
  BY <1>1 DEF RetriesIdle, schedVars
<1>2. ASSUME NEW a \in Actors, NEW r \in Requests, Proceeds(a, r) \/ Returns(a, r)
      PROVE  \A b \in Actors \ {a} : step'[b] = step[b]
  BY <1>2, CallInv
<1>3. ASSUME NEW r \in Requests, MainEnqueues(r) \/ MainEnqueued(r)
      PROVE  RetriesIdle'
  <2>1. CASE main = "refill"
    <3>1. r = current /\ step[Main] = "idle" /\ r.url \in seen
      BY <1>3, <2>1 DEF MainEnqueues, MainEnqueued, Offered, RetriesIdle, KnownRequests
    <3>2. UNCHANGED schedVars /\ MainEnqueued(r)
      BY <1>0, <1>3, <3>1, SeenReturns DEF MainEnqueues, MainEnqueued
    <3> QED
      BY <2>1, <3>2 DEF MainEnqueued, RetriesIdle, schedVars, taskVars
  <2>2. CASE main # "refill"
    <3>1. main' # "refill" /\ UNCHANGED <<pc, req, out>>
      BY <1>3, <2>2 DEF MainEnqueues, MainEnqueued, Offered, mainVars, taskVars
    <3>2. \A t \in Tasks : step'[t] = step[t]
      BY <1>0, <1>2, <1>3 DEF MainEnqueues, MainEnqueued
    <3> QED
      BY <3>1, <3>2 DEF RetriesIdle
  <2> QED
    BY <2>1, <2>2
<1>4. MainStep => RetriesIdle'
  <2> SUFFICES ASSUME MainStep, \A r \in Requests : ~MainEnqueues(r) /\ ~MainEnqueued(r)
               PROVE  RetriesIdle'
    BY <1>3
  <2>1. step' = step /\ out' = out
    BY DEF MainStep, SeedFails, StartCrawl, EnterLoop, MainParks, LeaveLoop, TakeNext,
         S!TakeAt, StopFilling, CountRequest, RejectRequest, NothingLeft, ShortSleep,
         SpawnTask, AwaitTask, AwaitRest, CloseChannel, AwaitItems, CloseEngine,
         MainGoes, Reaps, taskVars, schedVars
  <2>2. \A t \in Tasks : pc'[t] = "retry" => pc[t] = "retry" /\ req'[t] = req[t]
    BY <1>0 DEF MainStep, SeedFails, StartCrawl, EnterLoop, MainParks, LeaveLoop,
         TakeNext, StopFilling, CountRequest, RejectRequest, NothingLeft, ShortSleep,
         SpawnTask, AwaitTask, AwaitRest, CloseChannel, AwaitItems, CloseEngine,
         MainGoes, Reaps, taskVars, TypeOK
  <2>3. main' = "refill" => main = "request"
    BY DEF MainStep, SeedFails, StartCrawl, EnterLoop, MainParks, LeaveLoop, TakeNext,
         StopFilling, CountRequest, RejectRequest, NothingLeft, ShortSleep, SpawnTask,
         AwaitTask, AwaitRest, CloseChannel, AwaitItems, CloseEngine, MainGoes, Reaps
  <2>4. main = "request" => step[Main] = "idle"
    BY DEF IInv, CallsInPlace, Offered
  <2> QED
    BY <2>1, <2>2, <2>3, <2>4 DEF RetriesIdle
<1>5. ASSUME NEW t \in Tasks, NEW r \in Requests, TaskEnqueues(t, r) \/ TaskEnqueued(t, r)
      PROVE  RetriesIdle'
  <2>1. t \in Actors /\ (Proceeds(t, r) \/ Returns(t, r)) /\ UNCHANGED <<main, req>>
    BY <1>0, <1>5 DEF TaskEnqueues, TaskEnqueued, mainVars, taskVars
  <2>2. step'[Main] = step[Main] /\ \A s \in Tasks \ {t} : step'[s] = step[s]
    BY <1>0, <1>2, <2>1
  <2>3. \A s \in Tasks \ {t} : pc'[s] = pc[s] /\ out'[s] = out[s]
    BY <1>0, <1>5 DEF TaskEnqueues, TaskEnqueued, taskVars, TypeOK
  <2>4. pc'[t] # "retry"
    <3>1. CASE pc[t] = "links"
      BY <1>0, <1>5, <3>1 DEF TaskEnqueues, TaskEnqueued, taskVars, TypeOK
    <3>2. CASE pc[t] = "retry"
      <4>1. r = req[t] /\ step[t] = "idle" /\ r.url \in seen
        BY <1>5, <3>2 DEF TaskEnqueues, TaskEnqueued, RetriesIdle, KnownRequests
      <4>2. TaskEnqueued(t, r)
        BY <1>5, <2>1, <4>1, SeenReturns DEF TaskEnqueues
      <4> QED
        BY <1>0, <3>2, <4>2 DEF TaskEnqueued, TypeOK
    <3> QED
      BY <1>5, <3>1, <3>2 DEF TaskEnqueues, TaskEnqueued
  <2> QED
    BY <2>1, <2>2, <2>3, <2>4 DEF RetriesIdle
<1>6. \A t \in Tasks : TaskStep(t) => RetriesIdle'
  <2> SUFFICES ASSUME NEW t \in Tasks, TaskStep(t),
                      \A r \in Requests : ~TaskEnqueues(t, r) /\ ~TaskEnqueued(t, r)
               PROVE  RetriesIdle'
    BY <1>5
  <2>1. UNCHANGED <<schedVars, mainVars>>
    BY DEF TaskStep, TaskParks, AddToSlot, TakeFromSlot, Download, DownloadFails,
         AcceptResponse, RejectResponse, RetryByMeta, Parse, ParseFails, FollowLinks,
         LinksDone, StartSending, SendItem
  <2>2. /\ pc[t] \notin {"links", "retry"} \/ LinksDone(t)
        /\ \A s \in Tasks \ {t} : pc'[s] = pc[s] /\ out'[s] = out[s] /\ req'[s] = req[s]
    BY <1>0 DEF TaskStep, TaskParks, Checkpoints, AddToSlot, TakeFromSlot, Download,
         DownloadFails, AcceptResponse, RejectResponse, RetryByMeta, Parse, ParseFails,
         FollowLinks, LinksDone, StartSending, SendItem, TaskGoes, Handle, TypeOK
  <2>3. pc'[t] = "retry" => out'[t] = {req'[t]}
    BY <1>0 DEF TaskStep, TaskParks, Checkpoints, AddToSlot, TakeFromSlot, Download,
         DownloadFails, AcceptResponse, RejectResponse, RetryByMeta, Parse, ParseFails,
         FollowLinks, LinksDone, StartSending, SendItem, TaskGoes, Handle, TypeOK
  <2>4. pc'[t] = "retry" => step[t] = "idle"
    BY <1>0, <2>2 DEF IInv, CallsInPlace, LinksDone, TaskGoes, TypeOK
  <2> QED
    BY <2>1, <2>2, <2>3, <2>4 DEF RetriesIdle, schedVars, mainVars
<1>7. ItemStep \/ (\E b \in BOOLEAN : SendSignal(b) \/ SetRunning(b)) \/ (UNCHANGED vars)
         => UNCHANGED <<schedVars, pc, req, out, main>>
  BY DEF ItemStep, ReceiveItem, ProcessItem, ItemParks, EndItems, SendSignal, SetRunning,
         vars, taskVars, mainVars
<1> QED
  BY <1>1, <1>4, <1>6, <1>7 DEF Next, Over
-----------------------------------------------------------------------------
(* The crawl *)

\* The phase of the crawl, by the place of run().
PhaseByPlace ==
    /\ main \in {"seed", "reseed"} => Phase = "seeding"
    /\ main = "failed" \/ aborted => Phase = "aborted"
    /\ main \in {"reap", "items", "close", "closed"} /\ ~aborted => Phase = "finished"
    /\ main \in {"loop", "fill", "request", "counted", "refill", "wait", "parked"} =>
            Phase = "crawling"

LEMMA Phases == ASSUME CurrentInPlace PROVE PhaseByPlace
  BY DEF CurrentInPlace, PhaseByPlace, Phase

LEMMA NextPhases == ASSUME CurrentInPlace' PROVE PhaseByPlace'
  BY DEF CurrentInPlace, PhaseByPlace, Phase

\* Who is busy.
LEMMA WhoIsBusy ==
    /\ Busy \subseteq Actors /\ Busy' \subseteq Actors
    /\ \A t \in Tasks : /\ t \in Busy <=> pc[t] \notin {"free", "done"}
                        /\ t \in Busy' <=> pc'[t] \notin {"free", "done"}
    /\ Main \in Busy <=> MainHolds
    /\ Main \in Busy' <=> MainHolds'
  BY EngineAssumption DEF Busy, Actors

\* The steps of a crawl, in the terms of the mapping.
LEMMA CrawlKept ==
    ASSUME Len(queue') = Len(queue), Busy' = Busy, Phase' = Phase
    PROVE  [C!Next]_(C!cvars)
  BY DEF C!cvars

LEMMA CrawlDiscovers ==
    ASSUME Phase = "seeding" \/ Busy # {}, Len(queue') = Len(queue) + 1,
           Busy' = Busy, Phase' = Phase
    PROVE  [C!Next]_(C!cvars)
  BY DEF C!Next, C!Discover

LEMMA CrawlRetires ==
    ASSUME NEW a \in Actors, a \in Busy, Busy' = Busy \ {a},
           Len(queue') = Len(queue), Phase' = Phase
    PROVE  [C!Next]_(C!cvars)
  BY DEF C!Next, C!Retire

LEMMA CrawlAborts ==
    ASSUME NEW A \in SUBSET Actors, Phase \in {"seeding", "crawling"},
           Phase' = "aborted", Busy' = Busy \ A, Len(queue') = Len(queue)
    PROVE  [C!Next]_(C!cvars)
  BY DEF C!Next, C!Abort

\* What enqueue does to the number of requests that wait.
LEMMA CallCounts ==
    ASSUME IInv, S!TypeOK, NEW a \in Actors, NEW r \in Requests
    PROVE  /\ Proceeds(a, r) => queue' = queue
           /\ Returns(a, r) => Len(queue') \in {Len(queue), Len(queue) + 1}
<1>1. queue \in Seq(S!Entries)
  BY DEF S!TypeOK
<1>2. Proceeds(a, r) => queue' = queue
  BY DEF Proceeds, S!HasSeen, S!MarkSeen
<1>3. Returns(a, r) => queue' = queue \/ queue' = S!File(queue, r)
  BY DEF Returns, S!Push, schedVars
<1> QED
  BY <1>1, <1>2, <1>3, QueueChanges

\* A call of the scheduler by run().
LEMMA MainCallIsCrawl ==
    ASSUME IInv, S!TypeOK, CurrentInPlace, CurrentInPlace', KnownRequests, RetriesIdle,
           NEW r \in Requests, MainEnqueues(r) \/ MainEnqueued(r)
    PROVE  [C!Next]_(C!cvars)
<1>0. Main \in Actors /\ r # NoRequest /\ pc' = pc
  BY EngineAssumption DEF Actors, S!SchedulerConstants, MainEnqueues, MainEnqueued,
         taskVars
<1>1. PhaseByPlace /\ PhaseByPlace'
  BY Phases, NextPhases
<1>2. CASE MainEnqueues(r)
  <2>1. queue' = queue
    BY <1>0, <1>2, CallCounts DEF MainEnqueues
  <2>2. Busy' = Busy /\ Phase' = Phase
    BY <1>0, <1>2 DEF MainEnqueues, mainVars, Busy, MainHolds, Phase
  <2> QED
    BY <2>1, <2>2, CrawlKept
<1>3. CASE MainEnqueued(r) /\ main \in {"seed", "reseed"}
  <2>1. Len(queue') \in {Len(queue), Len(queue) + 1}
    BY <1>0, <1>3, CallCounts DEF MainEnqueued
  <2>2. Phase = "seeding" /\ Phase' = "seeding"
    BY <1>1, <1>3 DEF MainEnqueued, PhaseByPlace
  <2>3. ~MainHolds /\ ~MainHolds'
    BY <1>3 DEF MainEnqueued, MainHolds, CurrentInPlace
  <2>4. Busy' = Busy
    BY <1>0, <2>3 DEF Busy
  <2> QED
    BY <2>1, <2>2, <2>4, CrawlKept, CrawlDiscovers
<1>4. CASE MainEnqueued(r) /\ main = "refill"
  <2>1. r = current /\ step[Main] = "idle" /\ r.url \in seen
    BY <1>4 DEF MainEnqueued, Offered, RetriesIdle, KnownRequests
  <2>2. queue' = queue
    BY <1>0, <1>4, <2>1, SeenReturns DEF MainEnqueued, schedVars
  <2>3. Phase = "crawling" /\ Phase' = "crawling"
    BY <1>1, <1>4 DEF MainEnqueued, PhaseByPlace
  <2>4. MainHolds /\ ~MainHolds'
    BY <1>0, <1>4, <2>1 DEF MainEnqueued, MainHolds
  <2>5. Main \in Busy /\ Busy' = Busy \ {Main}
    BY <1>0, <2>4, EngineAssumption DEF Busy
  <2> QED
    BY <1>0, <2>2, <2>3, <2>5, CrawlRetires
<1> QED
  BY <1>2, <1>3, <1>4 DEF MainEnqueued, Offered

\* run() takes a request from the scheduler.
LEMMA TakeIsCrawl ==
    ASSUME S!TypeOK, CurrentInPlace, CurrentInPlace', TakeNext
    PROVE  [C!Next]_(C!cvars)
<1>1. main = "fill" /\ main' = "request" /\ pc' = pc
  BY DEF TakeNext, taskVars
<1>2. PICK i \in DOMAIN queue : S!TakeAt(Main, i) /\ current' = queue[i].item
  BY DEF TakeNext
<1>3. queue \in Seq(S!Entries) /\ Main \in Actors
  BY DEF S!TypeOK, Actors
<1>4. current' # NoRequest
  <2>1. PICK e \in S!Entries : e = queue[i]
    BY <1>2, <1>3
  <2> QED
    BY <1>2, <2>1, EngineAssumption DEF S!Entries, S!SchedulerConstants
<1>5. Len(queue') = Len(queue) - 1 /\ Len(queue) > 0
  <2>1. queue' = S!Without(queue, i)
    BY <1>2 DEF S!TakeAt
  <2> QED
    BY <1>2, <1>3, <2>1, QueueChanges
<1>6. Phase = "crawling" /\ Phase' = "crawling"
  BY <1>1, Phases, NextPhases DEF PhaseByPlace
<1>7. ~MainHolds /\ MainHolds'
  BY <1>1, <1>4 DEF MainHolds, CurrentInPlace
<1>8. Main \notin Busy /\ Busy' = Busy \cup {Main}
  BY <1>1, <1>7, EngineAssumption DEF Busy
<1> QED
  BY <1>3, <1>5, <1>6, <1>8 DEF C!Next, C!Take

\* run() hands its request to a task.
LEMMA SpawnIsCrawl ==
    ASSUME IInv, CurrentInPlace, CurrentInPlace', NEW t \in Tasks, SpawnTask(t)
    PROVE  [C!Next]_(C!cvars)
<1>1. /\ main = "counted" /\ main' = "fill" /\ queue' = queue
      /\ current \in Requests /\ current' = NoRequest
  BY DEF SpawnTask, schedVars, IInv, PlacesMatchData
<1>2. /\ pc[t] = "free" /\ pc'[t] = "begin"
      /\ \A s \in Tasks \ {t} : pc'[s] = pc[s]
  BY DEF SpawnTask, IInv, TypeOK
<1>3. Phase = "crawling" /\ Phase' = "crawling"
  BY <1>1, Phases, NextPhases DEF PhaseByPlace
<1>4. MainHolds /\ ~MainHolds'
  BY <1>1, EngineAssumption DEF MainHolds, S!SchedulerConstants
<1>5. Main \in Busy /\ t \notin Busy /\ Busy' = (Busy \ {Main}) \cup {t}
  BY <1>2, <1>4, EngineAssumption DEF Busy
<1>6. Main \in Actors /\ t \in Actors
  BY DEF Actors
<1> QED
  BY <1>1, <1>3, <1>5, <1>6 DEF C!Next, C!HandOver

\* run() meets an error before a task has its request.
LEMMA MainErrorIsCrawl ==
    ASSUME IInv, CurrentInPlace, CurrentInPlace',
           RejectRequest \/ \E r \in Requests : SeedFails(r)
    PROVE  [C!Next]_(C!cvars)
<1>0. /\ pc' = pc /\ queue' = queue /\ PhaseByPlace /\ PhaseByPlace'
      /\ Main \in Actors /\ Main \notin Tasks
  BY Phases, NextPhases, EngineAssumption
     DEF RejectRequest, SeedFails, taskVars, schedVars, Actors
<1>1. CASE \E r \in Requests : SeedFails(r)
  <2>1. main = "seed" /\ main' \in {"seed", "reseed", "failed"} /\ aborted' = aborted
    BY <1>1 DEF SeedFails
  <2>2. ~MainHolds /\ ~MainHolds'
    BY <2>1 DEF CurrentInPlace, MainHolds
  <2>3. Busy' = Busy
    BY <1>0, <2>2 DEF Busy
  <2>4. Phase = "seeding" /\ Phase' \in {"seeding", "aborted"}
    BY <1>0, <2>1 DEF PhaseByPlace
  <2>5. PICK A \in SUBSET Actors : A = {}
    OBVIOUS
  <2>6. Busy' = Busy \ A /\ Len(queue') = Len(queue)
    BY <1>0, <2>3, <2>5
  <2>7. CASE Phase' = "seeding"
    BY <2>3, <2>4, <2>6, <2>7, CrawlKept
  <2>8. CASE Phase' = "aborted"
    BY <2>4, <2>6, <2>8, CrawlAborts
  <2> QED
    BY <2>4, <2>7, <2>8
<1>2. CASE RejectRequest
  <2>1. main = "request" /\ Phase = "crawling" /\ MainHolds
    BY <1>0, <1>2, EngineAssumption
       DEF RejectRequest, PhaseByPlace, MainHolds, IInv, PlacesMatchData,
           S!SchedulerConstants
  <2>2. CASE main' = "refill" /\ current' = current
    <3>1. Busy' = Busy
      BY <1>0, <2>1, <2>2 DEF Busy, MainHolds
    <3> QED
      BY <1>0, <2>1, <2>2, <3>1, CrawlKept DEF PhaseByPlace
  <2>3. CASE main' = "reap" /\ aborted' /\ current' = NoRequest
    <3>1. Busy' = Busy \ {Main}
      BY <1>0, <2>1, <2>3 DEF Busy, MainHolds
    <3> QED
      BY <1>0, <2>1, <2>3, <3>1, CrawlAborts DEF PhaseByPlace
  <2>4. CASE main' = "fill" /\ current' = NoRequest
    <3>1. Main \in Busy /\ Busy' = Busy \ {Main}
      BY <1>0, <2>1, <2>4 DEF Busy, MainHolds
    <3> QED
      BY <1>0, <2>1, <2>4, <3>1, CrawlRetires DEF PhaseByPlace
  <2> QED
    BY <1>2, <2>2, <2>3, <2>4 DEF RejectRequest
<1> QED
  BY <1>1, <1>2

\* run() stops when nothing is left.
LEMMA FinishIsCrawl ==
    ASSUME IInv, S!TypeOK, CurrentInPlace, CurrentInPlace', LeaveLoop \/ NothingLeft
    PROVE  [C!Next]_(C!cvars)
<1>1. /\ main \in {"loop", "wait"} /\ main' = "reap" /\ pc' = pc /\ queue' = queue
      /\ aborted' = aborted /\ current' = current
  BY DEF LeaveLoop, NothingLeft, MainGoes, taskVars, schedVars
<1>2. Live = {} /\ queue = <<>> /\ ~aborted /\ current = NoRequest
  BY <1>1 DEF LeaveLoop, NothingLeft, MoreToDo, SchedulerEmpty, CurrentInPlace
<1>3. Len(queue) = 0
  BY <1>2
<1>4. Busy = {} /\ Busy' = {}
  BY <1>1, <1>2 DEF Busy, MainHolds, Live
<1>5. Phase = "crawling" /\ Phase' = "finished"
  BY <1>1, <1>2, Phases, NextPhases DEF PhaseByPlace
<1> QED
  BY <1>1, <1>3, <1>4, <1>5 DEF C!Next, C!Finish

\* The start requests are enqueued.
LEMMA StartIsCrawl ==
    ASSUME CurrentInPlace, CurrentInPlace', StartCrawl
    PROVE  [C!Next]_(C!cvars)
<1>1. main = "seed" /\ main' = "loop" /\ pc' = pc /\ queue' = queue /\ current' = current
  BY DEF StartCrawl, taskVars, schedVars
<1>2. Busy' = Busy
  BY <1>1 DEF Busy, MainHolds
<1>3. Phase = "seeding" /\ Phase' = "crawling"
  BY <1>1, Phases, NextPhases DEF PhaseByPlace
<1> QED
  BY <1>1, <1>2, <1>3 DEF C!Next, C!Begin

\* run() goes on, waits, or takes leave of a finished task.
LEMMA PassingIsCrawl ==
    ASSUME IInv, CurrentInPlace, CurrentInPlace',
           \/ EnterLoop \/ MainParks \/ StopFilling \/ CountRequest \/ ShortSleep
           \/ CloseChannel \/ AwaitItems \/ CloseEngine
           \/ \E t \in Tasks : AwaitTask(t) \/ AwaitRest(t)
    PROVE  [C!Next]_(C!cvars)
<1>1. queue' = queue /\ current' = current /\ aborted' = aborted
      /\ main # "reseed" /\ main' # "reseed"
  BY DEF EnterLoop, MainParks, StopFilling, CountRequest, ShortSleep, CloseChannel,
         AwaitItems, CloseEngine, AwaitTask, AwaitRest, Reaps, MainGoes, schedVars
<1>2. \A t \in Tasks : pc'[t] \in {"free", "done"} <=> pc[t] \in {"free", "done"}
  BY DEF EnterLoop, MainParks, StopFilling, CountRequest, ShortSleep, CloseChannel,
         AwaitItems, CloseEngine, AwaitTask, AwaitRest, Reaps, MainGoes, taskVars,
         IInv, TypeOK
<1>3. Busy' = Busy
  BY <1>1, <1>2 DEF Busy, MainHolds
<1>4. \/ {main, main'} \subseteq {"loop", "fill", "request", "counted", "wait", "parked"}
      \/ {main, main'} \subseteq {"reap", "items", "close", "closed"}
  BY DEF EnterLoop, MainParks, StopFilling, CountRequest, ShortSleep, CloseChannel,
         AwaitItems, CloseEngine, AwaitTask, AwaitRest, Reaps, MainGoes
<1>5. Phase' = Phase
  BY <1>1, <1>4, Phases, NextPhases DEF PhaseByPlace
<1> QED
  BY <1>1, <1>3, <1>5, CrawlKept

\* A step of a task that neither ends it nor files a request, and every step of
\* the item processor and of the signals.
LEMMA AsideIsCrawl ==
    ASSUME UNCHANGED <<queue, mainVars>>,
           \A t \in Tasks : pc'[t] \in {"free", "done"} <=> pc[t] \in {"free", "done"}
    PROVE  [C!Next]_(C!cvars)
<1>1. Busy' = Busy /\ Phase' = Phase
  BY DEF Busy, MainHolds, Phase, mainVars
<1> QED
  BY <1>1, CrawlKept

\* A task ends.
LEMMA EndIsCrawl ==
    ASSUME UNCHANGED <<queue, mainVars>>, NEW t \in Tasks,
           pc[t] \notin {"free", "done"}, pc'[t] = "done",
           \A s \in Tasks \ {t} : pc'[s] = pc[s]
    PROVE  [C!Next]_(C!cvars)
<1>1. t \in Busy /\ Busy' = Busy \ {t} /\ t \in Actors
  BY EngineAssumption DEF Busy, MainHolds, mainVars, Actors
<1>2. Phase' = Phase
  BY DEF Phase, mainVars
<1> QED
  BY <1>1, <1>2, CrawlRetires

\* A call of the scheduler by a task.
LEMMA TaskCallIsCrawl ==
    ASSUME IInv, S!TypeOK, KnownRequests, RetriesIdle, NEW t \in Tasks,
           NEW r \in Requests, TaskEnqueues(t, r) \/ TaskEnqueued(t, r)
    PROVE  [C!Next]_(C!cvars)
<1>0. t \in Actors /\ UNCHANGED mainVars /\ pc[t] \in {"links", "retry"}
  BY DEF Actors, TaskEnqueues, TaskEnqueued
<1>1. CASE TaskEnqueues(t, r)
  <2>1. queue' = queue /\ pc' = pc
    BY <1>0, <1>1, CallCounts DEF TaskEnqueues, taskVars
  <2> QED
    BY <1>0, <2>1, AsideIsCrawl
<1>2. CASE TaskEnqueued(t, r) /\ pc[t] = "links"
  <2>1. Len(queue') \in {Len(queue), Len(queue) + 1} /\ pc' = pc
    BY <1>0, <1>2, CallCounts DEF TaskEnqueued
  <2>2. Busy' = Busy /\ Phase' = Phase
    BY <1>0, <2>1 DEF Busy, MainHolds, Phase, mainVars
  <2>3. Busy # {}
    BY <1>2 DEF Busy
  <2> QED
    BY <2>1, <2>2, <2>3, CrawlKept, CrawlDiscovers
<1>3. CASE TaskEnqueued(t, r) /\ pc[t] = "retry"
  <2>1. r = req[t] /\ step[t] = "idle" /\ r.url \in seen
    BY <1>3 DEF TaskEnqueued, RetriesIdle, KnownRequests
  <2>2. queue' = queue
    BY <1>0, <1>3, <2>1, SeenReturns DEF TaskEnqueued, schedVars
  <2>3. pc'[t] = "done" /\ \A s \in Tasks \ {t} : pc'[s] = pc[s]
    BY <1>3 DEF TaskEnqueued, IInv, TypeOK
  <2> QED
    BY <1>0, <2>2, <2>3, EndIsCrawl
<1> QED
  BY <1>0, <1>1, <1>2, <1>3

\* The other steps of a task.
LEMMA TaskIsCrawl ==
    ASSUME IInv, NEW t \in Tasks, TaskStep(t),
           \A r \in Requests : ~TaskEnqueues(t, r) /\ ~TaskEnqueued(t, r)
    PROVE  [C!Next]_(C!cvars)
<1>1. UNCHANGED <<queue, mainVars>>
  BY DEF TaskStep, TaskParks, AddToSlot, TakeFromSlot, Download, DownloadFails,
         AcceptResponse, RejectResponse, RetryByMeta, Parse, ParseFails, FollowLinks,
         LinksDone, StartSending, SendItem, schedVars
<1>2. pc[t] \notin {"free", "done"} /\ \A s \in Tasks \ {t} : pc'[s] = pc[s]
  BY DEF TaskStep, TaskParks, Checkpoints, AddToSlot, TakeFromSlot, Download,
         DownloadFails, AcceptResponse, RejectResponse, RetryByMeta, Parse, ParseFails,
         FollowLinks, LinksDone, StartSending, SendItem, TaskGoes, Handle, IInv, TypeOK
<1>3. pc'[t] # "free"
  BY DEF TaskStep, TaskParks, Checkpoints, AddToSlot, TakeFromSlot, Download,
         DownloadFails, AcceptResponse, RejectResponse, RetryByMeta, Parse, ParseFails,
         FollowLinks, LinksDone, StartSending, SendItem, TaskGoes, Handle, IInv, TypeOK
<1>4. CASE pc'[t] = "done"
  BY <1>1, <1>2, <1>4, EndIsCrawl
<1>5. CASE pc'[t] # "done"
  BY <1>1, <1>2, <1>3, <1>5, AsideIsCrawl
<1> QED
  BY <1>4, <1>5

\* Every step of the engine is a step of the crawl, or none.
LEMMA CrawlStep ==
    ASSUME IInv, S!TypeOK, CurrentInPlace, CurrentInPlace', KnownRequests, RetriesIdle,
           [Next]_vars
    PROVE  [C!Next]_(C!cvars)
<1>1. MainStep => [C!Next]_(C!cvars)
  BY MainCallIsCrawl, TakeIsCrawl, SpawnIsCrawl, MainErrorIsCrawl, FinishIsCrawl,
     StartIsCrawl, PassingIsCrawl DEF MainStep
<1>2. \A t \in Tasks : TaskStep(t) => [C!Next]_(C!cvars)
  BY TaskCallIsCrawl, TaskIsCrawl
<1>3. ItemStep \/ (\E b \in BOOLEAN : SendSignal(b) \/ SetRunning(b)) \/ UNCHANGED vars
         => UNCHANGED <<queue, mainVars, pc>>
  BY DEF ItemStep, ReceiveItem, ProcessItem, ItemParks, EndItems, SendSignal, SetRunning,
         vars, schedVars, taskVars
<1>4. UNCHANGED <<queue, mainVars, pc>> => [C!Next]_(C!cvars)
  BY AsideIsCrawl
<1> QED
  BY <1>1, <1>2, <1>3, <1>4 DEF Next, Over

\* At the start run() holds no request, nothing waits and nobody is busy.
LEMMA CrawlInit ==
    Init => CurrentInPlace /\ KnownRequests /\ RetriesIdle /\ C!Init
<1> SUFFICES ASSUME Init
             PROVE  CurrentInPlace /\ KnownRequests /\ RetriesIdle /\ C!Init
  OBVIOUS
<1>1. CurrentInPlace /\ KnownRequests /\ RetriesIdle
  BY DEF Init, S!Init, CurrentInPlace, KnownRequests, RetriesIdle
<1>2. queue = <<>> /\ Busy = {}
  BY DEF Init, S!Init, Busy, MainHolds
<1>3. Phase = "seeding"
  BY <1>1, Phases DEF Init, PhaseByPlace
<1>4. Len(queue) = 0
  BY <1>2
<1> QED
  BY <1>1, <1>2, <1>3, <1>4 DEF C!Init

\* Whatever the engine does, requests are where these parts say.
LEMMA PlacesInvariance == Spec => [](CurrentInPlace /\ KnownRequests /\ RetriesIdle)
<1> DEFINE Inv == CurrentInPlace /\ KnownRequests /\ RetriesIdle
<1>1. Init => Inv
  BY CrawlInit
<1>2. IInv /\ S!TypeOK /\ Inv /\ [Next]_vars => Inv'
  BY CurrentStep, KnownStep, RetriesStep
<1> HIDE DEF Inv
<1>3. Spec => []Inv
  BY <1>1, <1>2, EngineInvariance, SchedulerInvariant, PTL DEF Spec
<1> QED
  BY <1>3 DEF Inv

\* For any site, any number of tasks, any faults and any signals, run() is a
\* crawl: requests come from the start requests or from a busy task only, and the
\* loop ends with nothing waiting and nobody busy, unless an error aborts it.
THEOREM IsACrawl == Spec => ImplementsCrawl
<1> DEFINE Inv == CurrentInPlace /\ KnownRequests /\ RetriesIdle
<1>1. Init => C!Init
  BY CrawlInit
<1>2. IInv /\ S!TypeOK /\ Inv /\ Inv' /\ [Next]_vars => [C!Next]_(C!cvars)
  BY CrawlStep
<1>3. Spec => []Inv
  BY PlacesInvariance
<1> HIDE DEF Inv
<1> QED
  BY <1>1, <1>2, <1>3, EngineInvariance, SchedulerInvariant, PTL
     DEF Spec, ImplementsCrawl, C!Spec

-----------------------------------------------------------------------------
(* Who waits for whom *)

\* run() waits for the item processor when its tasks are gone.
LEMMA WaitsStep ==
    ASSUME TypeOK, WaitsInPlace, [Next]_vars
    PROVE  WaitsInPlace'
<1>1. CASE UNCHANGED <<main, current, pc>>
  BY <1>1 DEF WaitsInPlace, Live
<1>2. CASE MainStep
  <2>1. main' = "reseed" => current' \in Requests
    BY <1>2 DEF MainStep, MainEnqueues, MainEnqueued, Offered, SeedFails, StartCrawl,
         EnterLoop, MainParks, LeaveLoop, TakeNext, StopFilling, CountRequest,
         RejectRequest, NothingLeft, ShortSleep, SpawnTask, AwaitTask, AwaitRest,
         CloseChannel, AwaitItems, CloseEngine, MainGoes, Reaps, mainVars, WaitsInPlace
  <2>2. main' \in {"items", "close", "closed"} =>
            Live' = Live /\ (main \in {"items", "close"} \/ Live = {})
    BY <1>2 DEF MainStep, MainEnqueues, MainEnqueued, Offered, SeedFails, StartCrawl,
         EnterLoop, MainParks, LeaveLoop, TakeNext, StopFilling, CountRequest,
         RejectRequest, NothingLeft, ShortSleep, SpawnTask, AwaitTask, AwaitRest,
         CloseChannel, AwaitItems, CloseEngine, MainGoes, Reaps, taskVars, mainVars,
         Live
  <2> QED
    BY <2>1, <2>2 DEF WaitsInPlace
<1>3. ASSUME NEW t \in Tasks, TaskStep(t)
      PROVE  WaitsInPlace'
  <2>1. /\ pc[t] # "free" /\ UNCHANGED mainVars
    BY <1>3 DEF TaskStep, TaskParks, Checkpoints, AddToSlot, TakeFromSlot, Download,
         DownloadFails, AcceptResponse, RejectResponse, RetryByMeta, Parse, ParseFails,
         FollowLinks, LinksDone, StartSending, SendItem, TaskEnqueues, TaskEnqueued,
         TaskGoes
  <2>2. Live # {}
    BY <2>1 DEF Live
  <2> QED
    BY <2>1, <2>2 DEF WaitsInPlace, mainVars
<1>4. ItemStep \/ (\E b \in BOOLEAN : SendSignal(b) \/ SetRunning(b)) \/ UNCHANGED vars
         => UNCHANGED <<main, current, pc>>
  BY DEF ItemStep, ReceiveItem, ProcessItem, ItemParks, EndItems, SendSignal, SetRunning,
         vars, mainVars, taskVars
<1> QED
  BY <1>1, <1>2, <1>3, <1>4 DEF Next, Over

\* There is an identity for the task run() is about to spawn.
LEMMA RoomForATask ==
    ASSUME TypeOK, ActiveTasksExact, active < ConcurrentRequests
    PROVE  \E t \in Tasks : pc[t] = "free"
<1>1. SUFFICES ASSUME \A t \in Tasks : pc[t] # "free"
               PROVE  FALSE
  OBVIOUS
<1>2. Live = Tasks
  BY <1>1 DEF Live
<1>3. active = Cardinality(Tasks)
  BY <1>2 DEF ActiveTasksExact
<1>4. Cardinality(Tasks) \in Nat
  BY EngineAssumption, FS_CardinalityType
<1> QED
  BY <1>3, <1>4, EngineAssumption

\* A task waits for nothing but a place in the channel, which the item processor
\* makes; run() waits for tasks, and then for the processor.
LEMMA WhoWaits ==
    ASSUME IInv, S!TypeOK, ItemsTracked, RetriesIdle, WaitsInPlace
    PROVE  OnlyAPauseBlocks
<1>0. TypeOK /\ lock = NoCaller
  BY DEF IInv, S!TypeOK
<1>1. channel \in 0 .. ConcurrentItems /\ ConcurrentItems \in Nat \ {0}
  BY <1>0, EngineAssumption DEF TypeOK
<1>2. item \in {"recv", "process", "done", "parked"}
  BY <1>0 DEF TypeOK
<1>3. ASSUME NEW t \in Tasks, pc[t] \notin {"free", "done", "parked"}, ~ItemMoves, item # "parked"
      PROVE  TaskMoves(t)
  <2>1. Live # {}
    BY <1>3 DEF Live
  <2>2. item = "recv" /\ ~(channel > 0)
    BY <1>2, <1>3, <2>1 DEF ItemMoves, ItemsTracked
  <2>3. channel < ConcurrentItems
    BY <1>1, <2>2
  <2>4. pc[t] = "retry" => out[t] # {}
    BY DEF RetriesIdle
  <2> QED
    BY <1>0, <1>3, <2>3, <2>4 DEF TaskMoves
<1>4. ASSUME main \notin {"closed", "failed", "parked"}, ~ItemMoves, item # "parked",
             \A t \in Tasks : pc[t] \in {"free", "done"}
      PROVE  MainMoves
  <2>1. main \in {"request", "counted", "reseed", "refill"} => current \in Requests
    BY DEF IInv, PlacesMatchData, WaitsInPlace
  <2>2. main = "counted" => \E t \in Tasks : pc[t] = "free"
    BY <1>0, RoomForATask DEF IInv, PlacesMatchData
  <2>3. Live = {} \/ \E t \in Tasks : pc[t] = "done"
    BY <1>4 DEF Live
  <2>4. main = "items" => item = "done"
    BY <1>2, <1>4 DEF ItemMoves, WaitsInPlace
  <2> QED
    BY <1>0, <1>4, <2>1, <2>2, <2>3, <2>4 DEF MainMoves
<1> QED
  BY <1>3, <1>4 DEF OnlyAPauseBlocks

\* For any site, any number of tasks, any capacity of the item channel, any faults
\* and any signals: the tasks, the item processor and run() never wait for each
\* other, and whoever waits for good waits for somebody a pause has parked.
THEOREM NobodyWaitsInACircle == Spec => []OnlyAPauseBlocks
<1>1. Init => WaitsInPlace
  BY DEF Init, WaitsInPlace
<1>2. IInv => TypeOK
  BY DEF IInv
<1>3. Spec => []WaitsInPlace
  BY <1>1, <1>2, WaitsStep, EngineInvariance, PTL DEF Spec
<1>4. IInv /\ S!TypeOK /\ ItemsTracked /\ (CurrentInPlace /\ KnownRequests /\ RetriesIdle)
        /\ WaitsInPlace => OnlyAPauseBlocks
  BY WhoWaits
<1> QED
  BY <1>3, <1>4, EngineInvariance, SchedulerInvariant, ItemsInvariance, PlacesInvariance, PTL

-----------------------------------------------------------------------------
(* A limit of zero *)

\* run() has taken nothing from the scheduler.
Starved == handed = [u \in Urls |-> 0] /\ main \notin {"request", "counted"} /\ ~aborted

\* TakeNext needs room below the limit, and nobody else takes requests.
LEMMA StarvedStep ==
    ASSUME ConcurrentRequests = 0
    PROVE  Starved /\ TypeOK /\ [Next]_vars => Starved'
<1> SUFFICES ASSUME Starved, TypeOK, [Next]_vars PROVE Starved'
  OBVIOUS
<1> USE DEF Starved
<1>1. ~TakeNext
  BY DEF TakeNext, MayStartMore, TypeOK
<1>2. ASSUME NEW a, NEW r, Proceeds(a, r) \/ Returns(a, r) PROVE handed' = handed
  BY <1>2 DEF Proceeds, Returns, S!HasSeen, S!MarkSeen, S!Push, schedVars
<1>3. ASSUME NEW r \in Requests, MainEnqueues(r) \/ MainEnqueued(r) \/ SeedFails(r)
      PROVE  Starved'
  BY <1>2, <1>3 DEF MainEnqueues, MainEnqueued, SeedFails, mainVars, schedVars
<1>4. CASE MainStep
  <2>1. ASSUME NEW t \in Tasks, SpawnTask(t) \/ AwaitTask(t) \/ AwaitRest(t) PROVE Starved'
    BY <2>1 DEF SpawnTask, AwaitTask, AwaitRest, Reaps, schedVars
  <2>2. CASE StartCrawl \/ EnterLoop \/ MainParks \/ LeaveLoop \/ StopFilling
             \/ NothingLeft \/ ShortSleep \/ CloseChannel \/ AwaitItems
    BY <2>2 DEF StartCrawl, EnterLoop, MainParks, LeaveLoop, StopFilling, NothingLeft,
                ShortSleep, CloseChannel, AwaitItems, MainGoes, schedVars
  <2>3. CASE CountRequest \/ RejectRequest
    BY <2>3 DEF CountRequest, RejectRequest
  <2>4. CASE CloseEngine
    BY <2>4 DEF CloseEngine, schedVars
  <2> QED
    BY <1>1, <1>3, <1>4, <2>1, <2>2, <2>3, <2>4 DEF MainStep
<1>5. ASSUME NEW t \in Tasks, TaskStep(t) PROVE Starved'
  <2>1. ASSUME NEW r \in Requests, TaskEnqueues(t, r) \/ TaskEnqueued(t, r) PROVE Starved'
    BY <1>2, <2>1 DEF TaskEnqueues, TaskEnqueued, mainVars
  <2>2. CASE UNCHANGED <<schedVars, mainVars>>
    BY <2>2 DEF schedVars, mainVars
  <2> QED
    BY <1>5, <2>1, <2>2
       DEF TaskStep, TaskParks, AddToSlot, TakeFromSlot, Download, DownloadFails,
           AcceptResponse, RejectResponse, RetryByMeta, Parse, ParseFails, FollowLinks,
           LinksDone, StartSending, SendItem
<1>6. CASE ItemStep
  BY <1>6 DEF ItemStep, ReceiveItem, ProcessItem, ItemParks, EndItems, schedVars, mainVars
<1>7. ASSUME NEW b \in BOOLEAN, SendSignal(b) \/ SetRunning(b) PROVE Starved'
  BY <1>7 DEF SendSignal, SetRunning, schedVars, mainVars
<1>8. CASE UNCHANGED vars
  BY <1>8 DEF vars, schedVars, mainVars
<1> QED
  BY <1>4, <1>5, <1>6, <1>7, <1>8 DEF Next, Over

\* With concurrent_requests = 0, which nothing rejects, run() starts no task and,
\* if the spider has a request to start with, never closes: the scheduler is not
\* empty, and there is no room for what it holds.
THEOREM NoRoomNoEnd ==
    ASSUME ConcurrentRequests = 0, "start" \notin Faults,
           NEW r \in StartRequests, ~S!TooDeep(r)
    PROVE  Spec => [](Live = {} /\ main # "closed")
<1>1. Init => Starved
  BY DEF Init, Starved, S!Init
<1>2. IInv => TypeOK
  BY DEF IInv
<1>3. Spec => []Starved
  BY <1>1, <1>2, StarvedStep, EngineInvariance, PTL DEF Spec
<1>4. IInv /\ Starved => Live = {}
  <2> SUFFICES ASSUME IInv, Starved PROVE Live = {}
    OBVIOUS
  <2>1. active \in Nat /\ active <= 0 /\ active = Cardinality(Live)
    BY DEF IInv, TypeOK, ActiveTasksExact
  <2>2. IsFiniteSet(Live)
    BY EngineAssumption, FS_Subset DEF Live
  <2> QED
    BY <2>1, <2>2, FS_EmptySet
<1>5. Starved /\ CrawlComplete => main # "closed"
  <2> SUFFICES ASSUME Starved, CrawlComplete, main = "closed" PROVE FALSE
    OBVIOUS
  <2>1. handed[r.url] > 0
    BY DEF CrawlComplete, Starved
  <2>2. r.url \in Urls
    BY EngineAssumption DEF S!SchedulerConstants
  <2> QED
    BY <2>1, <2>2 DEF Starved
<1> QED
  BY <1>3, <1>4, <1>5, EngineInvariance, CrawlIsComplete, PTL
=============================================================================
