---------------------------- MODULE EngineProofs ----------------------------
(***************************************************************************)
(* Proofs about Engine for any site, any number of tasks, any capacities   *)
(* and any faults. What is proved about the scheduler is taken over from   *)
(* QueueSchedulerProofs: run() and its tasks are callers of the scheduler. *)
(***************************************************************************)
EXTENDS Engine, FiniteSetTheorems, TLAPS

SP == INSTANCE QueueSchedulerProofs WITH
        Enqueuers <- Actors, Takers <- {Main}, Clearers <- {}

\* The two instances of QueueScheduler say the same.
LEMMA SameScheduler ==
    /\ S!TypeOK <=> SP!TypeOK
    /\ S!NoUrlLost <=> SP!NoUrlLost
  BY DEF S!TypeOK, SP!TypeOK, S!NoUrlLost, SP!NoUrlLost,
         S!Callers, SP!Callers, S!Entries, SP!Entries,
         S!QueuedUrls, SP!QueuedUrls, S!InFlightUrls, SP!InFlightUrls

-----------------------------------------------------------------------------
(* The engine uses the scheduler as QueueScheduler allows its callers to. *)

\* The engine starts with an empty scheduler.
LEMMA SchedulerInit == Init => SP!Init
  BY DEF Init, S!Init, SP!Init, S!Callers, SP!Callers

\* The steps of a call made by run() or a task are steps of the scheduler.
LEMMA CallerStep ==
    ASSUME NEW a \in Actors, NEW r \in Requests, Proceeds(a, r) \/ Returns(a, r)
    PROVE  [SP!Next]_(SP!vars)
<1>1. CASE Proceeds(a, r)
  BY <1>1 DEF Proceeds, S!HasSeen, S!MarkSeen, S!TooDeep,
              SP!Next, SP!Enqueue, SP!HasSeen, SP!MarkSeen, SP!TooDeep
<1>2. CASE Returns(a, r)
  <2>1. CASE UNCHANGED schedVars
    BY <2>1 DEF schedVars, SP!vars
  <2>2. CASE S!Push(a)
    BY <2>2 DEF S!Push, S!File, S!SameRequest,
                SP!Next, SP!Enqueue, SP!Push, SP!File, SP!SameRequest
  <2> QED
    BY <1>2, <2>1, <2>2 DEF Returns
<1> QED
  BY <1>1, <1>2

\* Every step of the engine is a step of its scheduler or leaves it alone.
LEMMA SchedulerStep == [Next]_vars => [SP!Next]_(SP!vars)
<1> SUFFICES ASSUME [Next]_vars
             PROVE  [SP!Next]_(SP!vars)
  OBVIOUS
<1>1. ASSUME NEW r \in Requests, MainEnqueues(r) \/ MainEnqueued(r)
      PROVE  [SP!Next]_(SP!vars)
  BY <1>1, CallerStep DEF MainEnqueues, MainEnqueued, Actors
<1>2. ASSUME NEW t \in Tasks, NEW r \in Requests,
             TaskEnqueues(t, r) \/ TaskEnqueued(t, r)
      PROVE  [SP!Next]_(SP!vars)
  BY <1>2, CallerStep DEF TaskEnqueues, TaskEnqueued, Actors
<1>3. CASE TakeNext
  <2>1. PICK i \in DOMAIN queue : S!TakeAt(Main, i)
    BY <1>3 DEF TakeNext
  <2>2. SP!TakeAt(Main, i)
    BY <2>1 DEF S!TakeAt, SP!TakeAt, S!Ready, SP!Ready, S!Without, SP!Without
  <2> QED
    BY <2>2 DEF SP!Next, SP!TakeRequest
<1>4. CASE UNCHANGED schedVars
  BY <1>4 DEF schedVars, SP!vars
<1>5. MainStep => UNCHANGED schedVars \/ TakeNext
                    \/ \E r \in Requests : MainEnqueues(r) \/ MainEnqueued(r)
  BY DEF MainStep, SeedFails, StartCrawl, EnterLoop, MainParks, LeaveLoop,
         StopFilling, CountRequest, RejectRequest, NothingLeft, ShortSleep, SpawnTask,
         AwaitTask, AwaitRest, CloseChannel, AwaitItems, CloseEngine,
         MainGoes, Reaps
<1>6. ASSUME NEW t \in Tasks, TaskStep(t)
      PROVE  UNCHANGED schedVars
                \/ \E r \in Requests : TaskEnqueues(t, r) \/ TaskEnqueued(t, r)
  BY <1>6 DEF TaskStep, TaskParks, AddToSlot, TakeFromSlot, Download,
              DownloadFails, AcceptResponse, RejectResponse, RetryByMeta, Parse,
              ParseFails, FollowLinks, LinksDone, StartSending, SendItem
<1>7. ItemStep => UNCHANGED schedVars
  BY DEF ItemStep, ReceiveItem, ProcessItem, ItemParks, EndItems
<1>8. \A b \in BOOLEAN : SendSignal(b) \/ SetRunning(b) => UNCHANGED schedVars
  BY DEF SendSignal, SetRunning
<1>9. UNCHANGED vars => UNCHANGED schedVars
  BY DEF vars
<1> QED
  BY <1>1, <1>2, <1>3, <1>4, <1>5, <1>6, <1>7, <1>8, <1>9 DEF Next, Over

\* Whatever the engine does, its scheduler keeps the types of QueueScheduler and
\* loses no URL it has marked as seen.
THEOREM SchedulerInvariant == Spec => [](S!TypeOK /\ S!NoUrlLost)
<1>1. SP!SchedulerConstants
  BY EngineAssumption
     DEF S!SchedulerConstants, SP!SchedulerConstants, S!Callers, SP!Callers
<1>2. Spec => SP!Spec
  BY SchedulerInit, SchedulerStep, PTL DEF Spec, SP!Spec
<1>3. SP!Spec => []SP!TypeOK
  BY <1>1, SP!TypeCorrect
<1>4. SP!Spec => []SP!NoUrlLost
  BY <1>1, SP!NeverLosesAUrl
<1> QED
  BY <1>2, <1>3, <1>4, SameScheduler, PTL
-----------------------------------------------------------------------------
(* The inductive invariant. *)

\* Counting up keeps the statistics natural numbers; one counter at a time,
LEMMA CountersCount ==
    ASSUME NEW s \in Counters
    PROVE  /\ [s EXCEPT !.request = @ + 1] \in Counters
           /\ [s EXCEPT !.item = @ + 1] \in Counters
           /\ [s EXCEPT !.error = @ + 1] \in Counters
           /\ [s EXCEPT !.response = @ + 1] \in Counters
  BY DEF Counters

\* and the two counters of a rejected response.
LEMMA TwoCountersCount ==
    ASSUME NEW s \in Counters, NEW m \in Nat, NEW n \in Nat
    PROVE  [s EXCEPT !.response = m, !.error = n] \in Counters
  BY DEF Counters

\* The decision of the error manager keeps the types of what it assigns.
LEMMA HandleTypes ==
    ASSUME TypeOK, NEW t \in Tasks, req[t] \in Requests, NEW stage, Handle(t, stage)
    PROVE  pc' \in [Tasks -> TaskStates] /\ out' \in [Tasks -> SUBSET Requests]
<1>1. pc' \in [Tasks -> TaskStates]
  BY DEF TypeOK, TaskStates, Handle
<1>2. {req[t]} \in SUBSET Requests
  OBVIOUS
<1>3. out' \in [Tasks -> SUBSET Requests]
  BY <1>2 DEF TypeOK, Handle
<1> QED
  BY <1>1, <1>3

\* The invariant holds when run() starts.
LEMMA EngineInit == Init => IInv
<1> SUFFICES ASSUME Init
             PROVE  IInv
  OBVIOUS
<1>1. Live = {} /\ Cardinality(Live) = 0
  BY FS_EmptySet DEF Init, Live
<1>2. S!TypeOK
  BY DEF Init, S!Init, S!TypeOK, S!Callers, S!Entries, Actors
<1>3. TypeOK
  <2>1. stats \in Counters
    BY DEF Init, Counters
  <2>2. slots \in [Domains -> Seq(Requests)] /\ setters \in [BOOLEAN -> Nat]
    BY DEF Init
  <2>3. channel \in 0 .. ConcurrentItems /\ sent \in 0 .. MaxSignals
    BY EngineAssumption DEF Init
  <2> QED
    BY <1>2, <2>1, <2>2, <2>3, EngineAssumption DEF Init, TypeOK, MainStates,
                                                    TaskStates
<1>4. CallsInPlace
  BY DEF Init, S!Init, S!Callers, CallsInPlace, Actors
<1> QED
  BY <1>1, <1>3, <1>4, EngineAssumption
     DEF Init, IInv, ActiveTasksExact, PlacesMatchData, NoRequestDropped,
         QuietAfterLoop

\* What a step of task t leaves alone unless it enqueues a request.
Moves(t) ==
    /\ UNCHANGED <<schedVars, mainVars>>
    /\ step[t] = "idle"
    /\ pc[t] # "free" /\ pc'[t] # "free"
    /\ \A s \in Tasks \ {t} :
          pc'[s] = pc[s] /\ req'[s] = req[s] /\ out'[s] = out[s] /\ left'[s] = left[s]

\* A task keeps the links it has yet to offer.
Held(t) == IF pc[t] \in {"parsed", "links", "parked"} THEN out[t] ELSE {}

\* A task that moves on, holding a request, disturbs neither the count of the
\* tasks, nor anybody's call, nor what holds after the loop.
LEMMA MovesInv ==
    ASSUME IInv, NEW t \in Tasks, Moves(t),
           req'[t] \in Requests, pc'[t] = "sending" => left'[t] > 0
    PROVE  ActiveTasksExact' /\ CallsInPlace' /\ PlacesMatchData' /\ QuietAfterLoop'
<1> USE DEF IInv
<1>1. Live' = Live
  BY DEF Moves, Live
<1>2. ActiveTasksExact'
  BY <1>1 DEF Moves, ActiveTasksExact, mainVars
<1>3. CallsInPlace'
  BY DEF Moves, CallsInPlace, Offered, schedVars, mainVars
<1>4. PlacesMatchData'
  BY DEF Moves, PlacesMatchData, mainVars
<1>5. QuietAfterLoop'
  BY <1>1 DEF Moves, QuietAfterLoop, schedVars, mainVars
<1> QED
  BY <1>2, <1>3, <1>4, <1>5

\* A step of a task that drops no link it holds leaves every request accounted.
LEMMA HeldInv ==
    ASSUME IInv, NEW t \in Tasks, Moves(t), parsed' = parsed, Held(t) \subseteq Held(t)'
    PROVE  NoRequestDropped'
<1>1. \A s \in Tasks : Held(s) \subseteq Held(s)'
  BY DEF Moves, Held
<1> QED
  BY <1>1 DEF Moves, IInv, NoRequestDropped, Held, schedVars, mainVars,
              S!TooDeep

\* What a call of the scheduler does to the places of its callers.
LEMMA CallInv ==
    ASSUME IInv, NEW a \in Actors, NEW r \in Requests, Proceeds(a, r) \/ Returns(a, r)
    PROVE  /\ \A b \in Actors \ {a} : step'[b] = step[b] /\ arg'[b] = arg[b]
           /\ seen \subseteq seen'
           /\ \A b \in Actors : step'[b] = "push" => arg'[b].url \in seen'
           /\ Proceeds(a, r) => step'[a] # "idle" /\ arg'[a] = r
           /\ Returns(a, r) => step'[a] = "idle" /\ (S!TooDeep(r) \/ r.url \in seen')
<1>1. /\ step \in [Actors -> {"idle", "mark", "push", "wipe"}]
      /\ arg \in [Actors -> Requests \cup {NoRequest}]
  BY DEF IInv, TypeOK, S!TypeOK, S!Callers, Actors
<1>2. \A b \in Actors : step[b] = "push" => arg[b].url \in seen
  BY DEF IInv, CallsInPlace
<1>3. CASE S!HasSeen(a, r)
  BY <1>1, <1>2, <1>3 DEF S!HasSeen, Returns, S!Push
<1>4. CASE arg[a] = r /\ S!MarkSeen(a)
  BY <1>1, <1>2, <1>4 DEF S!MarkSeen, Returns, S!Push
<1>5. CASE step[a] = "idle" /\ (r.url \in seen \/ S!TooDeep(r)) /\ UNCHANGED schedVars
  BY <1>1, <1>2, <1>5 DEF schedVars, Proceeds, S!HasSeen, S!MarkSeen
<1>6. CASE arg[a] = r /\ S!Push(a)
  BY <1>1, <1>2, <1>6 DEF S!Push, Proceeds, S!HasSeen, S!MarkSeen
<1> QED
  BY <1>3, <1>4, <1>5, <1>6 DEF Proceeds, Returns

\* The steps of a spawned task preserve the invariant.
LEMMA TaskInv ==
    ASSUME IInv, S!TypeOK', NEW t \in Tasks, TaskStep(t)
    PROVE  IInv'
<1> USE DEF IInv
<1>0. step[t] # "idle" => pc[t] \in {"links", "retry"} /\ arg[t] \in out[t]
  BY DEF CallsInPlace
<1>1. pc[t] \in TaskStates /\ (pc[t] # "free" => req[t] \in Requests /\ req[t].url \in Urls)
  BY EngineAssumption DEF S!SchedulerConstants, TypeOK, PlacesMatchData
<1>2. CASE TaskParks(t)
  <2>1. Moves(t)
    BY <1>0, <1>1, <1>2 DEF TypeOK, TaskParks, Checkpoints, Moves
  <2>2. TypeOK'
    BY <1>1, <1>2 DEF TypeOK, TaskParks, Checkpoints, TaskStates, schedVars,
                      mainVars, itemVars, controlVars
  <2>3. NoRequestDropped'
    <3>1. Held(t) \subseteq Held(t)'
      BY <1>1, <1>2 DEF TypeOK, TaskParks, Checkpoints, Held
    <3> QED
      BY <1>2, <2>1, <3>1, HeldInv DEF TaskParks
  <2>4. req'[t] \in Requests /\ (pc'[t] = "sending" => left'[t] > 0)
    BY <1>1, <1>2 DEF TypeOK, PlacesMatchData, TaskParks, Checkpoints
  <2> QED
    BY <2>1, <2>2, <2>3, <2>4, MovesInv
<1>3. CASE AddToSlot(t)
  <2>1. Moves(t)
    BY <1>0, <1>1, <1>3 DEF TypeOK, AddToSlot, TaskGoes, Moves
  <2>2. TypeOK'
    <3>1. \A q \in Seq(Requests) : Append(q, req[t]) \in Seq(Requests)
      BY <1>1, <1>3 DEF AddToSlot, TaskGoes
    <3>2. slots' \in [Domains -> Seq(Requests)]
      BY <1>3, <3>1 DEF TypeOK, AddToSlot
    <3> QED
      BY <1>1, <1>3, <3>2 DEF TypeOK, AddToSlot, TaskGoes, TaskStates,
                              schedVars, mainVars, itemVars, controlVars
  <2>3. NoRequestDropped'
    <3>1. Held(t) \subseteq Held(t)'
      BY <1>1, <1>3 DEF TypeOK, AddToSlot, TaskGoes, Held
    <3> QED
      BY <1>3, <2>1, <3>1, HeldInv DEF AddToSlot
  <2>4. req'[t] \in Requests /\ (pc'[t] = "sending" => left'[t] > 0)
    BY <1>1, <1>3 DEF TypeOK, PlacesMatchData, AddToSlot, TaskGoes
  <2> QED
    BY <2>1, <2>2, <2>3, <2>4, MovesInv
<1>4. CASE TakeFromSlot(t)
  <2> DEFINE q == slots[DomainOf[req[t].url]]
  <2>1. Moves(t)
    BY <1>0, <1>1, <1>4 DEF TypeOK, TakeFromSlot, TaskGoes, Moves
  <2>2. q # <<>> => Head(q) \in Requests /\ Tail(q) \in Seq(Requests)
    <3>1. DomainOf[req[t].url] \in Domains
      BY <1>1, <1>4, EngineAssumption DEF TakeFromSlot
    <3>2. q \in Seq(Requests)
      BY <3>1 DEF TypeOK
    <3> HIDE DEF q
    <3> QED
      BY <3>2
  <2>3. req'[t] \in Requests /\ req' \in [Tasks -> Requests \cup {NoRequest}]
    BY <1>1, <1>4, <2>2 DEF TypeOK, TakeFromSlot, TaskGoes
  <2>4. TypeOK'
    <3>1. slots' \in [Domains -> Seq(Requests)]
      BY <1>4, <2>2 DEF TypeOK, TakeFromSlot, TaskGoes
    <3> QED
      BY <1>4, <2>3, <3>1 DEF TypeOK, TakeFromSlot, TaskGoes, TaskStates,
                              schedVars, mainVars, itemVars, controlVars
  <2>5. NoRequestDropped'
    <3>1. Held(t) \subseteq Held(t)'
      BY <1>1, <1>4 DEF TypeOK, TakeFromSlot, TaskGoes, Held
    <3> QED
      BY <1>4, <2>1, <3>1, HeldInv DEF TakeFromSlot
  <2>6. pc'[t] # "sending"
    BY <1>4 DEF TypeOK, TakeFromSlot, TaskGoes
  <2> QED
    BY <2>1, <2>3, <2>4, <2>5, <2>6, MovesInv
<1>5. CASE Download(t)
  <2>1. Moves(t)
    BY <1>0, <1>1, <1>5 DEF TypeOK, Download, TaskGoes, Moves
  <2>2. TypeOK'
    BY <1>1, <1>5 DEF TypeOK, Download, TaskGoes, TaskStates, schedVars,
                      mainVars, itemVars, controlVars
  <2>3. NoRequestDropped'
    <3>1. Held(t) \subseteq Held(t)'
      BY <1>1, <1>5 DEF TypeOK, Download, TaskGoes, Held
    <3> QED
      BY <1>5, <2>1, <3>1, HeldInv DEF Download
  <2>4. req'[t] \in Requests /\ (pc'[t] = "sending" => left'[t] > 0)
    BY <1>1, <1>5 DEF TypeOK, PlacesMatchData, Download, TaskGoes
  <2> QED
    BY <2>1, <2>2, <2>3, <2>4, MovesInv
<1>6. CASE DownloadFails(t)
  <2>1. Moves(t)
    BY <1>0, <1>1, <1>6 DEF TypeOK, DownloadFails, Handle, Error, Moves
  <2>2. TypeOK'
    <3>1. stats' \in Counters
      BY <1>6, CountersCount DEF TypeOK, DownloadFails, Error
    <3>2. pc' \in [Tasks -> TaskStates] /\ out' \in [Tasks -> SUBSET Requests]
      BY <1>1, <1>6, <2>1, HandleTypes DEF DownloadFails, Moves
    <3> QED
      BY <1>6, <3>1, <3>2 DEF TypeOK, DownloadFails, schedVars, mainVars,
                              itemVars, controlVars
  <2>3. NoRequestDropped'
    <3>1. Held(t) \subseteq Held(t)'
      BY <1>1, <1>6 DEF TypeOK, DownloadFails, Handle, Error, Held
    <3> QED
      BY <1>6, <2>1, <3>1, HeldInv DEF DownloadFails
  <2>4. req'[t] \in Requests /\ (pc'[t] = "sending" => left'[t] > 0)
    BY <1>1, <1>6 DEF TypeOK, PlacesMatchData, DownloadFails, Handle, Error
  <2> QED
    BY <2>1, <2>2, <2>3, <2>4, MovesInv
<1>7. CASE AcceptResponse(t)
  <2>1. Moves(t)
    BY <1>0, <1>1, <1>7 DEF TypeOK, AcceptResponse, TaskGoes, Moves
  <2>2. TypeOK'
    <3>1. stats' \in Counters
      BY <1>7, CountersCount DEF TypeOK, AcceptResponse, TaskGoes
    <3> QED
      BY <1>1, <1>7, <3>1 DEF TypeOK, AcceptResponse, TaskGoes, TaskStates,
                              schedVars, mainVars, itemVars, controlVars
  <2>3. NoRequestDropped'
    <3>1. Held(t) \subseteq Held(t)'
      BY <1>1, <1>7 DEF TypeOK, AcceptResponse, TaskGoes, Held
    <3> QED
      BY <1>7, <2>1, <3>1, HeldInv DEF AcceptResponse
  <2>4. req'[t] \in Requests /\ (pc'[t] = "sending" => left'[t] > 0)
    BY <1>1, <1>7 DEF TypeOK, PlacesMatchData, AcceptResponse, TaskGoes
  <2> QED
    BY <2>1, <2>2, <2>3, <2>4, MovesInv
<1>8. CASE RejectResponse(t)
  <2>1. Moves(t)
    BY <1>0, <1>1, <1>8 DEF TypeOK, RejectResponse, Handle, Moves
  <2>2. TypeOK'
    <3>1. stats' \in Counters
      <4>1. stats.response + 1 \in Nat /\ stats.error + 1 \in Nat
        BY DEF TypeOK, Counters
      <4> QED
        BY <1>8, <4>1, TwoCountersCount DEF TypeOK, RejectResponse
    <3>2. pc' \in [Tasks -> TaskStates] /\ out' \in [Tasks -> SUBSET Requests]
      BY <1>1, <1>8, <2>1, HandleTypes DEF RejectResponse, Moves
    <3> QED
      BY <1>8, <3>1, <3>2 DEF TypeOK, RejectResponse, schedVars, mainVars,
                              itemVars, controlVars
  <2>3. NoRequestDropped'
    <3>1. Held(t) \subseteq Held(t)'
      BY <1>1, <1>8 DEF TypeOK, RejectResponse, Handle, Held
    <3> QED
      BY <1>8, <2>1, <3>1, HeldInv DEF RejectResponse
  <2>4. req'[t] \in Requests /\ (pc'[t] = "sending" => left'[t] > 0)
    BY <1>1, <1>8 DEF TypeOK, PlacesMatchData, RejectResponse, Handle
  <2> QED
    BY <2>1, <2>2, <2>3, <2>4, MovesInv
<1>9. CASE RetryByMeta(t)
  <2>1. Moves(t)
    BY <1>0, <1>1, <1>9 DEF TypeOK, RetryByMeta, TaskGoes, Moves
  <2>2. TypeOK'
    BY <1>1, <1>9 DEF TypeOK, RetryByMeta, TaskGoes, TaskStates, schedVars,
                      mainVars, itemVars, controlVars
  <2>3. NoRequestDropped'
    <3>1. Held(t) \subseteq Held(t)'
      BY <1>1, <1>9 DEF TypeOK, RetryByMeta, TaskGoes, Held
    <3> QED
      BY <1>9, <2>1, <3>1, HeldInv DEF RetryByMeta
  <2>4. req'[t] \in Requests /\ (pc'[t] = "sending" => left'[t] > 0)
    BY <1>1, <1>9 DEF TypeOK, PlacesMatchData, RetryByMeta, TaskGoes
  <2> QED
    BY <2>1, <2>2, <2>3, <2>4, MovesInv
<1>10. CASE Parse(t)
  <2>1. Moves(t)
    BY <1>0, <1>1, <1>10 DEF TypeOK, Parse, TaskGoes, Moves
  <2>2. TypeOK'
    <3>1. Links[req[t].url] \subseteq Requests /\ Items[req[t].url] \in Nat
      BY <1>1, <1>10, EngineAssumption DEF Parse, TaskGoes
    <3> QED
      BY <1>1, <1>10, <3>1 DEF TypeOK, Parse, TaskGoes, TaskStates, schedVars,
                               mainVars, itemVars, controlVars
  <2>3. NoRequestDropped'
    <3>1. \A s \in Tasks : Held(s) \subseteq Held(s)'
      BY <1>10, <2>1 DEF Parse, TaskGoes, Moves, Held
    <3>2. Held(t)' = Links[req[t].url] /\ parsed' = parsed \cup {req[t].url}
      BY <1>1, <1>10 DEF TypeOK, Parse, TaskGoes, Held
    <3> QED
      BY <2>1, <3>1, <3>2 DEF Moves, NoRequestDropped, Held, schedVars,
                              mainVars, S!TooDeep
  <2>4. req'[t] \in Requests /\ (pc'[t] = "sending" => left'[t] > 0)
    BY <1>1, <1>10 DEF TypeOK, PlacesMatchData, Parse, TaskGoes
  <2> QED
    BY <2>1, <2>2, <2>3, <2>4, MovesInv
<1>11. CASE ParseFails(t)
  <2>1. Moves(t)
    BY <1>0, <1>1, <1>11 DEF TypeOK, ParseFails, Handle, Error, Moves
  <2>2. TypeOK'
    <3>1. stats' \in Counters
      BY <1>11, CountersCount DEF TypeOK, ParseFails, Error
    <3>2. pc' \in [Tasks -> TaskStates] /\ out' \in [Tasks -> SUBSET Requests]
      BY <1>1, <1>11, <2>1, HandleTypes DEF ParseFails, Moves
    <3> QED
      BY <1>11, <3>1, <3>2 DEF TypeOK, ParseFails, schedVars, mainVars,
                               itemVars, controlVars
  <2>3. NoRequestDropped'
    <3>1. Held(t) \subseteq Held(t)'
      BY <1>1, <1>11 DEF TypeOK, ParseFails, Handle, Error, Held
    <3> QED
      BY <1>11, <2>1, <3>1, HeldInv DEF ParseFails
  <2>4. req'[t] \in Requests /\ (pc'[t] = "sending" => left'[t] > 0)
    BY <1>1, <1>11 DEF TypeOK, PlacesMatchData, ParseFails, Handle, Error
  <2> QED
    BY <2>1, <2>2, <2>3, <2>4, MovesInv
<1>12. CASE FollowLinks(t)
  <2>1. Moves(t)
    BY <1>0, <1>1, <1>12 DEF TypeOK, FollowLinks, TaskGoes, Moves
  <2>2. TypeOK'
    BY <1>1, <1>12 DEF TypeOK, FollowLinks, TaskGoes, TaskStates, schedVars,
                       mainVars, itemVars, controlVars
  <2>3. NoRequestDropped'
    <3>1. Held(t) \subseteq Held(t)'
      BY <1>1, <1>12 DEF TypeOK, FollowLinks, TaskGoes, Held
    <3> QED
      BY <1>12, <2>1, <3>1, HeldInv DEF FollowLinks
  <2>4. req'[t] \in Requests /\ (pc'[t] = "sending" => left'[t] > 0)
    BY <1>1, <1>12 DEF TypeOK, PlacesMatchData, FollowLinks, TaskGoes
  <2> QED
    BY <2>1, <2>2, <2>3, <2>4, MovesInv
<1>13. CASE LinksDone(t)
  <2>1. Moves(t)
    BY <1>0, <1>1, <1>13 DEF TypeOK, LinksDone, TaskGoes, Moves
  <2>2. TypeOK'
    BY <1>1, <1>13 DEF TypeOK, LinksDone, TaskGoes, TaskStates, schedVars,
                       mainVars, itemVars, controlVars
  <2>3. NoRequestDropped'
    <3>1. Held(t) \subseteq Held(t)'
      BY <1>1, <1>13 DEF TypeOK, LinksDone, TaskGoes, Held
    <3> QED
      BY <1>13, <2>1, <3>1, HeldInv DEF LinksDone
  <2>4. req'[t] \in Requests /\ (pc'[t] = "sending" => left'[t] > 0)
    BY <1>1, <1>13 DEF TypeOK, PlacesMatchData, LinksDone, TaskGoes
  <2> QED
    BY <2>1, <2>2, <2>3, <2>4, MovesInv
<1>14. CASE StartSending(t)
  <2>1. Moves(t)
    BY <1>0, <1>1, <1>14 DEF TypeOK, StartSending, TaskGoes, Moves
  <2>2. TypeOK'
    BY <1>1, <1>14 DEF TypeOK, StartSending, TaskGoes, TaskStates, schedVars,
                       mainVars, itemVars, controlVars
  <2>3. NoRequestDropped'
    <3>1. Held(t) \subseteq Held(t)'
      BY <1>1, <1>14 DEF TypeOK, StartSending, TaskGoes, Held
    <3> QED
      BY <1>14, <2>1, <3>1, HeldInv DEF StartSending
  <2>4. req'[t] \in Requests /\ (pc'[t] = "sending" => left'[t] > 0)
    BY <1>1, <1>14 DEF TypeOK, PlacesMatchData, StartSending, TaskGoes
  <2> QED
    BY <2>1, <2>2, <2>3, <2>4, MovesInv
<1>15. CASE SendItem(t)
  <2>1. Moves(t)
    BY <1>0, <1>1, <1>15 DEF TypeOK, SendItem, TaskGoes, Moves
  <2>2. TypeOK'
    <3>1. left[t] - 1 \in Nat /\ channel + 1 \in 0 .. ConcurrentItems
      BY <1>15, EngineAssumption DEF TypeOK, PlacesMatchData, SendItem, TaskGoes
    <3> QED
      BY <1>1, <1>15, <3>1 DEF TypeOK, SendItem, TaskGoes, TaskStates,
                               schedVars, mainVars, itemVars, controlVars
  <2>3. NoRequestDropped'
    <3>1. Held(t) \subseteq Held(t)'
      BY <1>1, <1>15 DEF TypeOK, SendItem, TaskGoes, Held
    <3> QED
      BY <1>15, <2>1, <3>1, HeldInv DEF SendItem
  <2>4. req'[t] \in Requests /\ (pc'[t] = "sending" => left'[t] > 0)
    BY <1>1, <1>15 DEF TypeOK, PlacesMatchData, SendItem, TaskGoes
  <2> QED
    BY <2>1, <2>2, <2>3, <2>4, MovesInv
<1>16. ASSUME NEW r \in Requests, TaskEnqueues(t, r)
       PROVE  IInv'
  <2>1. /\ t \in Actors /\ t # Main
        /\ pc[t] \in {"links", "retry"} /\ r \in out[t] /\ Proceeds(t, r)
        /\ UNCHANGED <<mainVars, taskVars, itemVars, controlVars, stats>>
    BY <1>16, EngineAssumption DEF TaskEnqueues, Actors
  <2>2. TypeOK'
    BY <2>1 DEF TypeOK, mainVars, taskVars, itemVars, controlVars
  <2>3. ActiveTasksExact' /\ PlacesMatchData'
    BY <2>1 DEF ActiveTasksExact, Live, PlacesMatchData, mainVars, taskVars
  <2>4. CallsInPlace'
    BY <2>1, CallInv DEF CallsInPlace, Offered, Actors, mainVars, taskVars
  <2>5. NoRequestDropped'
    BY <2>1, CallInv DEF NoRequestDropped, S!TooDeep, mainVars, taskVars
  <2>6. QuietAfterLoop'
    BY <2>1 DEF QuietAfterLoop, Live, mainVars, taskVars
  <2> QED
    BY <2>2, <2>3, <2>4, <2>5, <2>6
<1>17. ASSUME NEW r \in Requests, TaskEnqueued(t, r)
       PROVE  IInv'
  <2>1. /\ t \in Actors /\ t # Main
        /\ pc[t] \in {"links", "retry"} /\ r \in out[t] /\ Returns(t, r)
        /\ UNCHANGED <<req, left, slots, parsed, mainVars, itemVars, controlVars, stats>>
    BY <1>17, EngineAssumption DEF TaskEnqueued, Actors
  <2>2. /\ pc' \in [Tasks -> TaskStates] /\ out' \in [Tasks -> SUBSET Requests]
        /\ \A s \in Tasks \ {t} : pc'[s] = pc[s] /\ out'[s] = out[s]
        /\ out'[t] = out[t] \ {r}
        /\ pc'[t] = IF pc[t] = "retry" THEN "done" ELSE "links"
    BY <1>17, <2>1 DEF TypeOK, TaskStates, TaskEnqueued
  <2>3. TypeOK'
    BY <2>1, <2>2 DEF TypeOK, mainVars, itemVars, controlVars
  <2>4. Live' = Live
    BY <2>1, <2>2 DEF Live
  <2>5. ActiveTasksExact'
    BY <2>1, <2>4 DEF ActiveTasksExact, mainVars
  <2>6. PlacesMatchData'
    BY <2>1, <2>2 DEF PlacesMatchData, mainVars
  <2>7. CallsInPlace'
    BY <2>1, <2>2, CallInv DEF CallsInPlace, Offered, Actors, mainVars
  <2>8. NoRequestDropped'
    <3>1. seen \subseteq seen' /\ (S!TooDeep(r) \/ r.url \in seen')
      BY <2>1, CallInv
    <3>2. \A s \in Tasks : Held(s) \ {r} \subseteq Held(s)'
      BY <2>1, <2>2 DEF Held
    <3> QED
      BY <2>1, <3>1, <3>2 DEF NoRequestDropped, Held, S!TooDeep, mainVars
  <2>9. QuietAfterLoop'
    BY <2>1, <2>4 DEF QuietAfterLoop, Live, mainVars
  <2> QED
    BY <2>3, <2>5, <2>6, <2>7, <2>8, <2>9
<1> QED
  BY <1>2, <1>3, <1>4, <1>5, <1>6, <1>7, <1>8, <1>9, <1>10, <1>11, <1>12, <1>13,
     <1>14, <1>15, <1>16, <1>17 DEF TaskStep

\* Moving on in run() preserves the invariant, out of the loop only when nothing
\* is left to do.
LEMMA GoesInv ==
    ASSUME IInv, S!TypeOK', NEW from,
           NEW to \in {"loop", "fill", "wait", "reap", "items", "close", "parked"},
           MainGoes(from, to), from \notin {"seed", "reseed", "refill", "failed"},
           to \in {"reap", "items", "close"} /\ ~aborted => queue = <<>> /\ Live = {}
    PROVE  IInv'
<1> USE DEF IInv
<1>1. TypeOK'
  BY DEF TypeOK, MainGoes, MainStates, schedVars, taskVars, itemVars,
         controlVars
<1>2. ActiveTasksExact' /\ QuietAfterLoop'
  BY DEF ActiveTasksExact, QuietAfterLoop, Live, MainGoes, schedVars, taskVars
<1>3. CallsInPlace'
  BY DEF CallsInPlace, Offered, MainGoes, schedVars, taskVars
<1>4. PlacesMatchData' /\ NoRequestDropped'
  BY DEF PlacesMatchData, NoRequestDropped, S!TooDeep, MainGoes, schedVars,
         taskVars
<1> QED
  BY <1>1, <1>2, <1>3, <1>4
\* FuturesUnordered is finite; a task enters it from "free" and leaves it so.
LEMMA LiveCounts ==
    /\ Live \subseteq Tasks /\ IsFiniteSet(Live)
    /\ \A t \in Tasks :
          /\ t \notin Live => Cardinality(Live \cup {t}) = Cardinality(Live) + 1
          /\ t \in Live => /\ Cardinality(Live \ {t}) = Cardinality(Live) - 1
                           /\ Cardinality(Live) \in Nat \ {0}
<1>1. Live \subseteq Tasks /\ IsFiniteSet(Live)
  BY EngineAssumption, FS_Subset DEF Live
<1>2. \A t \in Live : Cardinality(Live) # 0
  BY <1>1, FS_EmptySet
<1> QED
  BY <1>1, <1>2, FS_AddElement, FS_RemoveElement, FS_CardinalityType

\* Reaping a finished task preserves it.
LEMMA ReapsInv ==
    ASSUME IInv, S!TypeOK', NEW t \in Tasks, NEW to, Reaps(t, to),
           \/ main = "wait" /\ to = "loop"
           \/ main = "reap" /\ to = "reap"
    PROVE  IInv'
<1> USE DEF IInv
<1>1. /\ pc[t] = "done" /\ t \in Live /\ Live' = Live \ {t}
      /\ pc' \in [Tasks -> TaskStates] /\ req' \in [Tasks -> Requests \cup {NoRequest}]
      /\ \A s \in Tasks \ {t} : pc'[s] = pc[s] /\ req'[s] = req[s]
      /\ pc'[t] = "free"
  BY DEF Reaps, Live, TypeOK, TaskStates
<1>2. ActiveTasksExact' /\ active' \in Nat
  <2>1. Cardinality(Live') = Cardinality(Live) - 1 /\ Cardinality(Live) \in Nat \ {0}
    BY <1>1, LiveCounts
  <2>2. active' = active - 1 /\ ConcurrentRequests \in Int
    BY EngineAssumption DEF Reaps
  <2> QED
    BY <2>1, <2>2 DEF ActiveTasksExact
<1>3. TypeOK'
  BY <1>1, <1>2 DEF Reaps, TypeOK, MainStates, schedVars, itemVars, controlVars
<1>4. CallsInPlace'
  BY <1>1 DEF Reaps, CallsInPlace, Offered, schedVars
<1>5. PlacesMatchData'
  BY <1>1 DEF Reaps, PlacesMatchData
<1>6. NoRequestDropped'
  BY <1>1 DEF Reaps, NoRequestDropped, S!TooDeep, schedVars
<1>7. QuietAfterLoop'
  BY <1>1 DEF Reaps, QuietAfterLoop, schedVars
<1> QED
  BY <1>2, <1>3, <1>4, <1>5, <1>6, <1>7

\* The steps of run() preserve it.
LEMMA MainInv ==
    ASSUME IInv, S!TypeOK, S!TypeOK', MainStep
    PROVE  IInv'
<1> USE DEF IInv
<1>1. ASSUME NEW r \in Requests, MainEnqueues(r)
      PROVE  IInv'
  <2>1. /\ Main \in Actors /\ Main \notin Tasks
        /\ Offered(r) /\ Proceeds(Main, r)
        /\ UNCHANGED <<mainVars, taskVars, itemVars, controlVars, stats>>
    BY <1>1, EngineAssumption DEF MainEnqueues, Actors
  <2>2. TypeOK'
    BY <2>1 DEF TypeOK, mainVars, taskVars, itemVars, controlVars
  <2>3. ActiveTasksExact' /\ PlacesMatchData'
    BY <2>1 DEF ActiveTasksExact, Live, PlacesMatchData, mainVars, taskVars
  <2>4. CallsInPlace'
    BY <2>1, CallInv DEF CallsInPlace, Offered, Actors, mainVars, taskVars
  <2>5. NoRequestDropped'
    BY <2>1, CallInv DEF NoRequestDropped, S!TooDeep, mainVars, taskVars
  <2>6. QuietAfterLoop'
    BY <2>1 DEF QuietAfterLoop, Offered, mainVars
  <2> QED
    BY <2>2, <2>3, <2>4, <2>5, <2>6
<1>2. ASSUME NEW r \in Requests, MainEnqueued(r)
      PROVE  IInv'
  <2>1. /\ Main \in Actors /\ Main \notin Tasks
        /\ Offered(r) /\ Returns(Main, r)
        /\ seeds' = seeds \ {r} /\ current' = NoRequest
        /\ main' = IF main = "refill" THEN "fill" ELSE "seed"
        /\ UNCHANGED <<active, aborted, taskVars, itemVars, controlVars, stats>>
    BY <1>2, EngineAssumption DEF MainEnqueued, Actors
  <2>2. TypeOK'
    BY <2>1 DEF TypeOK, MainStates, taskVars, itemVars, controlVars
  <2>3. ActiveTasksExact' /\ QuietAfterLoop'
    BY <2>1 DEF ActiveTasksExact, QuietAfterLoop, Live, taskVars
  <2>4. CallsInPlace'
    BY <2>1, CallInv DEF CallsInPlace, Offered, Actors, taskVars
  <2>5. PlacesMatchData'
    BY <2>1 DEF PlacesMatchData, Offered, taskVars
  <2>6. NoRequestDropped'
    BY <2>1, CallInv DEF NoRequestDropped, S!TooDeep, taskVars
  <2> QED
    BY <2>2, <2>3, <2>4, <2>5, <2>6
<1>3. ASSUME NEW r \in Requests, SeedFails(r)
      PROVE  IInv'
  <2>1. stats' \in Counters
    BY <1>3, CountersCount DEF TypeOK, SeedFails, Error
  <2>2. TypeOK'
    BY <1>3, <2>1 DEF TypeOK, SeedFails, MainStates, schedVars, taskVars,
                      itemVars, controlVars
  <2>3. ActiveTasksExact' /\ QuietAfterLoop'
    BY <1>3 DEF SeedFails, ActiveTasksExact, QuietAfterLoop, Live, taskVars
  <2>4. CallsInPlace'
    BY <1>3 DEF SeedFails, CallsInPlace, Offered, schedVars, taskVars
  <2>5. PlacesMatchData'
    BY <1>3 DEF SeedFails, PlacesMatchData, taskVars
  <2>6. NoRequestDropped'
    BY <1>3 DEF SeedFails, May, NoRequestDropped, S!TooDeep, schedVars, taskVars
  <2> QED
    BY <2>2, <2>3, <2>4, <2>5, <2>6
<1>4. CASE StartCrawl
  <2>1. TypeOK'
    BY <1>4 DEF TypeOK, StartCrawl, MainStates, schedVars, taskVars, itemVars,
                controlVars
  <2>2. ActiveTasksExact' /\ QuietAfterLoop' /\ PlacesMatchData'
    BY <1>4 DEF StartCrawl, ActiveTasksExact, QuietAfterLoop, PlacesMatchData,
                Live, taskVars
  <2>3. CallsInPlace' /\ NoRequestDropped'
    BY <1>4 DEF StartCrawl, CallsInPlace, Offered, NoRequestDropped, S!TooDeep,
                schedVars, taskVars
  <2> QED
    BY <2>1, <2>2, <2>3
<1>5. CASE TakeNext
  <2>1. PICK i \in DOMAIN queue : S!TakeAt(Main, i) /\ current' = queue[i].item
    BY <1>5 DEF TakeNext
  <2>2. current' \in Requests
    <3>1. queue[i] \in S!Entries
      BY <2>1 DEF S!TypeOK
    <3> QED
      BY <2>1, <3>1 DEF S!Entries
  <2>3. TypeOK'
    BY <1>5, <2>2 DEF TypeOK, TakeNext, MainStates, taskVars, itemVars,
                      controlVars
  <2>4. ActiveTasksExact' /\ QuietAfterLoop' /\ PlacesMatchData'
    BY <1>5, <2>2 DEF TakeNext, MayStartMore, ActiveTasksExact, QuietAfterLoop,
                      PlacesMatchData, Live, taskVars
  <2>5. CallsInPlace' /\ NoRequestDropped'
    BY <1>5, <2>1 DEF TakeNext, S!TakeAt, CallsInPlace, Offered,
                      NoRequestDropped,
                      S!TooDeep, taskVars
  <2> QED
    BY <2>3, <2>4, <2>5
<1>6. CASE RejectRequest
  <2>1. stats' \in Counters
    BY <1>6, CountersCount DEF TypeOK, RejectRequest, Error
  <2>2. TypeOK'
    BY <1>6, <2>1 DEF TypeOK, RejectRequest, MainStates, schedVars, taskVars,
                      itemVars, controlVars
  <2>3. ActiveTasksExact' /\ QuietAfterLoop' /\ PlacesMatchData'
    BY <1>6 DEF RejectRequest, ActiveTasksExact, QuietAfterLoop,
                PlacesMatchData, Live, taskVars
  <2>4. CallsInPlace' /\ NoRequestDropped'
    BY <1>6 DEF RejectRequest, CallsInPlace, Offered, NoRequestDropped,
                S!TooDeep,
                schedVars, taskVars
  <2> QED
    BY <2>2, <2>3, <2>4
<1>7. ASSUME NEW t \in Tasks, SpawnTask(t)
      PROVE  IInv'
  <2>1. /\ current \in Requests /\ active < ConcurrentRequests
        /\ t \notin Live /\ Live' = Live \cup {t}
        /\ pc' \in [Tasks -> TaskStates] /\ req' \in [Tasks -> Requests \cup {NoRequest}]
        /\ \A s \in Tasks \ {t} : pc'[s] = pc[s] /\ req'[s] = req[s]
        /\ pc'[t] = "begin" /\ pc[t] = "free" /\ req'[t] = current
    BY <1>7 DEF SpawnTask, PlacesMatchData, Live, TypeOK, TaskStates
  <2>2. ActiveTasksExact' /\ active' \in Nat
    <3>1. Cardinality(Live') = Cardinality(Live) + 1
      BY <2>1, LiveCounts
    <3>2. active' = active + 1 /\ active \in Nat /\ ConcurrentRequests \in Int
      BY <1>7, EngineAssumption DEF SpawnTask, PushTask, TypeOK
    <3> QED
      BY <2>1, <3>1, <3>2 DEF ActiveTasksExact
  <2>3. TypeOK'
    BY <1>7, <2>1, <2>2 DEF SpawnTask, TypeOK, MainStates, schedVars, itemVars,
                            controlVars
  <2>4. CallsInPlace'
    BY <1>7, <2>1 DEF SpawnTask, CallsInPlace, Offered, schedVars
  <2>5. PlacesMatchData' /\ QuietAfterLoop'
    BY <1>7, <2>1 DEF SpawnTask, PlacesMatchData, QuietAfterLoop
  <2>6. NoRequestDropped'
    BY <1>7, <2>1 DEF SpawnTask, NoRequestDropped, S!TooDeep, schedVars
  <2> QED
    BY <2>2, <2>3, <2>4, <2>5, <2>6
<1>8. \A t \in Tasks : AwaitTask(t) \/ AwaitRest(t) => IInv'
  BY ReapsInv DEF AwaitTask, AwaitRest
<1>9. EnterLoop \/ MainParks \/ StopFilling \/ ShortSleep => IInv'
  BY GoesInv DEF EnterLoop, MainParks, StopFilling, ShortSleep
<1>10. LeaveLoop \/ NothingLeft => IInv'
  BY GoesInv DEF LeaveLoop, MoreToDo, NothingLeft, SchedulerEmpty
<1>11. CloseChannel \/ AwaitItems => IInv'
  BY GoesInv DEF CloseChannel, AwaitItems, MainGoes, QuietAfterLoop
<1>12. CASE CloseEngine
  <2>1. TypeOK'
    BY <1>12 DEF TypeOK, CloseEngine, MainStates, schedVars, taskVars, itemVars
  <2>2. ActiveTasksExact' /\ QuietAfterLoop' /\ PlacesMatchData'
    BY <1>12 DEF CloseEngine, ActiveTasksExact, QuietAfterLoop, PlacesMatchData,
                 Live,
                 schedVars, taskVars
  <2>3. CallsInPlace' /\ NoRequestDropped'
    BY <1>12 DEF CloseEngine, CallsInPlace, Offered, NoRequestDropped,
                 S!TooDeep,
                 schedVars, taskVars
  <2> QED
    BY <2>1, <2>2, <2>3
<1>13. CASE CountRequest
  <2>1. stats' \in Counters
    BY <1>13, CountersCount DEF TypeOK, CountRequest
  <2>2. TypeOK'
    BY <1>13, <2>1 DEF TypeOK, CountRequest, MainStates, schedVars, taskVars,
                       itemVars, controlVars
  <2>3. ActiveTasksExact' /\ QuietAfterLoop' /\ PlacesMatchData'
    BY <1>13 DEF CountRequest, ActiveTasksExact, QuietAfterLoop,
                 PlacesMatchData, Live, schedVars, taskVars
  <2>4. CallsInPlace' /\ NoRequestDropped'
    BY <1>13 DEF CountRequest, CallsInPlace, Offered, NoRequestDropped,
                 S!TooDeep, schedVars, taskVars
  <2> QED
    BY <2>2, <2>3, <2>4
<1> QED
  BY <1>1, <1>2, <1>3, <1>4, <1>5, <1>6, <1>7, <1>8, <1>9, <1>10, <1>11, <1>12,
     <1>13 DEF MainStep
\* The item processor and the signals touch nothing the other parts speak of.
LEMMA AsideInv ==
    ASSUME IInv, TypeOK', UNCHANGED <<schedVars, mainVars, taskVars>>
    PROVE  IInv'
  BY DEF IInv, ActiveTasksExact, CallsInPlace, Offered, PlacesMatchData,
         NoRequestDropped,
         QuietAfterLoop, Live, S!TooDeep, schedVars, mainVars, taskVars

\* The steps of the item processor preserve it.
LEMMA ItemInv ==
    ASSUME IInv, S!TypeOK', ItemStep
    PROVE  IInv'
<1> USE DEF IInv
<1>1. stats' \in Counters
  BY CountersCount DEF TypeOK, ItemStep, ReceiveItem, ProcessItem, ItemParks,
                       EndItems, Error
<1>2. channel' \in 0 .. ConcurrentItems
  BY EngineAssumption DEF TypeOK, ItemStep, ReceiveItem, ProcessItem, ItemParks,
                          EndItems
<1>3. TypeOK'
  BY <1>1, <1>2 DEF TypeOK, ItemStep, ReceiveItem, ProcessItem, ItemParks,
                    EndItems,
                    schedVars, mainVars, taskVars, controlVars
<1> QED
  BY <1>3, AsideInv DEF ItemStep, ReceiveItem, ProcessItem, ItemParks, EndItems

\* A signal, and the setting of the flag it leads to, preserve it.
LEMMA SignalInv ==
    ASSUME IInv, S!TypeOK', NEW b \in BOOLEAN, SendSignal(b) \/ SetRunning(b)
    PROVE  IInv'
<1> USE DEF IInv
<1>1. sent' \in 0 .. MaxSignals
  BY EngineAssumption DEF TypeOK, SendSignal, SetRunning
<1>2. setters' \in [BOOLEAN -> Nat] /\ running' \in BOOLEAN
  BY DEF TypeOK, SendSignal, SetRunning
<1>3. TypeOK'
  BY <1>1, <1>2 DEF TypeOK, SendSignal, SetRunning, schedVars, mainVars,
                    taskVars, itemVars
<1> QED
  BY <1>3, AsideInv DEF SendSignal, SetRunning

\* Every step of the engine preserves the invariant.
LEMMA EngineStep == IInv /\ S!TypeOK' /\ [Next]_vars => IInv'
<1> SUFFICES ASSUME IInv, S!TypeOK', [Next]_vars
             PROVE  IInv'
  OBVIOUS
<1>1. CASE UNCHANGED vars
  <2>1. TypeOK'
    BY <1>1 DEF IInv, TypeOK, vars, schedVars, mainVars, taskVars, itemVars,
                controlVars
  <2> QED
    BY <1>1, <2>1, AsideInv DEF vars
<1>2. S!TypeOK
  BY DEF IInv, TypeOK
<1> QED
  BY <1>1, <1>2, MainInv, TaskInv, ItemInv, SignalInv DEF Next, Over

\* The inductive invariant holds in every reachable state of the engine.
THEOREM EngineInvariance == Spec => []IInv
  BY EngineInit, EngineStep, SchedulerInvariant, PTL DEF Spec

\* In every reachable state of the engine the variables have their types: run()
\* and the tasks only hold requests that exist, and no counter goes below zero.
THEOREM TypeCorrect == Spec => []TypeOK
<1>1. IInv => TypeOK
  BY DEF IInv
<1> QED
  BY <1>1, EngineInvariance, PTL

\* Whatever the site, the limits, the errors and the signals, active_tasks is the
\* number of spawned tasks not yet reaped and never exceeds concurrent_requests.
THEOREM CountsItsTasks == Spec => []ActiveTasksExact
<1>1. IInv => ActiveTasksExact
  BY DEF IInv
<1> QED
  BY <1>1, EngineInvariance, PTL

\* A crawl that ends without an abort is complete: every URL marked as seen was
\* handed out, and so was, unless too deep, every link of every parsed page. It
\* follows from what run() tests before it leaves its loop and from NoUrlLost.
THEOREM CrawlIsComplete == Spec => []CrawlComplete
<1>1. IInv /\ S!NoUrlLost => CrawlComplete
  <2> SUFFICES ASSUME IInv, S!NoUrlLost, main = "closed", ~aborted
               PROVE  CrawlComplete
    BY DEF CrawlComplete
  <2>1. queue = <<>> /\ \A t \in Tasks : pc[t] = "free"
    BY DEF IInv, QuietAfterLoop, Live
  <2>2. \A a \in Actors : step[a] = "idle"
    BY <2>1 DEF IInv, CallsInPlace, Offered, Actors
  <2>3. lock = NoCaller
    BY DEF IInv, TypeOK, S!TypeOK
  <2>4. S!QueuedUrls = {} /\ S!InFlightUrls = {}
    BY <2>1, <2>2 DEF S!QueuedUrls, S!InFlightUrls
  <2>5. \A u \in seen : handed[u] > 0
    BY <2>3, <2>4 DEF S!NoUrlLost
  <2>6. \A u \in parsed : \A r \in Links[u] : S!TooDeep(r) \/ r.url \in seen
    BY <2>1 DEF IInv, NoRequestDropped
  <2>7. "start" \notin Faults => \A r \in StartRequests : S!TooDeep(r) \/ r.url \in seen
    BY DEF IInv, NoRequestDropped, PlacesMatchData
  <2> QED
    BY <2>5, <2>6, <2>7 DEF CrawlComplete
<1> QED
  BY <1>1, EngineInvariance, SchedulerInvariant, PTL
=============================================================================
