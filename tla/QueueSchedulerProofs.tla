------------------------ MODULE QueueSchedulerProofs ------------------------
(***************************************************************************)
(* Proofs about QueueScheduler for any callers, requests, discipline and   *)
(* depth limit.                                                            *)
(***************************************************************************)
EXTENDS QueueScheduler, TLAPS

\* Filing a request keeps what is queued, entries and items, and has its URL.
LEMMA FileEntries ==
    ASSUME NEW q \in Seq(Entries), NEW r \in Requests
    PROVE  /\ File(q, r) \in Seq(Entries)
           /\ Len(q) <= Len(File(q, r))
           /\ \A i \in 1 .. Len(q) : File(q, r)[i].item = q[i].item
           /\ \E i \in 1 .. Len(File(q, r)) : File(q, r)[i].item.url = r.url
<1> DEFINE twins == {i \in DOMAIN q : SameRequest(q[i].item, r)}
           merged == [i \in DOMAIN q |->
                        IF i \in twins THEN [q[i] EXCEPT !.rank = r.priority] ELSE q[i]]
           e == [item |-> r, rank |-> r.priority]
<1>1. r.priority \in Int /\ r.url \in Urls
  BY SchedulerAssumption DEF SchedulerConstants
<1>2. e \in Entries
  BY <1>1 DEF Entries
<1>3. CASE Discipline = "priority" /\ twins # {}
  <2>1. File(q, r) = merged
    BY <1>3 DEF File
  <2>2. \A i \in 1 .. Len(q) : q[i] \in Entries
    OBVIOUS
  <2>3. \A i \in 1 .. Len(q) : merged[i] \in Entries /\ merged[i].item = q[i].item
    BY <1>1, <2>2 DEF Entries
  <2>4. merged \in Seq(Entries) /\ Len(merged) = Len(q)
    <3>1. DOMAIN merged = 1 .. Len(q) /\ merged = [i \in 1 .. Len(q) |-> merged[i]]
      OBVIOUS
    <3> HIDE DEF merged
    <3>2. merged \in [1 .. Len(q) -> Entries]
      BY <2>3, <3>1
    <3> QED
      BY <3>2
  <2>5. PICK k \in 1 .. Len(q) : SameRequest(q[k].item, r)
    BY <1>3
  <2>6. merged[k].item.url = r.url
    BY <2>3, <2>5 DEF SameRequest
  <2> QED
    BY <2>1, <2>3, <2>4, <2>5, <2>6
<1>4. CASE ~(Discipline = "priority" /\ twins # {})
  <2>1. File(q, r) = Append(q, e)
    BY <1>4 DEF File
  <2> QED
    BY <2>1, <1>2
<1> QED
  BY <1>3, <1>4

\* Removing position i loses no other entry.
LEMMA WithoutEntries ==
    ASSUME NEW q \in Seq(Entries), NEW i \in 1 .. Len(q)
    PROVE  /\ Without(q, i) \in Seq(Entries)
           /\ \A j \in 1 .. Len(q) : j # i =>
                \E k \in 1 .. Len(Without(q, i)) : Without(q, i)[k] = q[j]
<1> DEFINE w == [j \in 1 .. (Len(q) - 1) |-> IF j < i THEN q[j] ELSE q[j + 1]]
<1>1. Without(q, i) = w
  BY DEF Without
<1>2. w \in Seq(Entries) /\ Len(w) = Len(q) - 1
  OBVIOUS
<1>3. ASSUME NEW j \in 1 .. Len(q), j # i
      PROVE  \E k \in 1 .. Len(w) : w[k] = q[j]
  <2>1. CASE j < i
    BY <2>1, <1>2
  <2>2. CASE j > i
    <3>1. j - 1 \in 1 .. (Len(q) - 1) /\ w[j - 1] = q[j]
      BY <2>2
    <3> QED
      BY <3>1, <1>2
  <2> HIDE DEF w
  <2> QED
    BY <1>3, <2>1, <2>2
<1> HIDE DEF w
<1> QED
  BY <1>1, <1>2, <1>3

-----------------------------------------------------------------------------
(* The inductive invariant. *)

\* The invariant holds in the empty scheduler.
LEMMA InitInv == Init => IInv
  BY SchedulerAssumption
     DEF SchedulerConstants, Init, IInv, TypeOK, CallsWellFormed, NoUrlLost, Callers

\* Deciding to accept a request changes nothing others rely on.
LEMMA HasSeenInv ==
    ASSUME IInv, NEW c \in Enqueuers, NEW r \in Requests, HasSeen(c, r)
    PROVE  IInv'
<1> USE DEF IInv
<1>1. c \in Callers
  BY DEF Callers
<1>2. TypeOK'
  BY <1>1 DEF TypeOK, HasSeen
<1>3. CallsWellFormed'
  BY <1>1 DEF TypeOK, CallsWellFormed, HasSeen
<1>4. QueuedUrls' = QueuedUrls
  BY DEF HasSeen, QueuedUrls
<1>5. InFlightUrls \subseteq InFlightUrls'
  BY <1>1 DEF TypeOK, HasSeen, InFlightUrls, Callers
<1>6. NoUrlLost'
  BY <1>4, <1>5 DEF NoUrlLost, HasSeen
<1> QED
  BY <1>2, <1>3, <1>6

\* A URL that becomes marked is in flight from then on.
LEMMA MarkSeenInv ==
    ASSUME IInv, NEW c \in Enqueuers, MarkSeen(c)
    PROVE  IInv'
<1> USE DEF IInv
<1>1. c \in Callers
  BY DEF Callers
<1>2. arg[c] \in Requests /\ arg[c].url \in Urls
  BY <1>1, SchedulerAssumption DEF SchedulerConstants, CallsWellFormed, MarkSeen
<1>3. TypeOK'
  BY <1>1, <1>2 DEF TypeOK, MarkSeen
<1>4. CallsWellFormed'
  BY <1>1, <1>2 DEF TypeOK, CallsWellFormed, MarkSeen
<1>5. QueuedUrls' = QueuedUrls
  BY DEF MarkSeen, QueuedUrls
<1>6. InFlightUrls \cup {arg[c].url} \subseteq InFlightUrls'
  BY <1>1 DEF TypeOK, MarkSeen, InFlightUrls, Callers
<1>7. NoUrlLost'
  BY <1>5, <1>6 DEF NoUrlLost, MarkSeen
<1> QED
  BY <1>3, <1>4, <1>7

\* A URL that leaves the calls enters the queue.
LEMMA PushInv ==
    ASSUME IInv, NEW c \in Enqueuers, Push(c)
    PROVE  IInv'
<1> USE DEF IInv
<1>1. c \in Callers
  BY DEF Callers
<1>2. arg[c] \in Requests /\ queue \in Seq(Entries)
  BY <1>1 DEF CallsWellFormed, Push, TypeOK
<1> DEFINE q == File(queue, arg[c])
<1>3. /\ q \in Seq(Entries)
      /\ Len(queue) <= Len(q)
      /\ \A i \in 1 .. Len(queue) : q[i].item = queue[i].item
      /\ \E i \in 1 .. Len(q) : q[i].item.url = arg[c].url
  BY <1>2, FileEntries
<1>4. queue' = q
  BY DEF Push
<1> HIDE DEF q
<1>5. TypeOK'
  BY <1>1, <1>3, <1>4 DEF TypeOK, Push
<1>6. CallsWellFormed'
  BY <1>1 DEF TypeOK, CallsWellFormed, Push
<1>7. QueuedUrls \cup {arg[c].url} \subseteq QueuedUrls'
  BY <1>2, <1>3, <1>4 DEF QueuedUrls
<1>8. InFlightUrls \subseteq InFlightUrls' \cup {arg[c].url}
  BY <1>1 DEF TypeOK, Push, InFlightUrls, Callers
<1>9. NoUrlLost'
  BY <1>7, <1>8 DEF NoUrlLost, Push
<1> QED
  BY <1>5, <1>6, <1>9

\* A URL that leaves the queue has been handed out.
LEMMA TakeInv ==
    ASSUME IInv, NEW c \in Takers, NEW i \in DOMAIN queue, TakeAt(c, i)
    PROVE  IInv'
<1> USE DEF IInv
<1>1. queue \in Seq(Entries) /\ i \in 1 .. Len(queue)
  BY DEF TypeOK
<1> DEFINE q == Without(queue, i)
           u == queue[i].item.url
<1>2. /\ q \in Seq(Entries)
      /\ \A j \in 1 .. Len(queue) : j # i => \E k \in 1 .. Len(q) : q[k] = queue[j]
  BY <1>1, WithoutEntries
<1>3. queue' = q /\ handed' = [handed EXCEPT ![u] = @ + 1]
  BY DEF TakeAt
<1>4. u \in Urls
  <2>1. queue[i] \in Entries
    BY <1>1
  <2>2. queue[i].item \in Requests
    BY <2>1 DEF Entries
  <2> QED
    BY <2>2, SchedulerAssumption DEF SchedulerConstants
<1> HIDE DEF q, u
<1>5. TypeOK'
  BY <1>2, <1>3, <1>4 DEF TypeOK, TakeAt
<1>6. CallsWellFormed'
  BY DEF CallsWellFormed, TakeAt
<1>7. QueuedUrls \subseteq QueuedUrls' \cup {u}
  BY <1>1, <1>2, <1>3 DEF QueuedUrls, u
<1>8. InFlightUrls' = InFlightUrls
  BY DEF TakeAt, InFlightUrls
<1>9. handed'[u] > 0 /\ \A v \in Urls : handed[v] > 0 => handed'[v] > 0
  BY <1>3, <1>4 DEF TypeOK
<1>10. NoUrlLost'
  BY <1>7, <1>8, <1>9 DEF NoUrlLost, TakeAt, TypeOK
<1> QED
  BY <1>5, <1>6, <1>10

\* clear() forgets the marked URLs while it holds the Mutex.
LEMMA ClearInv ==
    ASSUME IInv, NEW c \in Clearers, Clear(c)
    PROVE  IInv'
<1> USE DEF IInv
<1>1. c \in Callers /\ c # NoCaller
  BY SchedulerAssumption DEF SchedulerConstants, Callers
<1>2. CASE ClearQueue(c)
  <2>1. TypeOK'
    BY <1>1, <1>2 DEF TypeOK, ClearQueue
  <2>2. CallsWellFormed'
    BY <1>1, <1>2, SchedulerAssumption DEF SchedulerConstants, TypeOK, CallsWellFormed, ClearQueue
  <2>3. NoUrlLost'
    BY <1>1, <1>2 DEF NoUrlLost, ClearQueue
  <2> QED
    BY <2>1, <2>2, <2>3
<1>3. CASE ClearSeen(c)
  <2>1. TypeOK'
    BY <1>1, <1>3 DEF TypeOK, ClearSeen
  <2>2. CallsWellFormed'
    BY <1>1, <1>3, SchedulerAssumption DEF SchedulerConstants, TypeOK, CallsWellFormed, ClearSeen
  <2>3. NoUrlLost'
    BY <1>3 DEF NoUrlLost, ClearSeen
  <2> QED
    BY <2>1, <2>2, <2>3
<1> QED
  BY <1>2, <1>3 DEF Clear

\* Every step of the callers preserves the invariant.
LEMMA StepInv == IInv /\ [Next]_vars => IInv'
<1> SUFFICES ASSUME IInv, [Next]_vars
             PROVE  IInv'
  OBVIOUS
<1>1. ASSUME NEW c \in Enqueuers, Enqueue(c)
      PROVE  IInv'
  BY <1>1, HasSeenInv, MarkSeenInv, PushInv DEF Enqueue
<1>2. ASSUME NEW c \in Takers, TakeRequest(c)
      PROVE  IInv'
  BY <1>2, TakeInv DEF TakeRequest
<1>3. ASSUME NEW c \in Clearers, Clear(c)
      PROVE  IInv'
  BY <1>3, ClearInv
<1>4. CASE UNCHANGED vars
  BY <1>4 DEF vars, IInv, TypeOK, CallsWellFormed, NoUrlLost, QueuedUrls, InFlightUrls
<1> QED
  BY <1>1, <1>2, <1>3, <1>4 DEF Next

\* The inductive invariant holds in every reachable state of the scheduler.
THEOREM Invariance == Spec => []IInv
  BY InitInv, StepInv, PTL DEF Spec

-----------------------------------------------------------------------------
\* In every reachable state the variables have the types the code gives them:
\* only URLs in play are marked, and the queue holds requests that were offered.
THEOREM TypeCorrect == Spec => []TypeOK
<1>1. IInv => TypeOK
  BY DEF IInv
<1> QED
  BY <1>1, Invariance, PTL

\* Whatever enqueue, next and clear calls race, a URL that later offers will be
\* refused for is queued, handed out, or about to be pushed by a caller that has
\* marked it: the unlocked deduplication of the schedulers never loses a URL.
THEOREM NeverLosesAUrl == Spec => []NoUrlLost
<1>1. IInv => NoUrlLost
  BY DEF IInv
<1> QED
  BY <1>1, Invariance, PTL

-----------------------------------------------------------------------------
(* One enqueueing task: each URL is handed out at most once. *)

\* A request whose URL is not queued is appended, under every discipline.
LEMMA AppendFresh ==
    ASSUME NEW q \in Seq(Entries), NEW r \in Requests,
           \A i \in DOMAIN q : q[i].item.url # r.url
    PROVE  File(q, r) = Append(q, [item |-> r, rank |-> r.priority])
  BY DEF File, SameRequest

\* Nothing is queued, marked or handed out at the start.
LEMMA OnceInvInit == Init => OnceInv
  BY DEF Init, OnceInv, QueuedUrls, InFlightUrls, Callers

\* With one enqueueing task every step preserves OnceInv and is a step of the
\* frontier, or changes nothing of it.
LEMMA OnceInvStep ==
    ASSUME NEW sole, Enqueuers = {sole}, Clearers \subseteq {sole}
    PROVE  IInv /\ OnceInv /\ [Next]_vars => OnceInv' /\ [F!Next]_(F!fvars)
<1> SUFFICES ASSUME IInv, OnceInv, [Next]_vars
             PROVE  OnceInv' /\ [F!Next]_(F!fvars)
  OBVIOUS
<1> USE DEF IInv
<1> DEFINE waiting == QueuedUrls \cup InFlightUrls
           taken == {u \in Urls : handed[u] > 0}
<1>0. /\ waiting' = waiting /\ taken' = taken => [F!Next]_(F!fvars)
      /\ \A u \in Urls : /\ u \notin waiting \cup taken
                         /\ waiting' = waiting \cup {u} /\ taken' = taken
                         => [F!Next]_(F!fvars)
      /\ \A u \in Urls : /\ u \in waiting
                         /\ waiting' = waiting \ {u} /\ taken' = taken \cup {u}
                         => [F!Next]_(F!fvars)
      /\ waiting' = {} /\ taken' = {} => [F!Next]_(F!fvars)
  <2> HIDE DEF waiting, taken
  <2> QED
    BY DEF F!Next, F!Add, F!Take, F!Forget, F!fvars, waiting, taken
<1>1. sole \in Callers /\ sole \in Enqueuers
  BY DEF Callers
<1>2. InFlightUrls = IF step[sole] = "push" THEN {arg[sole].url} ELSE {}
  BY DEF InFlightUrls
<1>3. InFlightUrls' = IF step'[sole] = "push" THEN {arg'[sole].url} ELSE {}
  BY DEF InFlightUrls
<1>4. ASSUME NEW r \in Requests, HasSeen(sole, r)
      PROVE  OnceInv' /\ [F!Next]_(F!fvars)
  <2>1. step'[sole] = "mark" /\ arg'[sole] = r /\ step[sole] = "idle"
    BY <1>1, <1>4 DEF HasSeen, TypeOK
  <2>2. InFlightUrls' = {} /\ InFlightUrls = {}
    BY <1>2, <1>3, <2>1
  <2>3. QueuedUrls' = QueuedUrls
    BY <1>4 DEF HasSeen, QueuedUrls
  <2>once. OnceInv'
    BY <1>4, <2>1, <2>2, <2>3 DEF HasSeen, OnceInv
  <2>front. [F!Next]_(F!fvars)
    BY <1>0, <1>4, <2>2, <2>3 DEF HasSeen
  <2> QED
    BY <2>once, <2>front
<1>5. CASE MarkSeen(sole)
  <2>1. step'[sole] = "push" /\ arg' = arg /\ step[sole] = "mark"
    BY <1>1, <1>5 DEF MarkSeen, TypeOK
  <2>2. InFlightUrls' = {arg[sole].url} /\ InFlightUrls = {}
    BY <1>2, <1>3, <2>1
  <2>3. QueuedUrls' = QueuedUrls
    BY <1>5 DEF MarkSeen, QueuedUrls
  <2>4. arg[sole].url \notin seen
    BY <1>1, <2>1 DEF OnceInv
  <2>once. OnceInv'
    BY <1>5, <2>1, <2>2, <2>3, <2>4 DEF MarkSeen, OnceInv
  <2>front. [F!Next]_(F!fvars)
    <3>1. arg[sole].url \in Urls
      BY <1>1, <2>1, SchedulerAssumption DEF SchedulerConstants, CallsWellFormed
    <3>2. arg[sole].url \notin waiting \cup taken
      BY <2>4 DEF OnceInv
    <3>3. waiting' = waiting \cup {arg[sole].url} /\ taken' = taken
      BY <1>5, <2>2, <2>3 DEF MarkSeen
    <3> HIDE DEF waiting, taken
    <3> QED
      BY <1>0, <3>1, <3>2, <3>3
  <2> QED
    BY <2>once, <2>front
<1>6. CASE Push(sole)
  <2> DEFINE r == arg[sole]
             q == Append(queue, [item |-> r, rank |-> r.priority])
  <2>1. r \in Requests /\ queue \in Seq(Entries)
    BY <1>1, <1>6 DEF Push, TypeOK, CallsWellFormed
  <2>2. step'[sole] = "idle" /\ step[sole] = "push"
    BY <1>1, <1>6 DEF Push, TypeOK
  <2>3. InFlightUrls = {r.url} /\ InFlightUrls' = {}
    BY <1>2, <1>3, <2>2
  <2>4. \A i \in DOMAIN queue : queue[i].item.url # r.url
    BY <2>3 DEF OnceInv, QueuedUrls
  <2>5. queue' = q
    BY <1>6, <2>1, <2>4, AppendFresh DEF Push
  <2>6. /\ DOMAIN q = DOMAIN queue \cup {Len(queue) + 1}
        /\ \A i \in DOMAIN queue : q[i] = queue[i]
        /\ q[Len(queue) + 1].item.url = r.url
    BY <2>1
  <2> HIDE DEF q
  <2>7. QueuedUrls' = QueuedUrls \cup {r.url}
    BY <2>5, <2>6 DEF QueuedUrls
  <2>8. \A i, j \in DOMAIN q : q[i].item.url = q[j].item.url => i = j
    BY <2>4, <2>6 DEF OnceInv
  <2>once. OnceInv'
    BY <1>6, <2>2, <2>3, <2>5, <2>7, <2>8 DEF Push, OnceInv
  <2>front. [F!Next]_(F!fvars)
    BY <1>0, <1>6, <2>3, <2>7 DEF Push
  <2> QED
    BY <2>once, <2>front
<1>7. ASSUME NEW c \in Takers, NEW i \in DOMAIN queue, TakeAt(c, i)
      PROVE  OnceInv' /\ [F!Next]_(F!fvars)
  <2> DEFINE q == Without(queue, i)
             u == queue[i].item.url
  <2>1. queue \in Seq(Entries) /\ i \in 1 .. Len(queue)
    BY DEF TypeOK
  <2>2. u \in Urls
    <3>1. queue[i] \in Entries
      BY <2>1
    <3>2. queue[i].item \in Requests
      BY <3>1 DEF Entries
    <3> QED
      BY <3>2, SchedulerAssumption DEF SchedulerConstants
  <2>3. queue' = q /\ handed' = [handed EXCEPT ![u] = @ + 1]
    BY <1>7 DEF TakeAt
  <2>4. /\ DOMAIN q = 1 .. (Len(queue) - 1)
        /\ \A j \in DOMAIN q : q[j] = queue[IF j < i THEN j ELSE j + 1]
    BY <2>1 DEF Without
  <2> HIDE DEF q, u
  <2>5. \A j, k \in DOMAIN q : q[j].item.url = q[k].item.url => j = k
    BY <2>1, <2>4 DEF OnceInv
  <2>6. QueuedUrls' = QueuedUrls \ {u}
    <3>1. \A j \in DOMAIN q : q[j].item.url \in QueuedUrls \ {u}
      BY <2>1, <2>4 DEF QueuedUrls, OnceInv, u
    <3>2. \A j \in 1 .. Len(queue) : j # i => \E k \in DOMAIN q : q[k] = queue[j]
      <4> SUFFICES ASSUME NEW j \in 1 .. Len(queue), j # i
                   PROVE  \E k \in DOMAIN q : q[k] = queue[j]
        OBVIOUS
      <4>1. CASE j < i
        BY <4>1, <2>1, <2>4
      <4>2. CASE j > i
        <5>1. j - 1 \in DOMAIN q /\ q[j - 1] = queue[j]
          BY <4>2, <2>1, <2>4
        <5> QED
          BY <5>1
      <4> QED
        BY <4>1, <4>2, <2>1
    <3> QED
      BY <2>1, <2>3, <3>1, <3>2 DEF QueuedUrls, u
  <2>7. InFlightUrls' = InFlightUrls
    BY <1>7 DEF TakeAt, InFlightUrls
  <2>8. u \in QueuedUrls
    BY DEF QueuedUrls, u
  <2>9. handed[u] = 0 /\ handed'[u] = 1 /\ \A v \in Urls \ {u} : handed'[v] = handed[v]
    BY <2>2, <2>3, <2>8 DEF OnceInv, TypeOK
  <2>10. u \in seen /\ u \notin InFlightUrls
    BY <2>8 DEF OnceInv
  <2>once. OnceInv'
    BY <1>7, <2>3, <2>5, <2>6, <2>7, <2>9, <2>10 DEF TakeAt, OnceInv
  <2>front. [F!Next]_(F!fvars)
    <3>1. u \in waiting /\ waiting' = waiting \ {u}
      BY <2>6, <2>7, <2>8, <2>10
    <3>2. taken' = taken \cup {u}
      BY <2>2, <2>9
    <3> HIDE DEF waiting, taken
    <3> QED
      BY <1>0, <2>2, <3>1, <3>2
  <2> QED
    BY <2>once, <2>front
<1>8. ASSUME NEW c \in Clearers, ClearQueue(c)
      PROVE  OnceInv' /\ [F!Next]_(F!fvars)
  <2>1. c = sole /\ step'[sole] = "wipe"
    BY <1>1, <1>8 DEF ClearQueue, TypeOK
  <2>2. InFlightUrls' = {}
    BY <1>3, <2>1
  <2>3. DOMAIN queue' = {} /\ QueuedUrls' = {}
    BY <1>8 DEF ClearQueue, QueuedUrls
  <2>4. \A u \in Urls : handed'[u] = 0
    BY <1>8 DEF ClearQueue
  <2>once. OnceInv'
    BY <1>8, <2>1, <2>2, <2>3, <2>4 DEF ClearQueue, OnceInv
  <2>front. [F!Next]_(F!fvars)
    BY <1>0, <2>2, <2>3, <2>4
  <2> QED
    BY <2>once, <2>front
<1>9. ASSUME NEW c \in Clearers, ClearSeen(c)
      PROVE  OnceInv' /\ [F!Next]_(F!fvars)
  <2>1. c = sole /\ step'[sole] = "idle" /\ step[sole] = "wipe"
    BY <1>1, <1>9 DEF ClearSeen, TypeOK
  <2>2. InFlightUrls' = {} /\ InFlightUrls = {}
    BY <1>2, <1>3, <2>1
  <2>3. queue = <<>> /\ \A u \in Urls : handed[u] = 0
    BY <1>1, <2>1, SchedulerAssumption DEF SchedulerConstants, CallsWellFormed, OnceInv
  <2>once. OnceInv'
    <3>1. queue' = <<>> /\ QueuedUrls' = {} /\ \A u \in Urls : handed'[u] = 0
      BY <1>9, <2>3 DEF ClearSeen, QueuedUrls
    <3>2. \A d \in Enqueuers : step'[d] # "mark"
      BY <2>1
    <3> QED
      BY <2>2, <3>1, <3>2 DEF OnceInv
  <2>front. [F!Next]_(F!fvars)
    <3>1. QueuedUrls' = QueuedUrls /\ taken' = taken
      BY <1>9 DEF ClearSeen, QueuedUrls
    <3> QED
      BY <1>0, <2>2, <3>1
  <2> QED
    BY <2>once, <2>front
<1>10. CASE UNCHANGED vars
  <2>1. OnceInv'
    BY <1>10 DEF vars, OnceInv, QueuedUrls, InFlightUrls
  <2>2. waiting' = waiting /\ taken' = taken
    BY <1>10 DEF vars, QueuedUrls, InFlightUrls
  <2> QED
    BY <1>0, <2>1, <2>2
<1> QED
  BY <1>4, <1>5, <1>6, <1>7, <1>8, <1>9, <1>10 DEF Next, Enqueue, TakeRequest, Clear

\* When one task makes all enqueue and clear calls, as the engine does with
\* concurrent_requests = 1, next() hands a URL out at most once between clears.
THEOREM SoleEnqueuerHandsOutOnce ==
    ASSUME NEW sole, Enqueuers = {sole}, Clearers \subseteq {sole}
    PROVE  Spec => []HandedOutOnce
<1>1. IInv /\ OnceInv => HandedOutOnce
  BY DEF IInv, TypeOK, OnceInv, HandedOutOnce
<1>2. IInv /\ OnceInv /\ [Next]_vars => OnceInv'
  BY OnceInvStep
<1> QED
  BY <1>1, <1>2, OnceInvInit, Invariance, PTL DEF Spec

\* Under the same discipline of calls the scheduler implements the frontier:
\* a step of its callers adds a fresh URL, hands out a waiting one, forgets
\* everything, or changes nothing a user of the frontier can see.
THEOREM SoleEnqueuerImplementsFrontier ==
    ASSUME NEW sole, Enqueuers = {sole}, Clearers \subseteq {sole}
    PROVE  Spec => ImplementsFrontier
<1>1. Init => F!Init
  BY DEF Init, F!Init, QueuedUrls, InFlightUrls, Callers
<1>2. IInv /\ OnceInv /\ [Next]_vars => OnceInv' /\ [F!Next]_(F!fvars)
  BY OnceInvStep
<1> QED
  BY <1>1, <1>2, OnceInvInit, Invariance, PTL DEF Spec, ImplementsFrontier, F!Spec
=============================================================================
