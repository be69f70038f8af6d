---------------------------- MODULE FetchProofs ----------------------------
(***************************************************************************)
(* Proofs about Fetch for any requests, middlewares, limits, error policy  *)
(* and faults.                                                             *)
(***************************************************************************)
EXTENDS Fetch, FiniteSetTheorems, SequenceTheorems, TLAPS

-----------------------------------------------------------------------------
(* Lemmas about the error policy *)

\* A backoff is a number of seconds, and never above max_delay, however large the
\* retry count: the product is reduced modulo 2^64 before it is compared.
THEOREM BackoffBounded ==
    ASSUME PolicyConstants, NEW n \in Nat
    PROVE  CalculateRetryDelay(n) \in 0 .. MaxDelay
<1>1. BaseDelay \in Nat /\ MaxDelay \in Nat /\ WordSize \in Nat \ {0}
  BY DEF PolicyConstants
<1>2. PICK power \in Nat : power = 2 ^ n % WordSize
  BY <1>1
<1>3. (BaseDelay * power) % WordSize \in Nat
  BY <1>1
<1> QED
  BY <1>1, <1>2, <1>3 DEF CalculateRetryDelay

\* As long as the product fits in the word, the backoff is the documented one: the
\* base delay, doubled with each retry, up to max_delay.
THEOREM BackoffExact ==
    ASSUME PolicyConstants, NEW n \in Nat, BaseDelay * 2 ^ n \in 0 .. WordSize - 1
    PROVE  CalculateRetryDelay(n) =
               IF BaseDelay * 2 ^ n < MaxDelay THEN BaseDelay * 2 ^ n ELSE MaxDelay
<1>1. BaseDelay \in Nat /\ MaxDelay \in Nat /\ WordSize \in Nat \ {0}
  BY DEF PolicyConstants
<1>2. PICK p \in Int : p = 2 ^ n
  OBVIOUS
<1>3. BaseDelay * p >= 0 /\ BaseDelay * p < WordSize
  BY <1>1, <1>2
<1>4. (BaseDelay * (p % WordSize)) % WordSize = BaseDelay * p
  <2>1. CASE BaseDelay = 0
    <3>1. p % WordSize \in Nat
      BY <1>1
    <3> QED
      BY <1>1, <2>1, <3>1
  <2>2. CASE BaseDelay # 0
    <3>1. p >= 0 /\ p < WordSize
      BY <1>1, <1>3, <2>2
    <3>2. p % WordSize = p
      BY <1>1, <3>1
    <3>3. BaseDelay * p \in 0 .. WordSize - 1
      BY <1>1, <1>3
    <3> QED
      BY <1>1, <3>2, <3>3
  <2> QED
    BY <2>1, <2>2
<1> QED
  BY <1>2, <1>4 DEF CalculateRetryDelay

\* When the power is a multiple of 2^64, as it is from the 64th retry on, it wraps
\* to nothing, and a retry no longer waits at all.
THEOREM BackoffVanishes ==
    ASSUME PolicyConstants, NEW n \in Nat, 2 ^ n % WordSize = 0
    PROVE  CalculateRetryDelay(n) = 0
<1>1. BaseDelay \in Nat /\ MaxDelay \in Nat /\ WordSize \in Nat \ {0}
  BY DEF PolicyConstants
<1>2. (BaseDelay * 0) % WordSize = 0
  BY <1>1
<1> QED
  BY <1>1, <1>2 DEF CalculateRetryDelay

\* The kinds of errors, the "bare" ones being counted with the others.
LEMMA KindsOfErrors ==
    /\ ErrorKinds = {"network", "http", "parse", "middleware", "other", "bare"}
    /\ \A e \in Errors : e.kind \in ErrorKinds /\ e.tried \in Nat
                         /\ e.after \in Nat \cup {-1} /\ e.url \in BOOLEAN
BY DEF ErrorKinds, Codes, Errors

\* Whoever decides, the decision is one of the actions or an Err, and its delay a
\* number of seconds.
LEMMA DecisionsType ==
    ASSUME PolicyConstants, NEW e \in Errors, NEW act \in Decisions(e)
    PROVE  act.kind \in ActionKinds \cup {"fail"} /\ act.delay \in Nat
<1>1. CASE e.kind \in CustomFor
  BY <1>1 DEF Decisions, PolicyConstants
<1>2. CASE e.kind \notin CustomFor
  <2>1. act = HandleError(e)
    BY <1>2 DEF Decisions
  <2>2. CalculateRetryDelay(e.tried) \in Nat
    BY BackoffBounded, KindsOfErrors DEF PolicyConstants
  <2>3. RetryDelay(e) >= 0 => RetryDelay(e) \in Nat
    BY KindsOfErrors DEF RetryDelay
  <2> QED
    BY <2>1, <2>2, <2>3 DEF HandleError, Does, ActionKinds
<1> QED
  BY <1>1, <1>2

\* An error keeps its type when a URL is put into its context.
LEMMA WithUrlType == \A e \in Errors : WithUrl(e) \in Errors
BY DEF WithUrl, Errors

LEMMA PlainType == Plain \in Errors
BY DEF Plain, Errors, ErrorKinds, Codes

-----------------------------------------------------------------------------
(* Lemmas about the timestamps *)

LEMMA IntervalCount ==
    ASSUME NEW n \in Nat PROVE IsFiniteSet(1 .. n) /\ Cardinality(1 .. n) = n
<1>1. 1 \in Int /\ n \in Int
  OBVIOUS
<1>2. IsFiniteSet(1 .. n) /\ Cardinality(1 .. n) = IF 1 > n THEN 0 ELSE n - 1 + 1
  BY <1>1, FS_Interval, Zenon
<1>3. (IF 1 > n THEN 0 ELSE n - 1 + 1) = n
  OBVIOUS
<1> QED
  BY <1>2, <1>3

\* Popping the expired timestamps leaves the youngest ones in their places, counted
\* from the end, from the first on that is young; the one popped last is expired.
LEMMA ExpiredTail ==
    ASSUME NEW s \in Seq(0 .. Window), Window \in Nat
    PROVE  LET e == Expired(s, Window)
               d == Len(s) - Len(e)
           IN  /\ e \in Seq(0 .. Window) /\ Len(e) \in Nat /\ d \in 0 .. Len(s)
               /\ \A i \in DOMAIN e : e[i] = s[i + d]
               /\ d > 0 => s[d] >= Window
               /\ e # <<>> => e[1] < Window
<1> DEFINE gone == {i \in DOMAIN s : \A j \in 1 .. i : s[j] >= Window}
           e == Expired(s, Window)
<1>1. PICK n \in Nat : n = Len(s) /\ DOMAIN s = 1 .. n /\ \A i \in 1 .. n : s[i] \in 0 .. Window
  OBVIOUS
<1>2. /\ gone \subseteq 1 .. n
      /\ \A i \in gone : 1 .. i \subseteq gone
      /\ \A i \in gone : s[i] >= Window
      /\ \A i \in 1 .. n : i \in gone \/ \E j \in 1 .. i : j \notin gone /\ s[j] < Window
  BY <1>1
<1>3. e = SubSeq(s, Cardinality(gone) + 1, n)
  BY <1>1 DEF Expired
<1> HIDE DEF gone, e
<1>4. IsFiniteSet(1 .. n) /\ Cardinality(1 .. n) = n
  BY IntervalCount
<1>5. IsFiniteSet(gone) /\ Cardinality(gone) \in Nat /\ Cardinality(gone) <= n
  <2>1. gone \in SUBSET (1 .. n)
    BY <1>2
  <2>2. IsFiniteSet(gone) /\ Cardinality(gone) <= Cardinality(1 .. n)
    BY <1>4, <2>1, FS_Subset
  <2> QED
    BY <1>4, <2>2, FS_CardinalityType
<1>6. PICK c \in Nat : c = Cardinality(gone) /\ c <= n
  BY <1>5
<1>7. \A i \in gone : i <= c
  <2> TAKE i \in gone
  <2>1. i \in Nat /\ i >= 1
    BY <1>2
  <2>2. Cardinality(1 .. i) = i
    BY <2>1, IntervalCount
  <2> QED
    BY <1>2, <1>5, <1>6, <2>2, FS_Subset
<1>8. c > 0 => c \in gone
  <2> SUFFICES ASSUME c > 0, c \notin gone PROVE FALSE
    OBVIOUS
  <2>1. PICK b \in Nat : b = c - 1
    OBVIOUS
  <2>2. ASSUME NEW i \in gone PROVE i \in 1 .. b
    <3>1. i \in 1 .. c /\ i # c
      BY <1>2, <1>7
    <3> QED
      BY <2>1, <3>1
  <2>3. IsFiniteSet(1 .. b) /\ Cardinality(1 .. b) = b
    BY IntervalCount
  <2>4. c <= b
    BY <1>6, <2>2, <2>3, FS_Subset
  <2> QED
    BY <2>1, <2>4
<1>9. /\ e \in Seq(0 .. Window) /\ Len(e) = n - c
      /\ \A i \in 1 .. (n - c) : e[i] = s[i + c]
  <2>1. PICK d \in Nat : d = c + 1
    OBVIOUS
  <2>2. \A i \in d .. n : s[i] \in 0 .. Window
    BY <1>1, <2>1
  <2>3. /\ SubSeq(s, d, n) \in Seq(0 .. Window)
        /\ Len(SubSeq(s, d, n)) = IF d <= n THEN n - d + 1 ELSE 0
        /\ \A i \in 1 .. (n - d + 1) : SubSeq(s, d, n)[i] = s[d + i - 1]
    BY <2>2, SubSeqProperties, d \in Int, n \in Int
  <2>4. e = SubSeq(s, d, n)
    BY <1>3, <1>6, <2>1
  <2>5. Len(e) = n - c
    BY <1>6, <2>1, <2>3, <2>4
  <2>6. \A i \in 1 .. (n - c) : e[i] = s[i + c]
    <3> TAKE i \in 1 .. (n - c)
    <3>1. i \in 1 .. (n - d + 1) /\ d + i - 1 = i + c
      BY <2>1
    <3> QED
      BY <2>3, <2>4, <3>1
  <2> QED
    BY <2>3, <2>4, <2>5, <2>6
<1>10. c > 0 => s[c] >= Window
  BY <1>2, <1>8
<1>11. c < n => e[1] < Window
  <2> SUFFICES ASSUME c < n PROVE e[1] < Window
    OBVIOUS
  <2>1. c + 1 \in 1 .. n /\ 1 \in 1 .. (n - c) /\ e[1] = s[c + 1]
    BY <1>9
  <2>2. c + 1 \notin gone
    BY <1>7
  <2>3. PICK j \in 1 .. (c + 1) : j \notin gone /\ s[j] < Window
    BY <1>2, <2>1, <2>2
  <2>4. j = c + 1
    <3>1. c > 0 => 1 .. c \subseteq gone
      BY <1>2, <1>8
    <3> QED
      BY <2>3, <3>1
  <2> QED
    BY <2>1, <2>3, <2>4
<1>12. e # <<>> => c < n
  BY <1>6, <1>9
<1>13. /\ Len(e) \in Nat /\ DOMAIN e = 1 .. (n - c)
       /\ Len(s) - Len(e) = c /\ c \in 0 .. Len(s)
  BY <1>1, <1>6, <1>9
<1> QED
  BY <1>9, <1>10, <1>11, <1>12, <1>13 DEF e

-----------------------------------------------------------------------------
(* Types *)

\* A set of requests can be counted, and so can a set of actors.
LEMMA ActorsCount ==
    ASSUME NEW A \in SUBSET Actors, NEW a \in Actors
    PROVE  /\ IsFiniteSet(A) /\ Cardinality(A) \in Nat
           /\ a \in A => Cardinality(A \ {a}) = Cardinality(A) - 1
           /\ a \notin A => Cardinality(A \cup {a}) = Cardinality(A) + 1
<1>1. IsFiniteSet(Actors)
  BY FetchAssumption, FS_AddElement DEF FetchConstants, Actors
<1>2. IsFiniteSet(A)
  BY <1>1, FS_Subset
<1> QED
  BY <1>2, FS_CardinalityType, FS_AddElement, FS_RemoveElement

\* Whoever is downloading holds a permit.
LEMMA PermitHeld ==
    ASSUME TypeOK, PermitsCounted, NEW r \in Requests, pc[r] = "download"
    PROVE  permits + 1 \in 0 .. Permits
<1> DEFINE D == {q \in Requests : pc[q] = "download"}
<1>1. D \in SUBSET Actors /\ r \in D /\ r \in Actors
  BY DEF Actors
<1> HIDE DEF D
<1>2. Cardinality(D) \in Nat /\ Cardinality(D \ {r}) \in Nat
      /\ Cardinality(D \ {r}) = Cardinality(D) - 1
  <2>1. D \ {r} \in SUBSET Actors
    BY <1>1
  <2> QED
    BY <1>1, <2>1, ActorsCount
<1>3. permits + Cardinality(D) = Permits /\ permits \in Nat /\ Permits \in Nat
  BY FetchAssumption DEF PermitsCounted, TypeOK, D, FetchConstants
<1> QED
  BY <1>2, <1>3

\* Enqueueing a request keeps the scheduler's types.
LEMMA EnqueueType ==
    ASSUME TypeOK, NEW r \in Requests, Enqueue(r)
    PROVE  seen' \subseteq Requests /\ queue' \in Seq(Requests) /\ current' = current
<1>1. queue' = queue \/ queue' = Append(queue, r)
  BY DEF Enqueue
<1>2. queue' \in Seq(Requests)
  <2>1. queue \in Seq(Requests)
    BY DEF TypeOK
  <2> QED
    BY <1>1, <2>1
<1>3. seen' \subseteq Requests /\ current' = current
  BY DEF Enqueue, TypeOK
<1> QED
  BY <1>2, <1>3

\* Every step of whatever actor moves it between its places.
LEMMA GoesType ==
    ASSUME TypeOK, NEW a \in Actors, NEW from, NEW to \in MainStates \cup TaskStates,
           Goes(a, from, to)
    PROVE  pc' \in [Actors -> MainStates \cup TaskStates]
BY DEF TypeOK, Goes

\* What the history keeps of a request that is let through is ages.
LEMMA LetsThroughType ==
    ASSUME TypeOK, LetsThrough PROVE let' \in Seq(0 .. Window)
<1>1. Window \in Nat /\ 0 \in 0 .. Window
  BY FetchAssumption DEF FetchConstants
<1>2. Append(let, 0) \in Seq(0 .. Window)
  BY <1>1 DEF TypeOK
<1> QED
  BY <1>1, <1>2, ExpiredTail DEF LetsThrough

\* The limiter's timestamps stay ages, and a wait is a number of seconds.
LEMMA LimitedType ==
    ASSUME TypeOK, Limited
    PROVE  /\ ages' \in Seq(0 .. Window) /\ let' \in Seq(0 .. Window)
           /\ sleep' \in [Actors -> Nat]
           /\ pc' \in [Actors -> MainStates \cup TaskStates]
<1> DEFINE young == Expired(ages, Window)
           wait  == LimitWait(young, MaxRequests, Window)
<1>0. Window \in Nat /\ MaxRequests \in Nat /\ 0 \in 0 .. Window
  BY FetchAssumption DEF FetchConstants
<1>1. young \in Seq(0 .. Window)
  BY <1>0, ExpiredTail DEF TypeOK
<1>2. /\ ages' = Append(young, 0)
      /\ \/ LetsThrough /\ UNCHANGED <<pc, sleep>>
         \/ wait > 0 /\ Goes(Main, "chain", "held") /\ Sleeps(Main, wait) /\ UNCHANGED let
  BY DEF Limited
<1> HIDE DEF young
<1>3. wait \in Nat
  <2>1. young # <<>> => young[1] \in 0 .. Window
    <3>1. young \in [1 .. Len(young) -> 0 .. Window]
      BY <1>1, LenProperties
    <3>2. young # <<>> => Len(young) \in Nat \ {0}
      BY <1>1, EmptySeq
    <3> QED
      BY <3>1, <3>2
  <2> QED
    BY <1>0, <2>1 DEF LimitWait
<1> HIDE DEF wait
<1>4. ages' \in Seq(0 .. Window)
  BY <1>0, <1>1, <1>2
<1>5. let' \in Seq(0 .. Window)
  BY <1>2, LetsThroughType DEF TypeOK
<1>6. sleep' \in [Actors -> Nat]
  BY <1>2, <1>3 DEF TypeOK, Sleeps
<1>7. pc' \in [Actors -> MainStates \cup TaskStates]
  BY <1>2, GoesType DEF TypeOK, MainStates, Actors
<1> QED
  BY <1>4, <1>5, <1>6, <1>7

\* Time keeps the types of what it ages.
LEMMA TickType ==
    ASSUME TypeOK, Tick
    PROVE  /\ ages' \in Seq(0 .. Window) /\ let' \in Seq(0 .. Window)
           /\ sleep' \in [Actors -> Nat]
<1>0. Window \in Nat
  BY FetchAssumption DEF FetchConstants
<1>1. \A s \in Seq(0 .. Window) : Aged(s) \in Seq(0 .. Window)
  BY <1>0 DEF Aged
<1>2. ages' \in Seq(0 .. Window)
  BY <1>1 DEF Tick, TypeOK
<1>3. let' \in Seq(0 .. Window)
  BY <1>0, <1>1, ExpiredTail DEF Tick, TypeOK
<1>4. sleep' \in [Actors -> Nat]
  <2>1. \A a \in Actors : (IF sleep[a] > 0 THEN sleep[a] - 1 ELSE 0) \in Nat
    BY DEF TypeOK
  <2> QED
    BY <2>1 DEF Tick
<1> QED
  BY <1>2, <1>3, <1>4

LEMMA AdvancesType ==
    ASSUME TypeOK, NEW a \in Actors, Advances(a)
    PROVE  pos' \in [Actors -> Nat \ {0}]
<1>1. pos[a] + 1 \in Nat \ {0}
  BY DEF TypeOK
<1> QED
  BY <1>1 DEF TypeOK, Advances

\* Every step keeps the types.
LEMMA TypeStep ==
    TypeOK /\ CurrentHeld /\ PermitsCounted /\ [Next]_vars => TypeOK'
<1> SUFFICES ASSUME TypeOK, CurrentHeld, PermitsCounted, [Next]_vars PROVE TypeOK'
  OBVIOUS
<1> USE DEF schedVars, limitVars, replyVars, errorVars, statVars
<1>0. /\ Main \in Actors /\ Requests \subseteq Actors /\ PolicyConstants
      /\ Pause \in Nat /\ MaxPause \in Nat /\ Permits \in Nat /\ Main \notin Requests
  BY FetchAssumption DEF Actors, FetchConstants
<1>1. CASE UNCHANGED vars
  BY <1>1 DEF TypeOK, vars
<1>2. ASSUME NEW a \in Actors,
             a \in Requests \/ current \in Requests \/ pc[a] \in {"next", "reap", "end"},
             ChainStep(a) \/ ErrorStep(a)
      PROVE  TypeOK'
  <2>1. CASE Accepted(a)
    <3>1. pos' \in [Actors -> Nat \ {0}]
      BY <2>1, AdvancesType DEF Accepted
    <3> QED
      BY <2>1, <3>1 DEF Accepted, Advances, TypeOK
  <2>2. CASE Rejected(a)
    <3>1. pc' \in [Actors -> MainStates \cup TaskStates]
      BY <2>2, GoesType DEF Rejected, MainStates
    <3>2. err' \in [Actors -> Errors]
      <4>1. WithUrl(Plain) \in Errors /\ Plain \in Errors
        BY PlainType, WithUrlType
      <4> QED
        BY <2>2, <4>1 DEF Rejected, Fails, TypeOK
    <3>3. UNCHANGED <<errors, unhandled>>
      BY <2>2 DEF Rejected, Fails
    <3> QED
      BY <2>2, <3>1, <3>2, <3>3 DEF Rejected, TypeOK
  <2>3. CASE CountError(a)
    <3>1. pc' \in [Actors -> MainStates \cup TaskStates]
      BY <2>3, GoesType DEF CountError, MainStates
    <3>2. guard' \subseteq Actors
      BY <2>3 DEF CountError, TypeOK
    <3>3. stats' \in [{"request", "response", "error"} -> Nat]
      <4>1. stats' = [stats EXCEPT !.error = @ + 1] /\ stats \in [{"request", "response", "error"} -> Nat]
        BY <2>3 DEF CountError, TypeOK
      <4> QED
        BY <4>1
    <3> QED
      BY <2>3, <3>1, <3>2, <3>3 DEF CountError, TypeOK
  <2>4. CASE Record(a)
    <3>1. pc' \in [Actors -> MainStates \cup TaskStates]
      BY <2>4, GoesType DEF Record, MainStates
    <3>2. errors' \in [Counters -> Nat]
      <4>1. err[a].kind \in ErrorKinds
        BY KindsOfErrors DEF TypeOK
      <4>2. PICK kind \in ErrorKinds :
               errors' = [errors EXCEPT !["total"] = @ + 1, ![kind] = @ + 1]
        BY <2>4, <4>1, KindsOfErrors DEF Record, RecordError
      <4>3. errors \in [Counters -> Nat] /\ kind \in Counters /\ "total" \in Counters
        BY DEF TypeOK, Counters
      <4> QED
        BY <4>2, <4>3
    <3> QED
      BY <2>4, <3>1, <3>2 DEF Record, TypeOK
  <2>5. CASE Decide(a)
    <3>1. PICK act \in Decisions(err[a]) :
             /\ Goes(a, "decide", IF act.kind = "retry" THEN "retry"
                                  ELSE IF act.kind = "abort" /\ a = Main THEN "reap"
                                  ELSE "settle")
             /\ Sleeps(a, IF act.kind = "retry" THEN act.delay ELSE 0)
             /\ guard' = IF act.kind = "abort" /\ a = Main THEN guard \ {a} ELSE guard
             /\ IF act.kind = "fail"
                THEN unhandled' = unhandled + 1 /\ UNCHANGED errors
                ELSE errors' = RecordAction(errors, act) /\ UNCHANGED unhandled
      BY <2>5 DEF Decide
    <3>2. act.kind \in ActionKinds \cup {"fail"} /\ act.delay \in Nat
      BY <1>0, DecisionsType DEF TypeOK
    <3>3. pc' \in [Actors -> MainStates \cup TaskStates]
      BY <3>1, GoesType DEF MainStates
    <3>4. sleep' \in [Actors -> Nat] /\ guard' \subseteq Actors
      BY <3>1, <3>2 DEF TypeOK, Sleeps
    <3>5. errors' \in [Counters -> Nat] /\ unhandled' \in Nat
      <4>1. errors \in [Counters -> Nat] /\ unhandled \in Nat
        BY DEF TypeOK
      <4>2. CASE act.kind = "fail"
        BY <3>1, <4>1, <4>2
      <4>3. CASE act.kind # "fail"
        <5>1. act.kind \in Counters
          BY <3>2, <4>3 DEF Counters
        <5> QED
          BY <3>1, <4>1, <4>3, <5>1 DEF RecordAction
      <4> QED
        BY <4>2, <4>3
    <3> QED
      BY <2>5, <3>3, <3>4, <3>5 DEF Decide, TypeOK
  <2>6. CASE Requeue(a)
    <3>1. Request(a) \in Requests
      <4>1. pc[a] = "retry"
        BY <2>6 DEF Requeue, Goes
      <4> QED
        BY <1>0, <1>2, <4>1 DEF Request, Actors
    <3>2. seen' \subseteq Requests /\ queue' \in Seq(Requests) /\ current' = current
      BY <2>6, <3>1, EnqueueType DEF Requeue
    <3>3. pc' \in [Actors -> MainStates \cup TaskStates]
      BY <2>6, GoesType DEF Requeue, MainStates
    <3> QED
      BY <2>6, <3>2, <3>3 DEF Requeue, TypeOK
  <2>7. CASE Settle(a)
    <3>1. pc' \in [Actors -> MainStates \cup TaskStates]
      BY <2>7, GoesType DEF Settle, MainStates, TaskStates
    <3>2. guard' \subseteq Actors
      BY <2>7 DEF Settle, TypeOK
    <3> QED
      BY <2>7, <3>1, <3>2 DEF Settle, TypeOK
  <2> QED
    BY <1>2, <2>1, <2>2, <2>3, <2>4, <2>5, <2>6, <2>7 DEF ChainStep, ErrorStep
<1>3. CASE MainStep
  <2>1. CASE TakeRequest
    <3>1. queue # <<>> /\ queue \in Seq(Requests)
      BY <2>1 DEF TakeRequest, TypeOK
    <3>2. Head(queue) \in Requests /\ Tail(queue) \in Seq(Requests)
      BY <3>1, HeadTailProperties
    <3>3. pc' \in [Actors -> MainStates \cup TaskStates]
      BY <1>0, <2>1, GoesType DEF TakeRequest, MainStates
    <3>4. pos' \in [Actors -> Nat \ {0}]
      <4>1. pos' = [pos EXCEPT ![Main] = 1] /\ pos \in [Actors -> Nat \ {0}] /\ 1 \in Nat \ {0}
        BY <2>1 DEF TakeRequest, TypeOK
      <4> QED
        BY <4>1
    <3> QED
      BY <2>1, <3>2, <3>3, <3>4 DEF TakeRequest, TypeOK
  <2>2. CASE Delayed
    <3>1. pos' \in [Actors -> Nat \ {0}]
      BY <1>0, <2>2, AdvancesType DEF Delayed
    <3>2. sleep' \in [Actors -> Nat]
      BY <1>0, <2>2 DEF Delayed, Sleeps, TypeOK
    <3> QED
      BY <2>2, <3>1, <3>2 DEF Delayed, Advances, TypeOK
  <2>3. CASE Limited
    <3>1. pos' \in [Actors -> Nat \ {0}]
      BY <1>0, <2>3, AdvancesType DEF Limited
    <3>2. UNCHANGED <<schedVars, replyVars, errorVars, statVars, again>>
      BY <2>3 DEF Limited, Advances
    <3> QED
      BY <2>3, <3>1, <3>2, LimitedType DEF TypeOK
  <2>4. CASE LetThrough
    <3>1. pc' \in [Actors -> MainStates \cup TaskStates]
      BY <1>0, <2>4, GoesType DEF LetThrough, MainStates
    <3>2. let' \in Seq(0 .. Window)
      BY <2>4, LetsThroughType DEF LetThrough
    <3> QED
      BY <2>4, <3>1, <3>2 DEF LetThrough, TypeOK
  <2>5. CASE SpawnTask
    <3>1. pc' \in [Actors -> MainStates \cup TaskStates]
      BY <2>5 DEF SpawnTask, TypeOK, MainStates, TaskStates
    <3>3. pos' \in [Actors -> Nat \ {0}]
      <4>1. pos' = [pos EXCEPT ![current] = 1] /\ pos \in [Actors -> Nat \ {0}] /\ 1 \in Nat \ {0}
        BY <2>5 DEF SpawnTask, TypeOK
      <4> QED
        BY <4>1
    <3>2. stats' \in [{"request", "response", "error"} -> Nat] /\ guard' = guard
      BY <2>5 DEF SpawnTask, Counts, TypeOK
    <3> QED
      BY <2>5, <3>1, <3>2, <3>3 DEF SpawnTask, TypeOK
  <2>6. CASE LeaveLoop
    <3>1. pc' \in [Actors -> MainStates \cup TaskStates]
      BY <1>0, <2>6, GoesType DEF LeaveLoop, MainStates
    <3> QED
      BY <2>6, <3>1 DEF LeaveLoop, TypeOK
  <2>7. CASE ChainStep(Main) \/ ErrorStep(Main)
    BY <1>0, <1>2, <2>7 DEF CurrentHeld
  <2> QED
    BY <1>3, <2>1, <2>2, <2>3, <2>4, <2>5, <2>6, <2>7 DEF MainStep
<1>4. ASSUME NEW r \in Requests, TaskStep(r) PROVE TypeOK'
  <2>0. r \in Actors
    BY <1>0
  <2>1. CASE Acquire(r)
    <3>1. pc' \in [Actors -> MainStates \cup TaskStates]
      BY <2>0, <2>1, GoesType DEF Acquire, TaskStates
    <3>2. permits' \in 0 .. Permits
      BY <1>0, <2>1 DEF Acquire, TypeOK
    <3> QED
      BY <2>1, <3>1, <3>2 DEF Acquire, TypeOK
  <2>2. CASE Downloaded(r) \/ DownloadFails(r)
    <3>1. pc' \in [Actors -> MainStates \cup TaskStates]
      BY <2>0, <2>2, GoesType DEF Downloaded, DownloadFails, TaskStates
    <3>2. permits' \in 0 .. Permits /\ downloads' \in [Requests -> Nat]
      <4>1. pc[r] = "download" /\ permits' = permits + 1
            /\ downloads' = [downloads EXCEPT ![r] = @ + 1]
        BY <2>2 DEF Downloaded, DownloadFails, Goes, Release
      <4>2. permits' \in 0 .. Permits
        BY <4>1, PermitHeld
      <4> QED
        BY <4>1, <4>2 DEF TypeOK
    <3>3. bad' \subseteq Requests
      BY <2>2 DEF Downloaded, DownloadFails, TypeOK
    <3>4. err' \in [Actors -> Errors] /\ UNCHANGED <<errors, unhandled>>
      <4>1. CASE Downloaded(r)
        BY <4>1 DEF Downloaded, TypeOK
      <4>2. CASE DownloadFails(r)
        <5>1. PICK e \in DownloadErrors : Fails(r, WithUrl(e))
          BY <4>2 DEF DownloadFails
        <5>2. WithUrl(e) \in Errors
          BY WithUrlType, FetchAssumption DEF FetchConstants
        <5> QED
          BY <5>1, <5>2 DEF Fails, TypeOK
      <4> QED
        BY <2>2, <4>1, <4>2
    <3> QED
      BY <2>2, <3>1, <3>2, <3>3, <3>4 DEF Downloaded, DownloadFails, Release, TypeOK
  <2>3. CASE CountResponse(r)
    <3>1. pc' \in [Actors -> MainStates \cup TaskStates]
      BY <2>0, <2>3, GoesType DEF CountResponse, TaskStates
    <3>2. stats' \in [{"request", "response", "error"} -> Nat] /\ guard' = guard
      BY <2>3 DEF CountResponse, Counts, TypeOK
    <3> QED
      BY <2>3, <3>1, <3>2 DEF CountResponse, TypeOK
  <2>4. CASE Retried(r)
    <3>1. pos' \in [Actors -> Nat \ {0}]
      BY <2>0, <2>4, AdvancesType DEF Retried
    <3>2. sleep' \in [Actors -> Nat] /\ again' \subseteq Requests
      <4>1. \/ again' = again \cup {r} /\ sleep' = [sleep EXCEPT ![r] = Pause]
            \/ again' = again /\ sleep' = sleep
        BY <2>4 DEF Retried, Sleeps
      <4> QED
        BY <1>0, <4>1 DEF TypeOK
    <3> QED
      BY <2>4, <3>1, <3>2 DEF Retried, Advances, TypeOK
  <2>5. CASE EndReply(r)
    <3>1. pc' \in [Actors -> MainStates \cup TaskStates]
      BY <2>0, <2>5, GoesType DEF EndReply, TaskStates
    <3> QED
      BY <2>5, <3>1 DEF EndReply, TypeOK
  <2>6. CASE EnqueueAgain(r)
    <3>1. seen' \subseteq Requests /\ queue' \in Seq(Requests) /\ current' = current
      BY <2>6, EnqueueType DEF EnqueueAgain
    <3>2. pc' \in [Actors -> MainStates \cup TaskStates]
      BY <2>0, <2>6, GoesType DEF EnqueueAgain, TaskStates
    <3> QED
      BY <2>6, <3>1, <3>2 DEF EnqueueAgain, TypeOK
  <2>7. CASE Parsed(r)
    <3>1. pc' \in [Actors -> MainStates \cup TaskStates]
      BY <2>0, <2>7, GoesType DEF Parsed, TaskStates
    <3>2. err' \in [Actors -> Errors] /\ UNCHANGED <<errors, unhandled>>
      BY <2>7, PlainType, WithUrlType DEF Parsed, Fails, TypeOK
    <3> QED
      BY <2>7, <3>1, <3>2 DEF Parsed, TypeOK
  <2>8. CASE ChainStep(r) \/ ErrorStep(r)
    BY <2>0, <1>2, <2>8
  <2> QED
    BY <1>4, <2>1, <2>2, <2>3, <2>4, <2>5, <2>6, <2>7, <2>8 DEF TaskStep
<1>5. CASE Tick
  BY <1>5, TickType DEF Tick, TypeOK
<1> QED
  BY <1>1, <1>3, <1>4, <1>5 DEF Next

-----------------------------------------------------------------------------
(* Requests and their places *)

Loop == {"next", "reap", "end"}
Early == {"none", "permit", "download"}

\* A step that neither queues nor spawns nor downloads a request.
Quiet ==
    /\ UNCHANGED <<schedVars, permits, downloads>>
    /\ \E a \in Actors :
          /\ pc' = [pc EXCEPT ![a] = pc'[a]]
          /\ pc[a] \notin Early /\ pc'[a] \notin Early
          /\ a = Main => /\ pc'[Main] \in MainStates
                         /\ pc'[Main] \notin Loop => pc[Main] \notin Loop

\* Enqueueing a request again does nothing: the scheduler has seen it.
LEMMA EnqueueIdle ==
    ASSUME TypeOK, Placed, NEW r \in Requests, Enqueue(r),
           pc[r] # "none" \/ r = current
    PROVE  UNCHANGED schedVars
<1>1. r \in seen
  BY DEF Placed
<1> QED
  BY <1>1 DEF Enqueue, TypeOK, schedVars

\* Every other step is quiet.
LEMMA OthersAreQuiet ==
    ASSUME TypeOK, CurrentHeld, Placed, [Next]_vars
    PROVE  \/ TakeRequest \/ SpawnTask
           \/ \E r \in Requests : Acquire(r) \/ Downloaded(r) \/ DownloadFails(r)
           \/ Quiet
<1> USE DEF schedVars, replyVars
<1>0. /\ Main \in Actors /\ Requests \subseteq Actors /\ Main \notin Requests
      /\ pc \in [Actors -> MainStates \cup TaskStates]
  BY FetchAssumption DEF Actors, FetchConstants, TypeOK
<1>1. ASSUME UNCHANGED <<schedVars, permits, downloads, pc>> PROVE Quiet
  <2>1. pc' = [pc EXCEPT ![Main] = pc'[Main]] /\ pc[Main] \notin Early
    BY <1>0, <1>1 DEF CurrentHeld, MainStates, Early
  <2> QED
    BY <1>0, <1>1, <2>1 DEF Quiet, CurrentHeld
<1>2. ASSUME NEW a \in Actors, NEW from, NEW to, Goes(a, from, to),
             from \notin Early, to \notin Early,
             UNCHANGED <<schedVars, permits, downloads>>,
             a = Main => to \in MainStates /\ (from \in Loop => to \in Loop)
      PROVE  Quiet
  <2>1. pc[a] = from /\ pc'[a] = to /\ pc' = [pc EXCEPT ![a] = pc'[a]]
    BY <1>0, <1>2 DEF Goes
  <2> QED
    BY <1>2, <2>1 DEF Quiet
<1>3. ASSUME NEW a \in Actors, a \in Requests \/ a = Main, ChainStep(a) \/ ErrorStep(a)
      PROVE  Quiet
  <2> USE DEF Early, Loop, MainStates
  <2>1. CASE Accepted(a)
    BY <1>1, <2>1 DEF Accepted, Advances
  <2>2. CASE Rejected(a)
    BY <1>2, <2>2 DEF Rejected
  <2>3. CASE CountError(a)
    BY <1>2, <2>3 DEF CountError
  <2>4. CASE Record(a)
    BY <1>2, <2>4 DEF Record
  <2>5. CASE Decide(a)
    <3>1. PICK to : /\ Goes(a, "decide", to)
                    /\ to \in {"retry", "settle"} \/ (a = Main /\ to = "reap")
      BY <2>5 DEF Decide
    <3> QED
      BY <1>2, <2>5, <3>1 DEF Decide
  <2>6. CASE Requeue(a)
    <3>1. pc[a] = "retry" /\ Enqueue(Request(a)) /\ Goes(a, "retry", "settle")
      BY <2>6 DEF Requeue, Goes
    <3>2. Request(a) \in Requests /\ (pc[Request(a)] # "none" \/ Request(a) = current)
      BY <1>0, <1>3, <3>1 DEF Request, CurrentHeld
    <3>3. UNCHANGED schedVars
      BY <3>1, <3>2, EnqueueIdle
    <3> QED
      BY <1>2, <2>6, <3>1, <3>3 DEF Requeue
  <2>7. CASE Settle(a)
    <3>1. Goes(a, "settle", IF a = Main THEN "next" ELSE "done")
          /\ UNCHANGED <<schedVars, permits, downloads>>
      BY <2>7 DEF Settle
    <3> QED
      BY <1>2, <3>1
  <2> QED
    BY <1>3, <2>1, <2>2, <2>3, <2>4, <2>5, <2>6, <2>7 DEF ChainStep, ErrorStep
<1>4. CASE UNCHANGED vars
  BY <1>1, <1>4 DEF vars
<1>5. CASE MainStep
  <2> USE DEF Early, Loop, MainStates
  <2>1. CASE ChainStep(Main) \/ ErrorStep(Main)
    BY <1>0, <1>3, <2>1
  <2>2. CASE Delayed
    BY <1>1, <2>2 DEF Delayed, Advances
  <2>3. CASE Limited
    <3>1. UNCHANGED <<schedVars, permits, downloads>>
      BY <2>3 DEF Limited, Advances
    <3>2. pc' = pc \/ Goes(Main, "chain", "held")
      BY <2>3 DEF Limited
    <3> QED
      BY <1>0, <1>1, <1>2, <3>1, <3>2
  <2>4. CASE LetThrough
    BY <1>0, <1>2, <2>4 DEF LetThrough
  <2>5. CASE LeaveLoop
    BY <1>0, <1>2, <2>5 DEF LeaveLoop
  <2> QED
    BY <1>5, <2>1, <2>2, <2>3, <2>4, <2>5 DEF MainStep
<1>6. ASSUME NEW r \in Requests, TaskStep(r)
      PROVE  Acquire(r) \/ Downloaded(r) \/ DownloadFails(r) \/ Quiet
  <2> USE DEF Early
  <2>0. r \in Actors /\ r # Main
    BY <1>0
  <2>1. CASE CountResponse(r)
    BY <2>0, <1>2, <2>1 DEF CountResponse
  <2>2. CASE Retried(r)
    BY <1>1, <2>2 DEF Retried, Advances
  <2>3. CASE EndReply(r)
    <3>1. PICK to \in {"again", "reply"} : Goes(r, "chain", to)
      BY <2>3 DEF EndReply
    <3> QED
      BY <2>0, <1>2, <2>3, <3>1 DEF EndReply
  <2>4. CASE EnqueueAgain(r)
    <3>1. pc[r] = "again"
      BY <2>4 DEF EnqueueAgain, Goes
    <3>2. UNCHANGED schedVars
      BY <2>4, <3>1, EnqueueIdle DEF EnqueueAgain
    <3> QED
      BY <2>0, <1>2, <2>4, <3>2 DEF EnqueueAgain
  <2>5. CASE Parsed(r)
    BY <2>0, <1>2, <2>5 DEF Parsed
  <2>6. CASE ChainStep(r) \/ ErrorStep(r)
    BY <2>0, <1>3, <2>6
  <2> QED
    BY <1>6, <2>1, <2>2, <2>3, <2>4, <2>5, <2>6 DEF TaskStep
<1>7. CASE Tick
  BY <1>1, <1>7 DEF Tick
<1> QED
  BY <1>4, <1>5, <1>6, <1>7 DEF Next

\* A request stays in one place, and the scheduler keeps having seen it.
LEMMA PlacesStep ==
    TypeOK /\ CurrentHeld /\ Placed /\ DownloadsCounted /\ [Next]_vars
        => CurrentHeld' /\ Placed' /\ DownloadsCounted'
<1> SUFFICES ASSUME TypeOK, CurrentHeld, Placed, DownloadsCounted, [Next]_vars
             PROVE  CurrentHeld' /\ Placed' /\ DownloadsCounted'
  OBVIOUS
<1> USE DEF schedVars, replyVars, Early, Loop, MainStates
<1>0. /\ Main \in Actors /\ Requests \subseteq Actors /\ Main \notin Requests
      /\ NoRequest \notin Requests
      /\ pc \in [Actors -> MainStates \cup TaskStates]
      /\ downloads \in [Requests -> Nat]
      /\ queue \in Seq(Requests)
  BY FetchAssumption DEF Actors, FetchConstants, TypeOK
<1>1. CASE Quiet
  <2>1. PICK a \in Actors :
           /\ pc' = [pc EXCEPT ![a] = pc'[a]]
           /\ pc[a] \notin Early /\ pc'[a] \notin Early
           /\ a = Main => /\ pc'[Main] \in MainStates
                          /\ pc'[Main] \notin Loop => pc[Main] \notin Loop
    BY <1>1 DEF Quiet
  <2>2. \A r \in Requests : (pc'[r] = "none") = (pc[r] = "none")
                            /\ (pc'[r] \in Early) = (pc[r] \in Early)
    BY <1>0, <2>1
  <2>3. CurrentHeld'
    BY <1>0, <1>1, <2>1 DEF Quiet, CurrentHeld
  <2>4. Placed'
    <3>1. \A i \in DOMAIN queue : queue[i] \in Requests
      BY <1>0
    <3> QED
      BY <1>0, <1>1, <2>2, <3>1 DEF Quiet, Placed
  <2>5. DownloadsCounted'
    BY <1>1, <2>2 DEF Quiet, DownloadsCounted
  <2> QED
    BY <2>3, <2>4, <2>5
<1>2. CASE TakeRequest
  <2>1. /\ queue # <<>> /\ current' = Head(queue) /\ queue' = Tail(queue)
        /\ pc' = [pc EXCEPT ![Main] = "chain"] /\ seen' = seen /\ downloads' = downloads
    BY <1>2 DEF TakeRequest, Goes
  <2>2. \A r \in Requests : pc'[r] = pc[r]
    BY <1>0, <2>1
  <2>3. PICK n \in Nat \ {0} : /\ DOMAIN queue = 1 .. n /\ queue[1] = Head(queue)
                              /\ DOMAIN Tail(queue) = 1 .. (n - 1)
                              /\ \A i \in 1 .. (n - 1) : Tail(queue)[i] = queue[i + 1]
    <3>1. Len(queue) \in Nat \ {0} /\ DOMAIN queue = 1 .. Len(queue)
      BY <1>0, <2>1, EmptySeq, LenProperties
    <3>2. /\ Tail(queue) \in Seq(Requests) /\ Len(Tail(queue)) = Len(queue) - 1
          /\ \A i \in 1 .. Len(Tail(queue)) : Tail(queue)[i] = queue[i + 1]
      BY <1>0, <2>1, HeadTailProperties
    <3>3. DOMAIN Tail(queue) = 1 .. (Len(queue) - 1)
      BY <3>1, <3>2, LenProperties
    <3>4. Head(queue) = queue[1]
      BY <1>0, <2>1
    <3> QED
      BY <3>1, <3>2, <3>3, <3>4
  <2>4. \A i \in 1 .. n : queue[i] \in Requests /\ pc[queue[i]] = "none" /\ queue[i] \in seen
    BY <1>0, <2>3 DEF Placed
  <2>5. \A i, j \in 1 .. n : queue[i] = queue[j] => i = j
    BY <2>3 DEF Placed
  <2>6. current' \in Requests /\ pc'[current'] = "none" /\ current' \in seen
    <3>1. 1 \in 1 .. n
      BY <2>3
    <3> QED
      BY <2>1, <2>2, <2>3, <2>4, <3>1
  <2>7. CurrentHeld'
    BY <1>0, <2>1, <2>6 DEF CurrentHeld
  <2>8. Placed'
    <3>1. \A i \in 1 .. (n - 1) : i + 1 \in 1 .. n /\ queue'[i] = queue[i + 1] /\ i + 1 # 1
      BY <2>1, <2>3
    <3>2. \A i, j \in 1 .. (n - 1) : queue'[i] = queue'[j] => i = j
      <4>1. \A i, j \in 1 .. (n - 1) : queue'[i] = queue'[j] => i + 1 = j + 1
        BY <2>5, <3>1
      <4> QED
        BY <4>1
    <3>3. \A i \in 1 .. (n - 1) : pc'[queue'[i]] = "none" /\ queue'[i] # current' /\ queue'[i] \in seen
      <4>1. 1 \in 1 .. n
        BY <2>3
      <4> QED
        BY <2>1, <2>2, <2>3, <2>4, <2>5, <3>1, <4>1
    <3>4. \A r \in Requests : pc'[r] # "none" => r \in seen
      BY <2>2 DEF Placed
    <3> QED
      BY <2>1, <2>3, <2>6, <3>2, <3>3, <3>4 DEF Placed
  <2>9. DownloadsCounted'
    BY <2>1, <2>2 DEF DownloadsCounted
  <2> QED
    BY <2>7, <2>8, <2>9
<1>3. CASE SpawnTask
  <2>1. /\ pc[Main] = "chain" /\ current' = NoRequest /\ UNCHANGED <<queue, seen, downloads>>
        /\ pc' = [pc EXCEPT ![Main] = "next", ![current] = "permit"]
    BY <1>3 DEF SpawnTask, EndOfChain
  <2>2. current \in Requests /\ pc[current] = "none" /\ current \in seen
    BY <2>1 DEF CurrentHeld, Placed
  <2>3. pc'[Main] = "next" /\ pc'[current] = "permit"
        /\ \A r \in Requests : r # current => pc'[r] = pc[r]
    BY <1>0, <2>1, <2>2
  <2>4. Placed'
    <3>1. \A i \in DOMAIN queue : queue[i] \in Requests
      BY <1>0
    <3> QED
      BY <1>0, <2>1, <2>2, <2>3, <3>1 DEF Placed
  <2>5. DownloadsCounted'
    BY <2>1, <2>2, <2>3 DEF DownloadsCounted
  <2> QED
    BY <2>3, <2>4, <2>5 DEF CurrentHeld
<1>4. ASSUME NEW r \in Requests, Acquire(r) \/ Downloaded(r) \/ DownloadFails(r)
      PROVE  CurrentHeld' /\ Placed' /\ DownloadsCounted'
  <2>0. r \in Actors /\ r # Main
    BY <1>0
  <2>1. UNCHANGED schedVars
    BY <1>4 DEF Acquire, Downloaded, DownloadFails, Release
  <2>2. /\ pc' = [pc EXCEPT ![r] = pc'[r]] /\ pc[r] # "none" /\ pc'[r] # "none"
        /\ \/ pc'[r] = "download" /\ pc[r] = "permit" /\ downloads' = downloads
           \/ /\ pc'[r] \notin Early /\ pc[r] = "download"
              /\ downloads' = [downloads EXCEPT ![r] = @ + 1]
    BY <1>0, <1>4, <2>0 DEF Acquire, Downloaded, DownloadFails, Release, Goes
  <2>3. pc'[Main] = pc[Main] /\ \A q \in Requests : (pc'[q] = "none") = (pc[q] = "none")
    BY <1>0, <2>0, <2>2
  <2>4. CurrentHeld'
    BY <2>1, <2>3 DEF CurrentHeld
  <2>5. Placed'
    <3>1. \A i \in DOMAIN queue : queue[i] \in Requests
      BY <1>0
    <3> QED
      BY <2>1, <2>3, <3>1 DEF Placed
  <2>6. DownloadsCounted'
    <3> SUFFICES ASSUME NEW q \in Requests
                 PROVE  downloads'[q] = IF pc'[q] \in Early THEN 0 ELSE 1
      BY DEF DownloadsCounted
    <3>1. downloads[q] = IF pc[q] \in Early THEN 0 ELSE 1
      BY DEF DownloadsCounted
    <3>2. CASE q # r
      BY <1>0, <2>0, <2>2, <3>1, <3>2
    <3>3. CASE q = r
      BY <1>0, <2>0, <2>2, <3>1, <3>3
    <3> QED
      BY <3>2, <3>3
  <2> QED
    BY <2>4, <2>5, <2>6
<1> QED
  BY <1>1, <1>2, <1>3, <1>4, OthersAreQuiet

-----------------------------------------------------------------------------
(* Permits *)

\* The free permits and the downloads add up.
LEMMA PermitsStep ==
    TypeOK /\ CurrentHeld /\ Placed /\ PermitsCounted /\ [Next]_vars => PermitsCounted'
<1> SUFFICES ASSUME TypeOK, CurrentHeld, Placed, PermitsCounted, [Next]_vars
             PROVE  PermitsCounted'
  OBVIOUS
<1> USE DEF Early
<1> DEFINE D == {q \in Requests : pc[q] = "download"}
<1>0. /\ Main \in Actors /\ Requests \subseteq Actors /\ Main \notin Requests
      /\ pc \in [Actors -> MainStates \cup TaskStates]
      /\ permits \in Nat /\ Permits \in Nat
  BY FetchAssumption DEF Actors, FetchConstants, TypeOK
<1>1. ASSUME permits' = permits, \A q \in Requests : (pc'[q] = "download") = (pc[q] = "download")
      PROVE  PermitsCounted'
  <2>1. D' = D
    BY <1>1
  <2> QED
    BY <1>1, <2>1 DEF PermitsCounted
<1>2. PICK d : d = D
  OBVIOUS
<1>3. d \in SUBSET Actors /\ Cardinality(d) \in Nat /\ permits + Cardinality(d) = Permits
  BY <1>0, <1>2, ActorsCount DEF PermitsCounted
<1>4. CASE Quiet
  <2>1. \A q \in Requests : (pc'[q] = "download") = (pc[q] = "download")
    BY <1>0, <1>4 DEF Quiet
  <2> QED
    BY <1>1, <1>4, <2>1 DEF Quiet
<1>5. CASE TakeRequest
  BY <1>0, <1>1, <1>5 DEF TakeRequest, Goes, replyVars
<1>6. CASE SpawnTask
  <2>1. current \in Requests /\ pc[current] = "none"
    BY <1>6 DEF SpawnTask, EndOfChain, CurrentHeld, Placed
  <2>2. pc' = [pc EXCEPT ![Main] = "next", ![current] = "permit"] /\ permits' = permits
    BY <1>6 DEF SpawnTask, replyVars
  <2>3. \A q \in Requests : (pc'[q] = "download") = (pc[q] = "download")
    BY <1>0, <2>1, <2>2
  <2> QED
    BY <1>1, <2>2, <2>3
<1>7. ASSUME NEW r \in Requests, Acquire(r) PROVE PermitsCounted'
  <2>1. /\ pc[r] = "permit" /\ pc' = [pc EXCEPT ![r] = "download"] /\ permits' = permits - 1
        /\ r \in Actors
    BY <1>0, <1>7 DEF Acquire, Goes
  <2>2. D' = d \cup {r} /\ r \notin d
    BY <1>0, <1>2, <2>1
  <2>3. Cardinality(d \cup {r}) = Cardinality(d) + 1
    BY <1>3, <2>1, <2>2, ActorsCount
  <2>4. permits' + Cardinality(d \cup {r}) = Permits
    BY <1>0, <1>3, <2>1, <2>3
  <2> QED
    BY <2>2, <2>4 DEF PermitsCounted
<1>8. ASSUME NEW r \in Requests, Downloaded(r) \/ DownloadFails(r) PROVE PermitsCounted'
  <2>1. /\ pc[r] = "download" /\ pc' = [pc EXCEPT ![r] = pc'[r]] /\ pc'[r] # "download"
        /\ permits' = permits + 1 /\ r \in Actors
    BY <1>0, <1>8 DEF Downloaded, DownloadFails, Release, Goes
  <2>2. D' = d \ {r} /\ r \in d
    BY <1>0, <1>2, <2>1
  <2>3. Cardinality(d \ {r}) = Cardinality(d) - 1
    BY <1>3, <2>1, <2>2, ActorsCount
  <2>4. permits' + Cardinality(d \ {r}) = Permits
    BY <1>0, <1>3, <2>1, <2>3
  <2> QED
    BY <2>2, <2>4 DEF PermitsCounted
<1> QED
  BY <1>4, <1>5, <1>6, <1>7, <1>8, OthersAreQuiet

-----------------------------------------------------------------------------
(* Errors *)

\* How many actors stand at s changes with the one that moves.
LEMMA StandStep ==
    ASSUME TypeOK, NEW a \in Actors, NEW to, pc' = [pc EXCEPT ![a] = to], NEW s
    PROVE  /\ pc[a] = s /\ to # s => Stand(s)' = Stand(s) - 1
           /\ pc[a] # s /\ to = s => Stand(s)' = Stand(s) + 1
           /\ pc[a] # s /\ to # s => Stand(s)' = Stand(s)
<1> DEFINE A == {b \in Actors : pc[b] = s}
<1>1. PICK d : d = A
  OBVIOUS
<1>2. d \in SUBSET Actors /\ Cardinality(d) = Stand(s) /\ pc \in [Actors -> MainStates \cup TaskStates]
  BY <1>1 DEF Stand, TypeOK
<1>3. /\ Cardinality(d) \in Nat
      /\ a \in d => Cardinality(d \ {a}) = Cardinality(d) - 1
      /\ a \notin d => Cardinality(d \cup {a}) = Cardinality(d) + 1
  BY <1>2, ActorsCount
<1>4. pc'[a] = to /\ \A b \in Actors : b # a => pc'[b] = pc[b]
  BY <1>2
<1>5. ASSUME pc[a] = s, to # s PROVE Stand(s)' = Stand(s) - 1
  <2>1. A' = d \ {a} /\ a \in d
    BY <1>1, <1>4, <1>5
  <2> QED
    BY <1>2, <1>3, <2>1 DEF Stand
<1>6. ASSUME pc[a] # s, to = s PROVE Stand(s)' = Stand(s) + 1
  <2>1. A' = d \cup {a} /\ a \notin d
    BY <1>1, <1>4, <1>6
  <2> QED
    BY <1>2, <1>3, <2>1 DEF Stand
<1>7. ASSUME pc[a] # s, to # s PROVE Stand(s)' = Stand(s)
  <2>1. A' = d
    BY <1>1, <1>4, <1>7
  <2> QED
    BY <1>2, <2>1 DEF Stand
<1> QED
  BY <1>2, <1>3, <1>5, <1>6, <1>7

\* One leaves its place, and one arrives.
LEMMA StandMoves ==
    ASSUME TypeOK, NEW a \in Actors, NEW from, NEW to, from # to, pc[a] = from,
           pc' = [pc EXCEPT ![a] = to]
    PROVE  /\ Stand(from)' = Stand(from) - 1
           /\ Stand(to)' = Stand(to) + 1
           /\ \A s : s # from /\ s # to => Stand(s)' = Stand(s)
BY StandStep

LEMMA StandCount == ASSUME TypeOK, NEW s PROVE Stand(s) \in Nat
<1>1. Main \in Actors /\ {a \in Actors : pc[a] = s} \in SUBSET Actors
  BY DEF Actors
<1> QED
  BY <1>1, ActorsCount DEF Stand

\* A step that handles no error.
Faultless ==
    /\ UNCHANGED <<errors, unhandled>> /\ stats'["error"] = stats["error"]
    /\ \A b \in Actors, s \in {"record", "decide"} : (pc'[b] = s) = (pc[b] = s)

\* Only CountError, Record and Decide touch the books.
LEMMA OthersAreFaultless ==
    ASSUME TypeOK, CurrentHeld, Placed, [Next]_vars
    PROVE  \/ \E a \in Actors : CountError(a) \/ Record(a) \/ Decide(a)
           \/ Faultless
<1> USE DEF errorVars, statVars
<1>0. /\ Main \in Actors /\ Requests \subseteq Actors /\ Main \notin Requests
      /\ pc \in [Actors -> MainStates \cup TaskStates]
  BY FetchAssumption DEF Actors, FetchConstants, TypeOK
<1>1. ASSUME UNCHANGED <<errors, unhandled, stats, pc>> PROVE Faultless
  BY <1>1 DEF Faultless
<1>2. ASSUME NEW a \in Actors, NEW from, NEW to, Goes(a, from, to),
             {from, to} \cap {"record", "decide"} = {},
             UNCHANGED <<errors, unhandled>>, stats'["error"] = stats["error"]
      PROVE  Faultless
  <2>1. \A b \in Actors, s \in {"record", "decide"} : (pc'[b] = s) = (pc[b] = s)
    BY <1>0, <1>2 DEF Goes
  <2> QED
    BY <1>2, <2>1 DEF Faultless
<1>3. ASSUME NEW what \in {"request", "response"}, Counts(what)
      PROVE  stats'["error"] = stats["error"]
  <2>1. stats \in [{"request", "response", "error"} -> Nat] /\ stats' = [stats EXCEPT ![what] = @ + 1]
    BY <1>3 DEF Counts, TypeOK
  <2> QED
    BY <2>1
<1>4. ASSUME NEW a \in Actors, ChainStep(a) \/ Requeue(a) \/ Settle(a) PROVE Faultless
  <2>1. CASE Accepted(a)
    BY <1>1, <2>1 DEF Accepted, Advances
  <2>2. CASE Rejected(a)
    BY <1>2, <2>2 DEF Rejected, Fails
  <2>3. CASE Requeue(a)
    BY <1>2, <2>3 DEF Requeue
  <2>4. CASE Settle(a)
    <3>1. Goes(a, "settle", IF a = Main THEN "next" ELSE "done")
          /\ UNCHANGED <<errors, unhandled, stats>>
      BY <2>4 DEF Settle
    <3> QED
      BY <1>2, <3>1
  <2> QED
    BY <1>4, <2>1, <2>2, <2>3, <2>4 DEF ChainStep
<1>5. CASE UNCHANGED vars \/ Tick
  BY <1>1, <1>5 DEF vars, Tick
<1>6. CASE MainStep
  <2>1. CASE TakeRequest
    BY <1>0, <1>2, <2>1 DEF TakeRequest
  <2>2. CASE Delayed
    BY <1>1, <2>2 DEF Delayed, Advances
  <2>3. CASE Limited
    <3>1. UNCHANGED <<errors, unhandled, stats>>
      BY <2>3 DEF Limited, Advances
    <3>2. pc' = pc \/ Goes(Main, "chain", "held")
      BY <2>3 DEF Limited
    <3> QED
      BY <1>0, <1>1, <1>2, <3>1, <3>2
  <2>4. CASE LetThrough
    BY <1>0, <1>2, <2>4 DEF LetThrough
  <2>5. CASE SpawnTask
    <3>1. pc[Main] = "chain" /\ current \in Requests /\ pc[current] = "none"
      BY <2>5 DEF SpawnTask, EndOfChain, CurrentHeld, Placed
    <3>2. pc' = [pc EXCEPT ![Main] = "next", ![current] = "permit"]
      BY <2>5 DEF SpawnTask
    <3>3. \A b \in Actors, s \in {"record", "decide"} : (pc'[b] = s) = (pc[b] = s)
      BY <1>0, <3>1, <3>2
    <3>4. stats'["error"] = stats["error"] /\ UNCHANGED <<errors, unhandled>>
      BY <1>3, <2>5 DEF SpawnTask
    <3> QED
      BY <3>3, <3>4 DEF Faultless
  <2>6. CASE LeaveLoop
    BY <1>0, <1>2, <2>6 DEF LeaveLoop
  <2> QED
    BY <1>0, <1>4, <1>6, <2>1, <2>2, <2>3, <2>4, <2>5, <2>6 DEF MainStep, ErrorStep
<1>7. ASSUME NEW r \in Requests, TaskStep(r)
      PROVE  CountError(r) \/ Record(r) \/ Decide(r) \/ Faultless
  <2>0. r \in Actors
    BY <1>0
  <2>1. CASE Acquire(r) \/ Downloaded(r)
    BY <2>0, <1>2, <2>1 DEF Acquire, Downloaded, Release
  <2>2. CASE DownloadFails(r)
    BY <2>0, <1>2, <2>2 DEF DownloadFails, Release, Fails
  <2>3. CASE CountResponse(r)
    BY <2>0, <1>2, <1>3, <2>3 DEF CountResponse
  <2>4. CASE Retried(r)
    BY <1>1, <2>4 DEF Retried, Advances
  <2>5. CASE EndReply(r)
    <3>1. PICK to \in {"again", "reply"} : Goes(r, "chain", to)
      BY <2>5 DEF EndReply
    <3> QED
      BY <2>0, <1>2, <2>5, <3>1 DEF EndReply
  <2>6. CASE EnqueueAgain(r)
    BY <2>0, <1>2, <2>6 DEF EnqueueAgain
  <2>7. CASE Parsed(r)
    <3>1. PICK to \in {"done", "rejected"} : Goes(r, "reply", to)
      BY <2>7 DEF Parsed
    <3>2. UNCHANGED <<errors, unhandled, stats>>
      BY <2>7 DEF Parsed, Fails
    <3> QED
      BY <2>0, <1>2, <3>1, <3>2
  <2> QED
    BY <2>0, <1>4, <1>7, <2>1, <2>2, <2>3, <2>4, <2>5, <2>6, <2>7 DEF TaskStep, ErrorStep
<1> QED
  BY <1>0, <1>5, <1>6, <1>7 DEF Next, MainStep, ErrorStep

\* Every error that is counted is recorded, and every one recorded is decided.
LEMMA ErrorsStep ==
    TypeOK /\ CurrentHeld /\ Placed /\ ErrorsAccounted /\ [Next]_vars => ErrorsAccounted'
<1> SUFFICES ASSUME TypeOK, CurrentHeld, Placed, ErrorsAccounted, [Next]_vars
             PROVE  ErrorsAccounted'
  OBVIOUS
<1>0. /\ errors \in [Counters -> Nat] /\ unhandled \in Nat
      /\ stats \in [{"request", "response", "error"} -> Nat]
      /\ PolicyConstants
  BY FetchAssumption DEF TypeOK, FetchConstants
<1>1. PICK r \in Nat : r = Stand("record")
  BY <1>0, StandCount
<1>2. PICK d \in Nat : d = Stand("decide")
  BY <1>0, StandCount
<1>3. /\ \A c \in Counters : errors[c] \in Nat
      /\ {"total", "network", "http", "parse", "middleware", "other",
          "retry", "abort", "skip", "ignore"} \subseteq Counters
  BY <1>0, KindsOfErrors DEF Counters, ActionKinds
<1>4. /\ stats["error"] = errors["total"] + r
      /\ errors["total"] = errors["network"] + errors["http"] + errors["parse"]
                           + errors["middleware"] + errors["other"]
      /\ errors["total"] = errors["retry"] + errors["abort"] + errors["skip"]
                           + errors["ignore"] + unhandled + d
  BY <1>1, <1>2 DEF ErrorsAccounted
<1>5. CASE Faultless
  <2>1. Stand("record")' = r /\ Stand("decide")' = d
    <3>1. ASSUME NEW s \in {"record", "decide"} PROVE Stand(s)' = Stand(s)
      <4>1. {a \in Actors : pc'[a] = s} = {a \in Actors : pc[a] = s}
        BY <1>5 DEF Faultless
      <4> QED
        BY <4>1 DEF Stand
    <3> QED
      BY <1>1, <1>2, <3>1
  <2> QED
    BY <1>4, <1>5, <2>1 DEF Faultless, ErrorsAccounted
<1>6. ASSUME NEW a \in Actors, CountError(a) PROVE ErrorsAccounted'
  <2>1. /\ pc[a] \in {"failed", "rejected"} /\ pc' = [pc EXCEPT ![a] = "record"]
        /\ stats' = [stats EXCEPT !.error = @ + 1] /\ errors' = errors /\ unhandled' = unhandled
    BY <1>6 DEF CountError, Goes, errorVars
  <2>2. Stand("record")' = r + 1 /\ Stand("decide")' = d
    <3>1. PICK from \in {"failed", "rejected"} :
             pc[a] = from /\ pc' = [pc EXCEPT ![a] = "record"]
      BY <2>1
    <3>2. Stand("record")' = Stand("record") + 1
      BY <2>1, StandMoves
    <3>3. from # "record" /\ from # "decide"
      OBVIOUS
    <3>4. Stand("decide")' = Stand("decide")
      BY <3>1, <3>3, StandStep
    <3> QED
      BY <1>1, <1>2, <3>2, <3>4
  <2>3. stats'["error"] = stats["error"] + 1
    BY <1>0, <2>1
  <2>4. stats'["error"] = errors["total"] + (r + 1)
    BY <1>3, <1>4, <2>3
  <2> QED
    BY <1>4, <2>1, <2>2, <2>4 DEF ErrorsAccounted
<1>7. ASSUME NEW a \in Actors, Record(a) PROVE ErrorsAccounted'
  <2>1. /\ pc[a] = "record" /\ pc' = [pc EXCEPT ![a] = "decide"]
        /\ errors' = RecordError(errors, err[a]) /\ UNCHANGED <<unhandled, stats>>
    BY <1>7 DEF Record, Goes, statVars
  <2>2. Stand("record")' = r - 1 /\ Stand("decide")' = d + 1
    <3>1. Stand("record")' = Stand("record") - 1
      BY <2>1, StandMoves
    <3>2. Stand("decide")' = Stand("decide") + 1
      BY <2>1, StandMoves
    <3> QED
      BY <1>1, <1>2, <3>1, <3>2
  <2>3. err[a].kind \in {"network", "http", "parse", "middleware", "other", "bare"}
    BY KindsOfErrors DEF TypeOK
  <2>4. PICK kind \in {"network", "http", "parse", "middleware", "other"} :
           errors' = [errors EXCEPT !["total"] = @ + 1, ![kind] = @ + 1]
    BY <2>1, <2>3 DEF RecordError
  <2>5. /\ errors'["total"] = errors["total"] + 1 /\ errors'[kind] = errors[kind] + 1
        /\ \A c \in Counters : c # "total" /\ c # kind => errors'[c] = errors[c]
    BY <1>0, <1>3, <2>4
  <2>6. errors'["total"] = errors'["network"] + errors'["http"] + errors'["parse"]
                           + errors'["middleware"] + errors'["other"]
    BY <1>3, <1>4, <2>5
  <2>7. /\ errors'["retry"] = errors["retry"] /\ errors'["abort"] = errors["abort"]
        /\ errors'["skip"] = errors["skip"] /\ errors'["ignore"] = errors["ignore"]
    BY <1>3, <2>5
  <2>8. /\ stats'["error"] = errors'["total"] + (r - 1)
        /\ errors'["total"] = errors'["retry"] + errors'["abort"] + errors'["skip"]
                              + errors'["ignore"] + unhandled' + (d + 1)
    BY <1>0, <1>3, <1>4, <2>1, <2>5, <2>7
  <2> QED
    BY <2>2, <2>6, <2>8 DEF ErrorsAccounted
<1>8. ASSUME NEW a \in Actors, Decide(a) PROVE ErrorsAccounted'
  <2>1. PICK act \in Decisions(err[a]) :
           /\ Goes(a, "decide", IF act.kind = "retry" THEN "retry"
                                ELSE IF act.kind = "abort" /\ a = Main THEN "reap"
                                ELSE "settle")
           /\ IF act.kind = "fail"
              THEN unhandled' = unhandled + 1 /\ UNCHANGED errors
              ELSE errors' = RecordAction(errors, act) /\ UNCHANGED unhandled
    BY <1>8 DEF Decide
  <2>2. PICK to \in {"retry", "reap", "settle"} :
           pc[a] = "decide" /\ pc' = [pc EXCEPT ![a] = to] /\ stats' = stats
    BY <1>8, <2>1 DEF Decide, Goes
  <2>3. Stand("record")' = r /\ Stand("decide")' = d - 1
    BY <1>1, <1>2, <2>2, StandMoves
  <2>4. CASE act.kind = "fail"
    <3>1. errors' = errors /\ unhandled' = unhandled + 1
      BY <2>1, <2>4
    <3>2. errors["total"] = errors["retry"] + errors["abort"] + errors["skip"]
                            + errors["ignore"] + (unhandled + 1) + (d - 1)
      BY <1>0, <1>3, <1>4
    <3> QED
      BY <1>4, <2>2, <2>3, <3>1, <3>2 DEF ErrorsAccounted
  <2>5. CASE act.kind # "fail"
    <3>1. PICK kind \in {"retry", "abort", "skip", "ignore"} :
             errors' = [errors EXCEPT ![kind] = @ + 1] /\ unhandled' = unhandled
      BY <1>0, <2>1, <2>5, DecisionsType DEF RecordAction, ActionKinds, TypeOK
    <3>2. /\ errors'[kind] = errors[kind] + 1
          /\ \A c \in Counters : c # kind => errors'[c] = errors[c]
      BY <1>0, <1>3, <3>1
    <3>3. /\ errors'["total"] = errors["total"] /\ errors'["network"] = errors["network"]
          /\ errors'["http"] = errors["http"] /\ errors'["parse"] = errors["parse"]
          /\ errors'["middleware"] = errors["middleware"] /\ errors'["other"] = errors["other"]
      BY <1>3, <3>2
    <3>4. errors'["total"] = errors'["retry"] + errors'["abort"] + errors'["skip"]
                             + errors'["ignore"] + unhandled' + (d - 1)
      BY <1>0, <1>3, <1>4, <3>1, <3>2
    <3> QED
      BY <1>4, <2>2, <2>3, <3>3, <3>4 DEF ErrorsAccounted
  <2> QED
    BY <2>4, <2>5
<1> QED
  BY <1>5, <1>6, <1>7, <1>8, OthersAreFaultless

-----------------------------------------------------------------------------
(* The rate limiter *)

\* What was let through, counted from the last one, is at least as old as the
\* timestamp b places further on: that of the request after it.
Aligned(l, a, b) ==
    /\ Len(l) <= Len(a) + b
    /\ \A i \in 1 .. Len(l) :
          i + Len(a) - Len(l) + b \in 1 .. Len(a) => l[i] >= a[i + Len(a) - Len(l) + b]

Ordered(l) ==
    /\ \A i \in 1 .. Len(l) : l[i] < Window
    /\ \A i, j \in 1 .. Len(l) : i <= j => l[i] >= l[j]

\* A timestamp of now, behind the others.
LEMMA Appended ==
    ASSUME NEW s \in Seq(0 .. Window), Window \in Nat \ {0}
    PROVE  /\ Append(s, 0) \in Seq(0 .. Window) /\ Len(Append(s, 0)) = Len(s) + 1
           /\ \A i \in 1 .. Len(s) : Append(s, 0)[i] = s[i]
           /\ Append(s, 0)[Len(s) + 1] = 0
<1>1. 0 \in 0 .. Window
  OBVIOUS
<1> QED
  BY <1>1, AppendProperties

\* A call of the limiter leaves room for its own timestamp only, and the one
\* request too many that it lets through is younger than what it drops.
LEMMA Stamped ==
    ASSUME Window \in Nat \ {0}, Allowance \in Nat \ {0},
           NEW a \in Seq(0 .. Window), NEW l \in Seq(0 .. Window),
           Aligned(l, a, 1), Ordered(l),
           Len(a) <= Allowance + 1, Len(a) = Allowance + 1 => a[1] >= Window
    PROVE  LET young == Expired(a, Window)
           IN  /\ young \in Seq(0 .. Window) /\ Len(young) <= Allowance
               /\ Aligned(l, Append(young, 0), 0)
               /\ Len(young) > 0 => young[1] < Window
<1> DEFINE young == Expired(a, Window)
           d == Len(a) - Len(young)
<1>1. /\ young \in Seq(0 .. Window) /\ Len(young) \in Nat /\ d \in 0 .. Len(a)
      /\ \A i \in DOMAIN young : young[i] = a[i + d]
      /\ d > 0 => a[d] >= Window
      /\ young # <<>> => young[1] < Window
  BY ExpiredTail
<1>2. PICK y \in Seq(0 .. Window) : y = young
  BY <1>1
<1>3. PICK k \in Nat : k = Len(y) /\ DOMAIN y = 1 .. k /\ (k > 0 => y # <<>>)
  BY LenProperties
<1>4. PICK n \in Nat : n = Len(a) /\ \A i \in 1 .. n : a[i] \in 0 .. Window
  BY LenProperties, ElementOfSeq
<1>5. PICK p \in Nat : p = Len(l) /\ \A i \in 1 .. p : l[i] \in 0 .. Window
  BY LenProperties, ElementOfSeq
<1>6. PICK g \in Nat : g = n - k /\ g \in 0 .. n /\ g = d
  <2>1. d \in 0 .. n /\ d = n - k
    BY <1>1, <1>2, <1>3, <1>4
  <2> HIDE DEF d
  <2>2. d \in Nat
    BY <1>4, <2>1
  <2> QED
    BY <2>1, <2>2
<1>7. /\ \A i \in 1 .. k : y[i] = a[i + g]
      /\ g > 0 => a[g] >= Window
      /\ k > 0 => y[1] < Window
  BY <1>1, <1>2, <1>3, <1>4, <1>6
<1> HIDE DEF young, d
<1>8. k <= Allowance
  <2>1. n = Allowance + 1 => g > 0
    <3> SUFFICES ASSUME n = Allowance + 1, g = 0 PROVE FALSE
      BY <1>6
    <3>1. 1 \in 1 .. k
      BY <1>6
    <3>2. y[1] = a[1] /\ y[1] < Window /\ a[1] >= Window
      BY <1>4, <1>7, <3>1
    <3> QED
      BY <1>4, <3>2
  <2> QED
    BY <1>4, <1>6, <2>1
<1>9. /\ p <= n + 1
      /\ \A i \in 1 .. p : i + n - p + 1 \in 1 .. n => l[i] >= a[i + n - p + 1]
      /\ \A i \in 1 .. p : l[i] < Window
  BY <1>4, <1>5 DEF Aligned, Ordered
<1>10. p <= k + 1
  <2> SUFFICES ASSUME p >= k + 2 PROVE FALSE
    OBVIOUS
  <2>1. PICK i \in 1 .. p : i = p - k - 1
    BY <1>9
  <2>2. i + n - p + 1 = g /\ g \in 1 .. n
    BY <1>6, <1>9, <2>1
  <2>3. l[i] >= a[g] /\ a[g] >= Window /\ l[i] < Window
    BY <1>7, <1>9, <2>1, <2>2
  <2> QED
    BY <1>4, <1>5, <2>2, <2>3
<1>11. /\ Len(Append(y, 0)) = k + 1
       /\ \A i \in 1 .. k : Append(y, 0)[i] = y[i]
       /\ Append(y, 0)[k + 1] = 0
  BY <1>3, Appended
<1>12. ASSUME NEW i \in 1 .. Len(l),
              i + Len(Append(y, 0)) - Len(l) + 0 \in 1 .. Len(Append(y, 0))
       PROVE  l[i] >= Append(y, 0)[i + Len(Append(y, 0)) - Len(l) + 0]
  <2>0. i \in 1 .. p
    BY <1>5
  <2>1. PICK j \in 1 .. k + 1 : /\ j = i + (k + 1) - p + 0
                                /\ j = i + Len(Append(y, 0)) - Len(l) + 0
    BY <1>5, <1>11, <1>12
  <2>2. CASE j = k + 1
    <3>1. Append(y, 0)[j] = 0 /\ l[i] \in 0 .. Window
      BY <1>5, <1>11, <2>0, <2>2
    <3>2. \A x : x = 0 => l[i] >= x
      BY <3>1
    <3>3. l[i] >= Append(y, 0)[j]
      BY <3>1, <3>2, Zenon
    <3> QED
      BY <2>1, <3>3
  <2>3. CASE j # k + 1
    <3>1. j \in 1 .. k /\ j + g = i + n - p + 1 /\ j + g \in 1 .. n
      BY <1>6, <2>0, <2>1, <2>3
    <3>2. l[i] >= a[j + g]
      BY <1>9, <2>0, <3>1
    <3> QED
      BY <1>7, <1>11, <2>1, <3>1, <3>2
  <2> QED
    BY <2>2, <2>3
<1>13. Aligned(l, Append(y, 0), 0)
  <2>1. Len(l) <= Len(Append(y, 0)) + 0
    BY <1>5, <1>10, <1>11
  <2> QED
    BY <1>12, <2>1 DEF Aligned
<1> QED
  BY <1>2, <1>3, <1>7, <1>8, <1>13 DEF young

\* What is in the window and in order stays when a request is let through,
LEMMA KeptInWindow ==
    ASSUME Window \in Nat \ {0}, NEW l \in Seq(0 .. Window), Ordered(l)
    PROVE  Expired(Append(l, 0), Window) = Append(l, 0)
<1> DEFINE m == Append(l, 0)
           e == Expired(m, Window)
           d == Len(m) - Len(e)
<1>1. PICK p \in Nat : p = Len(l) /\ \A i \in 1 .. p : l[i] \in 0 .. Window
  BY LenProperties, ElementOfSeq
<1>2. /\ m \in Seq(0 .. Window) /\ Len(m) = p + 1 /\ DOMAIN m = 1 .. (p + 1)
      /\ \A i \in 1 .. p : m[i] = l[i]
      /\ m[p + 1] = 0
  BY <1>1, Appended, LenProperties
<1>3. \A i \in 1 .. (p + 1) : m[i] < Window
  BY <1>1, <1>2 DEF Ordered
<1> HIDE DEF m
<1>4. {i \in DOMAIN m : \A j \in 1 .. i : m[j] >= Window} = {}
  <2> SUFFICES ASSUME NEW i \in 1 .. (p + 1), \A j \in 1 .. i : m[j] >= Window
               PROVE  FALSE
    BY <1>2
  <2>1. 1 \in 1 .. i /\ 1 \in 1 .. (p + 1)
    OBVIOUS
  <2>2. m[1] >= Window /\ m[1] < Window /\ m[1] \in 0 .. Window
    BY <1>2, <1>3, <2>1, ElementOfSeq
  <2> QED
    BY <2>2
<1>5. Expired(m, Window) = SubSeq(m, 0 + 1, Len(m))
  BY <1>4, FS_EmptySet, Zenon DEF Expired
<1>6. SubSeq(m, 0 + 1, Len(m)) = m
  BY <1>2
<1> QED
  BY <1>5, <1>6 DEF m

\* and a window of no length holds nothing.
LEMMA NothingInNoWindow ==
    ASSUME Window = 0, NEW s \in Seq(0 .. Window) PROVE Expired(s, Window) = <<>>
<1>1. PICK e \in Seq(0 .. Window) : e = Expired(s, Window) /\ (e # <<>> => e[1] < Window)
  BY ExpiredTail
<1>2. SUFFICES ASSUME e # <<>> PROVE FALSE
  BY <1>1
<1>3. 1 \in 1 .. Len(e)
  BY <1>1, <1>2, EmptySeq, LenProperties
<1>4. e[1] \in 0 .. Window
  BY <1>1, <1>3, ElementOfSeq
<1> QED
  BY <1>1, <1>2, <1>4

\* Who is let through comes after everyone who was, and has been stamped.
LEMMA LetOneThrough ==
    ASSUME Window \in Nat \ {0}, NEW a \in Seq(0 .. Window), NEW l \in Seq(0 .. Window),
           Aligned(l, a, 0), Ordered(l)
    PROVE  Aligned(Append(l, 0), a, 1) /\ Ordered(Append(l, 0))
<1>1. PICK n \in Nat : n = Len(a) /\ \A i \in 1 .. n : a[i] \in 0 .. Window
  OBVIOUS
<1>2. PICK p \in Nat : p = Len(l) /\ \A i \in 1 .. p : l[i] \in 0 .. Window
  OBVIOUS
<1>3. PICK m \in Seq(0 .. Window) :
         /\ m = Append(l, 0) /\ Len(m) = p + 1
         /\ \A i \in 1 .. p : m[i] = l[i]
         /\ m[p + 1] = 0
  BY <1>2, Appended
<1>4. /\ p <= n + 0
      /\ \A i \in 1 .. p : i + n - p + 0 \in 1 .. n => l[i] >= a[i + n - p + 0]
      /\ \A i \in 1 .. p : l[i] < Window
      /\ \A i, j \in 1 .. p : i <= j => l[i] >= l[j]
  BY <1>1, <1>2 DEF Aligned, Ordered
<1>5. ASSUME NEW i \in 1 .. Len(m), i + Len(a) - Len(m) + 1 \in 1 .. Len(a)
      PROVE  m[i] >= a[i + Len(a) - Len(m) + 1]
  <2>1. PICK j \in 1 .. n : j = i + Len(a) - Len(m) + 1
    BY <1>1, <1>5
  <2>2. j = i + n - p + 0 /\ i \in 1 .. p
    BY <1>1, <1>3, <2>1
  <2>3. l[i] >= a[j]
    BY <1>4, <2>2
  <2> QED
    BY <1>3, <2>1, <2>2, <2>3
<1>6. Aligned(m, a, 1)
  <2>1. Len(m) <= Len(a) + 1
    BY <1>1, <1>3, <1>4
  <2> QED
    BY <1>5, <2>1 DEF Aligned
<1>7. Ordered(m)
  <2>1. \A i \in 1 .. p + 1 : m[i] < Window
    BY <1>3, <1>4
  <2>2. ASSUME NEW i \in 1 .. p + 1, NEW j \in 1 .. p + 1, i <= j PROVE m[i] >= m[j]
    BY <1>2, <1>3, <1>4, <2>2
  <2> QED
    BY <1>3, <2>1, <2>2 DEF Ordered
<1> QED
  BY <1>3, <1>6, <1>7

\* A second more for every timestamp.
LEMMA AgedEach ==
    ASSUME Window \in Nat, NEW s \in Seq(0 .. Window)
    PROVE  /\ Aged(s) \in Seq(0 .. Window) /\ Len(Aged(s)) = Len(s)
           /\ \A i \in 1 .. Len(s) :
                 Aged(s)[i] = IF s[i] < Window THEN s[i] + 1 ELSE Window
<1>1. PICK n \in Nat : n = Len(s) /\ DOMAIN s = 1 .. n
  BY LenProperties
<1>2. Aged(s) \in Seq(0 .. Window)
  BY DEF Aged
<1>3. DOMAIN Aged(s) = 1 .. n
  BY <1>1 DEF Aged
<1>4. Len(Aged(s)) = n
  BY <1>1, <1>2, <1>3, LenProperties
<1> QED
  BY <1>1, <1>2, <1>4 DEF Aged

\* A second more keeps who is older, and forgets what has left the window.
LEMMA AgedAlike ==
    ASSUME Window \in Nat \ {0}, NEW b \in {0, 1},
           NEW a \in Seq(0 .. Window), NEW l \in Seq(0 .. Window),
           Aligned(l, a, b), Ordered(l)
    PROVE  /\ Aligned(Expired(Aged(l), Window), Aged(a), b)
           /\ Ordered(Expired(Aged(l), Window))
<1> DEFINE older(x) == IF x < Window THEN x + 1 ELSE Window
<1>1. PICK n \in Nat : n = Len(a) /\ \A i \in 1 .. n : a[i] \in 0 .. Window
  OBVIOUS
<1>2. PICK p \in Nat : p = Len(l) /\ \A i \in 1 .. p : l[i] \in 0 .. Window
  OBVIOUS
<1>3. PICK aa \in Seq(0 .. Window) :
         aa = Aged(a) /\ Len(aa) = n /\ \A i \in 1 .. n : aa[i] = older(a[i])
  BY <1>1, AgedEach
<1>4. PICK al \in Seq(0 .. Window) :
         al = Aged(l) /\ Len(al) = p /\ \A i \in 1 .. p : al[i] = older(l[i])
  BY <1>2, AgedEach
<1>5. PICK e \in Seq(0 .. Window) : e = Expired(al, Window)
  BY ExpiredTail
<1>6. PICK g \in Nat : /\ g <= p /\ Len(e) = p - g /\ DOMAIN e = 1 .. (p - g)
                       /\ \A i \in 1 .. (p - g) : e[i] = al[i + g]
                       /\ e # <<>> => e[1] < Window
  <2>1. PICK h \in Nat : h = Len(e) /\ DOMAIN e = 1 .. h
    BY LenProperties
  <2>2. /\ Len(al) - Len(e) \in 0 .. Len(al)
        /\ \A i \in DOMAIN e : e[i] = al[i + (Len(al) - Len(e))]
        /\ e # <<>> => e[1] < Window
    BY <1>5, ExpiredTail
  <2>3. PICK g \in Nat : g = p - h /\ g = Len(al) - Len(e) /\ g <= p
    <3>1. /\ p - h = Len(al) - Len(e) /\ p - h \in 0 .. p /\ p - h \in Nat
          /\ p - h <= p
      BY <1>4, <2>1, <2>2
    <3> QED
      BY <3>1
  <2>4. p - g = h
    BY <2>3
  <2> QED
    BY <2>1, <2>2, <2>3, <2>4
<1>7. \A i \in 1 .. (p - g) : i + g \in 1 .. p /\ e[i] = older(l[i + g])
  BY <1>4, <1>6
<1>8. /\ p <= n + b
      /\ \A i \in 1 .. p : i + n - p + b \in 1 .. n => l[i] >= a[i + n - p + b]
      /\ \A i, j \in 1 .. p : i <= j => l[i] >= l[j]
  BY <1>1, <1>2 DEF Aligned, Ordered
<1>9. \A x, y \in 0 .. Window : x >= y => older(x) >= older(y)
  OBVIOUS
<1> HIDE DEF older
<1>10. ASSUME NEW i \in 1 .. Len(e), i + Len(aa) - Len(e) + b \in 1 .. Len(aa)
       PROVE  e[i] >= aa[i + Len(aa) - Len(e) + b]
  <2>0. i \in 1 .. (p - g)
    BY <1>6
  <2>1. PICK j \in 1 .. n : j = i + n - (p - g) + b /\ j = i + Len(aa) - Len(e) + b
    BY <1>3, <1>6, <1>10
  <2>2. (i + g) + n - p + b = j /\ i + g \in 1 .. p
    BY <1>7, <2>0, <2>1
  <2>3. l[i + g] >= a[j]
    BY <1>8, <2>2
  <2> QED
    BY <1>1, <1>2, <1>3, <1>7, <1>9, <2>0, <2>1, <2>2, <2>3
<1>11. Aligned(e, aa, b)
  <2>1. Len(e) <= Len(aa) + b
    BY <1>3, <1>6, <1>8
  <2> QED
    BY <1>10, <2>1 DEF Aligned
<1>12. ASSUME NEW i \in 1 .. (p - g), NEW j \in 1 .. (p - g), i <= j PROVE e[i] >= e[j]
  <2>1. i + g <= j + g /\ i + g \in 1 .. p /\ j + g \in 1 .. p
    BY <1>7, <1>12
  <2>2. l[i + g] >= l[j + g]
    BY <1>8, <2>1
  <2> QED
    BY <1>2, <1>7, <1>9, <2>1, <2>2
<1>13. ASSUME NEW i \in 1 .. (p - g) PROVE e[i] < Window
  <2>1. 1 \in 1 .. (p - g) /\ 1 <= i /\ e # <<>>
    BY <1>6
  <2>2. e[1] >= e[i] /\ e[1] < Window
    BY <1>6, <1>12, <2>1
  <2>3. e[1] \in 0 .. Window /\ e[i] \in 0 .. Window
    BY <1>6, <2>1
  <2> QED
    BY <2>2, <2>3
<1>14. Ordered(e)
  BY <1>6, <1>12, <1>13 DEF Ordered
<1> QED
  BY <1>3, <1>4, <1>5, <1>11, <1>14

\* The three parts of the invariant are about the sequences alone.
LEMMA LimiterParts ==
    ASSUME TypeOK
    PROVE  /\ LetBeforeStamped <=> Aligned(let, ages, Behind)
           /\ LetInOrder <=> Ordered(let)
           /\ ages \in Seq(0 .. Window) /\ let \in Seq(0 .. Window)
           /\ Window \in Nat /\ MaxRequests \in Nat /\ Allowance \in Nat \ {0}
           /\ Behind \in {0, 1} /\ sleep \in [Actors -> Nat]
<1>1. DOMAIN ages = 1 .. Len(ages) /\ DOMAIN let = 1 .. Len(let)
  BY LenProperties DEF TypeOK
<1>2. LetBeforeStamped <=> Aligned(let, ages, Behind)
  BY <1>1, Zenon DEF LetBeforeStamped, Aligned
<1>3. LetInOrder <=> Ordered(let)
  BY <1>1 DEF LetInOrder, Ordered
<1> QED
  BY <1>2, <1>3, FetchAssumption DEF TypeOK, Behind, FetchConstants, Allowance

\* A step that the limiter has no part in.
Unlimited ==
    /\ UNCHANGED limitVars /\ Held' = Held
    /\ Held => sleep'[Main] = sleep[Main]

\* Only the limiter and the clock touch the timestamps.
LEMMA OthersAreUnlimited ==
    ASSUME TypeOK, CurrentHeld, Placed, [Next]_vars
    PROVE  Limited \/ LetThrough \/ Tick \/ Unlimited
<1> USE DEF limitVars, Held
<1>0. /\ Main \in Actors /\ Requests \subseteq Actors /\ Main \notin Requests
      /\ pc \in [Actors -> MainStates \cup TaskStates]
      /\ sleep \in [Actors -> Nat]
  BY FetchAssumption DEF Actors, FetchConstants, TypeOK
<1>1. ASSUME UNCHANGED <<limitVars, pc, sleep>> PROVE Unlimited
  BY <1>1 DEF Unlimited
<1>2. ASSUME NEW a \in Actors, NEW from, NEW to, Goes(a, from, to),
             from # "held", to # "held", UNCHANGED <<limitVars, sleep>>
      PROVE  Unlimited
  BY <1>0, <1>2 DEF Unlimited, Goes
<1>3. ASSUME NEW a \in Actors, ChainStep(a) \/ ErrorStep(a) PROVE Unlimited
  <2>1. CASE Accepted(a)
    BY <1>1, <2>1 DEF Accepted
  <2>2. CASE Rejected(a)
    BY <1>2, <2>2 DEF Rejected
  <2>3. CASE CountError(a)
    BY <1>2, <2>3 DEF CountError
  <2>4. CASE Record(a)
    BY <1>2, <2>4 DEF Record
  <2>5. CASE Decide(a)
    <3>1. PICK to, n : /\ to \in {"retry", "settle", "reap"}
                       /\ Goes(a, "decide", to) /\ Sleeps(a, n) /\ UNCHANGED limitVars
      BY <2>5 DEF Decide
    <3> QED
      BY <1>0, <3>1 DEF Unlimited, Goes, Sleeps
  <2>6. CASE Requeue(a)
    BY <1>2, <2>6 DEF Requeue
  <2>7. CASE Settle(a)
    <3>1. Goes(a, "settle", IF a = Main THEN "next" ELSE "done")
          /\ UNCHANGED <<limitVars, sleep>>
      BY <2>7 DEF Settle
    <3> QED
      BY <1>2, <3>1
  <2> QED
    BY <1>3, <2>1, <2>2, <2>3, <2>4, <2>5, <2>6, <2>7 DEF ChainStep, ErrorStep
<1>4. CASE UNCHANGED vars
  BY <1>1, <1>4 DEF vars
<1>5. CASE MainStep
  <2>1. CASE TakeRequest
    BY <1>0, <1>2, <2>1 DEF TakeRequest
  <2>2. CASE Delayed
    BY <1>0, <2>2 DEF Delayed, Calls, AtMiddleware, Sleeps, Unlimited
  <2>3. CASE SpawnTask
    <3>1. pc[Main] = "chain" /\ current \in Requests /\ UNCHANGED <<limitVars, sleep>>
      BY <2>3 DEF SpawnTask, EndOfChain, CurrentHeld
    <3>2. pc' = [pc EXCEPT ![Main] = "next", ![current] = "permit"]
      BY <2>3 DEF SpawnTask
    <3>3. pc'[Main] = "next"
      BY <1>0, <3>1, <3>2
    <3> QED
      BY <3>1, <3>3 DEF Unlimited
  <2>4. CASE LeaveLoop
    BY <1>0, <1>2, <2>4 DEF LeaveLoop
  <2> QED
    BY <1>0, <1>3, <1>5, <2>1, <2>2, <2>3, <2>4 DEF MainStep
<1>6. ASSUME NEW r \in Requests, TaskStep(r) PROVE Unlimited
  <2>0. r \in Actors
    BY <1>0
  <2>1. CASE Acquire(r) \/ Downloaded(r) \/ DownloadFails(r)
    BY <2>0, <1>2, <2>1 DEF Acquire, Downloaded, DownloadFails, Release
  <2>2. CASE CountResponse(r)
    BY <2>0, <1>2, <2>2 DEF CountResponse
  <2>3. CASE Retried(r)
    BY <1>0, <2>3 DEF Retried, Sleeps, Unlimited
  <2>4. CASE EndReply(r)
    <3>1. PICK to \in {"again", "reply"} : Goes(r, "chain", to)
      BY <2>4 DEF EndReply
    <3> QED
      BY <2>0, <1>2, <2>4, <3>1 DEF EndReply
  <2>5. CASE EnqueueAgain(r)
    BY <2>0, <1>2, <2>5 DEF EnqueueAgain
  <2>6. CASE Parsed(r)
    <3>1. PICK to \in {"done", "rejected"} : Goes(r, "reply", to)
      BY <2>6 DEF Parsed
    <3> QED
      BY <2>0, <1>2, <2>6, <3>1 DEF Parsed
  <2> QED
    BY <2>0, <1>3, <1>6, <2>1, <2>2, <2>3, <2>4, <2>5, <2>6 DEF TaskStep
<1> QED
  BY <1>4, <1>5, <1>6 DEF Next, MainStep

\* What a call of the limiter waits, with a maximum of 0 as with one of 1.
LEMMA WaitsTheRest ==
    ASSUME Window \in Nat, MaxRequests \in Nat,
           NEW s \in Seq(0 .. Window), NEW k \in Nat, k = Len(s)
    PROVE  /\ k >= Allowance => s # <<>> /\ LimitWait(s, MaxRequests, Window) = Window - s[1]
           /\ k < Allowance => LimitWait(s, MaxRequests, Window) = 0
<1>1. k > 0 <=> s # <<>>
  BY EmptySeq
<1> QED
  BY <1>1 DEF LimitWait, Allowance

\* The limiter keeps its timestamps and what it lets through in step, in a window
\* of some length,
LEMMA WindowStep ==
    ASSUME TypeOK, TypeOK', CurrentHeld, Placed, Window # 0,
           LimiterFull, LetBeforeStamped, LetInOrder, [Next]_vars
    PROVE  LimiterFull' /\ LetBeforeStamped' /\ LetInOrder'
<1>0. /\ Main \in Actors /\ pc \in [Actors -> MainStates \cup TaskStates]
  BY DEF Actors, TypeOK
<1>1. /\ Aligned(let, ages, Behind) /\ Ordered(let)
      /\ ages \in Seq(0 .. Window) /\ let \in Seq(0 .. Window)
      /\ Window \in Nat \ {0} /\ MaxRequests \in Nat /\ Allowance \in Nat \ {0}
      /\ Behind \in {0, 1} /\ sleep \in [Actors -> Nat]
  BY LimiterParts
<1>a. LetsThrough => let' = Append(let, 0)
  BY <1>1, KeptInWindow DEF LetsThrough
<1>2. /\ LetBeforeStamped' <=> Aligned(let', ages', Behind')
      /\ LetInOrder' <=> Ordered(let')
  <2>1. DOMAIN ages' = 1 .. Len(ages') /\ DOMAIN let' = 1 .. Len(let')
    BY LenProperties DEF TypeOK
  <2>2. LetBeforeStamped' <=> Aligned(let', ages', Behind')
    BY <2>1, Zenon DEF LetBeforeStamped, Aligned
  <2> QED
    BY <2>1, <2>2 DEF LetInOrder, Ordered
<1>3. PICK n \in Nat : n = Len(ages) /\ \A i \in 1 .. n : ages[i] \in 0 .. Window
  BY <1>1, LenProperties, ElementOfSeq
<1>4. CASE Unlimited
  <2>1. ages' = ages /\ let' = let /\ Behind' = Behind
    BY <1>4 DEF Unlimited, limitVars, Behind
  <2>2. LimiterFull'
    BY <1>4, <2>1 DEF LimiterFull, Unlimited
  <2> QED
    BY <1>1, <1>2, <2>1, <2>2
<1>5. CASE Limited
  <2>1. PICK young \in Seq(0 .. Window) : young = Expired(ages, Window)
    BY <1>1, ExpiredTail
  <2>2. /\ ~Held
        /\ ages' = Append(young, 0)
        /\ \/ /\ LimitWait(young, MaxRequests, Window) = 0
              /\ let' = Append(let, 0) /\ pc' = pc
           \/ /\ pc' = [pc EXCEPT ![Main] = "held"] /\ let' = let
              /\ sleep' = [sleep EXCEPT ![Main] = LimitWait(young, MaxRequests, Window)]
    BY <1>a, <1>5, <2>1 DEF Limited, Calls, AtMiddleware, Held, Goes, Sleeps
  <2>3. /\ Len(young) <= Allowance
        /\ Aligned(let, Append(young, 0), 0)
        /\ Len(young) > 0 => young[1] < Window
    <3>1. Behind = 1 /\ Len(ages) <= Allowance + 1
          /\ (Len(ages) = Allowance + 1 => ages[1] >= Window)
      BY <2>2 DEF Behind, LimiterFull
    <3> QED
      BY <1>1, <2>1, <3>1, Stamped
  <2>4. PICK k \in Nat : k = Len(young) /\ (k > 0 => young[1] \in 0 .. Window)
    <3>1. Len(young) \in Nat
      BY LenProperties
    <3>2. Len(young) > 0 => 1 \in 1 .. Len(young)
      BY <3>1
    <3> QED
      BY <3>1, <3>2, ElementOfSeq
  <2>5. Append(young, 0) \in Seq(0 .. Window) /\ Len(ages') = k + 1
        /\ (k > 0 => ages'[1] = young[1])
    BY <1>1, <2>2, <2>4, Appended
  <2>6. /\ k = Allowance => LimitWait(young, MaxRequests, Window) = Window - young[1]
        /\ k < Allowance => LimitWait(young, MaxRequests, Window) = 0
    BY <1>1, <2>4, WaitsTheRest
  <2>7. CASE Len(young) = Allowance
    <3>1. /\ LimitWait(young, MaxRequests, Window) = Window - young[1]
          /\ young[1] \in 0 .. Window /\ young[1] < Window
      BY <1>1, <2>3, <2>4, <2>6, <2>7
    <3>2. /\ pc' = [pc EXCEPT ![Main] = "held"] /\ let' = let
          /\ sleep' = [sleep EXCEPT ![Main] = Window - young[1]]
      BY <1>1, <2>2, <3>1
    <3>3. Held' /\ Behind' = 0
      BY <1>0, <3>2 DEF Held, Behind
    <3>4. sleep'[Main] = Window - young[1] /\ ages'[1] = young[1]
      BY <1>0, <1>1, <2>4, <2>5, <2>7, <3>2
    <3>5. LimiterFull'
      BY <1>1, <2>4, <2>5, <2>7, <3>1, <3>3, <3>4 DEF LimiterFull
    <3> QED
      BY <1>1, <1>2, <2>2, <2>3, <3>2, <3>3, <3>5
  <2>8. CASE Len(young) # Allowance
    <3>1. k < Allowance
      BY <1>1, <2>3, <2>4, <2>8
    <3>2. LimitWait(young, MaxRequests, Window) = 0
      BY <2>6, <3>1
    <3>3. LimiterFull'
      BY <1>1, <2>5, <3>1 DEF LimiterFull
    <3>4. CASE pc' = pc /\ let' = Append(let, 0)
      <4>1. Behind' = 1
        BY <2>2, <3>4 DEF Behind, Held
      <4> QED
        BY <1>1, <1>2, <2>2, <2>3, <2>5, <3>3, <3>4, <4>1, LetOneThrough
    <3>5. CASE pc' = [pc EXCEPT ![Main] = "held"] /\ let' = let
      <4>1. Behind' = 0
        BY <1>0, <3>5 DEF Behind, Held
      <4> QED
        BY <1>1, <1>2, <2>2, <2>3, <3>3, <3>5, <4>1
    <3> QED
      BY <2>2, <3>4, <3>5
  <2> QED
    BY <2>7, <2>8
<1>6. CASE LetThrough
  <2>1. /\ Held /\ sleep[Main] = 0 /\ ages' = ages /\ let' = Append(let, 0)
        /\ pc' = [pc EXCEPT ![Main] = "chain"]
    BY <1>a, <1>6 DEF LetThrough, Held, Goes
  <2>2. Behind = 0 /\ Behind' = 1
    BY <1>0, <2>1 DEF Behind, Held
  <2>3. Aligned(let', ages', 1) /\ Ordered(let')
    BY <1>1, <2>1, <2>2, LetOneThrough
  <2>4. LimiterFull'
    <3>1. n <= Allowance + 1 /\ (n = Allowance + 1 => ages[1] >= Window)
      BY <1>1, <1>3, <2>1 DEF LimiterFull
    <3> QED
      BY <1>3, <2>1, <3>1 DEF LimiterFull
  <2> QED
    BY <1>2, <2>2, <2>3, <2>4
<1>7. CASE Tick
  <2>1. /\ ages' = Aged(ages) /\ let' = Expired(Aged(let), Window) /\ pc' = pc
        /\ sleep' = [a \in Actors |-> IF sleep[a] > 0 THEN sleep[a] - 1 ELSE 0]
    BY <1>7 DEF Tick
  <2>2. Behind' = Behind /\ Held' = Held
    BY <2>1 DEF Behind, Held
  <2>3. Aligned(let', ages', Behind) /\ Ordered(let')
    BY <1>1, <2>1, AgedAlike
  <2>4. /\ Len(ages') = n
        /\ \A i \in 1 .. n : ages'[i] = IF ages[i] < Window THEN ages[i] + 1 ELSE Window
    BY <1>1, <1>3, <2>1, AgedEach
  <2>5. PICK z \in Nat : z = sleep[Main] /\ sleep'[Main] = IF z > 0 THEN z - 1 ELSE 0
    BY <1>0, <1>1, <2>1
  <2>6. LimiterFull'
    <3>1. n <= Allowance + 1
          /\ (n = Allowance + 1 => ages[1] >= Window \/ (Held /\ z + ages[1] >= Window))
      BY <1>3, <2>5 DEF LimiterFull
    <3>2. n = Allowance + 1 => ages'[1] >= Window \/ (Held' /\ sleep'[Main] + ages'[1] >= Window)
      BY <1>1, <1>3, <2>2, <2>4, <2>5, <3>1
    <3> QED
      BY <2>4, <3>1, <3>2 DEF LimiterFull
  <2> QED
    BY <1>2, <2>2, <2>3, <2>6
<1> QED
  BY <1>4, <1>5, <1>6, <1>7, OthersAreUnlimited

\* and in one of no length, which never holds a request.
LEMMA NoWindowStep ==
    ASSUME TypeOK, TypeOK', CurrentHeld, Placed, Window = 0,
           LimiterFull, LetBeforeStamped, LetInOrder, [Next]_vars
    PROVE  LimiterFull' /\ LetBeforeStamped' /\ LetInOrder'
<1>1. /\ ages \in Seq(0 .. Window) /\ let \in Seq(0 .. Window)
      /\ ages' \in Seq(0 .. Window) /\ Window \in Nat
      /\ Allowance \in Nat \ {0} /\ Len(ages) \in Nat /\ Len(ages') \in Nat
  BY LimiterParts, LenProperties DEF TypeOK
<1>2. let = <<>>
  <2>1. SUFFICES ASSUME let # <<>> PROVE FALSE
    OBVIOUS
  <2>2. 1 \in DOMAIN let
    BY <1>1, <2>1
  <2>3. let[1] < Window /\ let[1] \in 0 .. Window
    BY <1>1, <2>2, ElementOfSeq DEF LetInOrder
  <2> QED
    BY <1>1, <2>3
<1>3. let' = <<>>
  <2>1. Append(let, 0) \in Seq(0 .. Window)
    BY <1>1
  <2>2. LetsThrough => let' = <<>>
    BY <2>1, NothingInNoWindow DEF LetsThrough
  <2>3. Tick => let' = <<>>
    <3>1. Aged(let) \in Seq(0 .. Window)
      BY <1>1, AgedEach
    <3> QED
      BY <3>1, NothingInNoWindow DEF Tick
  <2> QED
    BY <1>2, <2>2, <2>3, OthersAreUnlimited DEF Limited, LetThrough, Unlimited, limitVars
<1>4. LetBeforeStamped' /\ LetInOrder'
  <2>1. Len(let') = 0 /\ DOMAIN let' = {}
    BY <1>3
  <2>2. Behind' \in {0, 1}
    BY DEF Behind
  <2> QED
    BY <1>1, <2>1, <2>2 DEF LetBeforeStamped, LetInOrder
<1>5. Len(ages') <= Allowance + 1
  <2>1. Limited => Len(ages') = 1
    <3>1. Expired(ages, Window) = <<>>
      BY <1>1, NothingInNoWindow
    <3> QED
      BY <3>1 DEF Limited
  <2>2. Tick => Len(ages') = Len(ages)
    BY <1>1, AgedEach DEF Tick
  <2>3. Len(ages) <= Allowance + 1
    BY DEF LimiterFull
  <2>4. LetThrough \/ Unlimited => Len(ages') = Len(ages)
    BY DEF LetThrough, Unlimited, limitVars
  <2>5. Len(ages') = 1 \/ Len(ages') = Len(ages)
    BY <2>1, <2>2, <2>4, OthersAreUnlimited
  <2> QED
    BY <1>1, <2>3, <2>5
<1>6. Len(ages') = Allowance + 1 => ages'[1] >= Window
  <2>1. Len(ages') = Allowance + 1 => 1 \in 1 .. Len(ages')
    BY <1>1
  <2> QED
    BY <1>1, <2>1, ElementOfSeq
<1> QED
  BY <1>4, <1>5, <1>6 DEF LimiterFull

LEMMA LimiterStep ==
    TypeOK /\ TypeOK' /\ CurrentHeld /\ Placed
    /\ LimiterFull /\ LetBeforeStamped /\ LetInOrder /\ [Next]_vars
        => LimiterFull' /\ LetBeforeStamped' /\ LetInOrder'
  BY WindowStep, NoWindowStep

-----------------------------------------------------------------------------
(* The guard of the statistics, and who waits for whom *)

Branch == {"record", "decide", "retry", "settle"}

\* What a step may do: move one actor, whose guard is its own affair.
LEMMA GuardMoves ==
    ASSUME TypeOK, GuardInPlace, NEW a \in Actors, NEW s,
           pc' = [pc EXCEPT ![a] = s], guard' \subseteq guard \cup {a},
           a \in guard' => s \in Branch, a # Main => s \in TaskStates
    PROVE  GuardInPlace'
<1>1. /\ pc \in [Actors -> MainStates \cup TaskStates] /\ guard \subseteq Actors
      /\ Requests \subseteq Actors /\ Main \notin Requests
  BY FetchAssumption DEF TypeOK, Actors, FetchConstants
<1>2. \A b \in guard' : pc'[b] \in Branch
  BY <1>1 DEF GuardInPlace, Branch
<1>3. \A r \in Requests : pc'[r] \in TaskStates
  BY <1>1 DEF GuardInPlace
<1> QED
  BY <1>2, <1>3 DEF GuardInPlace, Branch

\* The steps of an error branch, whoever is in it.
LEMMA GuardErrors ==
    ASSUME TypeOK, GuardInPlace, NEW a \in Actors, ErrorStep(a)
    PROVE  GuardInPlace'
<1>1. ASSUME CountError(a) PROVE GuardInPlace'
  <2>1. pc' = [pc EXCEPT ![a] = "record"] /\ guard' \subseteq guard \cup {a}
    BY <1>1 DEF CountError, Goes
  <2> QED
    BY <2>1, GuardMoves DEF Branch, TaskStates
<1>2. ASSUME Record(a) PROVE GuardInPlace'
  <2>1. pc' = [pc EXCEPT ![a] = "decide"] /\ guard' = guard
    BY <1>2 DEF Record, Goes, statVars
  <2> QED
    BY <2>1, GuardMoves DEF Branch, TaskStates
<1>3. ASSUME Decide(a) PROVE GuardInPlace'
  <2>1. PICK act \in Decisions(err[a]) :
          /\ pc' = [pc EXCEPT ![a] = IF act.kind = "retry" THEN "retry"
                               ELSE IF act.kind = "abort" /\ a = Main THEN "reap"
                               ELSE "settle"]
          /\ guard' = IF act.kind = "abort" /\ a = Main THEN guard \ {a} ELSE guard
    BY <1>3 DEF Decide, Goes
  <2>2. CASE act.kind = "retry"
    <3>1. pc' = [pc EXCEPT ![a] = "retry"] /\ guard' = guard
      BY <2>1, <2>2
    <3> QED
      BY <3>1, GuardMoves DEF Branch, TaskStates
  <2>3. CASE act.kind = "abort" /\ a = Main
    <3>1. pc' = [pc EXCEPT ![a] = "reap"] /\ guard' = guard \ {a}
      BY <2>1, <2>3
    <3> QED
      BY <2>3, <3>1, GuardMoves
  <2>4. CASE act.kind # "retry" /\ ~(act.kind = "abort" /\ a = Main)
    <3>1. pc' = [pc EXCEPT ![a] = "settle"] /\ guard' = guard
      BY <2>1, <2>4, Zenon
    <3> QED
      BY <3>1, GuardMoves DEF Branch, TaskStates
  <2> QED
    BY <2>2, <2>3, <2>4
<1>4. ASSUME Requeue(a) PROVE GuardInPlace'
  <2>1. pc' = [pc EXCEPT ![a] = "settle"] /\ guard' = guard
    BY <1>4 DEF Requeue, Goes, statVars
  <2> QED
    BY <2>1, GuardMoves DEF Branch, TaskStates
<1>5. ASSUME Settle(a) PROVE GuardInPlace'
  <2>1. pc' = [pc EXCEPT ![a] = IF a = Main THEN "next" ELSE "done"] /\ guard' = guard \ {a}
    BY <1>5 DEF Settle, Goes
  <2> QED
    BY <2>1, GuardMoves DEF Branch, TaskStates
<1> QED
  BY <1>1, <1>2, <1>3, <1>4, <1>5 DEF ErrorStep

LEMMA GuardStep ==
    TypeOK /\ CurrentHeld /\ Placed /\ GuardInPlace /\ [Next]_vars => GuardInPlace'
<1> SUFFICES ASSUME TypeOK, CurrentHeld, Placed, GuardInPlace, [Next]_vars
             PROVE  GuardInPlace'
  OBVIOUS
<1>0. /\ Main \in Actors /\ Requests \subseteq Actors /\ Main \notin Requests
      /\ pc \in [Actors -> MainStates \cup TaskStates] /\ guard \subseteq Actors
  BY FetchAssumption DEF Actors, FetchConstants, TypeOK
<1>1. ASSUME pc' = pc, guard' = guard PROVE GuardInPlace'
  BY <1>1 DEF GuardInPlace
<1>2. ASSUME NEW a \in Actors, NEW s, pc[a] \notin Branch,
             pc' = [pc EXCEPT ![a] = s], guard' = guard, a = Main \/ s \in TaskStates
      PROVE  GuardInPlace'
  <2>1. a \notin guard
    BY <1>2 DEF GuardInPlace, Branch
  <2> QED
    BY <1>2, <2>1, GuardMoves
<1>3. ASSUME NEW a \in Actors, ChainStep(a) PROVE GuardInPlace'
  <2>1. CASE Accepted(a)
    BY <1>1, <2>1 DEF Accepted, Advances, statVars
  <2>2. CASE Rejected(a)
    <3>1. pc[a] = "chain" /\ pc' = [pc EXCEPT ![a] = "rejected"] /\ guard' = guard
      BY <2>2 DEF Rejected, Goes, statVars
    <3> QED
      BY <1>2, <3>1 DEF Branch, TaskStates
  <2> QED
    BY <1>3, <2>1, <2>2 DEF ChainStep
<1>4. CASE MainStep
  <2>1. CASE TakeRequest
    <3>1. pc[Main] = "next" /\ pc' = [pc EXCEPT ![Main] = "chain"] /\ guard' = guard
      BY <2>1 DEF TakeRequest, Goes, statVars
    <3> QED
      BY <1>0, <1>2, <3>1 DEF Branch
  <2>2. CASE Delayed
    BY <1>1, <2>2 DEF Delayed, Advances, statVars
  <2>3. CASE Limited
    <3>1. /\ pc[Main] = "chain" /\ guard' = guard
          /\ pc' = pc \/ pc' = [pc EXCEPT ![Main] = "held"]
      BY <2>3 DEF Limited, Calls, AtMiddleware, Advances, Goes, statVars
    <3> QED
      BY <1>0, <1>1, <1>2, <3>1 DEF Branch
  <2>4. CASE LetThrough
    <3>1. pc[Main] = "held" /\ pc' = [pc EXCEPT ![Main] = "chain"] /\ guard' = guard
      BY <2>4 DEF LetThrough, Goes, statVars
    <3> QED
      BY <1>0, <1>2, <3>1 DEF Branch
  <2>5. CASE SpawnTask
    <3>1. /\ current \in Requests /\ guard = {} /\ guard' = guard
          /\ pc' = [pc EXCEPT ![Main] = "next", ![current] = "permit"]
      BY <2>5 DEF SpawnTask, EndOfChain, CurrentHeld, Counts
    <3>2. \A r \in Requests : pc'[r] = "permit" \/ pc'[r] = pc[r]
      BY <1>0, <3>1
    <3> QED
      BY <3>1, <3>2 DEF GuardInPlace, TaskStates
  <2>6. CASE LeaveLoop
    <3>1. pc[Main] \in {"next", "reap"} /\ pc' = [pc EXCEPT ![Main] = "end"] /\ guard' = guard
      BY <2>6 DEF LeaveLoop, Goes, statVars
    <3> QED
      BY <1>0, <1>2, <3>1 DEF Branch
  <2> QED
    BY <1>0, <1>3, <1>4, <2>1, <2>2, <2>3, <2>4, <2>5, <2>6, GuardErrors DEF MainStep
<1>5. ASSUME NEW r \in Requests, TaskStep(r) PROVE GuardInPlace'
  <2>0. r \in Actors /\ r # Main
    BY <1>0
  <2>1. CASE Acquire(r)
    <3>1. pc[r] = "permit" /\ pc' = [pc EXCEPT ![r] = "download"] /\ guard' = guard
      BY <2>1 DEF Acquire, Goes, statVars
    <3> QED
      BY <1>2, <2>0, <3>1 DEF Branch, TaskStates
  <2>2. CASE Downloaded(r) \/ DownloadFails(r)
    <3>1. /\ pc[r] = "download" /\ guard' = guard
          /\ (pc' = [pc EXCEPT ![r] = "respond"] \/ pc' = [pc EXCEPT ![r] = "failed"])
      BY <2>2 DEF Downloaded, DownloadFails, Release, Goes, statVars
    <3> QED
      BY <1>2, <2>0, <3>1 DEF Branch, TaskStates
  <2>3. CASE CountResponse(r)
    <3>1. pc[r] = "respond" /\ pc' = [pc EXCEPT ![r] = "chain"] /\ guard' = guard
      BY <2>3 DEF CountResponse, Counts, Goes
    <3> QED
      BY <1>2, <2>0, <3>1 DEF Branch, TaskStates
  <2>4. CASE Retried(r)
    BY <1>1, <2>4 DEF Retried, Advances, statVars
  <2>5. CASE EndReply(r)
    <3>1. /\ pc[r] = "chain" /\ guard' = guard
          /\ (pc' = [pc EXCEPT ![r] = "again"] \/ pc' = [pc EXCEPT ![r] = "reply"])
      BY <2>5 DEF EndReply, Goes, statVars
    <3> QED
      BY <1>2, <2>0, <3>1 DEF Branch, TaskStates
  <2>6. CASE EnqueueAgain(r)
    <3>1. pc[r] = "again" /\ pc' = [pc EXCEPT ![r] = "done"] /\ guard' = guard
      BY <2>6 DEF EnqueueAgain, Goes, statVars
    <3> QED
      BY <1>2, <2>0, <3>1 DEF Branch, TaskStates
  <2>7. CASE Parsed(r)
    <3>1. /\ pc[r] = "reply" /\ guard' = guard
          /\ (pc' = [pc EXCEPT ![r] = "done"] \/ pc' = [pc EXCEPT ![r] = "rejected"])
      BY <2>7 DEF Parsed, Goes, statVars
    <3> QED
      BY <1>2, <2>0, <3>1 DEF Branch, TaskStates
  <2> QED
    BY <1>3, <1>5, <2>0, <2>1, <2>2, <2>3, <2>4, <2>5, <2>6, <2>7, GuardErrors DEF TaskStep
<1>6. CASE Tick
  BY <1>1, <1>6 DEF Tick, statVars
<1>7. CASE UNCHANGED vars
  BY <1>1, <1>7 DEF vars, statVars
<1> QED
  BY <1>4, <1>5, <1>6, <1>7 DEF Next

\* Whoever has the guard proceeds, and a permit that is missing is with somebody
\* who proceeds; so an actor other than an idle run() proceeds or waits for one
\* who does, and run() waits for one of these.
LEMMA WaitsInLine ==
    ASSUME TypeOK, PermitsCounted, CurrentHeld, GuardInPlace
    PROVE  OnlySleepHoldsUp
<1>0. /\ Main \in Actors /\ Requests \subseteq Actors /\ Main \notin Requests
      /\ pc \in [Actors -> MainStates \cup TaskStates] /\ guard \subseteq Actors
      /\ permits \in Nat /\ Permits \in Nat /\ ConcurrentRequests \in Nat
  <2>1. Main \in Actors /\ Requests \subseteq Actors /\ Main \notin Requests
    BY FetchAssumption DEF Actors, FetchConstants
  <2>2. Permits \in Nat /\ ConcurrentRequests \in Nat
    BY FetchAssumption DEF FetchConstants
  <2>3. /\ pc \in [Actors -> MainStates \cup TaskStates] /\ guard \subseteq Actors
        /\ permits \in Nat
    BY <2>2 DEF TypeOK
  <2> QED
    BY <2>1, <2>2, <2>3
<1> DEFINE Idle(a) == pc[a] \in {"none", "done", "end"}
           Next1(a) == ~Idle(a) /\ pc[a] \notin {"next", "reap"}
           Served(a) == \/ Proceeds(a) \/ Starved(a)
                        \/ \E b \in Actors : WaitsFor(a, b) /\ Proceeds(b)
<1>1. ASSUME NEW b \in guard PROVE Proceeds(b)
  <2>1. pc[b] \in {"record", "decide", "retry", "settle"}
    BY <1>1 DEF GuardInPlace
  <2> QED
    BY <2>1 DEF Proceeds, NeedsStats, EndOfChain
<1>2. ASSUME permits = 0, Permits # 0 PROVE \E b \in Requests : pc[b] = "download"
  <2>1. SUFFICES ASSUME \A b \in Requests : pc[b] # "download" PROVE FALSE
    OBVIOUS
  <2>2. {r \in Requests : pc[r] = "download"} = {}
    BY <2>1
  <2>3. Cardinality({r \in Requests : pc[r] = "download"}) = 0
    BY <2>2, FS_EmptySet, Zenon
  <2>4. permits + 0 = Permits
    BY <2>3 DEF PermitsCounted
  <2> QED
    BY <1>0, <1>2, <2>4
<1>3. ASSUME NEW b \in Requests, pc[b] = "download" PROVE Proceeds(b)
  BY <1>0, <1>3 DEF Proceeds, NeedsStats
<1>4. ASSUME NEW a \in Actors, Next1(a) PROVE Served(a)
  <2>1. CASE pc[a] = "permit"
    <3>1. CASE permits > 0
      BY <1>0, <2>1, <3>1 DEF Proceeds, NeedsStats, EndOfChain
    <3>2. CASE permits = 0 /\ Permits # 0
      BY <1>0, <1>2, <1>3, <2>1, <3>2 DEF WaitsFor
    <3>3. CASE Permits = 0
      BY <2>1, <3>3 DEF Starved
    <3> QED
      BY <1>0, <3>1, <3>2, <3>3
  <2>2. CASE NeedsStats(a)
    <3>1. CASE guard = {}
      <4>1. pc[a] \notin {"none", "done", "end", "permit", "next", "reap"}
        BY <2>2 DEF NeedsStats, EndOfChain
      <4> QED
        BY <3>1, <4>1 DEF Proceeds
    <3>2. CASE guard # {}
      <4>1. PICK b \in guard : TRUE
        BY <3>2
      <4>2. b \in Actors /\ Proceeds(b) /\ WaitsFor(a, b)
        BY <1>0, <1>1, <2>2, <4>1 DEF WaitsFor
      <4> QED
        BY <4>2
    <3> QED
      BY <3>1, <3>2
  <2>3. CASE pc[a] # "permit" /\ ~NeedsStats(a)
    BY <1>4, <2>3 DEF Proceeds
  <2> QED
    BY <2>1, <2>2, <2>3
<1>5. ASSUME NEW b \in Live PROVE b \in Actors /\ Next1(b)
  <2>1. b \in Requests /\ pc[b] \notin {"none", "done"} /\ pc[b] \in TaskStates
    BY <1>5 DEF Live, GuardInPlace
  <2> QED
    BY <1>0, <2>1 DEF TaskStates
<1>6. ASSUME NEW a \in Actors, pc[a] \in {"next", "reap"}, ~Proceeds(a), ~Starved(a)
      PROVE  \E b \in Actors : WaitsFor(a, b) /\ Served(b)
  <2>1. Live # {}
    <3>1. SUFFICES ASSUME Live = {} PROVE Proceeds(a)
      BY <1>6
    <3>2. Cardinality(Live) = 0
      BY <3>1, FS_EmptySet
    <3>3. ~NeedsStats(a) /\ pc[a] # "permit"
      BY <1>6 DEF NeedsStats, EndOfChain
    <3> QED
      BY <1>0, <1>6, <3>1, <3>2, <3>3 DEF Proceeds, Starved
  <2>2. PICK b \in Live : TRUE
    BY <2>1
  <2>3. b \in Actors /\ WaitsFor(a, b)
    BY <1>5, <1>6, <2>2 DEF WaitsFor
  <2>4. Served(b)
    BY <1>4, <1>5, <2>2
  <2> QED
    BY <2>3, <2>4
<1> QED
  <2> SUFFICES ASSUME NEW a \in Actors, ~Idle(a), ~Proceeds(a), ~Starved(a)
               PROVE  \E b \in Actors :
                        /\ WaitsFor(a, b)
                        /\ \/ Proceeds(b) \/ Starved(b)
                           \/ \E c \in Actors : WaitsFor(b, c) /\ Proceeds(c)
    BY DEF OnlySleepHoldsUp
  <2>1. CASE Next1(a)
    BY <1>4, <2>1
  <2>2. CASE pc[a] \in {"next", "reap"}
    BY <1>6, <2>2
  <2> QED
    BY <2>1, <2>2

-----------------------------------------------------------------------------
(* The theorems *)

LEMMA FetchInit == Init => IInv
<1> SUFFICES ASSUME Init PROVE IInv
  OBVIOUS
<1> USE FetchAssumption DEF Init, FetchConstants
<1>0. /\ Main \in Actors /\ Requests \subseteq Actors /\ Main \notin Requests
      /\ pc = [a \in Actors |-> IF a = Main THEN "next" ELSE "none"]
      /\ \A i \in DOMAIN StartQueue : StartQueue[i] \in Requests
      /\ ages = <<>> /\ let = <<>> /\ ages \in Seq(0 .. Window) /\ let \in Seq(0 .. Window)
  BY DEF Actors
<1>1. TypeOK
  <2>1. err \in [Actors -> Errors]
    BY PlainType
  <2>2. seen \subseteq Requests /\ queue \in Seq(Requests) /\ current \in Requests \cup {NoRequest}
    BY <1>0
  <2>3. pc \in [Actors -> MainStates \cup TaskStates]
    BY DEF MainStates, TaskStates
  <2>4. errors \in [Counters -> Nat] /\ unhandled \in Nat
    BY DEF NoErrors
  <2> QED
    BY <1>0, <2>1, <2>2, <2>3, <2>4 DEF TypeOK
<1>2. CurrentHeld
  BY <1>0 DEF CurrentHeld, MainStates
<1>3. Placed
  <2>1. \A r \in Requests : pc[r] = "none"
    BY <1>0
  <2> QED
    BY <1>0, <2>1 DEF Placed
<1>4. DownloadsCounted
  BY <1>0 DEF DownloadsCounted
<1>5. PermitsCounted
  <2>1. {r \in Requests : pc[r] = "download"} = {}
    BY <1>0
  <2>2. Cardinality({r \in Requests : pc[r] = "download"}) = 0
    BY <2>1, FS_EmptySet, Zenon
  <2>3. permits = Permits /\ Permits \in Nat
    OBVIOUS
  <2>4. permits + 0 = Permits
    BY <2>3
  <2> QED
    BY <2>2, <2>4, Zenon DEF PermitsCounted
<1>6. LimiterFull /\ LetBeforeStamped /\ LetInOrder
  <2>1. Len(ages) = 0 /\ DOMAIN let = {} /\ Len(let) = 0
    BY <1>0
  <2>2. Behind \in {0, 1} /\ Allowance \in Nat \ {0}
    BY DEF Behind, Allowance
  <2>3. LimiterFull
    BY <2>1, <2>2 DEF LimiterFull
  <2> QED
    BY <2>1, <2>2, <2>3 DEF LetBeforeStamped, LetInOrder
<1>7. ErrorsAccounted
  <2>1. \A s \in {"record", "decide"} : {a \in Actors : pc[a] = s} = {}
    BY <1>0
  <2>2. Stand("record") = 0 /\ Stand("decide") = 0
    BY <2>1, FS_EmptySet DEF Stand
  <2>3. \A c \in Counters : errors[c] = 0
    BY DEF NoErrors
  <2>4. {"total", "network", "http", "parse", "middleware", "other",
         "retry", "abort", "skip", "ignore"} \subseteq Counters
    BY KindsOfErrors DEF Counters, ActionKinds
  <2>5. stats["error"] = 0 /\ unhandled = 0
    OBVIOUS
  <2> QED
    BY <2>2, <2>3, <2>4, <2>5 DEF ErrorsAccounted
<1>8. GuardInPlace
  BY <1>0 DEF GuardInPlace, TaskStates
<1> QED
  BY <1>1, <1>2, <1>3, <1>4, <1>5, <1>6, <1>7, <1>8 DEF IInv

LEMMA FetchStep == IInv /\ [Next]_vars => IInv'
<1> SUFFICES ASSUME IInv, [Next]_vars PROVE IInv'
  OBVIOUS
<1>1. TypeOK'
  BY TypeStep DEF IInv
<1>2. CurrentHeld' /\ Placed' /\ DownloadsCounted'
  BY PlacesStep DEF IInv
<1>3. PermitsCounted'
  BY PermitsStep DEF IInv
<1>4. LimiterFull' /\ LetBeforeStamped' /\ LetInOrder'
  BY <1>1, LimiterStep DEF IInv
<1>5. ErrorsAccounted'
  BY ErrorsStep DEF IInv
<1>6. GuardInPlace'
  BY GuardStep DEF IInv
<1> QED
  BY <1>1, <1>2, <1>3, <1>4, <1>5, <1>6 DEF IInv

LEMMA Invariance == Spec => []IInv
<1> QED
  BY FetchInit, FetchStep, PTL DEF Spec

\* One request too many would be older than the window.
LEMMA RateFromParts == IInv => RateBounded
<1> SUFFICES ASSUME IInv PROVE RateBounded
  OBVIOUS
<1>1. /\ Aligned(let, ages, Behind) /\ Ordered(let)
      /\ ages \in Seq(0 .. Window) /\ let \in Seq(0 .. Window)
      /\ Window \in Nat /\ Allowance \in Nat \ {0} /\ Behind \in {0, 1}
  BY LimiterParts DEF IInv
<1>2. PICK n \in Nat : n = Len(ages) /\ \A i \in 1 .. n : ages[i] \in 0 .. Window
  BY <1>1, LenProperties, ElementOfSeq
<1>3. PICK p \in Nat : p = Len(let) /\ \A i \in 1 .. p : let[i] \in 0 .. Window
  BY <1>1, LenProperties, ElementOfSeq
<1>4. /\ n <= Allowance + 1
      /\ n = Allowance + 1 /\ ~Held => ages[1] >= Window
  BY <1>2 DEF IInv, LimiterFull
<1>5. SUFFICES ASSUME p > Allowance + 1 PROVE FALSE
  BY <1>1, <1>3 DEF RateBounded
<1>6. p <= n + Behind
  BY <1>1, <1>2, <1>3 DEF Aligned
<1>7. p = Allowance + 2 /\ n = Allowance + 1 /\ Behind = 1 /\ ~Held
  BY <1>1, <1>4, <1>5, <1>6 DEF Behind
<1>8. 1 \in 1 .. Len(let) /\ 1 + Len(ages) - Len(let) + Behind = 1 /\ 1 \in 1 .. Len(ages)
  BY <1>1, <1>2, <1>3, <1>7
<1>9. let[1] >= ages[1] /\ let[1] < Window
  BY <1>1, <1>8 DEF Aligned, Ordered
<1>10. ages[1] \in 0 .. Window /\ let[1] \in 0 .. Window
  BY <1>2, <1>3, <1>8
<1> QED
  BY <1>1, <1>4, <1>7, <1>9, <1>10

\* Every variable keeps its type.
THEOREM TypeCorrect == Spec => []TypeOK
<1>1. IInv => TypeOK
  BY DEF IInv
<1> QED
  BY <1>1, Invariance, PTL

\* RateLimitMiddleware, however the sleeps it imposes fall between the requests,
\* lets through at most one request more in a window than it was told to.
THEOREM KeepsTheRate == Spec => []RateBounded
<1> QED
  BY RateFromParts, Invariance, PTL

\* The engine and ErrorManager count the same errors, and every one of them gets
\* one action, whichever handlers there are.
THEOREM AccountsForErrors == Spec => []ErrorsAccounted
<1>1. IInv => ErrorsAccounted
  BY DEF IInv
<1> QED
  BY <1>1, Invariance, PTL

\* However the handlers answer, no request is downloaded more often than the two
\* max_retries allow. The retries are not counted, they are dropped: whatever brings
\* them back has to count them for this to stay a theorem.
THEOREM BoundsDownloads == Spec => []DownloadsBounded
<1>1. IInv => DownloadsBounded
  <2> SUFFICES ASSUME IInv, NEW r \in Requests PROVE downloads[r] <= Retries + 1
    BY DEF DownloadsBounded
  <2>1. downloads[r] = 0 \/ downloads[r] = 1
    BY DEF IInv, DownloadsCounted
  <2>2. Retries \in Nat
    BY FetchAssumption DEF FetchConstants, PolicyConstants, Retries
  <2> QED
    BY <2>1, <2>2
<1> QED
  BY <1>1, Invariance, PTL

\* Whoever cannot go on waits for somebody who can, or who waits for somebody who
\* can, whatever the error handlers answer and however long they sleep: unless a
\* limit of zero starves it, or the one it waits for.
THEOREM NobodyWaitsInACircle == Spec => []OnlySleepHoldsUp
<1>1. IInv => OnlySleepHoldsUp
  BY WaitsInLine DEF IInv
<1> QED
  BY <1>1, Invariance, PTL

-----------------------------------------------------------------------------
(* A limit of zero *)

\* run() has counted a request.
Counted == stats["request"] > 0

\* The tasks stand in line for a permit, and run() is kept by them.
InLine ==
    /\ \A r \in Requests : pc[r] \in {"none", "permit"} /\ downloads[r] = 0
    /\ Counted => \E r \in Requests : pc[r] = "permit"
    /\ pc[Main] = "end" => \A r \in Requests : pc[r] = "none"

\* What every step but a spawn does to the line: it leaves it alone.
Stays ==
    /\ \A r \in Requests : pc'[r] = pc[r] /\ downloads'[r] = downloads[r]
    /\ stats'["request"] = stats["request"]
    /\ pc'[Main] = "end" => pc[Main] = "end" \/ Live = {}

LEMMA MainStays ==
    ASSUME TypeOK, MainStep, ~SpawnTask
    PROVE  Stays
<1>1. /\ Main \in Actors /\ Requests \subseteq Actors /\ Main \notin Requests
      /\ pc \in [Actors -> MainStates \cup TaskStates]
      /\ stats \in [{"request", "response", "error"} -> Nat]
  BY FetchAssumption DEF TypeOK, Actors, FetchConstants
<1>2. ASSUME TakeRequest \/ ChainStep(Main) \/ Delayed \/ Limited \/ LetThrough PROVE Stays
  <2>1. (pc' = pc \/ \E s \in {"chain", "rejected", "held"} : pc' = [pc EXCEPT ![Main] = s])
        /\ UNCHANGED <<downloads, stats>>
    BY <1>2 DEF TakeRequest, ChainStep, Accepted, Rejected, Delayed, Limited, LetThrough, Goes,
                Advances, replyVars, statVars
  <2> QED
    BY <1>1, <2>1 DEF Stays
<1>3. ASSUME LeaveLoop PROVE Stays
  <2>1. pc' = [pc EXCEPT ![Main] = "end"] /\ Live = {} /\ UNCHANGED <<downloads, stats>>
    BY <1>3 DEF LeaveLoop, Goes, replyVars, statVars
  <2> QED
    BY <1>1, <2>1 DEF Stays
<1>4. ASSUME ErrorStep(Main) PROVE Stays
  <2>1. \E s \in {"record", "decide", "retry", "reap", "settle", "next"} :
            pc' = [pc EXCEPT ![Main] = s]
    BY <1>4 DEF ErrorStep, CountError, Record, Decide, Requeue, Settle, Goes
  <2>2. downloads' = downloads
    BY <1>4 DEF ErrorStep, CountError, Record, Decide, Requeue, Settle, replyVars
  <2>3. stats' = stats \/ stats' = [stats EXCEPT !.error = @ + 1]
    BY <1>4 DEF ErrorStep, CountError, Record, Decide, Requeue, Settle, statVars
  <2>4. stats'["request"] = stats["request"]
    BY <1>1, <2>3
  <2> QED
    BY <1>1, <2>1, <2>2, <2>4 DEF Stays
<1> QED
  BY <1>2, <1>3, <1>4 DEF MainStep

LEMMA InLineStep ==
    ASSUME Permits = 0, TypeOK, CurrentHeld, InLine, [Next]_vars
    PROVE  InLine'
<1>1. /\ Main \in Actors /\ Requests \subseteq Actors /\ Main \notin Requests
      /\ pc \in [Actors -> MainStates \cup TaskStates] /\ permits \in 0 .. Permits
      /\ stats \in [{"request", "response", "error"} -> Nat]
  BY FetchAssumption DEF TypeOK, Actors, FetchConstants
<1>2. ASSUME Stays PROVE InLine'
  <2>1. pc'[Main] = "end" => \A r \in Requests : pc[r] = "none"
    BY <1>2 DEF Stays, InLine, Live
  <2>2. Counted' = Counted
    BY <1>2 DEF Stays, Counted
  <2> QED
    BY <1>2, <2>1, <2>2 DEF Stays, InLine
<1>3. CASE MainStep /\ ~SpawnTask
  BY <1>2, <1>3, MainStays
<1>4. CASE SpawnTask
  <2>1. pc[Main] = "chain" /\ current \in Requests
    BY <1>4 DEF SpawnTask, EndOfChain, CurrentHeld
  <2>2. /\ pc' = [pc EXCEPT ![Main] = "next", ![current] = "permit"]
        /\ downloads' = downloads
    BY <1>4 DEF SpawnTask, replyVars
  <2>3. pc'[Main] = "next" /\ pc'[current] = "permit"
        /\ \A r \in Requests : r # current => pc'[r] = pc[r]
    BY <1>1, <2>1, <2>2
  <2> QED
    BY <2>1, <2>2, <2>3 DEF InLine
<1>5. ASSUME NEW r \in Requests, TaskStep(r) PROVE FALSE
  <2>1. permits = 0
    BY <1>1
  <2>2. pc[r] \in {"none", "permit"} /\ r # Main
    BY <1>1 DEF InLine
  <2> QED
    BY <1>5, <2>1, <2>2
       DEF TaskStep, Acquire, Downloaded, DownloadFails, CountResponse, ChainStep, Accepted,
           Rejected, Calls, AtMiddleware, Retried, EndReply, EndOfChain, EnqueueAgain, Parsed,
           ErrorStep, CountError, Record, Decide, Requeue, Settle, Goes
<1>6. CASE Tick \/ UNCHANGED vars
  <2>1. UNCHANGED <<pc, downloads, stats>>
    BY <1>6 DEF Tick, vars, replyVars, statVars
  <2> QED
    BY <1>2, <2>1 DEF Stays
<1> QED
  BY <1>3, <1>4, <1>5, <1>6 DEF Next

\* With Permits = 0, which DownloaderConfig and Semaphore::new accept, nothing is ever
\* downloaded, and once run() has counted a request it never ends: the task that
\* should download it waits for ever.
THEOREM NoPermitNoEnd ==
    ASSUME Permits = 0
    PROVE  Spec => []((\A r \in Requests : downloads[r] = 0) /\ (Counted => pc[Main] # "end"))
<1>1. Init => InLine
  BY FetchAssumption DEF Init, InLine, Counted, FetchConstants, Actors
<1>2. IInv /\ InLine /\ [Next]_vars => InLine'
  BY InLineStep DEF IInv
<1>3. InLine => (\A r \in Requests : downloads[r] = 0) /\ (Counted => pc[Main] # "end")
  BY DEF InLine
<1> QED
  BY <1>1, <1>2, <1>3, Invariance, PTL DEF Spec

=============================================================================
