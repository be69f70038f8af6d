-------------------------- MODULE DomainGroupProofs --------------------------
(***************************************************************************)
(* Proofs about DomainGroupScheduler for any callers, domains, requests,   *)
(* limit and delay.                                                        *)
(***************************************************************************)
EXTENDS DomainGroupScheduler, FiniteSetTheorems, TLAPS

-----------------------------------------------------------------------------
(* Data *)

\* The effective priority is a number.
LEMMA PriorityType == \A r \in Requests : EffectivePriority(r) \in Int
  BY GroupAssumption DEF GroupConstants, EffectivePriority

\* Filing a request adds its URL to a queue and loses none.
LEMMA FileUrls ==
    ASSUME NEW q \in SUBSET Entries, NEW r \in Requests
    PROVE  /\ File(q, r) \in SUBSET Entries
           /\ {e.item.url : e \in File(q, r)} = {e.item.url : e \in q} \cup {r.url}
<1> DEFINE p == EffectivePriority(r)
<1>1. p \in Int
  BY PriorityType
<1> HIDE DEF p
<1>2. CASE Twins(q, r) = {}
  <2> DEFINE n == [item |-> r, rank |-> p]
  <2>1. File(q, r) = q \cup {n}
    BY <1>2 DEF File, p
  <2>2. n \in Entries /\ n.item.url = r.url
    BY <1>1 DEF Entries
  <2> HIDE DEF n
  <2> QED
    BY <2>1, <2>2
<1>3. CASE Twins(q, r) # {}
  <2>1. File(q, r) = (q \ Twins(q, r)) \cup {[item |-> e.item, rank |-> p] : e \in Twins(q, r)}
    BY <1>3 DEF File, p
  <2>2. Twins(q, r) \subseteq q /\ \A e \in Twins(q, r) : e.item.url = r.url /\ e.item \in Requests
    BY DEF Twins, Entries
  <2>3. File(q, r) \in SUBSET Entries
    BY <1>1, <2>1, <2>2 DEF Entries
  <2>4. \A e \in File(q, r) : e.item.url \in {f.item.url : f \in q} \cup {r.url}
    BY <2>1, <2>2
  <2>5. PICK t \in Twins(q, r) : TRUE
    BY <1>3
  <2>6. r.url \in {e.item.url : e \in File(q, r)}
    <3>1. [item |-> t.item, rank |-> p] \in File(q, r)
      BY <2>1, <2>5
    <3>2. [item |-> t.item, rank |-> p].item.url = r.url
      BY <2>2, <2>5
    <3> QED
      BY <3>1, <3>2
  <2>7. \A e \in q : e.item.url \in {f.item.url : f \in File(q, r)}
    <3> TAKE e \in q
    <3>1. CASE e \in Twins(q, r)
      BY <2>2, <2>6, <3>1
    <3>2. CASE e \notin Twins(q, r)
      BY <2>1, <3>2
    <3> QED
      BY <3>1, <3>2
  <2> QED
    BY <2>3, <2>4, <2>6, <2>7
<1> QED
  BY <1>2, <1>3

\* A set of takers can be counted.
LEMMA TakersCount ==
    ASSUME NEW A \in SUBSET Takers, NEW c \in Takers
    PROVE  /\ IsFiniteSet(A) /\ Cardinality(A) \in Nat
           /\ Cardinality(A) <= Cardinality(Takers) /\ Cardinality(Takers) \in Nat
           /\ c \in A => Cardinality(A \ {c}) = Cardinality(A) - 1
           /\ c \notin A => /\ Cardinality(A \cup {c}) = Cardinality(A) + 1
                            /\ Cardinality(A) <= Cardinality(Takers) - 1
<1>1. IsFiniteSet(Takers)
  BY GroupAssumption DEF GroupConstants
<1>2. IsFiniteSet(A) /\ Cardinality(A) <= Cardinality(Takers)
  BY <1>1, FS_Subset
<1>3. c \notin A => /\ Cardinality(A \cup {c}) = Cardinality(A) + 1
                    /\ A \cup {c} \subseteq Takers
  BY <1>2, FS_AddElement
<1>4. c \notin A => Cardinality(A \cup {c}) <= Cardinality(Takers)
  BY <1>1, <1>3, FS_Subset
<1>5. Cardinality(A) \in Nat /\ Cardinality(Takers) \in Nat
  BY <1>1, <1>2, FS_CardinalityType
<1>6. c \in A => Cardinality(A \ {c}) = Cardinality(A) - 1
  BY <1>2, FS_RemoveElement
<1> QED
  BY <1>2, <1>3, <1>4, <1>5, <1>6

-----------------------------------------------------------------------------
(* Types and locks *)

\* A new scheduler has nothing and holds nothing.
LEMMA GroupInit == Init => IInv
<1> SUFFICES ASSUME Init PROVE IInv
  OBVIOUS
<1> USE GroupAssumption DEF GroupConstants, Init
<1>0. \A c \in Callers : pc[c] = "idle" /\ dq # c /\ dpq # c
  OBVIOUS
<1>c. Enqueuers \subseteq Callers /\ Takers \subseteq Callers /\ Clearers \subseteq Callers
  BY DEF Callers
<1>1. TypeOK
  <2>1. Delay \in 0 .. Delay
    OBVIOUS
  <2>2. age \in [Domains -> 0 .. Delay] /\ since \in [Takers \X Domains -> 0 .. Delay]
    BY <2>1
  <2> QED
    BY <2>2 DEF TypeOK, Places
<1>2. LocksInPlace
  BY <1>0 DEF LocksInPlace, Trying
<1>3. ClearedInPlace /\ TriedFirst /\ PacedInv
  <2>1. \A c \in Takers, d \in Domains : age[d] <= since[<<c, d>>]
    OBVIOUS
  <2> QED
    BY <1>0, <1>c, <2>1 DEF ClearedInPlace, TriedFirst, PacedInv, Trying
<1>4. NoUrlLost /\ DomainsListed
  BY DEF NoUrlLost, DomainsListed
<1>5. RanksExact
  <2>1. Tried = {}
    BY <1>0, <1>c DEF Tried, Trying
  <2> QED
    BY <2>1 DEF RanksExact
<1>6. CountsInPlace /\ OverrunBounded
  <2>1. \A d \in Domains : Pending(d) = {}
    BY <1>0, <1>c DEF Pending
  <2>2. Cardinality({}) = 0 /\ Cardinality(Takers) \in Nat
    BY FS_EmptySet, FS_CardinalityType
  <2>3. \A d \in Domains : started[d] <= counts[d] + Cardinality(Pending(d))
    <3> TAKE d \in Domains
    <3>1. started[d] = 0 /\ counts[d] = 0 /\ Cardinality(Pending(d)) = 0
      BY <2>1, <2>2
    <3> QED
      BY <3>1
  <2>4. CountsInPlace
    BY <1>0, <1>c, <2>3 DEF CountsInPlace
  <2>5. Limit > 0 => \A d \in Domains : started[d] <= Limit + Cardinality(Takers) - 1
    BY <2>2
  <2> QED
    BY <2>4, <2>5 DEF OverrunBounded
<1> QED
  BY <1>1, <1>2, <1>3, <1>4, <1>5, <1>6 DEF IInv

\* The steps of enqueue.
LEMMA TypeEnqueue ==
    ASSUME TypeOK, LocksInPlace, NEW c \in Enqueuers, Enqueue(c)
    PROVE  TypeOK' /\ LocksInPlace'
<1> USE GroupAssumption DEF GroupConstants, Goes, Places, TypeOK, LocksInPlace, Trying, store, history
<1>c. c \in Callers
  BY DEF Callers
<1>1. CASE \E r \in Requests : HasSeen(c, r)
  BY <1>1, <1>c DEF HasSeen
<1>2. CASE MarkSeen(c)
  BY <1>2, <1>c DEF MarkSeen
<1>3. CASE Push(c)
  <2>1. arg[c] \in Requests /\ arg[c].domain \in Domains
    BY <1>3, <1>c DEF Push
  <2>2. queues' \in [Domains -> SUBSET Entries]
    BY <1>3, <2>1, FileUrls DEF Push
  <2> QED
    BY <1>3, <1>c, <2>2 DEF Push
<1>4. CASE ListDomain(c)
  <2>1. arg[c] \in Requests /\ arg[c].domain \in Domains
    BY <1>4, <1>c DEF ListDomain
  <2>2. rank' \in [Domains -> Int] /\ listed' \subseteq Domains
    BY <1>4, <2>1 DEF ListDomain, Highest, Entries
  <2> QED
    BY <1>4, <1>c, <2>2 DEF ListDomain
<1> QED
  BY <1>1, <1>2, <1>3, <1>4 DEF Enqueue

\* What next does to one domain.
LEMMA ServeTypes ==
    ASSUME TypeOK, NEW c \in Takers, NEW d \in Domains, NEW e \in Highest(queues[d]), Serve(c, d, e)
    PROVE  /\ queues' \in [Domains -> SUBSET Entries]
           /\ listed' \subseteq Domains /\ rank' \in [Domains -> Int]
           /\ handed' \subseteq Urls /\ started' \in [Domains -> Nat]
           /\ since' \in [Takers \X Domains -> 0 .. Delay]
<1> USE GroupAssumption DEF GroupConstants, TypeOK
<1>1. e \in Entries /\ e.item.url \in Urls
  BY DEF Highest, Entries
<1>2. queues' \in [Domains -> SUBSET Entries] /\ handed' \subseteq Urls /\ started' \in [Domains -> Nat]
  BY <1>1 DEF Serve
<1>3. 0 \in 0 .. Delay /\ <<c, d>> \in Takers \X Domains
  OBVIOUS
<1>4. since' \in [Takers \X Domains -> 0 .. Delay]
  BY <1>3 DEF Serve
<1>5. listed' \subseteq Domains /\ rank' \in [Domains -> Int]
  BY DEF Serve, Highest, Entries
<1> QED
  BY <1>2, <1>4, <1>5

\* The steps of next.
LEMMA TypeTake ==
    ASSUME TypeOK, LocksInPlace, NEW c \in Takers, Take(c)
    PROVE  TypeOK' /\ LocksInPlace'
<1> USE GroupAssumption DEF GroupConstants, Goes, Places, TypeOK, LocksInPlace, Trying, store, history
<1>c. c \in Callers
  BY DEF Callers
<1>1. CASE LockDomains(c)
  BY <1>1, <1>c DEF LockDomains
<1>2. CASE PopDomain(c)
  BY <1>2, <1>c DEF PopDomain
<1>3. CASE CheckLimit(c)
  BY <1>3, <1>c DEF CheckLimit
<1>4. CASE CheckDelay(c)
  BY <1>4, <1>c DEF CheckDelay
<1>5. CASE PutBack(c)
  <2>1. rank' \in [Domains -> Int] /\ listed' \subseteq Domains
    BY <1>5, <1>c DEF PutBack, Highest, Entries
  <2> QED
    BY <1>5, <1>c, <2>1 DEF PutBack
<1>6. CASE TakeRequest(c)
  <2>1. pc[c] = "taking" /\ cur[c] \in Domains /\ dpq = c
    BY <1>6, <1>c DEF TakeRequest
  <2>2. CASE queues[cur[c]] = {}
    BY <1>6, <1>c, <2>2 DEF TakeRequest
  <2>3. CASE queues[cur[c]] # {}
    <3>1. PICK e \in Highest(queues[cur[c]]) : Serve(c, cur[c], e)
      BY <1>6, <2>3 DEF TakeRequest
    <3>2. pc' = [pc EXCEPT ![c] = "stamping"] /\ dpq' = NoCaller
          /\ UNCHANGED <<seen, age, counts, dq, arg, cur>>
      BY <1>6, <3>1 DEF TakeRequest, Serve
    <3>3. TypeOK'
      BY <2>1, <3>1, <3>2, ServeTypes
    <3>4. LocksInPlace'
      BY <1>c, <2>1, <3>2
    <3> QED
      BY <3>3, <3>4
  <2> QED
    BY <2>2, <2>3
<1>7. CASE StampTime(c)
  <2>1. 0 \in 0 .. Delay
    OBVIOUS
  <2> QED
    BY <1>7, <1>c, <2>1 DEF StampTime
<1>8. CASE CountRequest(c)
  BY <1>8, <1>c DEF CountRequest
<1> QED
  BY <1>1, <1>2, <1>3, <1>4, <1>5, <1>6, <1>7, <1>8 DEF Take

\* The steps of clear, and time.
LEMMA TypeOthers ==
    ASSUME TypeOK, LocksInPlace, Tick \/ (\E c \in Clearers : Clear(c)) \/ UNCHANGED vars
    PROVE  TypeOK' /\ LocksInPlace'
<1> USE GroupAssumption DEF GroupConstants, Goes, Places, TypeOK, LocksInPlace, Trying, store, history
<1>1. CASE Tick
  <2>1. \A t \in 0 .. Delay : Older(t) \in 0 .. Delay
    BY DEF Older
  <2> QED
    BY <1>1, <2>1 DEF Tick
<1>2. ASSUME NEW c \in Clearers, Clear(c)
      PROVE  TypeOK' /\ LocksInPlace'
  <2>c. c \in Callers /\ Delay \in 0 .. Delay
    BY DEF Callers
  <2>1. CASE ClearQueues(c)
    BY <2>1, <2>c DEF ClearQueues
  <2>2. CASE ClearDomains(c)
    BY <2>2, <2>c DEF ClearDomains
  <2>3. CASE ClearTimes(c)
    BY <2>3, <2>c DEF ClearTimes
  <2>4. CASE ClearCounts(c)
    BY <2>4, <2>c DEF ClearCounts
  <2> QED
    BY <1>2, <2>1, <2>2, <2>3, <2>4 DEF Clear
<1>3. CASE UNCHANGED vars
  BY <1>3 DEF vars
<1> QED
  BY <1>1, <1>2, <1>3

\* Types and locks, in every step.
LEMMA TypeStep == TypeOK /\ LocksInPlace /\ [Next]_vars => TypeOK' /\ LocksInPlace'
  BY TypeEnqueue, TypeTake, TypeOthers DEF Next

\* What the locks exclude.
LEMMA Exclusive ==
    ASSUME TypeOK, LocksInPlace
    PROVE  /\ Enqueuers \subseteq Callers /\ Takers \subseteq Callers /\ Clearers \subseteq Callers
           /\ NoCaller \notin Callers
           /\ dq = NoCaller => ~Clearing /\ \A d : Settled(d)
           /\ dpq = NoCaller => Tried = {} /\ \A c \in Takers : pc[c] \notin Trying
           /\ \A c, k \in Takers : pc[c] \in Trying /\ pc[k] \in Trying => c = k
           /\ \A c \in Takers : pc[c] \in Trying => Tried = {cur[c]}
           /\ Tried \subseteq Domains
           /\ \A c \in Takers, k \in Callers :
                 dpq = k /\ pc[k] \notin Trying => pc[c] \notin Trying
<1> USE GroupAssumption DEF GroupConstants, Callers
<1>1. \A c, k \in Takers : pc[c] \in Trying /\ pc[k] \in Trying => c = k
  BY DEF LocksInPlace
<1>2. \A c \in Takers : pc[c] \in Trying => Tried = {cur[c]}
  BY <1>1 DEF Tried
<1>3. dq = NoCaller => ~Clearing /\ \A d : Settled(d)
  BY DEF LocksInPlace, Clearing, Settled, Filing
<1>4. dpq = NoCaller => Tried = {} /\ \A c \in Takers : pc[c] \notin Trying
  BY DEF LocksInPlace, Tried
<1>5. \A c \in Takers, k \in Callers :
         dpq = k /\ pc[k] \notin Trying => pc[c] \notin Trying
  BY DEF LocksInPlace
<1>6. Tried \subseteq Domains
  BY DEF LocksInPlace, Tried
<1> QED
  BY <1>1, <1>2, <1>3, <1>4, <1>5, <1>6

\* While the queues are cleared nobody files a request and nobody lists a domain.
LEMMA ClearedStep ==
    ASSUME TypeOK, LocksInPlace, ClearedInPlace, [Next]_vars
    PROVE  ClearedInPlace'
<1> USE GroupAssumption DEF GroupConstants, Goes, TypeOK, LocksInPlace, ClearedInPlace, Trying,
        Callers, store, history
<1>1. ASSUME NEW c \in Enqueuers, Enqueue(c)
      PROVE  ClearedInPlace'
  BY <1>1 DEF Enqueue, HasSeen, MarkSeen, Push, ListDomain
<1>2. ASSUME NEW c \in Takers, Take(c)
      PROVE  ClearedInPlace'
  <2>1. CASE TakeRequest(c) \/ PutBack(c)
    <3>1. \A k \in Clearers : pc[k] \notin {"clearDomains", "clearTimes", "clearCounts"}
      BY <2>1 DEF TakeRequest, PutBack
    <3>2. \A k \in Clearers : pc'[k] = pc[k] \/ pc'[k] \in {"stamping", "popping"}
      BY <2>1 DEF TakeRequest, PutBack, Serve
    <3> QED
      BY <3>1, <3>2
  <2>2. CASE LockDomains(c)
    BY <2>2 DEF LockDomains
  <2>3. CASE PopDomain(c)
    BY <2>3 DEF PopDomain
  <2>4. CASE CheckLimit(c) \/ CheckDelay(c) \/ StampTime(c) \/ CountRequest(c)
    BY <2>4 DEF CheckLimit, CheckDelay, StampTime, CountRequest
  <2> QED
    BY <1>2, <2>1, <2>2, <2>3, <2>4 DEF Take
<1>3. ASSUME NEW c \in Clearers, Clear(c)
      PROVE  ClearedInPlace'
  BY <1>3 DEF Clear, ClearQueues, ClearDomains, ClearTimes, ClearCounts
<1>4. ASSUME Tick \/ UNCHANGED vars
      PROVE  ClearedInPlace'
  BY <1>4 DEF Tick, vars
<1> QED
  BY <1>1, <1>2, <1>3, <1>4 DEF Next

-----------------------------------------------------------------------------
(* No URL is lost *)

\* A step that leaves the URLs where they are.
LEMMA UrlFrame ==
    ASSUME NoUrlLost, UNCHANGED <<seen, queues, handed>>,
           InFlightUrls \subseteq InFlightUrls', Clearing => Clearing'
    PROVE  NoUrlLost'
<1>1. QueuedUrls' = QueuedUrls
  BY DEF QueuedUrls
<1> QED
  BY <1>1 DEF NoUrlLost

\* Marking, filing and handing out move a URL on; only clear forgets.
LEMMA UrlStep ==
    ASSUME TypeOK, LocksInPlace, ClearedInPlace, NoUrlLost, [Next]_vars
    PROVE  NoUrlLost'
<1> USE GroupAssumption DEF GroupConstants, Goes
<1>e. Enqueuers \subseteq Callers /\ Takers \subseteq Callers /\ Clearers \subseteq Callers
  BY Exclusive
<1>1. ASSUME NEW c \in Enqueuers, NEW r \in Requests, HasSeen(c, r)
      PROVE  NoUrlLost'
  BY <1>1, <1>e, UrlFrame DEF HasSeen, InFlightUrls, Clearing, TypeOK, store, history
<1>2. ASSUME NEW c \in Enqueuers, MarkSeen(c)
      PROVE  NoUrlLost'
  <2>1. seen' = seen \cup {arg[c].url} /\ QueuedUrls' = QueuedUrls /\ handed' = handed
    BY <1>2 DEF MarkSeen, QueuedUrls, history
  <2>2. InFlightUrls \cup {arg[c].url} \subseteq InFlightUrls'
    BY <1>2, <1>e DEF MarkSeen, InFlightUrls, TypeOK
  <2>3. Clearing => Clearing'
    BY <1>2, <1>e DEF MarkSeen, Clearing, TypeOK
  <2> QED
    BY <2>1, <2>2, <2>3 DEF NoUrlLost
<1>3. ASSUME NEW c \in Enqueuers, Push(c)
      PROVE  NoUrlLost'
  <2>1. arg[c] \in Requests /\ arg[c].domain \in Domains
    BY <1>3, <1>e DEF Push, LocksInPlace
  <2>2. UNCHANGED <<seen, handed, arg>> /\ pc' = [pc EXCEPT ![c] = "list"]
    BY <1>3 DEF Push, history
  <2>3. QueuedUrls' = QueuedUrls \cup {arg[c].url}
    <3> DEFINE x == arg[c].domain
               Of(q) == {e.item.url : e \in q}
    <3>1. queues' = [queues EXCEPT ![x] = File(queues[x], arg[c])]
      BY <1>3 DEF Push
    <3>2. Of(queues'[x]) = Of(queues[x]) \cup {arg[c].url}
      <4>1. queues[x] \in SUBSET Entries /\ queues'[x] = File(queues[x], arg[c])
        BY <2>1, <3>1 DEF TypeOK
      <4>2. Of(File(queues[x], arg[c])) = Of(queues[x]) \cup {arg[c].url}
        BY <2>1, <4>1, FileUrls
      <4> QED
        BY <4>1, <4>2
    <3>3. \A d \in Domains \ {x} : queues'[d] = queues[d]
      BY <2>1, <3>1 DEF TypeOK
    <3>4. \A d \in Domains \ {x} : Of(queues'[d]) = Of(queues[d])
      BY <3>3
    <3>5. QueuedUrls = UNION {Of(queues[d]) : d \in Domains}
          /\ QueuedUrls' = UNION {Of(queues'[d]) : d \in Domains}
      BY DEF QueuedUrls
    <3> HIDE DEF Of, x
    <3> QED
      BY <2>1, <3>2, <3>4, <3>5 DEF x
  <2>4. InFlightUrls \subseteq InFlightUrls' \cup {arg[c].url}
    BY <1>e, <2>2 DEF InFlightUrls, TypeOK
  <2>5. Clearing => Clearing'
    BY <1>3, <1>e, <2>2 DEF Push, Clearing, TypeOK
  <2> QED
    BY <2>2, <2>3, <2>4, <2>5 DEF NoUrlLost
<1>4. ASSUME NEW c \in Enqueuers, ListDomain(c)
      PROVE  NoUrlLost'
  <2>1. InFlightUrls \subseteq InFlightUrls' /\ (Clearing => Clearing')
    BY <1>4, <1>e DEF ListDomain, InFlightUrls, Clearing, TypeOK
  <2> QED
    BY <1>4, <2>1, UrlFrame DEF ListDomain, history
<1>5. ASSUME NEW c \in Takers,
             \/ LockDomains(c) \/ PopDomain(c) \/ CheckLimit(c) \/ CheckDelay(c)
             \/ PutBack(c) \/ StampTime(c) \/ CountRequest(c)
      PROVE  NoUrlLost'
  <2>1. UNCHANGED <<seen, queues, handed, arg>>
    BY <1>5 DEF LockDomains, PopDomain, CheckLimit, CheckDelay, PutBack, StampTime, CountRequest,
                store, history
  <2>2. pc' = [pc EXCEPT ![c] = pc'[c]]
    BY <1>5, <1>e DEF LockDomains, PopDomain, CheckLimit, CheckDelay, PutBack, StampTime,
                      CountRequest, TypeOK
  <2>3. pc[c] \notin {"push", "clearDomains", "clearTimes", "clearCounts"}
    BY <1>5 DEF LockDomains, PopDomain, CheckLimit, CheckDelay, PutBack, StampTime, CountRequest
  <2>4. InFlightUrls \subseteq InFlightUrls' /\ (Clearing => Clearing')
    BY <1>e, <2>1, <2>2, <2>3 DEF InFlightUrls, Clearing, TypeOK
  <2> QED
    BY <2>1, <2>4, UrlFrame
<1>6. ASSUME NEW c \in Takers, TakeRequest(c)
      PROVE  NoUrlLost'
  <2>1. pc[c] = "taking" /\ seen' = seen /\ arg' = arg
        /\ pc' = [pc EXCEPT ![c] = pc'[c]]
    BY <1>6, <1>e DEF TakeRequest, Serve, TypeOK
  <2>2. InFlightUrls \subseteq InFlightUrls' /\ (Clearing => Clearing')
    BY <1>e, <2>1 DEF InFlightUrls, Clearing, TypeOK
  <2>3. CASE queues[cur[c]] = {}
    BY <1>6, <2>1, <2>2, <2>3, UrlFrame DEF TakeRequest, history
  <2>4. CASE queues[cur[c]] # {}
    <3>1. PICK e \in Highest(queues[cur[c]]) :
             queues' = [queues EXCEPT ![cur[c]] = queues[cur[c]] \ {e}]
             /\ handed' = handed \cup {e.item.url}
      BY <1>6, <2>4 DEF TakeRequest, Serve
    <3>2. \A d \in Domains : \A f \in queues[d] : f \in queues'[d] \/ f = e
      BY <3>1 DEF TypeOK
    <3>3. \A x \in QueuedUrls : x \in QueuedUrls' \/ x = e.item.url
      BY <3>2 DEF QueuedUrls
    <3> QED
      BY <2>1, <2>2, <3>1, <3>3 DEF NoUrlLost
  <2> QED
    BY <2>3, <2>4
<1>7. ASSUME NEW c \in Clearers, Clear(c)
      PROVE  NoUrlLost'
  <2>1. CASE ClearQueues(c) \/ ClearDomains(c) \/ ClearTimes(c)
    <3>1. Clearing'
      BY <1>e, <2>1 DEF ClearQueues, ClearDomains, ClearTimes, Clearing, TypeOK
    <3> QED
      BY <3>1 DEF NoUrlLost
  <2>2. CASE ClearCounts(c)
    BY <2>2 DEF ClearCounts, NoUrlLost
  <2> QED
    BY <1>7, <2>1, <2>2 DEF Clear
<1>8. ASSUME Tick \/ UNCHANGED vars
      PROVE  NoUrlLost'
  <2>1. UNCHANGED <<seen, queues, handed, arg, pc>>
    BY <1>8 DEF Tick, vars, store, history
  <2>2. InFlightUrls' = InFlightUrls /\ Clearing' = Clearing
    BY <2>1 DEF InFlightUrls, Clearing
  <2> QED
    BY <2>1, <2>2, UrlFrame
<1> QED
  BY <1>1, <1>2, <1>3, <1>4, <1>5, <1>6, <1>7, <1>8 DEF Next, Enqueue, Take


-----------------------------------------------------------------------------
(* The list of domains *)

ListInv == DomainsListed /\ RanksExact /\ TriedFirst

\* A step that leaves the queues, the list and who tries what alone.
LEMMA ListFrame ==
    ASSUME ListInv, UNCHANGED <<queues, listed, rank>>,
           \A d \in Domains : LimitReached(d) => LimitReached(d)',
           \A c \in Takers : /\ pc'[c] \in Trying <=> pc[c] \in Trying
                             /\ pc[c] \in Trying => cur'[c] = cur[c],
           \A d : (Filing(d) <=> Filing(d)') /\ (Settled(d)' => Settled(d))
    PROVE  ListInv'
<1>1. Tried' = Tried
  BY DEF Tried
<1>2. DomainsListed'
  BY <1>1 DEF ListInv, DomainsListed
<1>3. RanksExact'
  BY <1>1 DEF ListInv, RanksExact
<1>4. TriedFirst'
  BY DEF ListInv, TriedFirst
<1> QED
  BY <1>2, <1>3, <1>4 DEF ListInv

\* The steps of enqueue: the domain of the filed request is out of date until
\* the list has caught up.
LEMMA ListEnqueue ==
    ASSUME TypeOK, LocksInPlace, ListInv, NEW c \in Enqueuers, Enqueue(c)
    PROVE  ListInv'
<1> USE GroupAssumption DEF GroupConstants, Goes
<1>e. c \in Callers /\ Enqueuers \subseteq Callers /\ Takers \subseteq Callers
      /\ Clearers \subseteq Callers
  BY Exclusive
<1>1. CASE (\E r \in Requests : HasSeen(c, r)) \/ MarkSeen(c)
  <2>1. UNCHANGED <<queues, listed, rank, counts, cur>> /\ pc' = [pc EXCEPT ![c] = pc'[c]]
        /\ pc[c] \in {"idle", "mark"} /\ pc'[c] \in {"mark", "push"}
    BY <1>1, <1>e DEF HasSeen, MarkSeen, TypeOK, store, history
  <2>2. \A k \in Enqueuers : pc[k] = "list" => arg'[k] = arg[k]
    BY <1>1, <1>e DEF HasSeen, MarkSeen, TypeOK
  <2>3. \A d : (Filing(d) <=> Filing(d)') /\ (Settled(d)' => Settled(d))
    BY <1>e, <2>1, <2>2 DEF Filing, Settled, TypeOK
  <2>4. \A k \in Takers : pc'[k] \in Trying <=> pc[k] \in Trying
    BY <1>e, <2>1 DEF Trying, TypeOK
  <2> QED
    BY <2>1, <2>3, <2>4, ListFrame DEF LimitReached
<1>2. CASE Push(c)
  <2>1. PICK x \in Domains : x = arg[c].domain
    BY <1>2, <1>e DEF Push, LocksInPlace
  <2>2. UNCHANGED <<listed, rank, counts, arg, cur>> /\ pc' = [pc EXCEPT ![c] = "list"]
        /\ pc[c] = "push" /\ \A d \in Domains \ {x} : queues'[d] = queues[d]
    BY <1>2, <2>1, <1>e DEF Push, TypeOK, LocksInPlace, history
  <2>3. \A d : Settled(d)
    BY <1>2, Exclusive DEF Push
  <2>4. Filing(x)'
    BY <1>e, <2>1, <2>2 DEF Filing, TypeOK
  <2>5. \A k \in Takers : pc'[k] \in Trying <=> pc[k] \in Trying
    BY <1>e, <2>2 DEF Trying, TypeOK
  <2>6. Tried' = Tried
    BY <2>2, <2>5 DEF Tried
  <2>7. TriedFirst'
    BY <2>2, <2>5 DEF ListInv, TriedFirst
  <2>8. DomainsListed'
    <3> SUFFICES ASSUME NEW d \in Domains, d # x, queues'[d] # {}
                 PROVE  d \in listed' \cup Tried' \/ LimitReached(d)'
      BY <2>4 DEF DomainsListed
    <3> QED
      BY <2>2, <2>3, <2>6 DEF ListInv, DomainsListed, LimitReached, Settled
  <2>9. RanksExact'
    <3> SUFFICES ASSUME NEW d \in listed' \cup Tried', Settled(d)'
                 PROVE  \E e \in Highest(queues'[d]) : e.rank = rank'[d]
      BY DEF RanksExact, Highest
    <3>1. d # x
      BY <2>4 DEF Settled
    <3>2. d \in Domains /\ d \in listed \cup Tried
      BY <2>2, <2>6, Exclusive DEF TypeOK
    <3> QED
      BY <2>2, <2>3, <3>1, <3>2 DEF ListInv, RanksExact
  <2> QED
    BY <2>7, <2>8, <2>9 DEF ListInv
<1>3. CASE ListDomain(c)
  <2> DEFINE x == arg[c].domain
  <2>1. x \in Domains /\ dq = c
    BY <1>3, <1>e DEF ListDomain, LocksInPlace
  <2>2. PICK e \in Highest(queues[x]) : rank' = [rank EXCEPT ![x] = e.rank]
    BY <1>3 DEF ListDomain
  <2>3. UNCHANGED <<queues, counts, cur>> /\ listed' = listed \cup {x} /\ dpq = NoCaller
        /\ pc' = [pc EXCEPT ![c] = "idle"] /\ pc[c] = "list"
    BY <1>3 DEF ListDomain, history
  <2>4. \A k \in Takers : pc[k] \notin Trying
    BY <2>3, Exclusive
  <2>5. Tried = {} /\ Tried' = {} /\ \A k \in Takers : pc'[k] \notin Trying
    BY <1>e, <2>3, <2>4 DEF Tried, Trying, TypeOK
  <2>6. \A d : d # x => Settled(d)
    BY <1>e, <2>1, <2>3 DEF Settled, Filing, LocksInPlace
  <2>7. TriedFirst'
    BY <2>5 DEF TriedFirst
  <2>8. DomainsListed'
    BY <2>3, <2>5, <2>6 DEF ListInv, DomainsListed, LimitReached, Settled
  <2>9. RanksExact'
    <3> SUFFICES ASSUME NEW d \in listed'
                 PROVE  \E f \in Highest(queues'[d]) : f.rank = rank'[d]
      BY <2>5 DEF RanksExact, Highest
    <3>1. CASE d = x
      BY <2>1, <2>2, <2>3, <3>1 DEF TypeOK
    <3>2. CASE d # x
      <4>1. d \in listed /\ rank'[d] = rank[d]
        BY <2>2, <2>3, <3>2 DEF TypeOK
      <4> QED
        BY <2>3, <2>6, <3>2, <4>1 DEF ListInv, RanksExact
    <3> QED
      BY <3>1, <3>2
  <2> QED
    BY <2>7, <2>8, <2>9 DEF ListInv
<1> QED
  BY <1>1, <1>2, <1>3 DEF Enqueue

\* The steps of next: one domain leaves the list, is tried, and comes back if it
\* has requests and is not at its limit.
LEMMA ListTake ==
    ASSUME TypeOK, LocksInPlace, ListInv, NEW c \in Takers, Take(c)
    PROVE  ListInv'
<1> USE GroupAssumption DEF GroupConstants, Goes
<1>e. c \in Callers /\ Enqueuers \subseteq Callers /\ Takers \subseteq Callers
      /\ Clearers \subseteq Callers
  BY Exclusive
<1>f. ASSUME pc' = [pc EXCEPT ![c] = pc'[c]], arg' = arg,
             pc[c] \notin {"list", "clearDomains"}, pc'[c] \notin {"list", "clearDomains"}
      PROVE  \A d : (Filing(d) <=> Filing(d)') /\ (Settled(d) <=> Settled(d)')
  BY <1>e, <1>f DEF Filing, Settled, TypeOK
<1>1. CASE \/ LockDomains(c) \/ CheckDelay(c) \/ StampTime(c) \/ CountRequest(c)
           \/ PopDomain(c) /\ listed = {}
           \/ CheckLimit(c) /\ ~LimitReached(cur[c])
  <2>1. UNCHANGED <<queues, listed, rank, arg>> /\ pc' = [pc EXCEPT ![c] = pc'[c]]
        /\ pc[c] \notin {"list", "clearDomains"} /\ pc'[c] \notin {"list", "clearDomains"}
    BY <1>1, <1>e DEF LockDomains, CheckDelay, StampTime, CountRequest, PopDomain, CheckLimit,
                      TypeOK, store
  <2>2. pc'[c] \in Trying <=> pc[c] \in Trying
    BY <1>1, <1>e DEF LockDomains, CheckDelay, StampTime, CountRequest, PopDomain, CheckLimit,
                      TypeOK, Trying
  <2>3. \A k \in Takers : /\ pc'[k] \in Trying <=> pc[k] \in Trying
                          /\ pc[k] \in Trying => cur'[k] = cur[k]
    <3>1. cur' = cur \/ (pc[c] = "counting" /\ cur' = [cur EXCEPT ![c] = NoDomain])
      BY <1>1 DEF LockDomains, CheckDelay, StampTime, CountRequest, PopDomain, CheckLimit
    <3> QED
      BY <1>e, <2>1, <2>2, <3>1 DEF TypeOK, Trying
  <2>4. \A d \in Domains : LimitReached(d) => LimitReached(d)'
    <3>1. counts' = counts \/ (cur[c] \in Domains
                               /\ counts' = [counts EXCEPT ![cur[c]] = counts[cur[c]] + 1])
      BY <1>1, <1>e DEF LockDomains, CheckDelay, StampTime, CountRequest, PopDomain, CheckLimit,
                        store, LocksInPlace
    <3> QED
      BY <3>1 DEF LimitReached, TypeOK
  <2> QED
    BY <1>f, <2>1, <2>3, <2>4, ListFrame
<1>2. CASE PopDomain(c) /\ listed # {}
  <2>1. PICK d \in listed :
           /\ \A x \in listed : rank[x] <= rank[d]
           /\ listed' = listed \ {d}
           /\ cur' = [cur EXCEPT ![c] = d]
    BY <1>2 DEF PopDomain
  <2>2. UNCHANGED <<queues, rank, counts, arg>> /\ pc[c] = "popping"
        /\ pc' = [pc EXCEPT ![c] = "checking"] /\ dpq = c
    BY <1>2, <1>e DEF PopDomain, LocksInPlace
  <2>3. \A k \in Takers : pc[k] \notin Trying
    BY <1>e, <2>2, Exclusive DEF Trying
  <2>4. Tried = {} /\ Tried' = {d} /\ \A k \in Takers : pc'[k] \in Trying <=> k = c
    BY <1>e, <2>1, <2>2, <2>3 DEF Tried, Trying, TypeOK
  <2>5. \A x : (Filing(x) <=> Filing(x)') /\ (Settled(x) <=> Settled(x)')
    BY <1>e, <1>f, <2>2 DEF TypeOK
  <2>6. listed' \cup Tried' = listed \cup Tried
    BY <2>1, <2>4
  <2>7. TriedFirst'
    BY <2>1, <2>2, <2>4 DEF TriedFirst, TypeOK
  <2>8. DomainsListed' /\ RanksExact'
    BY <2>2, <2>5, <2>6 DEF ListInv, DomainsListed, RanksExact, LimitReached
  <2> QED
    BY <2>7, <2>8 DEF ListInv
<1>3. CASE CheckLimit(c) /\ LimitReached(cur[c])
  <2>1. UNCHANGED <<queues, listed, rank, counts, arg, cur>> /\ pc[c] = "checking"
        /\ pc' = [pc EXCEPT ![c] = "popping"]
    BY <1>3 DEF CheckLimit, store
  <2>2. Tried = {cur[c]} /\ \A k \in Takers \ {c} : pc[k] \notin Trying
    BY <2>1, Exclusive DEF Trying
  <2>3. Tried' = {} /\ \A k \in Takers : pc'[k] \notin Trying
    BY <1>e, <2>1, <2>2 DEF Tried, Trying, TypeOK
  <2>4. \A x : (Filing(x) <=> Filing(x)') /\ (Settled(x) <=> Settled(x)')
    BY <1>e, <1>f, <2>1 DEF TypeOK
  <2>5. TriedFirst' /\ RanksExact'
    BY <2>1, <2>3, <2>4 DEF ListInv, TriedFirst, RanksExact
  <2>6. DomainsListed'
    BY <1>3, <2>1, <2>2, <2>4 DEF ListInv, DomainsListed, LimitReached
  <2> QED
    BY <2>5, <2>6 DEF ListInv
<1>4. CASE PutBack(c) \/ TakeRequest(c)
  <2> DEFINE x == cur[c]
  <2>1. pc[c] \in {"delaying", "taking"} /\ dq = NoCaller
    BY <1>4 DEF PutBack, TakeRequest
  <2>2. x \in Domains /\ Tried = {x} /\ \A k \in Takers \ {c} : pc[k] \notin Trying
    BY <1>e, <2>1, Exclusive DEF Trying, LocksInPlace
  <2>3. UNCHANGED <<counts, arg, cur>> /\ pc' = [pc EXCEPT ![c] = pc'[c]]
        /\ pc'[c] \in {"popping", "stamping"}
    BY <1>4, <1>e DEF PutBack, TakeRequest, Serve, TypeOK, history
  <2>4. Tried' = {} /\ \A k \in Takers : pc'[k] \notin Trying
    BY <1>e, <2>2, <2>3 DEF Tried, Trying, TypeOK
  <2>5. \A d : Settled(d)
    BY <2>1, Exclusive
  <2>6. TriedFirst'
    BY <2>4 DEF TriedFirst
  <2>7. x \notin listed
    BY <2>1 DEF ListInv, TriedFirst, Trying
  <2>8. \A d \in Domains \ {x} : queues'[d] = queues[d] /\ (d \in listed' <=> d \in listed)
                                 /\ rank'[d] = rank[d]
    BY <1>4, <2>2 DEF PutBack, TakeRequest, Serve, TypeOK
  <2>9. \/ x \notin listed' /\ queues'[x] = {}
        \/ x \in listed' /\ \E e \in Highest(queues'[x]) : e.rank = rank'[x]
    <3>1. CASE queues[x] = {}
      BY <1>4, <2>7, <3>1 DEF PutBack, TakeRequest
    <3>2. CASE PutBack(c) /\ queues[x] # {}
      BY <2>2, <3>2 DEF PutBack, TypeOK
    <3>3. CASE TakeRequest(c) /\ queues[x] # {}
      <4>1. PICK e \in Highest(queues[x]) : Serve(c, x, e)
        BY <3>3 DEF TakeRequest
      <4>2. queues'[x] = queues[x] \ {e}
        BY <2>2, <4>1 DEF Serve, TypeOK
      <4>3. CASE queues[x] = {e}
        BY <2>7, <4>1, <4>2, <4>3 DEF Serve
      <4>4. CASE queues[x] # {e}
        BY <2>2, <4>1, <4>2, <4>4 DEF Serve, TypeOK
      <4> QED
        BY <4>3, <4>4
    <3> QED
      BY <1>4, <3>1, <3>2, <3>3
  <2>10. DomainsListed'
    <3> SUFFICES ASSUME NEW d \in Domains, queues'[d] # {}
                 PROVE  d \in listed' \/ LimitReached(d)'
      BY DEF DomainsListed
    <3>1. CASE d = x
      BY <2>9, <3>1
    <3>2. CASE d # x
      BY <2>2, <2>3, <2>5, <2>8, <3>2 DEF ListInv, DomainsListed, LimitReached, Settled
    <3> QED
      BY <3>1, <3>2
  <2>11. RanksExact'
    <3> SUFFICES ASSUME NEW d \in listed'
                 PROVE  \E e \in Highest(queues'[d]) : e.rank = rank'[d]
      BY <2>4 DEF RanksExact, Highest
    <3>1. CASE d = x
      BY <2>9, <3>1
    <3>2. CASE d # x
      <4>1. d \in Domains
        BY TypeTake DEF TypeOK
      <4>2. d \in listed /\ queues'[d] = queues[d] /\ rank'[d] = rank[d]
        BY <2>8, <3>2, <4>1
      <4> QED
        BY <2>5, <4>2 DEF ListInv, RanksExact
    <3> QED
      BY <3>1, <3>2
  <2> QED
    BY <2>6, <2>10, <2>11 DEF ListInv
<1> QED
  BY <1>1, <1>2, <1>3, <1>4 DEF Take

\* The steps of clear, and time.
LEMMA ListOthers ==
    ASSUME TypeOK, LocksInPlace, ClearedInPlace, ListInv,
           Tick \/ (\E c \in Clearers : Clear(c)) \/ UNCHANGED vars
    PROVE  ListInv'
<1> USE GroupAssumption DEF GroupConstants, Goes
<1>e. Enqueuers \subseteq Callers /\ Takers \subseteq Callers /\ Clearers \subseteq Callers
  BY Exclusive
<1>1. CASE Tick \/ UNCHANGED vars
  <2>1. UNCHANGED <<queues, listed, rank, counts, pc, arg, cur>>
    BY <1>1 DEF Tick, vars, store
  <2>2. \A d : (Filing(d) <=> Filing(d)') /\ (Settled(d) <=> Settled(d)')
    BY <2>1 DEF Filing, Settled
  <2> QED
    BY <2>1, <2>2, ListFrame DEF LimitReached
<1>2. ASSUME NEW c \in Clearers, ClearTimes(c)
      PROVE  ListInv'
  <2>1. UNCHANGED <<queues, listed, rank, counts, arg, cur>> /\ pc[c] = "clearTimes"
        /\ pc' = [pc EXCEPT ![c] = "clearCounts"]
    BY <1>2 DEF ClearTimes
  <2>2. \A d : (Filing(d) <=> Filing(d)') /\ (Settled(d) <=> Settled(d)')
    BY <1>e, <2>1 DEF Filing, Settled, TypeOK
  <2>3. \A k \in Takers : pc'[k] \in Trying <=> pc[k] \in Trying
    BY <1>e, <2>1 DEF Trying, TypeOK
  <2> QED
    BY <2>1, <2>2, <2>3, ListFrame DEF LimitReached
<1>3. ASSUME NEW c \in Clearers, ClearQueues(c)
      PROVE  ListInv'
  <2>1. UNCHANGED <<listed, rank, cur>> /\ pc[c] = "idle"
        /\ pc' = [pc EXCEPT ![c] = "clearDomains"] /\ \A d \in Domains : queues'[d] = {}
    BY <1>3 DEF ClearQueues
  <2>a. c \in Callers
    BY <1>e
  <2>2. \A k \in Takers : pc'[k] \in Trying <=> pc[k] \in Trying
    BY <1>e, <2>1, <2>a DEF Trying, TypeOK
  <2>3. \A d : ~Settled(d)'
    <3>1. pc'[c] = "clearDomains"
      BY <2>1, <2>a DEF TypeOK
    <3> QED
      BY <3>1 DEF Settled
  <2>4. TriedFirst'
    BY <2>1, <2>2 DEF ListInv, TriedFirst
  <2> QED
    BY <2>1, <2>3, <2>4 DEF ListInv, RanksExact, DomainsListed
<1>4. ASSUME NEW c \in Clearers, ClearDomains(c) \/ ClearCounts(c)
      PROVE  ListInv'
  <2>1. \A d \in Domains : queues'[d] = {}
    BY <1>4 DEF ClearDomains, ClearCounts, ClearedInPlace
  <2>2. listed' = {} /\ cur' = cur /\ pc' = [pc EXCEPT ![c] = pc'[c]]
        /\ pc'[c] \in {"clearTimes", "idle"}
    BY <1>4, <1>e DEF ClearDomains, ClearCounts, ClearedInPlace, TypeOK, history
  <2>3. \A k \in Takers : pc[k] \notin Trying
    <3>1. CASE ClearDomains(c)
      BY <3>1, Exclusive DEF ClearDomains
    <3>2. CASE ClearCounts(c)
      <4>1. pc[c] = "clearCounts" /\ dpq = c
        BY <1>e, <3>2 DEF ClearCounts, LocksInPlace
      <4> QED
        BY <1>e, <4>1, Exclusive DEF Trying
    <3> QED
      BY <1>4, <3>1, <3>2
  <2>4. \A k \in Takers : pc'[k] \notin Trying
    BY <1>e, <2>2, <2>3 DEF Trying, TypeOK
  <2>5. Tried' = {}
    BY <2>4 DEF Tried
  <2> QED
    BY <2>1, <2>2, <2>4, <2>5 DEF ListInv, RanksExact, DomainsListed, TriedFirst
<1> QED
  BY <1>1, <1>2, <1>3, <1>4 DEF Clear

\* What next hands out is the highest entry of the highest domain.
LEMMA HighestStep ==
    ASSUME TypeOK, LocksInPlace, ListInv, [Next]_vars,
           NEW c \in Takers, pc[c] = "taking", pc'[c] = "stamping",
           NEW d \in Domains, ~LimitReached(d), NEW f \in queues[d]
    PROVE  \E e \in queues[cur[c]] \ queues'[cur[c]] : f.rank <= e.rank
<1> USE GroupAssumption DEF GroupConstants, Goes
<1> DEFINE x == cur[c]
<1>e. c \in Callers /\ Enqueuers \subseteq Callers /\ Takers \subseteq Callers
      /\ Clearers \subseteq Callers
  BY Exclusive
<1>1. TakeRequest(c)
  <2>1. pc' # pc
    OBVIOUS
  <2>2. \A k \in Callers : pc' = [pc EXCEPT ![k] = pc'[k]] => k = c
    BY <1>e DEF TypeOK
  <2>3. \A k \in Enqueuers : ~Enqueue(k)
    BY <1>e, <2>2 DEF Enqueue, HasSeen, MarkSeen, Push, ListDomain, TypeOK
  <2>4. \A k \in Clearers : ~Clear(k)
    BY <1>e, <2>2 DEF Clear, ClearQueues, ClearDomains, ClearTimes, ClearCounts, TypeOK
  <2>5. ~Tick /\ ~UNCHANGED vars
    BY <2>1 DEF Tick, vars
  <2>6. PICK k \in Takers : Take(k)
    BY <2>3, <2>4, <2>5 DEF Next
  <2>7. TakeRequest(k)
    BY <1>e, <2>6 DEF Take, LockDomains, PopDomain, CheckLimit, CheckDelay, PutBack, StampTime,
                      CountRequest, TypeOK
  <2>8. k = c
    <3>1. pc[k] = "taking"
      BY <2>7 DEF TakeRequest
    <3> QED
      BY <3>1, Exclusive DEF Trying
  <2> QED
    BY <2>7, <2>8
<1>2. x \in Domains /\ Tried = {x} /\ \A y : Settled(y)
  BY <1>1, <1>e, Exclusive DEF TakeRequest, Trying, LocksInPlace
<1>3. queues[x] # {}
  BY <1>1, <1>e DEF TakeRequest, TypeOK
<1>4. PICK e \in Highest(queues[x]) : queues' = [queues EXCEPT ![x] = queues[x] \ {e}]
  BY <1>1, <1>3 DEF TakeRequest, Serve
<1>5. e \in queues[x] \ queues'[x]
  BY <1>2, <1>4 DEF Highest, TypeOK
<1>6. \A y \in listed \cup {x} : \E h \in Highest(queues[y]) : h.rank = rank[y]
  BY <1>2 DEF ListInv, RanksExact
<1>7. d \in listed \cup {x}
  BY <1>2 DEF ListInv, DomainsListed, Settled
<1>8. rank[d] <= rank[x] /\ rank[d] \in Int /\ rank[x] \in Int
  BY <1>2, <1>7 DEF ListInv, TriedFirst, Trying, TypeOK
<1>9. f.rank <= rank[d] /\ f.rank \in Int
  BY <1>6, <1>7 DEF Highest, TypeOK, Entries
<1>10. rank[x] <= e.rank /\ e.rank \in Int
  BY <1>2, <1>4, <1>6 DEF Highest, TypeOK, Entries
<1>11. f.rank <= e.rank
  BY <1>8, <1>9, <1>10
<1> QED
  BY <1>5, <1>11


-----------------------------------------------------------------------------
(* The limit *)

CountInv == CountsInPlace /\ OverrunBounded

\* A step that neither hands out nor counts a request.
LEMMA CountFrame ==
    ASSUME CountInv, UNCHANGED <<started, counts>>,
           \A d \in Domains : Pending(d)' = Pending(d),
           \A c \in Takers : pc'[c] \in {"timing", "delaying", "taking"} =>
                pc[c] \in {"timing", "delaying", "taking"} /\ cur'[c] = cur[c] /\ cur[c] \in Domains
    PROVE  CountInv'
<1>1. CountsInPlace'
  BY DEF CountInv, CountsInPlace
<1>2. OverrunBounded'
  BY DEF CountInv, OverrunBounded
<1> QED
  BY <1>1, <1>2 DEF CountInv

\* A step of somebody who is not at a place that matters here.
LEMMA CountMoves ==
    ASSUME TypeOK, LocksInPlace, CountInv, UNCHANGED <<started, counts, cur>>, NEW c \in Callers,
           pc' = [pc EXCEPT ![c] = pc'[c]],
           pc[c] \notin {"stamping", "counting"}, pc'[c] \notin {"stamping", "counting"},
           pc'[c] \in {"timing", "delaying", "taking"} => pc[c] \in {"timing", "delaying", "taking"}
    PROVE  CountInv'
<1>e. Enqueuers \subseteq Callers /\ Takers \subseteq Callers /\ Clearers \subseteq Callers
  BY Exclusive
<1>1. \A d \in Domains : Pending(d)' = Pending(d)
  BY <1>e DEF Pending, TypeOK
<1>2. \A k \in Takers : pc'[k] \in {"timing", "delaying", "taking"} =>
         pc[k] \in {"timing", "delaying", "taking"} /\ cur'[k] = cur[k] /\ cur[k] \in Domains
  BY <1>e DEF TypeOK, LocksInPlace, Trying
<1> QED
  BY <1>1, <1>2, CountFrame

\* Between the test of the limit and the count, each taker counts for one.
LEMMA CountStep ==
    ASSUME TypeOK, LocksInPlace, CountInv, [Next]_vars
    PROVE  CountInv'
<1> USE GroupAssumption DEF GroupConstants, Goes
<1>e. Enqueuers \subseteq Callers /\ Takers \subseteq Callers /\ Clearers \subseteq Callers
  BY Exclusive
<1>p. \A d : Pending(d) \in SUBSET Takers
  BY DEF Pending
<1>t. Cardinality(Takers) \in Nat
  BY FS_CardinalityType
<1>1. ASSUME NEW c \in Enqueuers, Enqueue(c)
      PROVE  CountInv'
  <2>1. UNCHANGED <<started, counts, cur>> /\ c \in Callers /\ pc' = [pc EXCEPT ![c] = pc'[c]]
        /\ pc[c] \in {"idle", "mark", "push", "list"} /\ pc'[c] \in {"idle", "mark", "push", "list"}
    BY <1>1, <1>e DEF Enqueue, HasSeen, MarkSeen, Push, ListDomain, TypeOK, store, history
  <2> QED
    BY <2>1, CountMoves
<1>2. ASSUME NEW c \in Takers,
             LockDomains(c) \/ (PopDomain(c) /\ listed = {}) \/ CheckDelay(c) \/ PutBack(c)
             \/ (CheckLimit(c) /\ LimitReached(cur[c]))
             \/ (TakeRequest(c) /\ queues[cur[c]] = {})
      PROVE  CountInv'
  <2>1. UNCHANGED <<started, counts, cur>> /\ c \in Callers /\ pc' = [pc EXCEPT ![c] = pc'[c]]
        /\ pc[c] \notin {"stamping", "counting"} /\ pc'[c] \notin {"stamping", "counting"}
        /\ (pc'[c] \in {"timing", "delaying", "taking"} => pc[c] \in {"timing", "delaying", "taking"})
    BY <1>2, <1>e DEF LockDomains, PopDomain, CheckDelay, PutBack, CheckLimit, TakeRequest, TypeOK,
                      store, history
  <2> QED
    BY <2>1, CountMoves
<1>3. ASSUME NEW c \in Takers, PopDomain(c), listed # {}
      PROVE  CountInv'
  <2>1. PICK d \in listed : cur' = [cur EXCEPT ![c] = d]
    BY <1>3 DEF PopDomain
  <2>2. UNCHANGED <<started, counts>> /\ pc[c] = "popping" /\ pc' = [pc EXCEPT ![c] = "checking"]
    BY <1>3 DEF PopDomain, history
  <2>3. \A d1 \in Domains : Pending(d1)' = Pending(d1)
    BY <1>e, <2>1, <2>2 DEF Pending, TypeOK
  <2>4. \A k \in Takers : pc'[k] \in {"timing", "delaying", "taking"} =>
           pc[k] \in {"timing", "delaying", "taking"} /\ cur'[k] = cur[k] /\ cur[k] \in Domains
    BY <1>e, <2>1, <2>2 DEF TypeOK, LocksInPlace, Trying
  <2> QED
    BY <2>2, <2>3, <2>4, CountFrame
<1>4. ASSUME NEW c \in Takers, CheckLimit(c), ~LimitReached(cur[c])
      PROVE  CountInv'
  <2>1. UNCHANGED <<started, counts, cur>> /\ pc[c] = "checking"
        /\ pc' = [pc EXCEPT ![c] = "timing"]
    BY <1>4 DEF CheckLimit, store, history
  <2>2. \A d \in Domains : Pending(d)' = Pending(d)
    BY <1>e, <2>1 DEF Pending, TypeOK
  <2>3. \A k \in Takers : pc'[k] \in {"timing", "delaying", "taking"} => k = c
    BY <1>e, <2>1, Exclusive DEF TypeOK, Trying
  <2>4. cur[c] \in Domains /\ c \notin Pending(cur[c])
    BY <1>e, <2>1 DEF Pending, LocksInPlace, Trying
  <2>5. Cardinality(Pending(cur[c])) \in Nat
        /\ Cardinality(Pending(cur[c])) <= Cardinality(Takers) - 1
    BY <1>p, <2>4, TakersCount
  <2>6. Limit > 0 => counts[cur[c]] <= Limit - 1 /\ counts[cur[c]] \in Nat
    BY <1>4, <2>4 DEF LimitReached, TypeOK
  <2>7. Limit > 0 => counts[cur[c]] + Cardinality(Pending(cur[c])) <= Limit + Cardinality(Takers) - 2
    BY <1>t, <2>5, <2>6
  <2>8. CountsInPlace'
    BY <2>1, <2>2, <2>3, <2>4, <2>7 DEF CountInv, CountsInPlace
  <2>9. OverrunBounded'
    BY <2>1 DEF CountInv, OverrunBounded
  <2> QED
    BY <2>8, <2>9 DEF CountInv
<1>5. ASSUME NEW c \in Takers, TakeRequest(c), queues[cur[c]] # {}
      PROVE  CountInv'
  <2>1. PICK x \in Domains : x = cur[c] /\ pc[c] = "taking"
    BY <1>5, <1>e DEF TakeRequest, LocksInPlace, Trying
  <2>2. UNCHANGED <<counts, cur>> /\ pc' = [pc EXCEPT ![c] = "stamping"]
        /\ started' = [started EXCEPT ![x] = started[x] + 1]
    BY <1>5, <2>1 DEF TakeRequest, Serve
  <2>3. c \notin Pending(x) /\ Pending(x)' = Pending(x) \cup {c}
    BY <1>e, <2>1, <2>2 DEF Pending, TypeOK
  <2>4. \A d \in Domains \ {x} : Pending(d)' = Pending(d)
    BY <1>e, <2>1, <2>2 DEF Pending, TypeOK
  <2>5. Cardinality(Pending(x)') = Cardinality(Pending(x)) + 1 /\ Cardinality(Pending(x)) \in Nat
    BY <1>p, <2>3, TakersCount
  <2>6. \A k \in Takers : pc'[k] \notin {"timing", "delaying", "taking"}
    BY <1>e, <2>1, <2>2, Exclusive DEF TypeOK, Trying
  <2>7. started[x] <= counts[x] + Cardinality(Pending(x)) /\ started[x] \in Nat /\ counts[x] \in Nat
    BY DEF CountInv, CountsInPlace, TypeOK
  <2>8. started'[x] = started[x] + 1 /\ \A d \in Domains \ {x} : started'[d] = started[d]
    BY <2>2 DEF TypeOK
  <2>9. \A d \in Domains : started'[d] <= counts'[d] + Cardinality(Pending(d)')
    <3> TAKE d \in Domains
    <3>1. CASE d = x
      BY <2>2, <2>5, <2>7, <2>8, <3>1
    <3>2. CASE d # x
      BY <2>2, <2>4, <2>8, <3>2 DEF CountInv, CountsInPlace
    <3> QED
      BY <3>1, <3>2
  <2>10. CountsInPlace'
    BY <2>6, <2>9 DEF CountsInPlace
  <2>11. Limit > 0 => started'[x] <= Limit + Cardinality(Takers) - 1
    <3>1. Limit > 0 => counts[x] + Cardinality(Pending(x)) <= Limit + Cardinality(Takers) - 2
      BY <2>1 DEF CountInv, CountsInPlace
    <3> QED
      BY <1>t, <2>5, <2>7, <2>8, <3>1
  <2>12. OverrunBounded'
    BY <2>8, <2>11 DEF CountInv, OverrunBounded
  <2> QED
    BY <2>10, <2>12 DEF CountInv
<1>6. ASSUME NEW c \in Takers, StampTime(c)
      PROVE  CountInv'
  <2>1. UNCHANGED <<started, counts, cur>> /\ pc[c] = "stamping"
        /\ pc' = [pc EXCEPT ![c] = "counting"]
    BY <1>6 DEF StampTime, history
  <2>2. \A d \in Domains : Pending(d)' = Pending(d)
    BY <1>e, <2>1 DEF Pending, TypeOK
  <2>3. \A k \in Takers : pc'[k] \in {"timing", "delaying", "taking"} =>
           pc[k] \in {"timing", "delaying", "taking"} /\ cur'[k] = cur[k] /\ cur[k] \in Domains
    BY <1>e, <2>1 DEF TypeOK, LocksInPlace, Trying
  <2> QED
    BY <2>1, <2>2, <2>3, CountFrame
<1>7. ASSUME NEW c \in Takers, CountRequest(c)
      PROVE  CountInv'
  <2>1. PICK x \in Domains : x = cur[c] /\ pc[c] = "counting"
    BY <1>7, <1>e DEF CountRequest, LocksInPlace
  <2>2. started' = started /\ pc' = [pc EXCEPT ![c] = "idle"] /\ cur' = [cur EXCEPT ![c] = NoDomain]
        /\ counts' = [counts EXCEPT ![x] = counts[x] + 1]
    BY <1>7, <2>1 DEF CountRequest, history
  <2>3. c \in Pending(x) /\ Pending(x)' = Pending(x) \ {c}
    BY <1>e, <2>1, <2>2 DEF Pending, TypeOK
  <2>4. \A d \in Domains \ {x} : Pending(d)' = Pending(d)
    BY <1>e, <2>1, <2>2 DEF Pending, TypeOK
  <2>5. Cardinality(Pending(x)') = Cardinality(Pending(x)) - 1 /\ Cardinality(Pending(x)) \in Nat
    BY <1>p, <2>3, TakersCount
  <2>6. counts'[x] = counts[x] + 1 /\ counts[x] \in Nat
        /\ \A d \in Domains \ {x} : counts'[d] = counts[d]
    BY <2>2 DEF TypeOK
  <2>7. \A d \in Domains :
           counts'[d] + Cardinality(Pending(d)') = counts[d] + Cardinality(Pending(d))
    BY <2>4, <2>5, <2>6
  <2>8. \A k \in Takers : pc'[k] \in {"timing", "delaying", "taking"} =>
           pc[k] \in {"timing", "delaying", "taking"} /\ cur'[k] = cur[k] /\ cur[k] \in Domains
    BY <1>e, <2>1, <2>2 DEF TypeOK, LocksInPlace, Trying
  <2>9. CountsInPlace'
    BY <2>2, <2>7, <2>8 DEF CountInv, CountsInPlace
  <2>10. OverrunBounded'
    BY <2>2 DEF CountInv, OverrunBounded
  <2> QED
    BY <2>9, <2>10 DEF CountInv
<1>8. ASSUME NEW c \in Clearers, ClearQueues(c) \/ ClearDomains(c) \/ ClearTimes(c)
      PROVE  CountInv'
  <2>1. UNCHANGED <<started, counts, cur>> /\ c \in Callers /\ pc' = [pc EXCEPT ![c] = pc'[c]]
        /\ pc[c] \in {"idle", "clearDomains", "clearTimes"}
        /\ pc'[c] \in {"clearDomains", "clearTimes", "clearCounts"}
    BY <1>8, <1>e DEF ClearQueues, ClearDomains, ClearTimes, TypeOK, history
  <2> QED
    BY <2>1, CountMoves
<1>9. ASSUME NEW c \in Clearers, ClearCounts(c)
      PROVE  CountInv'
  <2>1. pc[c] = "clearCounts" /\ pc' = [pc EXCEPT ![c] = "idle"] /\ dpq = c
        /\ \A d \in Domains : started'[d] = 0 /\ counts'[d] = 0
    BY <1>9, <1>e DEF ClearCounts, LocksInPlace
  <2>2. \A k \in Takers : pc[k] \notin Trying
    BY <1>e, <2>1, Exclusive DEF Trying
  <2>3. \A k \in Takers : pc'[k] \notin {"timing", "delaying", "taking"}
    BY <1>e, <2>1, <2>2 DEF TypeOK, Trying
  <2>4. \A d \in Domains : Cardinality(Pending(d)') \in Nat
    <3>1. \A d : Pending(d)' \in SUBSET Takers
      BY DEF Pending
    <3> QED
      BY <3>1, FS_Subset, FS_CardinalityType
  <2>5. CountsInPlace'
    BY <2>1, <2>3, <2>4 DEF CountsInPlace
  <2>6. Cardinality(Takers)' = Cardinality(Takers) /\ (Limit > 0 => Limit + Cardinality(Takers) - 1 >= 0)
    BY <1>t
  <2>7. OverrunBounded'
    BY <1>t, <2>1, <2>6 DEF OverrunBounded
  <2> QED
    BY <2>5, <2>7 DEF CountInv
<1>10. ASSUME Tick \/ UNCHANGED vars
      PROVE  CountInv'
  <2>1. UNCHANGED <<started, counts, cur, pc>>
    BY <1>10 DEF Tick, vars, store, history
  <2>2. \A d \in Domains : Pending(d)' = Pending(d)
    BY <2>1 DEF Pending
  <2>3. \A k \in Takers : pc'[k] \in {"timing", "delaying", "taking"} =>
           pc[k] \in {"timing", "delaying", "taking"} /\ cur'[k] = cur[k] /\ cur[k] \in Domains
    BY <1>e, <2>1 DEF LocksInPlace, Trying
  <2> QED
    BY <2>1, <2>2, <2>3, CountFrame
<1> QED
  BY <1>1, <1>2, <1>3, <1>4, <1>5, <1>6, <1>7, <1>8, <1>9, <1>10 DEF Next, Take, Clear

-----------------------------------------------------------------------------
(* The delay *)

\* No time a taker sees exceeds the time since its own last request.
LEMMA PacedStep ==
    ASSUME TypeOK, LocksInPlace, PacedInv, [Next]_vars
    PROVE  PacedInv'
<1> USE GroupAssumption DEF GroupConstants, Goes
<1>e. Enqueuers \subseteq Callers /\ Takers \subseteq Callers /\ Clearers \subseteq Callers
  BY Exclusive
<1>1. ASSUME UNCHANGED <<age, since>>, NEW c \in Callers, pc' = [pc EXCEPT ![c] = pc'[c]],
             pc[c] # "stamping", pc'[c] \notin {"stamping", "taking"},
             \A k \in Takers : k = c \/ cur'[k] = cur[k]
      PROVE  PacedInv'
  BY <1>1, <1>e DEF PacedInv, TypeOK
<1>2. ASSUME NEW c \in Enqueuers, Enqueue(c)
      PROVE  PacedInv'
  <2>1. UNCHANGED <<age, since, cur>> /\ c \in Callers /\ pc' = [pc EXCEPT ![c] = pc'[c]]
        /\ pc[c] # "stamping" /\ pc'[c] \notin {"stamping", "taking"}
    BY <1>2, <1>e DEF Enqueue, HasSeen, MarkSeen, Push, ListDomain, TypeOK, store, history
  <2> QED
    BY <1>1, <2>1
<1>3. ASSUME NEW c \in Takers,
             \/ LockDomains(c) \/ PopDomain(c) \/ CheckLimit(c) \/ PutBack(c) \/ CountRequest(c)
             \/ (CheckDelay(c) /\ age[cur[c]] < Delay)
             \/ (TakeRequest(c) /\ queues[cur[c]] = {})
      PROVE  PacedInv'
  <2>1. UNCHANGED <<age, since>> /\ c \in Callers /\ pc' = [pc EXCEPT ![c] = pc'[c]]
        /\ pc[c] # "stamping" /\ pc'[c] \notin {"stamping", "taking"}
        /\ \A k \in Takers : k = c \/ cur'[k] = cur[k]
    BY <1>3, <1>e DEF LockDomains, PopDomain, CheckLimit, PutBack, CountRequest, CheckDelay,
                      TakeRequest, TypeOK, store, history
  <2> QED
    BY <1>1, <2>1
<1>4. ASSUME NEW c \in Takers, CheckDelay(c), ~(age[cur[c]] < Delay)
      PROVE  PacedInv'
  <2>1. PICK x \in Domains : x = cur[c] /\ pc[c] = "timing"
    BY <1>4, <1>e DEF CheckDelay, LocksInPlace, Trying
  <2>2. UNCHANGED <<age, since, cur>> /\ pc' = [pc EXCEPT ![c] = "taking"]
    BY <1>4 DEF CheckDelay, store, history
  <2>3. age[x] <= since[<<c, x>>] /\ since[<<c, x>>] \in 0 .. Delay /\ age[x] \in 0 .. Delay
    BY <2>1 DEF PacedInv, TypeOK
  <2>4. since[<<c, x>>] = Delay
    BY <1>4, <2>1, <2>3
  <2> QED
    BY <1>e, <2>1, <2>2, <2>4 DEF PacedInv, TypeOK
<1>5. ASSUME NEW c \in Takers, TakeRequest(c), queues[cur[c]] # {}
      PROVE  PacedInv'
  <2>1. PICK x \in Domains : x = cur[c] /\ pc[c] = "taking"
    BY <1>5, <1>e DEF TakeRequest, LocksInPlace, Trying
  <2>2. UNCHANGED <<age, cur>> /\ pc' = [pc EXCEPT ![c] = "stamping"]
        /\ since' = [since EXCEPT ![<<c, x>>] = 0]
    BY <1>5, <2>1 DEF TakeRequest, Serve
  <2>3. \A k \in Takers, d \in Domains : <<k, d>> # <<c, x>> => since'[<<k, d>>] = since[<<k, d>>]
    BY <2>2 DEF TypeOK
  <2>4. \A k \in Takers : k # c => pc'[k] = pc[k]
    BY <1>e, <2>2 DEF TypeOK
  <2>5. pc'[c] = "stamping" /\ cur'[c] = x
    BY <1>e, <2>1, <2>2 DEF TypeOK
  <2> SUFFICES ASSUME NEW k \in Takers
               PROVE  /\ \A d \in Domains : age'[d] <= since'[<<k, d>>]
                                            \/ (pc'[k] = "stamping" /\ cur'[k] = d)
                      /\ pc'[k] = "taking" => since'[<<k, cur'[k]>>] = Delay
    BY DEF PacedInv
  <2>6. CASE k = c
    BY <2>1, <2>2, <2>3, <2>5, <2>6 DEF PacedInv
  <2>7. CASE k # c
    <3>1. \A d \in Domains : since'[<<k, d>>] = since[<<k, d>>]
      BY <2>3, <2>7
    <3>2. pc[k] # "taking"
      BY <2>1, <2>7, Exclusive DEF Trying
    <3> QED
      BY <2>2, <2>4, <2>7, <3>1, <3>2 DEF PacedInv
  <2> QED
    BY <2>6, <2>7
<1>6. ASSUME NEW c \in Takers, StampTime(c)
      PROVE  PacedInv'
  <2>1. PICK x \in Domains : x = cur[c] /\ pc[c] = "stamping"
    BY <1>6, <1>e DEF StampTime, LocksInPlace
  <2>2. UNCHANGED <<since, cur>> /\ pc' = [pc EXCEPT ![c] = "counting"]
        /\ age' = [age EXCEPT ![x] = 0]
    BY <1>6, <2>1 DEF StampTime, history
  <2>3. \A k \in Takers, d \in Domains : since[<<k, d>>] \in 0 .. Delay
    BY DEF TypeOK
  <2>4. ASSUME NEW k \in Takers, NEW d \in Domains
        PROVE  age'[d] <= since'[<<k, d>>] \/ (d # x /\ age'[d] = age[d])
    <3>1. CASE d = x
      <4>1. age'[x] = 0
        BY <2>1, <2>2 DEF TypeOK
      <4>2. since'[<<k, d>>] \in 0 .. Delay
        BY <2>2, <2>3
      <4>3. Delay \in Nat
        BY GroupAssumption DEF GroupConstants
      <4> QED
        BY <3>1, <4>1, <4>2, <4>3
    <3>2. CASE d # x
      BY <2>2, <3>2 DEF TypeOK
    <3> QED
      BY <3>1, <3>2
  <2> QED
    BY <1>e, <2>1, <2>2, <2>4 DEF PacedInv, TypeOK
<1>7. ASSUME NEW c \in Clearers, ClearQueues(c) \/ ClearDomains(c) \/ ClearCounts(c)
      PROVE  PacedInv'
  <2>1. UNCHANGED <<age, since, cur>> /\ c \in Callers /\ pc' = [pc EXCEPT ![c] = pc'[c]]
        /\ pc[c] # "stamping" /\ pc'[c] \notin {"stamping", "taking"}
    BY <1>7, <1>e DEF ClearQueues, ClearDomains, ClearCounts, TypeOK, history
  <2> QED
    BY <1>1, <2>1
<1>8. ASSUME NEW c \in Clearers, ClearTimes(c)
      PROVE  PacedInv'
  <2>1. \A k \in Takers, d \in Domains : age'[d] = Delay /\ since'[<<k, d>>] = Delay
    BY <1>8 DEF ClearTimes
  <2>2. cur' = cur /\ \A k \in Takers : pc'[k] = "taking" => pc[k] = "taking"
    BY <1>8, <1>e DEF ClearTimes, TypeOK
  <2>3. \A k \in Takers : pc[k] = "taking" => cur[k] \in Domains
    BY <1>e DEF LocksInPlace, Trying
  <2> QED
    BY <2>1, <2>2, <2>3 DEF PacedInv
<1>9. ASSUME Tick
      PROVE  PacedInv'
  <2>1. \A k \in Takers, d \in Domains : age'[d] = Older(age[d]) /\ since'[<<k, d>>] = Older(since[<<k, d>>])
    BY <1>9 DEF Tick
  <2>2. \A s, t \in 0 .. Delay : s <= t => Older(s) <= Older(t)
    BY DEF Older
  <2>3. \A k \in Takers, d \in Domains : age[d] \in 0 .. Delay /\ since[<<k, d>>] \in 0 .. Delay
    BY DEF TypeOK
  <2>4. UNCHANGED <<pc, cur>> /\ Older(Delay) = Delay
    BY <1>9 DEF Tick, Older
  <2>5. \A k \in Takers : pc[k] = "taking" => cur[k] \in Domains
    BY <1>e DEF LocksInPlace, Trying
  <2> QED
    BY <2>1, <2>2, <2>3, <2>4, <2>5 DEF PacedInv
<1>10. ASSUME UNCHANGED vars
       PROVE  PacedInv'
  BY <1>10 DEF vars, store, history, PacedInv
<1> QED
  BY <1>2, <1>3, <1>4, <1>5, <1>6, <1>7, <1>8, <1>9, <1>10 DEF Next, Take, Clear


-----------------------------------------------------------------------------
(* Results *)

\* The invariant is inductive.
LEMMA GroupStep == IInv /\ [Next]_vars => IInv'
<1> SUFFICES ASSUME IInv, [Next]_vars PROVE IInv'
  OBVIOUS
<1>1. TypeOK' /\ LocksInPlace'
  BY TypeStep DEF IInv
<1>2. ClearedInPlace' /\ NoUrlLost'
  BY ClearedStep, UrlStep DEF IInv
<1>3. DomainsListed' /\ RanksExact' /\ TriedFirst'
  <2>1. ListInv
    BY DEF IInv, ListInv
  <2>2. ListInv'
    BY <2>1, ListEnqueue, ListTake, ListOthers DEF IInv, Next
  <2> QED
    BY <2>2 DEF ListInv
<1>4. CountsInPlace' /\ OverrunBounded'
  BY CountStep DEF IInv, CountInv
<1>5. PacedInv'
  BY PacedStep DEF IInv
<1> QED
  BY <1>1, <1>2, <1>3, <1>4, <1>5 DEF IInv

\* The inductive invariant holds in every state of every execution.
THEOREM Invariance == Spec => []IInv
  BY GroupInit, GroupStep, PTL DEF Spec

\* The maps, the counts and the Mutexes of the scheduler keep their types.
THEOREM TypeCorrect == Spec => []TypeOK
<1>1. IInv => TypeOK
  BY DEF IInv
<1> QED
  BY <1>1, Invariance, PTL

\* Whatever enqueue, next and clear calls race: a URL marked as seen is queued,
\* handed out, or about to be pushed.
THEOREM NeverLosesAUrl == Spec => []NoUrlLost
<1>1. IInv => NoUrlLost
  BY DEF IInv
<1> QED
  BY <1>1, Invariance, PTL

\* For any callers: the list of domains, which next alone consults, never forgets
\* a domain that has requests and is below its limit.
THEOREM ForgetsNoDomain == Spec => []DomainsListed
<1>1. IInv => DomainsListed
  BY DEF IInv
<1> QED
  BY <1>1, Invariance, PTL

\* However many tasks are in next: each request handed out has the highest
\* priority of all whose domain is below its limit.
THEOREM KeepsPriorities == Spec => HighestFirst
<1>1. IInv /\ [Next]_vars =>
        [\A c \in Takers : pc[c] = "taking" /\ pc'[c] = "stamping" =>
            \A d \in Domains : ~LimitReached(d) =>
               \A f \in queues[d] :
                  \E e \in queues[cur[c]] \ queues'[cur[c]] : f.rank <= e.rank]_vars
  BY HighestStep DEF IInv, ListInv
<1> QED
  BY <1>1, Invariance, PTL DEF Spec, HighestFirst

\* With N tasks in next a domain exceeds its limit by N - 1 requests at most.
THEOREM BoundsTheOverrun == Spec => []OverrunBounded
<1>1. IInv => OverrunBounded
  BY DEF IInv
<1> QED
  BY <1>1, Invariance, PTL

\* A task that calls next alone never makes a domain exceed its limit.
COROLLARY SoleTakerKeepsTheLimit ==
    ASSUME NEW t, Takers = {t}, Limit > 0
    PROVE  Spec => [](\A d \in Domains : started[d] <= Limit)
<1>1. Cardinality({t}) = 1
  BY FS_Singleton
<1>2. ASSUME TypeOK, OverrunBounded
      PROVE  \A d \in Domains : started[d] <= Limit
  <2>1. Cardinality(Takers) = 1
    BY <1>1
  <2>2. Limit \in Nat
    BY GroupAssumption DEF GroupConstants
  <2>3. Limit + 1 - 1 = Limit
    BY <2>2
  <2> TAKE d \in Domains
  <2> QED
    BY <1>2, <2>1, <2>2, <2>3 DEF OverrunBounded
<1> QED
  BY <1>2, TypeCorrect, BoundsTheOverrun, PTL

\* Each task in next sees the delay of every domain.
THEOREM PacesTheTakers == Spec => PacesEachTaker
<1>1. IInv /\ [Next]_vars =>
        [\A c \in Takers : pc[c] = "taking" /\ pc'[c] = "stamping" =>
            since[<<c, cur[c]>>] = Delay]_vars
  BY DEF IInv, PacedInv
<1> QED
  BY <1>1, Invariance, PTL DEF Spec, PacesEachTaker

-----------------------------------------------------------------------------
(* The lock cycle *)

LEMMA Holders ==
    ASSUME LocksInPlace, NEW c \in Callers
    PROVE  /\ pc[c] = "list" => c \in Enqueuers
           /\ pc[c] = "clearDomains" => c \in Clearers
           /\ pc[c] \in {"delaying", "taking"} => c \in Takers
           /\ dq = c <=> pc[c] \in {"list", "clearDomains", "clearTimes", "clearCounts"}
           /\ dpq = c <=> pc[c] \in {"popping", "checking", "timing", "delaying", "taking",
                                     "clearTimes", "clearCounts"}
  BY DEF LocksInPlace, Trying

\* Whatever calls race: the lock cycle of enqueue or clear and next is the only
\* way in which they can wait for each other.
THEOREM OnlyTheLockCycleBlocks == Spec => []HoldersMove
<1>1. ASSUME LocksInPlace, ~LockCycle, NEW c \in Callers, NEW k \in Callers, Awaits(c, k)
      PROVE  Moves(k) \/ \E j \in Callers : Awaits(k, j) /\ Moves(j)
  <2>h. /\ pc[c] \in {"list", "clearDomains", "clearTimes", "clearCounts"} => dq = c
        /\ dq = k => pc[k] \in {"list", "clearDomains", "clearTimes", "clearCounts"}
        /\ pc[k] \in {"clearTimes", "clearCounts"} => dq = k
        /\ dpq = k => pc[k] \in {"popping", "checking", "timing", "delaying", "taking",
                                 "clearTimes", "clearCounts"}
    BY <1>1, Holders
  <2>1. CASE pc[c] \in {"list", "clearDomains"} /\ dpq = k
    <3>1. dq = c
      BY <2>1, <2>h
    <3>2. pc[k] \notin {"clearTimes", "clearCounts"}
      BY <2>1, <2>h, <3>1
    <3>3. pc[k] \notin {"delaying", "taking"}
      BY <1>1, <2>1, <3>1, Holders DEF LockCycle
    <3>4. pc[k] \in {"popping", "checking", "timing"}
      BY <2>1, <2>h, <3>2, <3>3
    <3> QED
      BY <3>4 DEF Moves, Awaits
  <2>2. CASE pc[c] \in {"push", "delaying", "taking"} /\ dq = k
    <3>1. pc[k] \in {"list", "clearDomains", "clearTimes", "clearCounts"}
      BY <2>2, <2>h
    <3>2. CASE pc[k] \in {"clearTimes", "clearCounts"}
      BY <3>2 DEF Moves, Awaits
    <3>3. CASE pc[k] \in {"list", "clearDomains"} /\ \A j \in Callers : dpq # j
      BY <3>3 DEF Moves, Awaits
    <3>4. ASSUME pc[k] \in {"list", "clearDomains"}, NEW j \in Callers, dpq = j
          PROVE  Awaits(k, j) /\ Moves(j)
      <4>1. pc[j] \in {"popping", "checking", "timing", "delaying", "taking",
                      "clearTimes", "clearCounts"}
        BY <1>1, <3>4, Holders
      <4>2. pc[j] \notin {"clearTimes", "clearCounts"}
        BY <1>1, <2>2, <3>4, Holders
      <4>3. pc[j] \notin {"delaying", "taking"}
        BY <1>1, <2>2, <3>4, Holders DEF LockCycle
      <4>4. pc[j] \in {"popping", "checking", "timing"}
        BY <4>1, <4>2, <4>3
      <4> QED
        BY <3>4, <4>4 DEF Moves, Awaits
    <3> QED
      BY <3>1, <3>2, <3>3, <3>4
  <2>3. CASE pc[c] = "stamping" /\ k \in Clearers /\ pc[k] = "clearCounts"
    BY <2>3 DEF Moves, Awaits
  <2> QED
    BY <1>1, <2>1, <2>2, <2>3 DEF Awaits
<1>2. IInv => HoldersMove
  BY <1>1 DEF IInv, HoldersMove
<1> QED
  BY <1>2, Invariance, PTL

\* The cycle takes two tasks: it cannot arise where one task makes all calls, as
\* an engine with concurrent_requests = 1 does.
THEOREM SoleCallerNeverBlocks ==
    ASSUME NEW sole, Callers = {sole}
    PROVE  Spec => []NoLockCycle
<1>1. ASSUME LocksInPlace, LockCycle
      PROVE  FALSE
  <2>1. PICK c \in Takers : dpq = c /\ pc[c] \in {"delaying", "taking"}
    BY <1>1 DEF LockCycle
  <2>2. PICK k \in Callers : dq = k /\ pc[k] \in {"list", "clearDomains"}
    BY <1>1 DEF LockCycle, Callers
  <2>3. c = sole /\ k = sole
    BY <2>1, <2>2 DEF Callers
  <2> QED
    BY <2>1, <2>2, <2>3
<1>2. IInv => NoLockCycle
  BY <1>1 DEF IInv, NoLockCycle
<1> QED
  BY <1>2, Invariance, PTL

-----------------------------------------------------------------------------
(* The frontier *)

\* What a user of the frontier sees handed out.
Shown == IF Clearing THEN {} ELSE handed

\* A step that leaves the URLs where they are, and brings no request to be marked.
LEMMA OnceFrame ==
    ASSUME OnceInv, UNCHANGED <<seen, queues, handed>>,
           InFlightUrls' = InFlightUrls, Clearing' = Clearing,
           \A c \in Enqueuers : pc'[c] = "mark" => pc[c] = "mark" /\ arg'[c] = arg[c]
    PROVE  OnceInv' /\ [F!Next]_(F!fvars)
<1>1. QueuedUrls' = QueuedUrls
  BY DEF QueuedUrls
<1>2. OnceInv'
  BY <1>1 DEF OnceInv
<1>3. UNCHANGED F!fvars
  BY <1>1 DEF F!fvars
<1> QED
  BY <1>2, <1>3

\* What the other steps do to the frontier.
LEMMA FrontierSteps ==
    /\ UNCHANGED <<QueuedUrls \cup InFlightUrls, Shown>> => [F!Next]_(F!fvars)
    /\ \A u \in Urls :
          /\ u \notin (QueuedUrls \cup InFlightUrls) \cup Shown
          /\ (QueuedUrls \cup InFlightUrls)' = (QueuedUrls \cup InFlightUrls) \cup {u}
          /\ Shown' = Shown
          => F!Next
    /\ \A u \in Urls :
          /\ u \in QueuedUrls \cup InFlightUrls
          /\ (QueuedUrls \cup InFlightUrls)' = (QueuedUrls \cup InFlightUrls) \ {u}
          /\ Shown' = Shown \cup {u}
          => F!Next
    /\ (QueuedUrls \cup InFlightUrls)' = {} /\ Shown' = {} => F!Next
<1> DEFINE waiting == QueuedUrls \cup InFlightUrls
<1>1. PICK w, x : w = waiting /\ x = waiting'
  OBVIOUS
<1>2. PICK s, t : s = Shown /\ t = Shown'
  OBVIOUS
<1> HIDE DEF waiting
<1> USE DEF F!Next, F!Add, F!Take, F!Forget, F!fvars, Shown, waiting
<1> QED
  OBVIOUS

LEMMA OnceEnqueue ==
    ASSUME NEW sole, Enqueuers = {sole}, Clearers \subseteq {sole},
           TypeOK, LocksInPlace, OnceInv, Enqueue(sole)
    PROVE  OnceInv' /\ [F!Next]_(F!fvars)
<1> USE DEF Goes
\* It has at most one request on its way, and none while it clears.
<1>s. /\ sole \in Enqueuers /\ sole \in Callers
      /\ InFlightUrls = IF pc[sole] = "push" THEN {arg[sole].url} ELSE {}
      /\ InFlightUrls' = IF pc'[sole] = "push" THEN {arg'[sole].url} ELSE {}
      /\ Clearing => pc[sole] \in {"clearDomains", "clearTimes", "clearCounts"}
      /\ Clearing' => pc'[sole] \in {"clearDomains", "clearTimes", "clearCounts"}
  BY DEF InFlightUrls, Clearing, Callers
<1>1. ASSUME NEW r \in Requests, HasSeen(sole, r)
      PROVE  OnceInv' /\ [F!Next]_(F!fvars)
  <2>1. /\ pc[sole] = "idle" /\ pc'[sole] = "mark" /\ arg'[sole] = r /\ r.url \notin seen
        /\ UNCHANGED <<seen, queues, handed>>
    BY <1>s, <1>1 DEF HasSeen, TypeOK, store, history
  <2>2. InFlightUrls' = {} /\ InFlightUrls = {} /\ ~Clearing /\ ~Clearing'
    BY <1>s, <2>1
  <2>3. QueuedUrls' = QueuedUrls
    BY <2>1 DEF QueuedUrls
  <2>4. OnceInv'
    BY <2>1, <2>2, <2>3 DEF OnceInv
  <2>5. UNCHANGED F!fvars
    BY <2>1, <2>2, <2>3 DEF F!fvars
  <2> QED
    BY <2>4, <2>5
<1>2. CASE MarkSeen(sole)
  <2> DEFINE u == arg[sole].url
  <2>1. /\ pc[sole] = "mark" /\ pc'[sole] = "push" /\ arg' = arg
        /\ seen' = seen \cup {u} /\ UNCHANGED <<queues, handed>>
    BY <1>s, <1>2 DEF MarkSeen, TypeOK, history
  <2>2. InFlightUrls' = {u} /\ InFlightUrls = {} /\ ~Clearing /\ ~Clearing'
    BY <1>s, <2>1
  <2>3. QueuedUrls' = QueuedUrls
    BY <2>1 DEF QueuedUrls
  <2>4. u \notin seen /\ u \notin QueuedUrls /\ u \notin handed
    BY <1>s, <2>1, <2>2 DEF OnceInv
  <2>5. u \in Urls
    BY <1>s, <2>1, GroupAssumption DEF GroupConstants, LocksInPlace
  <2> HIDE DEF u
  <2>6. OnceInv'
    BY <2>1, <2>2, <2>3, <2>4 DEF OnceInv
  <2>7. Shown = handed /\ Shown' = Shown
    BY <2>1, <2>2 DEF Shown
  <2>8. F!Next
    BY <2>2, <2>3, <2>4, <2>5, <2>7, FrontierSteps
  <2> QED
    BY <2>6, <2>8
<1>3. CASE Push(sole)
  <2>r. PICK r : r = arg[sole]
    OBVIOUS
  <2>n. PICK n : n = [item |-> r, rank |-> EffectivePriority(r)]
    OBVIOUS
  <2>1. /\ pc[sole] = "push" /\ pc'[sole] = "list" /\ UNCHANGED <<seen, handed>>
        /\ r \in Requests /\ r.domain \in Domains
        /\ queues' = [queues EXCEPT ![r.domain] = File(queues[r.domain], r)]
    <3>1. pc[sole] = "push" /\ pc'[sole] = "list"
      BY <1>s, <1>3 DEF Push, TypeOK
    <3>2. r \in Requests /\ r.domain \in Domains
      BY <1>s, <2>r, <3>1, GroupAssumption DEF GroupConstants, LocksInPlace
    <3> QED
      BY <1>3, <2>r, <3>1, <3>2 DEF Push, history
  <2>2. InFlightUrls' = {} /\ InFlightUrls = {r.url} /\ ~Clearing /\ ~Clearing'
    BY <1>s, <2>r, <2>1
  <2>3. \A d \in Domains : \A e \in queues[d] : e.item.url # r.url
    BY <2>2 DEF OnceInv, QueuedUrls
  <2>4. Twins(queues[r.domain], r) = {}
    BY <2>1, <2>3 DEF Twins
  <2>5. n.item.url = r.url
    BY <2>n
  <2>6. \A d \in Domains : queues'[d] = IF d = r.domain THEN queues[d] \cup {n} ELSE queues[d]
    BY <2>1, <2>4, <2>n DEF File, TypeOK
  <2>7. QueuedUrls' = QueuedUrls \cup {r.url}
    <3>1. \A d \in Domains : queues[d] \subseteq queues'[d]
      BY <2>6
    <3>2. \A d \in Domains : \A e \in queues'[d] : e \in queues[d] \/ e.item.url = r.url
      BY <2>5, <2>6
    <3>3. \E d \in Domains : \E e \in queues'[d] : e.item.url = r.url
      <4>1. r.domain \in Domains
        BY <2>1
      <4>2. n \in queues'[r.domain]
        BY <2>6, <4>1
      <4> QED
        BY <2>5, <4>1, <4>2
    <3> QED
      BY <3>1, <3>2, <3>3 DEF QueuedUrls
  <2>8. \A c, d \in Domains : \A e \in queues'[c], f \in queues'[d] :
           e.item.url = f.item.url => c = d /\ e = f
    <3>1. \A c, d \in Domains : \A e \in queues[c], f \in queues[d] :
             e.item.url = f.item.url => c = d /\ e = f
      BY DEF OnceInv
    <3>2. \A d \in Domains : \A e \in queues'[d] :
             e \in queues[d] \/ (d = r.domain /\ e = n)
      BY <2>6
    <3> QED
      BY <2>3, <2>5, <3>1, <3>2
  <2>9. OnceInv'
    BY <2>1, <2>2, <2>7, <2>8 DEF OnceInv
  <2>10. UNCHANGED F!fvars
    BY <2>1, <2>2, <2>7 DEF F!fvars
  <2> QED
    BY <2>9, <2>10
<1>4. CASE ListDomain(sole)
  <2>1. /\ pc[sole] = "list" /\ pc'[sole] = "idle" /\ UNCHANGED <<seen, queues, handed>>
    BY <1>s, <1>4 DEF ListDomain, TypeOK, history
  <2>2. InFlightUrls' = {} /\ InFlightUrls = {} /\ ~Clearing /\ ~Clearing'
    BY <1>s, <2>1
  <2>3. InFlightUrls' = InFlightUrls /\ Clearing' = Clearing
    BY <2>2 DEF Clearing
  <2>4. \A c \in Enqueuers : pc'[c] # "mark"
    BY <2>1
  <2> QED
    BY <2>1, <2>3, <2>4, OnceFrame
<1> QED
  BY <1>1, <1>2, <1>3, <1>4 DEF Enqueue

LEMMA OnceTake ==
    ASSUME TypeOK, LocksInPlace, OnceInv, NEW c \in Takers, Take(c)
    PROVE  OnceInv' /\ [F!Next]_(F!fvars)
<1> USE GroupAssumption DEF GroupConstants, Goes
<1>e. Enqueuers \subseteq Callers /\ Takers \subseteq Callers /\ Clearers \subseteq Callers
  BY Exclusive
\* The others do not move.
<1>1. /\ pc' = [pc EXCEPT ![c] = pc'[c]] /\ arg' = arg /\ seen' = seen
      /\ pc[c] \notin {"mark", "push", "clearDomains", "clearTimes", "clearCounts"}
      /\ pc'[c] \notin {"mark", "push", "clearDomains", "clearTimes", "clearCounts"}
  BY <1>e DEF Take, LockDomains, PopDomain, CheckLimit, CheckDelay, PutBack, TakeRequest, Serve,
              StampTime, CountRequest, TypeOK, store
<1>2. InFlightUrls' = InFlightUrls /\ Clearing' = Clearing
  BY <1>e, <1>1 DEF InFlightUrls, Clearing, TypeOK
<1>3. \A k \in Enqueuers : pc'[k] = "mark" => pc[k] = "mark" /\ arg'[k] = arg[k]
  BY <1>e, <1>1 DEF TypeOK
<1>4. CASE UNCHANGED <<queues, handed>>
  BY <1>1, <1>2, <1>3, <1>4, OnceFrame
<1>5. ASSUME NEW e \in Highest(queues[cur[c]]), Serve(c, cur[c], e), dq = NoCaller
      PROVE  OnceInv' /\ [F!Next]_(F!fvars)
  <2> DEFINE u == e.item.url
             d == cur[c]
  <2>1. d \in Domains /\ e \in queues[d]
    <3>1. c \in Callers /\ pc[c] = "taking"
      BY <1>5, <1>e DEF Serve
    <3>2. d \in Domains
      BY <3>1 DEF LocksInPlace, Trying
    <3> QED
      BY <3>2 DEF Highest
  <2>2. u \in Urls
    BY <2>1 DEF TypeOK, Entries
  <2>3. /\ \A x \in Domains : queues'[x] = IF x = d THEN queues[x] \ {e} ELSE queues[x]
        /\ handed' = handed \cup {u}
    BY <1>5, <2>1 DEF Serve, TypeOK
  <2>4. ~Clearing
    BY <1>5, <1>e DEF Clearing, LocksInPlace
  <2> HIDE DEF u, d
  <2>5. \A x \in Domains : \A f \in queues[x] : f.item.url = u => x = d /\ f = e
    BY <2>1 DEF OnceInv, u
  <2>6. QueuedUrls' = QueuedUrls \ {u} /\ u \in QueuedUrls
    <3>1. \A x \in Domains : \A f \in queues[x] : f \in queues'[x] <=> f.item.url # u
      BY <2>1, <2>3, <2>5 DEF u
    <3>2. \A x \in Domains : queues'[x] \subseteq queues[x]
      BY <2>3
    <3> QED
      BY <2>1, <3>1, <3>2 DEF QueuedUrls, u
  <2>7. u \in seen /\ u \notin InFlightUrls
    BY <2>6 DEF OnceInv
  <2>8. OnceInv'
    <3>1. \A x, y \in Domains : \A f \in queues'[x], g \in queues'[y] :
             f.item.url = g.item.url => x = y /\ f = g
      <4>1. \A x, y \in Domains : \A f \in queues[x], g \in queues[y] :
               f.item.url = g.item.url => x = y /\ f = g
        BY DEF OnceInv
      <4>2. \A x \in Domains : queues'[x] \subseteq queues[x]
        BY <2>3
      <4> QED
        BY <4>1, <4>2
    <3> QED
      BY <1>1, <1>2, <1>3, <2>3, <2>4, <2>6, <2>7, <3>1 DEF OnceInv
  <2>9. Shown = handed /\ Shown' = handed'
    BY <1>2, <2>4 DEF Shown
  <2>10. F!Next
    BY <1>2, <2>2, <2>3, <2>6, <2>7, <2>9, FrontierSteps
  <2> QED
    BY <2>8, <2>10
<1>6. UNCHANGED <<queues, handed>>
      \/ (dq = NoCaller /\ \E e \in Highest(queues[cur[c]]) : Serve(c, cur[c], e))
  BY DEF Take, LockDomains, PopDomain, CheckLimit, CheckDelay, PutBack, TakeRequest,
         StampTime, CountRequest, store, history
<1> QED
  BY <1>4, <1>5, <1>6

LEMMA OnceClear ==
    ASSUME NEW sole, Enqueuers = {sole}, Clearers \subseteq {sole}, sole \in Clearers,
           TypeOK, ClearedInPlace, OnceInv, Clear(sole)
    PROVE  OnceInv' /\ [F!Next]_(F!fvars)
<1> USE DEF Goes
<1>s. /\ sole \in Enqueuers /\ sole \in Callers
      /\ InFlightUrls = IF pc[sole] = "push" THEN {arg[sole].url} ELSE {}
      /\ InFlightUrls' = IF pc'[sole] = "push" THEN {arg'[sole].url} ELSE {}
      /\ Clearing => pc[sole] \in {"clearDomains", "clearTimes", "clearCounts"}
      /\ Clearing' => pc'[sole] \in {"clearDomains", "clearTimes", "clearCounts"}
  BY DEF InFlightUrls, Clearing, Callers
<1>1. CASE ClearQueues(sole)
  <2>1. /\ pc'[sole] = "clearDomains" /\ queues' = [d \in Domains |-> {}]
        /\ UNCHANGED <<seen, handed>>
    BY <1>s, <1>1 DEF ClearQueues, TypeOK, history
  <2>2. Clearing' /\ InFlightUrls' = {} /\ QueuedUrls' = {}
    BY <1>s, <2>1 DEF Clearing, QueuedUrls
  <2>3. OnceInv'
    BY <2>1, <2>2 DEF OnceInv
  <2>4. Shown' = {}
    BY <2>2 DEF Shown
  <2>5. F!Next
    BY <2>2, <2>4, FrontierSteps
  <2> QED
    BY <2>3, <2>5
<1>2. CASE ClearDomains(sole) \/ ClearTimes(sole)
  <2>1. /\ pc[sole] \in {"clearDomains", "clearTimes"} /\ pc'[sole] \in {"clearTimes", "clearCounts"}
        /\ UNCHANGED <<seen, queues, handed>>
    BY <1>s, <1>2 DEF ClearDomains, ClearTimes, TypeOK, history
  <2>2. Clearing /\ Clearing' /\ InFlightUrls = {} /\ InFlightUrls' = {}
    BY <1>s, <2>1 DEF Clearing
  <2> QED
    BY <2>1, <2>2, OnceFrame
<1>3. CASE ClearCounts(sole)
  <2>1. /\ pc[sole] = "clearCounts" /\ pc'[sole] = "idle" /\ queues' = queues
        /\ seen' = {} /\ handed' = {}
    BY <1>s, <1>3 DEF ClearCounts, TypeOK
  <2>2. \A d \in Domains : queues[d] = {}
    BY <2>1 DEF ClearedInPlace
  <2>3. /\ Clearing /\ ~Clearing' /\ InFlightUrls = {} /\ InFlightUrls' = {}
        /\ QueuedUrls = {} /\ QueuedUrls' = {}
    BY <1>s, <2>1, <2>2 DEF Clearing, QueuedUrls
  <2>4. OnceInv'
    BY <2>1, <2>2, <2>3 DEF OnceInv
  <2>5. Shown = {} /\ Shown' = {}
    BY <2>1, <2>3 DEF Shown
  <2>6. F!Next
    BY <2>3, <2>5, FrontierSteps
  <2> QED
    BY <2>4, <2>6
<1> QED
  BY <1>1, <1>2, <1>3 DEF Clear

LEMMA OnceStep ==
    ASSUME NEW sole, Enqueuers = {sole}, Clearers \subseteq {sole},
           IInv, OnceInv, [Next]_vars
    PROVE  OnceInv' /\ [F!Next]_(F!fvars)
<1>1. TypeOK /\ LocksInPlace /\ ClearedInPlace
  BY DEF IInv
<1>2. ASSUME Tick \/ UNCHANGED vars
      PROVE  OnceInv' /\ [F!Next]_(F!fvars)
  <2>1. UNCHANGED <<seen, queues, handed, arg, pc>>
    BY <1>2 DEF Tick, vars, store, history
  <2>2. InFlightUrls' = InFlightUrls /\ Clearing' = Clearing
    BY <2>1 DEF InFlightUrls, Clearing
  <2> QED
    BY <2>1, <2>2, OnceFrame
<1> QED
  BY <1>1, <1>2, OnceEnqueue, OnceTake, OnceClear DEF Next

\* When one task makes all enqueue and clear calls, this scheduler implements the
\* frontier too, however many tasks call next: a step marks a fresh URL, hands out
\* one that waits, forgets everything, or changes nothing a user can see.
THEOREM SoleEnqueuerImplementsFrontier ==
    ASSUME NEW sole, Enqueuers = {sole}, Clearers \subseteq {sole}
    PROVE  Spec => ImplementsFrontier
<1>1. Init => OnceInv /\ F!Init
  BY DEF Init, OnceInv, F!Init, QueuedUrls, InFlightUrls, Clearing, Callers
<1>2. IInv /\ OnceInv /\ [Next]_vars => OnceInv' /\ [F!Next]_(F!fvars)
  BY OnceStep
<1> QED
  BY <1>1, <1>2, Invariance, PTL DEF Spec, ImplementsFrontier, F!Spec
=============================================================================
