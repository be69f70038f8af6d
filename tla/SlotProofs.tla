----------------------------- MODULE SlotProofs -----------------------------
(***************************************************************************)
(* Proofs about Slot for any workers, requests, delay and sizes.           *)
(***************************************************************************)
EXTENDS Slot, FiniteSetTheorems, TLAPS

\* Removing position i of a queue without repetitions removes q[i] from it and
\* nothing else.
LEMMA WithoutQueue ==
    ASSUME NEW q \in Seq(Requests), NEW i \in 1 .. Len(q)
    PROVE  /\ Without(q, i) \in Seq(Requests)
           /\ Len(Without(q, i)) = Len(q) - 1
           /\ (\A j, k \in DOMAIN q : q[j] = q[k] => j = k) =>
                /\ \A j, k \in DOMAIN Without(q, i) :
                        Without(q, i)[j] = Without(q, i)[k] => j = k
                /\ {Without(q, i)[j] : j \in DOMAIN Without(q, i)}
                        = {q[j] : j \in DOMAIN q} \ {q[i]}
<1> DEFINE w == Without(q, i)
<1>1. w \in Seq(Requests) /\ Len(w) = Len(q) - 1 /\ DOMAIN w = 1 .. (Len(q) - 1)
  BY DEF Without
<1>2. \A j \in DOMAIN w : w[j] = q[IF j < i THEN j ELSE j + 1]
  BY DEF Without
<1> SUFFICES ASSUME \A j, k \in DOMAIN q : q[j] = q[k] => j = k
             PROVE  /\ \A j, k \in DOMAIN w : w[j] = w[k] => j = k
                    /\ {w[j] : j \in DOMAIN w} = {q[j] : j \in DOMAIN q} \ {q[i]}
  BY <1>1
<1> HIDE DEF w
<1>3. \A j, k \in DOMAIN w : w[j] = w[k] => j = k
  BY <1>1, <1>2
<1>4. {w[j] : j \in DOMAIN w} = {q[j] : j \in DOMAIN q} \ {q[i]}
  <2>1. \A j \in DOMAIN w : w[j] \in {q[k] : k \in DOMAIN q} \ {q[i]}
    BY <1>1, <1>2
  <2>2. ASSUME NEW j \in DOMAIN q, j # i
        PROVE  \E k \in DOMAIN w : w[k] = q[j]
    <3>1. CASE j < i
      BY <3>1, <1>1, <1>2
    <3>2. CASE j > i
      <4>1. j \in 2 .. Len(q) /\ j - 1 \in DOMAIN w /\ ~(j - 1 < i)
        BY <3>2, <1>1
      <4>2. w[j - 1] = q[j]
        BY <4>1, <1>2
      <4> QED
        BY <4>1, <4>2
    <3> QED
      BY <2>2, <3>1, <3>2
  <2> QED
    BY <2>1, <2>2
<1> QED
  BY <1>3, <1>4

\* A set of workers can be counted, and moving one worker changes the count by
\* at most one.
LEMMA WorkersCount ==
    ASSUME NEW A \in SUBSET Workers, NEW w \in Workers
    PROVE  /\ IsFiniteSet(A) /\ Cardinality(A) \in Nat
           /\ w \in A => Cardinality(A \ {w}) = Cardinality(A) - 1
           /\ w \notin A => Cardinality(A \cup {w}) = Cardinality(A) + 1
<1>1. IsFiniteSet(A)
  BY SlotAssumption, FS_Subset DEF SlotConstants
<1> QED
  BY <1>1, FS_CardinalityType, FS_AddElement, FS_RemoveElement

-----------------------------------------------------------------------------
(* Init *)

\* The invariant holds in a new slot.
LEMMA SlotInit == Init => IInv
<1> SUFFICES ASSUME Init PROVE IInv
  OBVIOUS
<1> USE SlotAssumption DEF SlotConstants, Init
<1>0. pc \in [Workers -> Places] /\ \A w \in Workers : pc[w] = "idle"
  BY DEF Places
<1>1. TypeOK /\ HeldInPlace /\ PacedInv
  <2>1. TypeOK
    <3>1. 0 \in 0 .. Delay /\ Delay \in 0 .. Delay
      OBVIOUS
    <3>2. queue \in Seq(Requests) /\ active \subseteq Ids /\ offered \subseteq Requests
          /\ given \subseteq Requests
      OBVIOUS
    <3>3. /\ held \in [Workers -> Requests \cup {NoRequest}]
          /\ wait \in [Workers -> 0 .. Delay] /\ since \in [Workers -> 0 .. Delay]
      BY <3>1
    <3>4. size \in Nat /\ age \in 0 .. Delay /\ closing \in BOOLEAN
      BY <3>1
    <3> QED
      BY <1>0, <3>2, <3>3, <3>4 DEF TypeOK
  <2>2. HeldInPlace /\ PacedInv
    BY <1>0 DEF HeldInPlace, PacedInv
  <2> QED
    BY <2>1, <2>2
<1>2. OnceInv
  BY DEF OnceInv, Queued
<1>3. Asking = {} /\ Charged = {}
  BY DEF Asking, Charged
<1>4. Cardinality({}) = 0
  BY FS_EmptySet
<1>5. Supplied /\ NeverSaturates
  BY <1>3, <1>4 DEF Supplied, NeverSaturates
<1> QED
  BY <1>1, <1>2, <1>5 DEF IInv

-----------------------------------------------------------------------------
(* Types, and what a worker holds. *)

\* The steps of a worker, one by one.
LEMMA TypeWork ==
    ASSUME TypeOK, HeldInPlace, NEW w \in Workers, Work(w)
    PROVE  TypeOK' /\ HeldInPlace'
<1> USE SlotAssumption DEF SlotConstants, Goes, Places, TypeOK, HeldInPlace
<1>1. CASE AddRequest(w)
  BY <1>1 DEF AddRequest
<1>2. CASE CheckClosing(w)
  BY <1>2 DEF CheckClosing
<1>3. CASE CheckDelay(w)
  <2>1. CASE age < Delay
    <3>1. Delay - age \in 0 .. Delay
      OBVIOUS
    <3> QED
      BY <1>3, <2>1, <3>1 DEF CheckDelay
  <2>2. CASE ~(age < Delay)
    BY <1>3, <2>2 DEF CheckDelay
  <2> QED
    BY <2>1, <2>2
<1>4. CASE Wake(w)
  BY <1>4 DEF Wake
<1>5. CASE Pop(w)
  <2>1. CASE queue = <<>>
    BY <1>5, <2>1 DEF Pop
  <2>2. CASE queue # <<>>
    <3>1. PICK i \in Candidates :
             /\ held' = [held EXCEPT ![w] = queue[i]]
             /\ queue' = Without(queue, i)
             /\ given' = given \cup {queue[i]}
      BY <1>5, <2>2 DEF Pop
    <3>2. i \in 1 .. Len(queue) /\ queue[i] \in Requests
      BY DEF Candidates
    <3>3. queue' \in Seq(Requests)
      BY <3>1, <3>2, WithoutQueue
    <3>4. held' \in [Workers -> Requests \cup {NoRequest}] /\ held'[w] \in Requests
      BY <3>1, <3>2
    <3>5. pc' = [pc EXCEPT ![w] = "popped"] /\ since' = [since EXCEPT ![w] = 0]
          /\ UNCHANGED <<active, size, age, closing, wait, offered>>
      BY <1>5, <2>2 DEF Pop
    <3>6. TypeOK'
      BY <3>1, <3>2, <3>3, <3>4, <3>5
    <3>7. HeldInPlace'
      BY <3>1, <3>4, <3>5
    <3> QED
      BY <3>6, <3>7
  <2> QED
    BY <2>1, <2>2
<1>6. CASE Stamp(w)
  BY <1>6 DEF Stamp
<1>7. CASE Activate(w)
  <2>1. IdOf[held[w]] \in Ids
    BY <1>7 DEF Activate
  <2> QED
    BY <1>7, <2>1 DEF Activate
<1>8. CASE Charge(w)
  BY <1>8 DEF Charge
<1>9. CASE \E s \in Sizes : Recharge(w, s)
  BY <1>9 DEF Recharge, SaturatingSub, Larger
<1>10. CASE Deactivate(w)
  BY <1>10 DEF Deactivate
<1> QED
  BY <1>1, <1>2, <1>3, <1>4, <1>5, <1>6, <1>7, <1>8, <1>9, <1>10 DEF Work

\* And those of everyone else.
LEMMA TypeOthers ==
    ASSUME TypeOK, HeldInPlace,
           Tick \/ Close \/ UNCHANGED vars
    PROVE  TypeOK' /\ HeldInPlace'
<1> USE SlotAssumption DEF SlotConstants, Goes, Places, TypeOK, HeldInPlace
<1>1. CASE Tick
  BY <1>1 DEF Tick, Older, SaturatingSub
<1>2. CASE Close
  BY <1>2 DEF Close
<1>3. CASE UNCHANGED vars
  BY <1>3 DEF vars
<1> QED
  BY <1>1, <1>2, <1>3

\* Types and what workers hold, in every step.
LEMMA TypeStep == TypeOK /\ HeldInPlace /\ [Next]_vars => TypeOK' /\ HeldInPlace'
  BY TypeWork, TypeOthers DEF Next

-----------------------------------------------------------------------------
(* The queue: every request enters once and leaves once. *)

\* A step that is neither an addition nor a successful pop leaves the queue and
\* the records of what was offered and handed out alone.
LEMMA QueueSteps ==
    ASSUME [Next]_vars
    PROVE  \/ \E w \in Workers : AddRequest(w)
           \/ \E w \in Workers : Pop(w) /\ queue # <<>>
           \/ UNCHANGED <<queue, offered, given>>
  BY DEF Next, vars, Work, CheckClosing, CheckDelay, Wake, Pop, Stamp, Activate,
         Charge, Recharge, Deactivate, Close, Tick

\* Requests enter and leave the queue as the frontier says.
LEMMA OnceStep ==
    ASSUME TypeOK, OnceInv, [Next]_vars
    PROVE  OnceInv' /\ [F!Next]_(F!fvars)
<1> USE DEF TypeOK
<1>1. ASSUME NEW w \in Workers, AddRequest(w)
      PROVE  OnceInv' /\ [F!Next]_(F!fvars)
  <2>1. PICK r \in offered : queue' = Append(queue, r) /\ offered' = offered \ {r}
    BY <1>1 DEF AddRequest
  <2>2. given' = given /\ r \in Requests /\ r \notin Queued /\ r \notin given
    BY <1>1, <2>1 DEF AddRequest, OnceInv
  <2>3. Queued' = Queued \cup {r}
    <3>1. DOMAIN queue' = 1 .. (Len(queue) + 1) /\ DOMAIN queue = 1 .. Len(queue)
          /\ queue'[Len(queue) + 1] = r
      BY <2>1
    <3>2. \A i \in DOMAIN queue : i \in DOMAIN queue' /\ queue'[i] = queue[i]
      BY <2>1
    <3>3. \A i \in DOMAIN queue' : i \in DOMAIN queue \/ i = Len(queue) + 1
      BY <3>1
    <3>4. Len(queue) + 1 \in DOMAIN queue'
      BY <3>1
    <3> QED
      BY <3>1, <3>2, <3>3, <3>4 DEF Queued
  <2>4. \A i, j \in DOMAIN queue' : queue'[i] = queue'[j] => i = j
    BY <2>1, <2>2 DEF OnceInv, Queued
  <2>5. OnceInv'
    BY <2>1, <2>2, <2>3, <2>4 DEF OnceInv
  <2>6. F!Add(r)
    BY <2>2, <2>3 DEF F!Add
  <2> QED
    BY <2>2, <2>5, <2>6 DEF F!Next
<1>2. ASSUME NEW w \in Workers, Pop(w), queue # <<>>
      PROVE  OnceInv' /\ [F!Next]_(F!fvars)
  <2>1. PICK i \in Candidates : queue' = Without(queue, i) /\ given' = given \cup {queue[i]}
    BY <1>2 DEF Pop
  <2>2. i \in DOMAIN queue /\ i \in 1 .. Len(queue) /\ queue[i] \in Requests
        /\ offered' = offered /\ queue[i] \in Queued
    BY <1>2 DEF Candidates, Pop, Queued
  <2> DEFINE q == queue
  <2>a. q \in Seq(Requests) /\ \A j, k \in DOMAIN q : q[j] = q[k] => j = k
    BY DEF OnceInv
  <2> HIDE DEF q
  <2>b. /\ \A j, k \in DOMAIN Without(q, i) : Without(q, i)[j] = Without(q, i)[k] => j = k
        /\ {Without(q, i)[j] : j \in DOMAIN Without(q, i)} = {q[j] : j \in DOMAIN q} \ {q[i]}
    <3>1. i \in 1 .. Len(q)
      BY <2>2 DEF q
    <3> QED
      BY <2>a, <3>1, WithoutQueue
  <2> USE DEF q
  <2>c. \A j, k \in DOMAIN queue' : queue'[j] = queue'[k] => j = k
    BY <2>1, <2>b
  <2>d. Queued' = {Without(q, i)[j] : j \in DOMAIN Without(q, i)}
    BY <2>1 DEF Queued
  <2>e. Queued = {q[j] : j \in DOMAIN q}
    BY DEF Queued
  <2>3. Queued' = Queued \ {queue[i]} /\ \A j, k \in DOMAIN queue' : queue'[j] = queue'[k] => j = k
    BY <2>b, <2>c, <2>d, <2>e
  <2>4. OnceInv'
    BY <2>1, <2>2, <2>3 DEF OnceInv
  <2>5. F!Take(queue[i])
    BY <2>1, <2>2, <2>3 DEF F!Take
  <2> QED
    BY <2>2, <2>4, <2>5 DEF F!Next
<1>3. ASSUME UNCHANGED <<queue, offered, given>>
      PROVE  OnceInv' /\ [F!Next]_(F!fvars)
  <2>1. Queued' = Queued
    BY <1>3 DEF Queued
  <2> QED
    BY <1>3, <2>1 DEF OnceInv, F!fvars
<1> QED
  BY <1>1, <1>2, <1>3, QueueSteps

-----------------------------------------------------------------------------
(* The delay. *)

\* The delay each worker sees is kept by every step.
LEMMA PacedStep ==
    ASSUME TypeOK, PacedInv, [Next]_vars
    PROVE  PacedInv'
<1> USE SlotAssumption DEF SlotConstants, Goes, Places, TypeOK, PacedInv
<1>1. ASSUME NEW w \in Workers, CheckDelay(w)
      PROVE  PacedInv'
  <2>1. CASE age < Delay
    <3>1. wait' = [wait EXCEPT ![w] = Delay - age] /\ pc' = [pc EXCEPT ![w] = "waiting"]
          /\ UNCHANGED <<age, since>> /\ pc[w] # "popped"
      BY <1>1, <2>1 DEF CheckDelay
    <3>2. wait'[w] + since'[w] >= Delay
      BY <3>1
    <3> QED
      BY <3>1, <3>2
  <2>2. CASE ~(age < Delay)
    <3>1. pc' = [pc EXCEPT ![w] = "ready"] /\ UNCHANGED <<age, since, wait>> /\ pc[w] # "popped"
      BY <1>1, <2>2 DEF CheckDelay
    <3>2. since'[w] = Delay
      BY <3>1, <2>2
    <3> QED
      BY <3>1, <3>2
  <2> QED
    BY <2>1, <2>2
<1>2. ASSUME NEW w \in Workers, Wake(w)
      PROVE  PacedInv'
  BY <1>2 DEF Wake
<1>3. ASSUME NEW w \in Workers, Pop(w)
      PROVE  PacedInv'
  BY <1>3 DEF Pop
<1>4. ASSUME NEW w \in Workers, Stamp(w)
      PROVE  PacedInv'
  BY <1>4 DEF Stamp
<1>5. ASSUME Tick
      PROVE  PacedInv'
  BY <1>5 DEF Tick, Older, SaturatingSub
<1>6. ASSUME NEW w \in Workers, NEW to \in Places \ {"popped", "waiting", "ready"},
             pc[w] # "popped", pc' = [pc EXCEPT ![w] = to], UNCHANGED <<age, since, wait>>
      PROVE  PacedInv'
  BY <1>6
<1>7. ASSUME NEW w \in Workers,
             \/ AddRequest(w) \/ CheckClosing(w) \/ Activate(w) \/ Charge(w)
             \/ (\E s \in Sizes : Recharge(w, s)) \/ Deactivate(w)
      PROVE  PacedInv'
  <2>1. \E to \in Places \ {"popped", "waiting", "ready"} :
            /\ pc[w] # "popped" /\ pc' = [pc EXCEPT ![w] = to]
            /\ UNCHANGED <<age, since, wait>>
    BY <1>7 DEF AddRequest, CheckClosing, Activate, Charge, Recharge, Deactivate
  <2> QED
    BY <1>6, <2>1
<1>8. ASSUME Close
      PROVE  PacedInv'
  <2>1. \A w \in Workers : pc'[w] = pc[w]
    BY <1>8 DEF Close
  <2>2. UNCHANGED <<age, since, wait>>
    BY <1>8 DEF Close
  <2> QED
    BY <2>1, <2>2
<1>9. ASSUME UNCHANGED vars
      PROVE  PacedInv'
  BY <1>9 DEF vars
<1> QED
  BY <1>1, <1>2, <1>3, <1>4, <1>5, <1>7, <1>8, <1>9 DEF Next, Work

-----------------------------------------------------------------------------
(* Counting workers. *)

\* A step changes who is asking in one of four ways.
LEMMA AskingSteps ==
    ASSUME TypeOK, [Next]_vars
    PROVE  \/ \E w \in Workers : AddRequest(w) /\ w \notin Asking /\ Asking' = Asking \cup {w}
           \/ \E w \in Workers : Pop(w) /\ w \in Asking /\ Asking' = Asking \ {w}
           \/ /\ Asking' \subseteq Asking /\ queue' = queue
              /\ closing' \/ (Asking' = Asking /\ ~closing)
<1> USE SlotAssumption DEF SlotConstants, Goes, Places, TypeOK, Asking
<1>1. ASSUME NEW w \in Workers, AddRequest(w)
      PROVE  w \notin Asking /\ Asking' = Asking \cup {w}
  BY <1>1 DEF AddRequest
<1>2. ASSUME NEW w \in Workers, Pop(w)
      PROVE  w \in Asking /\ Asking' = Asking \ {w}
  BY <1>2 DEF Pop
<1>3. ASSUME NEW w \in Workers,
             \/ CheckClosing(w) \/ CheckDelay(w) \/ Wake(w) \/ Stamp(w) \/ Activate(w)
             \/ Charge(w) \/ (\E s \in Sizes : Recharge(w, s)) \/ Deactivate(w)
      PROVE  /\ Asking' \subseteq Asking /\ queue' = queue
             /\ closing' \/ (Asking' = Asking /\ ~closing)
  BY <1>3 DEF CheckClosing, CheckDelay, Wake, Stamp, Activate, Charge, Recharge,
              Deactivate
<1>4. ASSUME Close
      PROVE  /\ Asking' \subseteq Asking /\ queue' = queue
             /\ closing' \/ (Asking' = Asking /\ ~closing)
  BY <1>4 DEF Close
<1>5. ASSUME Tick \/ UNCHANGED vars
      PROVE  /\ Asking' \subseteq Asking /\ queue' = queue
             /\ closing' \/ (Asking' = Asking /\ ~closing)
  BY <1>5 DEF Tick, vars
<1> QED
  BY <1>1, <1>2, <1>3, <1>4, <1>5 DEF Next, Work

\* Every step leaves a request for each worker that asks.
LEMMA SuppliedStep ==
    ASSUME TypeOK, Supplied, [Next]_vars
    PROVE  Supplied'
<1>0. Asking \in SUBSET Workers /\ Len(queue) \in Nat
  BY DEF Asking, TypeOK
<1>1. ASSUME NEW w \in Workers, AddRequest(w), w \notin Asking, Asking' = Asking \cup {w}
      PROVE  Supplied'
  <2>1. Len(queue') = Len(queue) + 1
    BY <1>1 DEF AddRequest, TypeOK
  <2>2. Cardinality(Asking') = Cardinality(Asking) + 1 /\ Cardinality(Asking) \in Nat
    BY <1>0, <1>1, WorkersCount
  <2> QED
    BY <1>0, <2>1, <2>2 DEF Supplied
<1>2. ASSUME NEW w \in Workers, Pop(w), w \in Asking, Asking' = Asking \ {w}
      PROVE  Supplied'
  <2>1. Cardinality(Asking') = Cardinality(Asking) - 1 /\ Cardinality(Asking) \in Nat
    BY <1>0, <1>2, WorkersCount
  <2>2. CASE queue = <<>>
    BY <1>0, <1>2, <2>1, <2>2 DEF Pop, Supplied
  <2>3. CASE queue # <<>>
    <3>1. PICK i \in Candidates : queue' = Without(queue, i)
      BY <1>2, <2>3 DEF Pop
    <3>2. i \in 1 .. Len(queue)
      BY DEF Candidates, TypeOK
    <3>3. Len(queue') = Len(queue) - 1
      BY <3>1, <3>2, WithoutQueue DEF TypeOK
    <3> QED
      BY <1>0, <2>1, <3>3 DEF Supplied
  <2> QED
    BY <2>2, <2>3
<1>3. ASSUME Asking' \subseteq Asking, queue' = queue
      PROVE  Supplied'
  <2>1. IsFiniteSet(Asking) /\ Cardinality(Asking) \in Nat
    BY <1>0, SlotAssumption, FS_Subset, FS_CardinalityType DEF SlotConstants
  <2>2. Cardinality(Asking') <= Cardinality(Asking) /\ Cardinality(Asking') \in Nat
    BY <1>3, <2>1, FS_Subset, FS_CardinalityType
  <2> QED
    BY <1>0, <1>3, <2>1, <2>2 DEF Supplied
<1> QED
  BY <1>1, <1>2, <1>3, AskingSteps

\* No step leaves a request nobody asks for, unless the slot is closing.
LEMMA LeftStep ==
    ASSUME TypeOK, Supplied, NoneLeftBehind, [Next]_vars
    PROVE  NoneLeftBehind'
<1>0. Asking \in SUBSET Workers /\ Len(queue) \in Nat
  BY DEF Asking, TypeOK
<1>1. ASSUME NEW w \in Workers, AddRequest(w), w \notin Asking, Asking' = Asking \cup {w}
      PROVE  NoneLeftBehind'
  <2>1. Len(queue') = Len(queue) + 1 /\ closing' = closing
    BY <1>1 DEF AddRequest, TypeOK
  <2>2. Cardinality(Asking') = Cardinality(Asking) + 1 /\ Cardinality(Asking) \in Nat
    BY <1>0, <1>1, WorkersCount
  <2> QED
    BY <1>0, <2>1, <2>2 DEF NoneLeftBehind
<1>2. ASSUME NEW w \in Workers, Pop(w), w \in Asking, Asking' = Asking \ {w}
      PROVE  NoneLeftBehind'
  <2>1. Cardinality(Asking') = Cardinality(Asking) - 1 /\ Cardinality(Asking) \in Nat
    BY <1>0, <1>2, WorkersCount
  <2>2. Cardinality(Asking) # 0
    BY <1>0, <1>2, SlotAssumption, FS_Subset, FS_EmptySet DEF SlotConstants
  <2>3. queue # <<>>
    BY <2>1, <2>2 DEF Supplied
  <2>4. PICK i \in Candidates : queue' = Without(queue, i)
    BY <1>2, <2>3 DEF Pop
  <2>5. i \in 1 .. Len(queue)
    BY DEF Candidates, TypeOK
  <2>6. Len(queue') = Len(queue) - 1 /\ closing' = closing
    BY <1>2, <2>4, <2>5, WithoutQueue DEF Pop, TypeOK
  <2> QED
    BY <1>0, <2>1, <2>6 DEF NoneLeftBehind
<1>3. ASSUME queue' = queue, closing' \/ (Asking' = Asking /\ ~closing)
      PROVE  NoneLeftBehind'
  BY <1>3 DEF NoneLeftBehind
<1> QED
  BY <1>1, <1>2, <1>3, AskingSteps

-----------------------------------------------------------------------------
(* The size. *)

\* A step changes who is charged in one of three ways.
LEMMA ChargedSteps ==
    ASSUME TypeOK, [Next]_vars
    PROVE  \/ \E w \in Workers : Charge(w) /\ w \notin Charged /\ Charged' = Charged \cup {w}
           \/ \E w \in Workers, s \in Sizes :
                 Recharge(w, s) /\ w \in Charged /\ Charged' = Charged \ {w}
           \/ Charged' = Charged /\ size' = size
<1> USE SlotAssumption DEF SlotConstants, Goes, Places, TypeOK, Charged
<1>1. ASSUME NEW w \in Workers, Charge(w)
      PROVE  w \notin Charged /\ Charged' = Charged \cup {w}
  BY <1>1 DEF Charge
<1>2. ASSUME NEW w \in Workers, NEW s \in Sizes, Recharge(w, s)
      PROVE  w \in Charged /\ Charged' = Charged \ {w}
  BY <1>2 DEF Recharge
<1>3. ASSUME NEW w \in Workers,
             \/ AddRequest(w) \/ CheckClosing(w) \/ CheckDelay(w) \/ Wake(w) \/ Pop(w)
             \/ Stamp(w) \/ Activate(w) \/ Deactivate(w)
      PROVE  Charged' = Charged /\ size' = size
  BY <1>3 DEF AddRequest, CheckClosing, CheckDelay, Wake, Pop, Stamp, Activate,
              Deactivate
<1>4. ASSUME Close
      PROVE  Charged' = Charged /\ size' = size
  BY <1>4 DEF Close
<1>5. ASSUME Tick \/ UNCHANGED vars
      PROVE  Charged' = Charged /\ size' = size
  BY <1>5 DEF Tick, vars
<1> QED
  BY <1>1, <1>2, <1>3, <1>4, <1>5 DEF Next, Work

\* One more, or one less, times m.
LEMMA OneMore ==
    ASSUME NEW m \in Nat, NEW n \in Nat
    PROVE  /\ m * n \in Nat
           /\ m * (n + 1) = m * n + m
           /\ n > 0 => m * (n - 1) = m * n - m /\ m * (n - 1) \in Nat
  OBVIOUS

\* Every step keeps MinSize in the size for each charged worker.
LEMMA SizeStep ==
    ASSUME TypeOK, NeverSaturates, [Next]_vars
    PROVE  NeverSaturates'
<1> DEFINE n == Cardinality(Charged)
<1>0. Charged \in SUBSET Workers /\ size \in Nat /\ MinSize \in Nat
  BY SlotAssumption DEF Charged, TypeOK, SlotConstants
<1>1. n \in Nat
  BY <1>0, SlotAssumption, FS_Subset, FS_CardinalityType DEF SlotConstants
<1>2. size >= MinSize * n
  BY DEF NeverSaturates
<1>3. ASSUME NEW w \in Workers, Charge(w), w \notin Charged, Charged' = Charged \cup {w}
      PROVE  NeverSaturates'
  <2>1. Cardinality(Charged') = n + 1
    BY <1>0, <1>3, WorkersCount
  <2> HIDE DEF n
  <2>2. MinSize * (n + 1) = MinSize * n + MinSize /\ MinSize * n \in Nat
    BY <1>0, <1>1, OneMore
  <2>3. size' = size + MinSize
    BY <1>3 DEF Charge
  <2>4. size' >= MinSize * (n + 1)
    BY <1>0, <1>2, <2>2, <2>3
  <2> QED
    BY <2>1, <2>4 DEF NeverSaturates
<1>4. ASSUME NEW w \in Workers, NEW s \in Sizes,
             Recharge(w, s), w \in Charged, Charged' = Charged \ {w}
      PROVE  NeverSaturates'
  <2>1. Cardinality(Charged') = n - 1 /\ Cardinality(Charged') \in Nat
    <3>1. Cardinality(Charged') = n - 1
      BY <1>0, <1>4, WorkersCount
    <3>2. Charged' \in SUBSET Workers
      BY <1>0, <1>4
    <3>3. Cardinality(Charged') \in Nat
      BY <3>2, SlotAssumption, FS_Subset, FS_CardinalityType DEF SlotConstants
    <3> QED
      BY <3>1, <3>3
  <2> HIDE DEF n
  <2>2. n > 0
    BY <1>1, <2>1
  <2>3. MinSize * (n - 1) = MinSize * n - MinSize /\ MinSize * n \in Nat
        /\ MinSize * (n - 1) \in Nat
    BY <1>0, <1>1, <2>2, OneMore
  <2>4. size >= MinSize
    BY <1>0, <1>2, <2>3
  <2>5. size' = size - MinSize + Larger(s, MinSize) /\ Larger(s, MinSize) \in Nat
    <3>1. s \in Nat
      BY SlotAssumption DEF SlotConstants
    <3>2. size' = SaturatingSub(size, MinSize) + Larger(s, MinSize)
      BY <1>4 DEF Recharge
    <3> QED
      BY <1>0, <2>4, <3>1, <3>2 DEF SaturatingSub, Larger
  <2>6. size' >= MinSize * (n - 1)
    BY <1>0, <1>2, <2>3, <2>5
  <2> QED
    BY <2>1, <2>6 DEF NeverSaturates
<1>5. ASSUME Charged' = Charged, size' = size
      PROVE  NeverSaturates'
  BY <1>5 DEF NeverSaturates
<1> QED
  BY <1>3, <1>4, <1>5, ChargedSteps

-----------------------------------------------------------------------------
(* Results *)

\* The invariant is inductive.
LEMMA SlotStep == IInv /\ [Next]_vars => IInv'
  BY TypeStep, OnceStep, PacedStep, SuppliedStep, SizeStep DEF IInv

\* The inductive invariant holds in every state of every execution.
THEOREM Invariance == Spec => []IInv
  BY SlotInit, SlotStep, PTL DEF Spec

\* Every field of the slot keeps its type; the size, above all, is never
\* negative.
THEOREM TypeCorrect == Spec => []TypeOK
<1>1. IInv => TypeOK
  BY DEF IInv
<1> QED
  BY <1>1, Invariance, PTL

\* For any number of tasks and any delay: between two requests handed to the
\* same task the whole delay goes by, although the time of the last request is
\* read, slept on and written in three critical sections.
THEOREM PacesEachWorker == Spec => BurstBounded
<1>1. IInv /\ [Next]_vars =>
        [\A w \in Workers : pc[w] = "ready" /\ pc'[w] = "popped" => since[w] = Delay]_vars
  BY DEF IInv, PacedInv
<1> QED
  BY <1>1, Invariance, PTL DEF Spec, BurstBounded

\* However add_request and next_request interleave, and whatever the scheduler
\* names: nothing that is added is lost, and nothing is handed out twice.
THEOREM HandsOutOnce == Spec => ImplementsFrontier
<1>1. Init => F!Init
  BY DEF Init, F!Init, Queued
<1>2. IInv /\ [Next]_vars => [F!Next]_(F!fvars)
  BY OnceStep DEF IInv
<1> QED
  BY <1>1, <1>2, Invariance, PTL DEF Spec, ImplementsFrontier, F!Spec

\* For any number of workers and any delay: a worker that has added a request and
\* was not turned away finds one in the queue, and an open slot keeps no request
\* that no worker is about to take.
THEOREM NeitherShortNorLeft == Spec => []QueueFits
<1>1. Init => NoneLeftBehind
  <2> SUFFICES ASSUME Init
               PROVE  NoneLeftBehind
    OBVIOUS
  <2>1. Len(queue) = 0
    BY DEF Init
  <2>2. Cardinality(Asking) \in Nat
    BY SlotAssumption, FS_Subset, FS_CardinalityType DEF SlotConstants, Asking
  <2> QED
    BY <2>1, <2>2 DEF NoneLeftBehind
<1>2. IInv /\ NoneLeftBehind /\ [Next]_vars => NoneLeftBehind'
  BY LeftStep DEF IInv
<1>3. IInv /\ NoneLeftBehind => QueueFits
  BY DEF IInv, QueueFits
<1> QED
  BY <1>1, <1>2, <1>3, Invariance, PTL DEF Spec

\* For any sizes of responses: what finish_request takes back was charged
\* before, so the saturating subtraction never hides a deficit.
THEOREM SubtractsWhatWasCharged == Spec => []NeverSaturates
<1>1. IInv => NeverSaturates
  BY DEF IInv
<1> QED
  BY <1>1, Invariance, PTL

-----------------------------------------------------------------------------
(* The active requests *)

\* Popping hands out a request that nobody holds.
LEMMA HeldOnceStep ==
    ASSUME IInv, HeldOnce, [Next]_vars
    PROVE  HeldOnce'
<1>1. CASE UNCHANGED <<held, given>>
  BY <1>1 DEF HeldOnce
<1>2. ASSUME NEW w \in Workers, Deactivate(w)
      PROVE  HeldOnce'
  BY <1>2 DEF Deactivate, HeldOnce, IInv, TypeOK
<1>3. ASSUME NEW w \in Workers, Pop(w), queue # <<>>
      PROVE  HeldOnce'
  <2>1. PICK i \in DOMAIN queue : /\ held' = [held EXCEPT ![w] = queue[i]]
                                  /\ given' = given \cup {queue[i]}
    BY <1>3 DEF Pop, Candidates
  <2>2. queue[i] \notin given
    BY DEF IInv, OnceInv, Queued
  <2>3. \A v \in Workers \ {w} : held'[v] = held[v] /\ held'[v] # queue[i]
    BY <2>1, <2>2, SlotAssumption DEF IInv, TypeOK, HeldOnce, SlotConstants
  <2>4. held'[w] = queue[i]
    BY <2>1 DEF IInv, TypeOK
  <2> QED
    BY <2>1, <2>3, <2>4 DEF HeldOnce
<1>4. ASSUME NEW w \in Workers, Work(w)
      PROVE  (UNCHANGED <<held, given>>) \/ Deactivate(w) \/ (Pop(w) /\ queue # <<>>)
  BY <1>4 DEF Work, AddRequest, CheckClosing, CheckDelay, Wake, Pop, Stamp, Activate,
              Charge, Recharge
<1>5. Close \/ Tick \/ UNCHANGED vars => UNCHANGED <<held, given>>
  BY DEF Close, Tick, vars
<1> QED
  BY <1>1, <1>2, <1>3, <1>4, <1>5 DEF Next

\* Who holds a request that is in the active map.
Activated == {v \in Workers : pc[v] \in {"activated", "holding", "sized"}}

\* Only Activate and Deactivate change the active map, by the key of one request.
LEMMA ActiveStep ==
    ASSUME \A r, s \in Requests : IdOf[r] = IdOf[s] => r = s,
           IInv, HeldOnce, ActiveExact, [Next]_vars
    PROVE  ActiveExact'
<1>1. \A v \in Activated : held[v] \in Requests /\ held[v] # NoRequest
  BY SlotAssumption DEF IInv, HeldInPlace, Activated, SlotConstants
<1>2. active = {IdOf[held[v]] : v \in Activated}
  BY DEF ActiveExact, Activated
<1>3. ASSUME active' = active, Activated' = Activated,
             \A v \in Activated : held'[v] = held[v]
      PROVE  ActiveExact'
  BY <1>2, <1>3 DEF ActiveExact, Activated
<1>4. ASSUME NEW w \in Workers, Activate(w)
      PROVE  ActiveExact'
  <2>1. Activated' = Activated \cup {w} /\ held' = held
    BY <1>4 DEF Activate, Goes, Activated, IInv, TypeOK
  <2>2. active' = active \cup {IdOf[held[w]]}
    BY <1>4 DEF Activate
  <2>3. active' = {IdOf[held[v]] : v \in Activated \cup {w}}
    BY <1>2, <2>2
  <2> QED
    BY <2>1, <2>3 DEF ActiveExact, Activated
<1>5. ASSUME NEW w \in Workers, Deactivate(w)
      PROVE  ActiveExact'
  <2>1. w \in Activated /\ Activated' = Activated \ {w}
    BY <1>5 DEF Deactivate, Goes, Activated, IInv, TypeOK
  <2>2. \A v \in Activated \ {w} : held'[v] = held[v] /\ IdOf[held[v]] # IdOf[held[w]]
    BY <1>1, <1>5, <2>1 DEF Deactivate, Activated, HeldOnce, IInv, TypeOK
  <2>3. active' = active \ {IdOf[held[w]]}
    BY <1>5 DEF Deactivate
  <2>4. active' = {IdOf[held[v]] : v \in Activated \ {w}}
    BY <1>2, <2>1, <2>2, <2>3
  <2>5. {IdOf[held[v]] : v \in Activated \ {w}} = {IdOf[held'[v]] : v \in Activated \ {w}}
    BY <2>2
  <2> QED
    BY <2>1, <2>4, <2>5 DEF ActiveExact, Activated
<1>6. ASSUME NEW w \in Workers, Work(w), ~Activate(w), ~Deactivate(w)
      PROVE  /\ active' = active /\ Activated' = Activated
             /\ \A v \in Activated : held'[v] = held[v]
  <2>1. active' = active
    BY <1>6 DEF Work, AddRequest, CheckClosing, CheckDelay, Wake, Pop, Stamp, Charge,
                Recharge
  <2>2. /\ \A v \in Workers \ {w} : pc'[v] = pc[v] /\ held'[v] = held[v]
        /\ pc'[w] \in {"activated", "holding", "sized"}
              <=> pc[w] \in {"activated", "holding", "sized"}
        /\ pc[w] \in {"activated", "holding", "sized"} => held'[w] = held[w]
    BY <1>6 DEF Work, AddRequest, CheckClosing, CheckDelay, Wake, Pop, Stamp, Charge,
                Recharge, Goes, IInv, TypeOK
  <2> QED
    BY <2>1, <2>2 DEF Activated
<1>7. Close \/ Tick \/ UNCHANGED vars =>
        /\ active' = active /\ Activated' = Activated
        /\ \A v \in Activated : held'[v] = held[v]
  BY DEF Close, Tick, vars, Activated
<1> QED
  BY <1>3, <1>4, <1>5, <1>6, <1>7 DEF Next

\* As long as no two requests share URL and method, the map of active requests
\* holds those that workers download, whatever the others add or finish meanwhile.
THEOREM KnowsTheActive ==
    ASSUME \A r, s \in Requests : IdOf[r] = IdOf[s] => r = s
    PROVE  Spec => []ActiveExact
<1>1. Init => HeldOnce /\ ActiveExact
  BY DEF Init, HeldOnce, ActiveExact
<1>2. Spec => []HeldOnce
  BY <1>1, HeldOnceStep, Invariance, PTL DEF Spec
<1> QED
  BY <1>1, <1>2, ActiveStep, Invariance, PTL DEF Spec
=============================================================================
