-------------------------------- MODULE Slot --------------------------------
(***************************************************************************)
(* A download slot: the queue of one domain, with the delay between its    *)
(* requests, its active requests, their size, and its closing.             *)
(*                                                                         *)
(* Each field sits behind a lock of its own and no operation holds two of  *)
(* them, except that next_request sleeps while it holds the read lock of   *)
(* last_request_time. Every access to a field is an action.                *)
(*                                                                         *)
(* A worker is a task of the engine: it adds a request, asks for the next  *)
(* one, downloads what it got and finishes it.                             *)
(***************************************************************************)
EXTENDS Integers, Sequences, FiniteSets

CONSTANTS
    Workers,       \* the tasks that use the slot
    Requests,      \* the requests offered to the slot, each of them once
    NoRequest,
    Ids, IdOf,     \* create_request_id: URL and method
    HasScheduler,  \* whether the slot was created with a scheduler
    Delay,         \* delay
    MinSize,       \* MIN_RESPONSE_SIZE
    Sizes          \* sizes of response bodies, 0 for a failed download

SlotConstants ==
    /\ IsFiniteSet(Workers)
    /\ NoRequest \notin Requests
    /\ IdOf \in [Requests -> Ids]
    /\ HasScheduler \in BOOLEAN
    /\ Delay \in Nat /\ MinSize \in Nat /\ Sizes \subseteq Nat

ASSUME SlotAssumption == SlotConstants

VARIABLES
    queue,     \* queue
    active,    \* the keys of the map active
    size,      \* active_size
    age,       \* time since last_request_time, no more than Delay
    closing,   \* is_closing
    pc,        \* where each worker stands
    held,      \* the request each worker got
    wait,      \* how long it still has to sleep
    offered,   \* requests not added yet
    since,     \* history: time since a worker was last handed a request, no
               \* more than Delay
    given      \* history: the requests handed out

\* None and a time further back than Delay have the same effect: age = Delay.
vars == <<queue, active, size, age, closing, pc, held, wait, offered, since, given>>

Places == {"idle", "added", "check", "waiting", "ready", "popped", "stamped",
           "activated", "holding", "sized"}

TypeOK ==
    /\ queue \in Seq(Requests)
    /\ active \subseteq Ids
    /\ size \in Nat
    /\ age \in 0 .. Delay
    /\ closing \in BOOLEAN
    /\ pc \in [Workers -> Places]
    /\ held \in [Workers -> Requests \cup {NoRequest}]
    /\ wait \in [Workers -> 0 .. Delay]
    /\ offered \subseteq Requests
    /\ since \in [Workers -> 0 .. Delay]
    /\ given \subseteq Requests

Init ==
    /\ queue = <<>> /\ active = {} /\ size = 0 /\ age = Delay
    /\ closing = FALSE
    /\ pc = [w \in Workers |-> "idle"]
    /\ held = [w \in Workers |-> NoRequest]
    /\ wait = [w \in Workers |-> 0]
    /\ offered = Requests
    /\ since = [w \in Workers |-> Delay]
    /\ given = {}

Goes(w, from, to) == pc[w] = from /\ pc' = [pc EXCEPT ![w] = to]

-----------------------------------------------------------------------------
(* add_request and next_request *)

AddRequest(w) ==
    /\ Goes(w, "idle", "added")
    /\ \E r \in offered : queue' = Append(queue, r) /\ offered' = offered \ {r}
    /\ UNCHANGED <<active, size, age, closing, held, wait, since, given>>

\* A closing slot hands out nothing, and what its caller added stays queued.
CheckClosing(w) ==
    /\ Goes(w, "added", IF closing THEN "idle" ELSE "check")
    /\ UNCHANGED <<queue, active, size, age, closing, held, wait, offered, since, given>>

\* Mutation: the caller sleeps for the time that has passed.
CheckDelayElapsed(w) ==
    /\ IF age < Delay
       THEN Goes(w, "check", "waiting") /\ wait' = [wait EXCEPT ![w] = age]
       ELSE Goes(w, "check", "ready") /\ UNCHANGED wait
    /\ UNCHANGED <<queue, active, size, age, closing, held, offered, since, given>>

\* Mutation: the caller gets nothing instead of waiting.
CheckDelayImpatient(w) ==
    /\ Goes(w, "check", IF age < Delay THEN "idle" ELSE "ready")
    /\ UNCHANGED <<queue, active, size, age, closing, held, wait, offered, since, given>>

CheckDelay(w) ==
    /\ IF age < Delay
       THEN Goes(w, "check", "waiting") /\ wait' = [wait EXCEPT ![w] = Delay - age]
       ELSE Goes(w, "check", "ready") /\ UNCHANGED wait
    /\ UNCHANGED <<queue, active, size, age, closing, held, offered, since, given>>

Wake(w) ==
    /\ wait[w] = 0 /\ Goes(w, "waiting", "ready")
    /\ UNCHANGED <<queue, active, size, age, closing, held, wait, offered, since, given>>

Without(q, i) == [j \in 1 .. (Len(q) - 1) |-> IF j < i THEN q[j] ELSE q[j + 1]]

\* The queue's front; or the first queued request with the URL and the method
\* of whatever the scheduler names.
Candidates ==
    {i \in DOMAIN queue :
        IF HasScheduler
        THEN \A j \in DOMAIN queue : IdOf[queue[j]] = IdOf[queue[i]] => i <= j
        ELSE i = 1}

\* Mutation: the request is found, and left where it is.
PopPeeking(w) ==
    /\ IF queue = <<>>
       THEN Goes(w, "ready", "idle") /\ UNCHANGED <<held, since, given>>
       ELSE /\ Goes(w, "ready", "popped")
            /\ \E i \in Candidates :
                  /\ held' = [held EXCEPT ![w] = queue[i]]
                  /\ given' = given \cup {queue[i]}
            /\ since' = [since EXCEPT ![w] = 0]
    /\ UNCHANGED <<queue, active, size, age, closing, wait, offered>>

\* Mutation: after the match is removed, so is the queue's front.
PopTwice(w) ==
    /\ IF queue = <<>>
       THEN Goes(w, "ready", "idle") /\ UNCHANGED <<queue, held, since, given>>
       ELSE /\ Goes(w, "ready", "popped")
            /\ \E i \in Candidates :
                  /\ held' = [held EXCEPT ![w] = queue[i]]
                  /\ given' = given \cup {queue[i]}
                  /\ queue' = IF Len(queue) = 1 THEN <<>> ELSE Tail(Without(queue, i))
            /\ since' = [since EXCEPT ![w] = 0]
    /\ UNCHANGED <<active, size, age, closing, wait, offered>>

\* The queue is looked at and a request removed under one write lock.
Pop(w) ==
    /\ IF queue = <<>>
       THEN Goes(w, "ready", "idle") /\ UNCHANGED <<queue, held, since, given>>
       ELSE /\ Goes(w, "ready", "popped")
            /\ \E i \in Candidates :
                  /\ held' = [held EXCEPT ![w] = queue[i]]
                  /\ queue' = Without(queue, i)
                  /\ given' = given \cup {queue[i]}
            /\ since' = [since EXCEPT ![w] = 0]
    /\ UNCHANGED <<active, size, age, closing, wait, offered>>

\* The write lock has to wait for every caller that sleeps on the read lock.
Stamp(w) ==
    /\ \A v \in Workers : pc[v] # "waiting"
    /\ Goes(w, "popped", "stamped")
    /\ age' = 0
    /\ UNCHANGED <<queue, active, size, closing, held, wait, offered, since, given>>

Activate(w) ==
    /\ Goes(w, "stamped", "activated")
    /\ active' = active \cup {IdOf[held[w]]}
    /\ UNCHANGED <<queue, size, age, closing, held, wait, offered, since, given>>

Charge(w) ==
    /\ Goes(w, "activated", "holding")
    /\ size' = size + MinSize
    /\ UNCHANGED <<queue, active, age, closing, held, wait, offered, since, given>>

-----------------------------------------------------------------------------
(* finish_request and close *)

Larger(m, n) == IF m < n THEN n ELSE m
SaturatingSub(m, n) == IF m < n THEN 0 ELSE m - n

\* Mutation: what is taken back is the size of the response.
RechargeAll(w, s) ==
    /\ Goes(w, "holding", "sized")
    /\ size' = SaturatingSub(size, Larger(s, MinSize))
    /\ UNCHANGED <<queue, active, age, closing, held, wait, offered, since, given>>

\* Mutation: the same, without saturation.
RechargeUnchecked(w, s) ==
    /\ Goes(w, "holding", "sized")
    /\ size' = size - Larger(s, MinSize)
    /\ UNCHANGED <<queue, active, age, closing, held, wait, offered, since, given>>

\* The initial charge is replaced by the size of the response.
Recharge(w, s) ==
    /\ Goes(w, "holding", "sized")
    /\ size' = SaturatingSub(size, MinSize) + Larger(s, MinSize)
    /\ UNCHANGED <<queue, active, age, closing, held, wait, offered, since, given>>

\* Mutation: the whole map is cleared.
DeactivateAll(w) ==
    /\ Goes(w, "sized", "idle")
    /\ active' = {}
    /\ held' = [held EXCEPT ![w] = NoRequest]
    /\ UNCHANGED <<queue, size, age, closing, wait, offered, since, given>>

Deactivate(w) ==
    /\ Goes(w, "sized", "idle")
    /\ active' = active \ {IdOf[held[w]]}
    /\ held' = [held EXCEPT ![w] = NoRequest]
    /\ UNCHANGED <<queue, size, age, closing, wait, offered, since, given>>

\* What close and finish_request do next, to see whether the slot is idle, only
\* writes to the log.
Close ==
    /\ closing' = TRUE
    /\ UNCHANGED <<queue, active, size, age, pc, held, wait, offered, since, given>>

-----------------------------------------------------------------------------
\* Time passes for everyone at once.
Older(t) == IF t < Delay THEN t + 1 ELSE t

Tick ==
    /\ age' = Older(age)
    /\ since' = [w \in Workers |-> Older(since[w])]
    /\ wait' = [w \in Workers |-> SaturatingSub(wait[w], 1)]
    /\ UNCHANGED <<queue, active, size, closing, pc, held, offered, given>>

Work(w) ==
    \/ AddRequest(w)
    \/ CheckClosing(w) \/ CheckDelay(w) \/ Wake(w) \/ Pop(w)
    \/ Stamp(w) \/ Activate(w) \/ Charge(w)
    \/ \E s \in Sizes : Recharge(w, s)
    \/ Deactivate(w)

Next ==
    \/ \E w \in Workers : Work(w)
    \/ Close
    \/ Tick

Spec == Init /\ [][Next]_vars

\* Tasks are polled, downloads return and time goes by.
FairSpec == Spec /\ WF_vars(Tick) /\ \A w \in Workers : WF_vars(Work(w))

-----------------------------------------------------------------------------
(* Properties *)

Queued == {queue[i] : i \in DOMAIN queue}
Holders == {w \in Workers : held[w] # NoRequest}
InHand == {held[w] : w \in Holders}

\* The slot is a frontier of requests that forgets nothing: what is added
\* waits, is handed to one worker and never handed out again.
F == INSTANCE Frontier WITH
        Urls <- Requests, waiting <- Queued, taken <- given

ImplementsFrontier == F!Spec

\* Why: a request is offered, or queued in one place, or handed out.
OnceInv ==
    /\ \A i, j \in DOMAIN queue : queue[i] = queue[j] => i = j
    /\ Queued \cap offered = {}
    /\ given \cap (offered \cup Queued) = {}

\* The delay as each worker sees it: between two requests it is handed at least
\* Delay goes by, however the others interleave. A slot used by N tasks thus
\* starts at most N requests within a delay.
BurstBounded ==
    [][\A w \in Workers : pc[w] = "ready" /\ pc'[w] = "popped" => since[w] = Delay]_vars

\* Why: last_request_time is never older than what a worker was last handed, and
\* a sleep lasts for the rest of the delay.
PacedInv ==
    \A w \in Workers :
        /\ pc[w] # "popped" => age <= since[w]
        /\ pc[w] = "waiting" => wait[w] + since[w] >= Delay
        /\ pc[w] = "ready" => since[w] = Delay

\* The workers on their way to the queue.
Asking == {w \in Workers : pc[w] \in {"added", "check", "waiting", "ready"}}

Supplied == Len(queue) >= Cardinality(Asking)

NoneLeftBehind == ~closing => Len(queue) <= Cardinality(Asking)

\* A worker that has added a request and was not turned away finds one, so that
\* next_request never comes back empty from the queue; and an open slot leaves
\* nothing behind: what is queued is no more than what is on its way to be taken.
\* Only a close leaves requests that nobody will ask for (slot.rs add_request,
\* next_request, close).
QueueFits == Supplied /\ NoneLeftBehind

\* active_size accounts for every active request with at least MIN_RESPONSE_SIZE, so
\* the subtraction in finish_request never saturates.
Charged == {w \in Workers : pc[w] = "holding"}

NeverSaturates == size >= MinSize * Cardinality(Charged)

\* What a worker holds at each place, and the inductive invariant of the slot.
HeldInPlace ==
    \A w \in Workers :
        pc[w] \in {"popped", "stamped", "activated", "holding", "sized"} => held[w] \in Requests

IInv ==
    /\ TypeOK /\ HeldInPlace /\ OnceInv /\ PacedInv /\ Supplied /\ NeverSaturates

\* As long as no two requests share URL and method, active holds exactly the
\* requests between the insertion and the removal.
ActiveExact ==
    active = {IdOf[held[w]] :
                w \in {v \in Workers : pc[v] \in {"activated", "holding", "sized"}}}

\* Unless somebody closes the slot, everything that is added is processed.
Drains == <>(closing \/ (offered = {} /\ queue = <<>> /\ Holders = {}))

\* Why ActiveExact: what a worker holds was handed out, to nobody else.
HeldOnce ==
    /\ \A w \in Workers : held[w] # NoRequest => held[w] \in given
    /\ \A v, w \in Workers : held[v] = held[w] /\ held[v] # NoRequest => v = w
=============================================================================
