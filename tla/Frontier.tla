------------------------------ MODULE Frontier ------------------------------
(***************************************************************************)
(* What a scheduler of scrapy-rs promises its users: a frontier of URLs.   *)
(* A URL enters the frontier at most once, leaves it at most once, is      *)
(* never dropped in between, and everything is forgotten by clear().       *)
(*                                                                         *)
(* This is the contract of trait Scheduler with the deduplication every    *)
(* built-in scheduler performs. QueueScheduler, DomainGroupScheduler and   *)
(* Slot are checked against it, and proved to implement it.                *)
(***************************************************************************)
CONSTANT Urls        \* the URLs that can be offered

VARIABLES waiting,   \* accepted and not handed out yet
          taken      \* handed out by next()

fvars == <<waiting, taken>>

Init == waiting = {} /\ taken = {}

Add(u) ==
    /\ u \notin waiting \cup taken
    /\ waiting' = waiting \cup {u}
    /\ UNCHANGED taken

Take(u) ==
    /\ u \in waiting
    /\ waiting' = waiting \ {u}
    /\ taken' = taken \cup {u}

Forget ==
    /\ waiting' = {}
    /\ taken' = {}

Next ==
    \/ \E u \in Urls : Add(u) \/ Take(u)
    \/ Forget

Spec == Init /\ [][Next]_fvars
=============================================================================
