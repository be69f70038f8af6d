-------------------------------- MODULE Crawl --------------------------------
(***************************************************************************)
(* What a run of the engine promises: a crawl ends when there is nothing   *)
(* left to do, and not before.                                             *)
(*                                                                         *)
(* Requests wait in a scheduler; a worker takes one and is busy with it.   *)
(* New requests come from the start requests or from a busy worker, never  *)
(* from nowhere. A crawl that finishes, rather than aborts, therefore      *)
(* leaves no request waiting and no worker busy, and stays that way.       *)
(***************************************************************************)
EXTENDS Naturals

CONSTANT Workers

VARIABLES waiting,   \* how many requests wait in the scheduler
          busy,      \* the workers that hold a request
          phase      \* "seeding", "crawling", "finished" or "aborted"

cvars == <<waiting, busy, phase>>

Init == waiting = 0 /\ busy = {} /\ phase = "seeding"

\* A start request, or a request found on the page of a busy worker.
Discover ==
    /\ phase = "seeding" \/ busy # {}
    /\ waiting' = waiting + 1
    /\ UNCHANGED <<busy, phase>>

Begin ==
    /\ phase = "seeding"
    /\ phase' = "crawling"
    /\ UNCHANGED <<waiting, busy>>

Take(w) ==
    /\ phase = "crawling"
    /\ waiting > 0 /\ w \notin busy
    /\ waiting' = waiting - 1
    /\ busy' = busy \cup {w}
    /\ UNCHANGED phase

HandOver(v, w) ==
    /\ v \in busy /\ w \notin busy
    /\ busy' = (busy \ {v}) \cup {w}
    /\ UNCHANGED <<waiting, phase>>

Retire(w) ==
    /\ w \in busy
    /\ busy' = busy \ {w}
    /\ UNCHANGED <<waiting, phase>>

Finish ==
    /\ phase = "crawling"
    /\ waiting = 0 /\ busy = {}
    /\ phase' = "finished"
    /\ UNCHANGED <<waiting, busy>>

\* An aborting error action ends the crawl with whatever is left; the request
\* that met it is given up.
Abort(W) ==
    /\ phase \in {"seeding", "crawling"}
    /\ phase' = "aborted"
    /\ busy' = busy \ W
    /\ UNCHANGED waiting

Next ==
    \/ Discover \/ Begin \/ Finish
    \/ \E v, w \in Workers : HandOver(v, w)
    \/ \E w \in Workers : Take(w) \/ Retire(w)
    \/ \E W \in SUBSET Workers : Abort(W)

Spec == Init /\ [][Next]_cvars
=============================================================================
