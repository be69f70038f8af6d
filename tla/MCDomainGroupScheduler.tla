----------------------- MODULE MCDomainGroupScheduler -----------------------
(***************************************************************************)
(* Instances of DomainGroupScheduler for TLC.                              *)
(***************************************************************************)
EXTENDS DomainGroupScheduler

CONSTANTS u, v, w, A, B

Req(url, d, m, p) == [url |-> url, domain |-> d, method |-> m, depth |-> 0, priority |-> p]

\* Three requests of one domain, two of them with the same URL, with priorities
\* around that of the other domain's request.
MCRequests ==
    { Req(u, A, "GET", 1), Req(u, A, "POST", 3), Req(v, A, "GET", 3), Req(w, B, "GET", 2) }

\* One request less, for the run with two takers and fairness.
MCFewRequests ==
    { Req(u, A, "GET", 1), Req(v, A, "POST", 3), Req(w, B, "GET", 2) }

\* max_depth: None
MCNone == -1
=============================================================================
