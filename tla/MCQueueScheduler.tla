-------------------------- MODULE MCQueueScheduler --------------------------
(***************************************************************************)
(* Instances of QueueScheduler for TLC.                                    *)
(***************************************************************************)
EXTENDS QueueScheduler

CONSTANTS a, b

Req(url, m, depth, p) ==
    [url |-> url, method |-> m, depth |-> depth, priority |-> p]

\* Two requests with one URL and different methods, the second of a higher
\* priority, and a request of another URL with a priority between theirs.
MCPriorities == { Req(a, "GET", 0, 0), Req(a, "POST", 0, 2), Req(b, "GET", 0, 1) }

\* max_depth: None
MCNoLimit == -1
=============================================================================
