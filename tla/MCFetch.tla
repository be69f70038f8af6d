------------------------------ MODULE MCFetch ------------------------------
(* Three requests, two at a time, one download at a time, and a limiter that *)
(* lets one through every two seconds. The filter turns r2 down, and what it *)
(* says and what the spider says goes to a custom handler.                   *)
EXTENDS Fetch

CONSTANTS r1, r2, r3

MCStart == <<r1, r2, r3>>

M(kind, priority, applies) == [kind |-> kind, priority |-> priority, applies |-> applies]

MCRequestMiddlewares ==
    <<M("filter", 500, Requests), M("delay", 500, {r1}), M("limit", 800, Requests)>>

MCResponseMiddlewares == <<M("retry", 500, Requests), M("custom", 500, {r3})>>

MCDownloadErrors ==
    {[kind |-> "http", code |-> c, url |-> FALSE, tried |-> 0, after |-> -1] :
        c \in {"client", "limited"}}

MCCustom == {[kind |-> k, delay |-> 1] : k \in {"retry", "abort", "fail"}}

=============================================================================
