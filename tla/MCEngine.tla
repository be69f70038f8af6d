------------------------------ MODULE MCEngine ------------------------------
(***************************************************************************)
(* Instances of Engine for TLC: a small site whose pages link to each      *)
(* other, one of them back to the start.                                   *)
(***************************************************************************)
EXTENDS Engine, TLC

CONSTANTS a, b, c, example, other

Page(url, depth) ==
    [url |-> url, method |-> "GET", depth |-> depth, priority |-> 0]

\* Page c is found at two depths, the deeper one beyond a limit of 1.
MCRequests == {Page(a, 0), Page(b, 0), Page(b, 1), Page(c, 1), Page(c, 2)}
MCStart == {Page(a, 0), Page(b, 0)}
MCLinks == (a :> {Page(b, 1), Page(c, 1)}) @@ (b :> {Page(c, 2)}) @@ (c :> {Page(a, 0)})
MCItems == (a :> 2) @@ (b :> 1) @@ (c :> 0)
MCDomain == (a :> example) @@ (b :> example) @@ (c :> other)
=============================================================================
