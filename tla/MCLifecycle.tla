---------------------------- MODULE MCLifecycle ----------------------------
(* One task that scrapes four items, more than two close() may lose. *)
EXTENDS Lifecycle, TLC

CONSTANTS t1, x1, x2, x3, x4

MCScrapes == t1 :> <<x1, x2, x3, x4>>
MCChain == <<"custom", "json">>
=============================================================================
