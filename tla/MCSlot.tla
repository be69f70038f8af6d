------------------------------- MODULE MCSlot -------------------------------
(***************************************************************************)
(* Instances of Slot for TLC.                                              *)
(***************************************************************************)
EXTENDS Slot, TLC

CONSTANTS r1, r2, r3

\* Three different requests.
MCDistinct == (r1 :> 1) @@ (r2 :> 2) @@ (r3 :> 3)
=============================================================================
