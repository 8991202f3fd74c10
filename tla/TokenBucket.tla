----------------------------- MODULE TokenBucket -----------------------------
(***************************************************************************)
(* The budget the Workshop grants one address: a burst, and one more request *)
(* for every interval that passes.                                          *)
(***************************************************************************)
EXTENDS Naturals

CONSTANT Burst
VARIABLE level

Init == level = Burst

Refill == level < Burst /\ level' = level + 1
Take == level > 0 /\ level' = level - 1

Spec == Init /\ [][Refill \/ Take]_level
==============================================================================
