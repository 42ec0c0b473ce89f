---------------------------- MODULE MCAcquisition ----------------------------
(* The instance of Acquisition that TLC checks.  Controllers and contents differ in
   nothing but their names. *)
EXTENDS Acquisition, TLC

MCSource == 1..2
MCValidUntil == [s \in 1..2 |-> IF s = 1 THEN 5 ELSE 1]
Swaps == Permutations(Controller) \cup Permutations(Content)
==============================================================================
