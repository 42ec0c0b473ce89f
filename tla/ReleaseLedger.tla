---------------------------- MODULE ReleaseLedger ----------------------------
(***************************************************************************)
(* What activation promises, whatever happens to its files: the node       *)
(* selects one release at a time, moves production strictly forward over   *)
(* everything it ever selected, steps back only into recovery, and only by *)
(* spending authority that was never spent before.                         *)
(***************************************************************************)
EXTENDS Naturals, Sequences

CONSTANTS
  Digest, NoDigest,
  Authority \* the marker sequences that one authorization spends

VARIABLES
  release, \* the digest and sequence the node selects
  mode,    \* how it was selected
  floor,   \* no release below it becomes a production release
  spent    \* log of the replay markers of the recovery authority used so far

vars == <<release, mode, floor, spent>>

Init ==
  /\ release = [digest |-> NoDigest, seq |-> 0]
  /\ mode = "uninitialized"
  /\ floor = 0
  /\ spent = <<>>

Select == release' \in [digest : Digest, seq : Nat \ {0}]

Advance ==
  /\ Select
  /\ mode' = "production"
  /\ release'.seq > floor
  /\ floor' = release'.seq
  /\ UNCHANGED spent

\* Recovery may also install a release above the floor, which then moves it.
StepBack ==
  /\ Select
  /\ release.digest # NoDigest
  /\ mode' = "recovery"
  /\ floor' = IF release'.seq > floor THEN release'.seq ELSE floor
  /\ \E markers \in Authority :
       /\ \A i \in 1..Len(spent), j \in 1..Len(markers) : spent[i] # markers[j]
       /\ spent' = spent \o markers

Next == Advance \/ StepBack

Spec == Init /\ [][Next]_vars
=============================================================================
