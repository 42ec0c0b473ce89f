---------------------------- MODULE MCFleetControl ----------------------------
(***************************************************************************)
(* Instances of FleetControl for TLC.                                      *)
(***************************************************************************)
EXTENDS FleetControl, TLC

CONSTANTS n1, r1, r2

Interchangeable == Permutations(Nodes) \cup Permutations(Releases)
=============================================================================
