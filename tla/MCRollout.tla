------------------------------ MODULE MCRollout ------------------------------
(***************************************************************************)
(* Instances of Rollout for TLC: an older release, the target and a newer  *)
(* release.                                                                *)
(***************************************************************************)
EXTENDS Rollout

CONSTANTS old, target, newer

Sequences == [r \in {old, target, newer} |->
                CASE r = old -> 1 [] r = target -> 2 [] r = newer -> 3]
=============================================================================
