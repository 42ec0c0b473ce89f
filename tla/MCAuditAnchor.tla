---------------------------- MODULE MCAuditAnchor ----------------------------
(* The instance of AuditAnchor that TLC checks. *)
EXTENDS AuditAnchor, TLC

Swaps == Permutations(Requester) \cup Permutations(Subject)
==============================================================================
