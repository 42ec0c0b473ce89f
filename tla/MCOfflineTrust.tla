--------------------------- MODULE MCOfflineTrust ---------------------------
(***************************************************************************)
(* Instances of OfflineTrust for TLC.                                      *)
(***************************************************************************)
EXTENDS OfflineTrust

CONSTANTS s1, rel, key

OneEntry(subject, action, from) ==
  [subject |-> subject, action |-> action, from |-> from]

\* Nothing revoked; the source stopped from a later time on, with the release
\* restricted later still and an action that concerns activation only.
Lists ==
  { {},
    {OneEntry(s1, "stop_serving", 1), OneEntry(rel, "restrict", 3),
     OneEntry(key, "block_activation", 0)} }
=============================================================================
