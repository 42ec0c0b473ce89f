--------------------------- MODULE MCMessageRouter ---------------------------
EXTENDS MessageRouter, TLC

CONSTANTS s1, s2, q1, q2

Profile(grounding, emergency, generation, vector) ==
  [groundingRequired |-> grounding, emergencyRag |-> emergency,
   generation |-> generation, vectorRequired |-> vector]

\* The default, the field safety profile, the retrieval-only profile.
ChartProfiles ==
  {Profile(FALSE, FALSE, TRUE, FALSE), Profile(TRUE, TRUE, TRUE, TRUE),
   Profile(TRUE, TRUE, FALSE, TRUE)}

Swaps == Permutations(Sender) \cup Permutations(Request)
=============================================================================
