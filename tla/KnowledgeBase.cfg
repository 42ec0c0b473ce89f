\* Two documents of two texts, two packages, two requests at a time, three in
\* all, two faults.
SPECIFICATION KnowledgeSpec
CONSTANTS
  a = a
  b = b
  t = t
  u = u
  v1 = v1
  v2 = v2
  c1 = c1
  c2 = c2
  Mutable = Mutable
  Invalid = Invalid
  Torn = Torn
  None = None
  Doc = {a, b}
  Text = {t, u}
  Package = {v1, v2}
  Packaged <- Installed
  Sample <- Demo
  Call = {c1, c2}
  Items <- Requests
  MaxRequests = 3
  MaxFaults = 2
INVARIANTS
  AnswersCurrent
PROPERTIES
  IndexReused
  RestartKeeps
SYMMETRY Swaps
