-------------------------- MODULE FleetControlProofs --------------------------
(***************************************************************************)
(* The inductive invariant of FleetControl, the safety theorems that       *)
(* follow from it for any number of nodes, clock error and message order,   *)
(* and the refinement of FleetView.                                        *)
(***************************************************************************)
EXTENDS FleetControl, TLAPS

-----------------------------------------------------------------------------
(* The inductive invariant *)

\* A message tells of the past, of what its node served then, and its stamp is
\* no further ahead than the clock error. Its number was reserved.
Told(r) ==
  /\ r.taken <= now
  /\ r.sequence <= numbered[r.node]
  /\ r.issuedAt - r.taken <= MaxDrift
  /\ r.activation # NoStatus => r.taken <= lastServed[r.node][r.activation]

MessagesTrue == \A m \in network : Told(m.report)

\* The later number tells of no earlier moment, and no number is used twice.
NumberedInOrder ==
  \A m, k \in network :
    m.report.node = k.report.node =>
      /\ m.report.sequence < k.report.sequence => m.report.taken <= k.report.taken
      /\ m.report.sequence = k.report.sequence => m.report = k.report

\* The history of what a node serves reaches to the present.
HistoryCurrent ==
  \A n \in Nodes :
    /\ lastServed[n][serving[n]] = now
    /\ \A s \in Status : lastServed[n][s] <= now

\* What is remembered of a node comes from the last message accepted; the
\* status in it was served not long before, and its key was enrolled then.
Remembered(n) ==
  /\ nodes[n].sequence = floor[n]
  /\ nodes[n].lastSeen <= now
  /\ nodes[n].activation # NoStatus =>
       /\ 0 <= lastServed[n][nodes[n].activation]
       /\ nodes[n].lastSeen - MaxSkew - MaxDrift <= lastServed[n][nodes[n].activation]
  /\ \/ registry[n] = [key |-> nodes[n].key, enabled |-> TRUE]
     \/ nodes[n].lastSeen <= enrolledAt[n]

MemoryTrue ==
  \A n \in Nodes :
    IF nodes[n].known THEN Remembered(n) ELSE nodes[n] = Unregistered

EnrolmentPast == \A n \in Nodes : enrolledAt[n] <= now

IInv ==
  /\ TypeOK
  /\ MessagesTrue
  /\ NumberedInOrder
  /\ HistoryCurrent
  /\ MemoryTrue
  /\ EnrolmentPast

-----------------------------------------------------------------------------
(* Facts about messages and steps *)

\* The fields of a message that was sent, and what is true of its report.
LEMMA MessageFacts ==
  ASSUME TypeOK, NEW m \in network
  PROVE  /\ m \in Message /\ m.report \in Report /\ m.key \in Keys
         /\ m.report.node \in Nodes
         /\ m.report.issuedAt \in Int /\ m.report.taken \in Nat
         /\ m.report.sequence \in Nat /\ m.report.sequence # 0
         /\ m.report.activation \in Status \cup {NoStatus}
<1>1. m \in Message
  BY DEF TypeOK
<1>2. m.report \in Report /\ m.key \in Keys
  BY <1>1 DEF Message
<1> QED BY <1>1, <1>2 DEF Report

\* The state in which nothing was sent and nothing is known.
LEMMA Start == Init => IInv
<1> SUFFICES ASSUME Init PROVE IInv
  OBVIOUS
<1>1. TypeOK
  <2>1. Unregistered \in Entry
    BY DEF Unregistered, Entry
  <2>2. /\ nodes \in [Nodes -> Entry]
        /\ registry \in [Nodes -> [key : Keys, enabled : BOOLEAN]]
        /\ nodeKey \in [Nodes -> Keys]
    BY <2>1, BoundAssumption DEF Init, Keys
  <2>3. lastServed \in [Nodes -> [Status -> Int]]
    BY DEF Init
  <2> QED BY <2>2, <2>3 DEF Init, TypeOK
<1>2. MessagesTrue /\ NumberedInOrder
  BY DEF Init, MessagesTrue, NumberedInOrder
<1>3. HistoryCurrent
  BY DEF Init, HistoryCurrent
<1>4. MemoryTrue
  BY DEF Init, MemoryTrue, Unregistered
<1>5. EnrolmentPast
  BY DEF Init, EnrolmentPast
<1> QED BY <1>1, <1>2, <1>3, <1>4, <1>5 DEF IInv

\* When only the past of what nodes serve grows, and time does not run back,
\* messages and memory stay true.
LEMMA LaterKeeps ==
  ASSUME IInv, TypeOK', now <= now',
         \A n \in Nodes, s \in Status : lastServed[n][s] <= lastServed'[n][s],
         UNCHANGED <<numbered, network, registryVars, floor, nodes>>
  PROVE  MessagesTrue' /\ NumberedInOrder' /\ MemoryTrue' /\ EnrolmentPast'
<1>1. TypeOK /\ MessagesTrue /\ NumberedInOrder /\ MemoryTrue /\ EnrolmentPast
  BY DEF IInv
<1>2. now \in Nat /\ now' \in Nat
  BY <1>1 DEF TypeOK
<1>3. MessagesTrue'
  <2> SUFFICES ASSUME NEW m \in network PROVE Told(m.report)'
    BY DEF MessagesTrue
  <2>1. /\ m.report.node \in Nodes /\ m.report.taken \in Nat
        /\ m.report.activation \in Status \cup {NoStatus}
    BY <1>1, MessageFacts
  <2>2. Told(m.report)
    BY <1>1 DEF MessagesTrue
  <2>3. m.report.taken <= now'
    BY <1>2, <2>1, <2>2 DEF Told
  <2>4. ASSUME m.report.activation # NoStatus
        PROVE  m.report.taken <= lastServed'[m.report.node][m.report.activation]
    <3>1. m.report.activation \in Status
      BY <2>1, <2>4
    <3>2. /\ lastServed[m.report.node][m.report.activation] \in Int
          /\ lastServed'[m.report.node][m.report.activation] \in Int
      BY <1>1, <2>1, <3>1 DEF TypeOK
    <3>3. m.report.taken <= lastServed[m.report.node][m.report.activation]
      BY <2>2, <2>4 DEF Told
    <3> QED BY <2>1, <3>1, <3>2, <3>3
  <2> QED BY <2>2, <2>3, <2>4 DEF Told
<1>4. NumberedInOrder'
  BY <1>1 DEF NumberedInOrder
<1>5. MemoryTrue'
  <2> SUFFICES ASSUME NEW n \in Nodes, nodes[n].known PROVE Remembered(n)'
    BY <1>1 DEF MemoryTrue
  <2>1. Remembered(n)
    BY <1>1 DEF MemoryTrue
  <2>2. nodes[n] \in Entry
    BY <1>1 DEF TypeOK
  <2>3. nodes[n].lastSeen \in Nat /\ nodes[n].activation \in Status \cup {NoStatus}
    BY <2>2 DEF Entry
  <2>4. nodes[n].lastSeen <= now'
    BY <1>2, <2>1, <2>3 DEF Remembered
  <2>5. ASSUME nodes[n].activation # NoStatus
        PROVE  /\ 0 <= lastServed'[n][nodes[n].activation]
               /\ nodes[n].lastSeen - MaxSkew - MaxDrift
                    <= lastServed'[n][nodes[n].activation]
    <3>1. nodes[n].activation \in Status
      BY <2>3, <2>5
    <3>2. /\ lastServed[n][nodes[n].activation] \in Int
          /\ lastServed'[n][nodes[n].activation] \in Int
      BY <1>1, <3>1 DEF TypeOK
    <3>3. lastServed[n][nodes[n].activation] <= lastServed'[n][nodes[n].activation]
      BY <3>1
    <3>4. /\ 0 <= lastServed[n][nodes[n].activation]
          /\ nodes[n].lastSeen - MaxSkew - MaxDrift
               <= lastServed[n][nodes[n].activation]
      BY <2>1, <2>5 DEF Remembered
    <3> QED BY <2>3, <3>2, <3>3, <3>4, TimeAssumption
  <2> QED BY <2>1, <2>4, <2>5 DEF Remembered, registryVars
<1>6. EnrolmentPast'
  <2>1. \A n \in Nodes : enrolledAt[n] \in Nat
    BY <1>1 DEF TypeOK
  <2> QED BY <1>1, <1>2, <2>1 DEF EnrolmentPast, registryVars
<1> QED BY <1>3, <1>4, <1>5, <1>6

-----------------------------------------------------------------------------
(* The steps *)

LEMMA ServeKeeps ==
  ASSUME IInv, NEW n \in Nodes, NEW status \in Status, Serve(n, status)
  PROVE  IInv'
<1>1. TypeOK /\ HistoryCurrent
  BY DEF IInv
<1>2. now \in Nat /\ now' = now /\ lastServed \in [Nodes -> [Status -> Int]]
  BY <1>1 DEF TypeOK, Serve
<1>3. lastServed' = [lastServed EXCEPT ![n][status] = now]
  BY DEF Serve
<1>4. lastServed' \in [Nodes -> [Status -> Int]]
  BY <1>2, <1>3
<1>5. TypeOK'
  BY <1>1, <1>4 DEF TypeOK, Serve, registryVars
<1>6. \A k \in Nodes, s \in Status :
        lastServed'[k][s] = IF k = n /\ s = status THEN now ELSE lastServed[k][s]
  BY <1>2, <1>3
<1>7. \A k \in Nodes, s \in Status : lastServed[k][s] \in Int /\ lastServed[k][s] <= now
  BY <1>1, <1>2 DEF HistoryCurrent
<1>8. \A k \in Nodes, s \in Status : lastServed[k][s] <= lastServed'[k][s]
  BY <1>2, <1>6, <1>7
<1>9. MessagesTrue' /\ NumberedInOrder' /\ MemoryTrue' /\ EnrolmentPast'
  BY <1>2, <1>5, <1>8, LaterKeeps DEF Serve
<1>10. HistoryCurrent'
  <2> SUFFICES ASSUME NEW k \in Nodes
               PROVE  /\ lastServed'[k][serving'[k]] = now
                      /\ \A s \in Status : lastServed'[k][s] <= now
    BY <1>2 DEF HistoryCurrent
  <2>1. serving'[k] = (IF k = n THEN status ELSE serving[k]) /\ serving[k] \in Status
    BY <1>1 DEF Serve, TypeOK
  <2>2. lastServed[k][serving[k]] = now
    BY <1>1 DEF HistoryCurrent
  <2>3. \A s \in Status : lastServed'[k][s] <= now
    BY <1>2, <1>6, <1>7
  <2> QED BY <1>6, <2>1, <2>2, <2>3
<1> QED BY <1>5, <1>9, <1>10 DEF IInv

LEMMA TickKeeps ==
  ASSUME IInv, Tick
  PROVE  IInv'
<1>1. TypeOK /\ HistoryCurrent
  BY DEF IInv
<1>2. now \in Nat /\ now' = now + 1 /\ lastServed \in [Nodes -> [Status -> Int]]
  BY <1>1 DEF TypeOK, Tick
<1>3. lastServed' = [n \in Nodes |-> [lastServed[n] EXCEPT ![serving[n]] = now + 1]]
  BY DEF Tick
<1>4. lastServed' \in [Nodes -> [Status -> Int]]
  <2> SUFFICES ASSUME NEW n \in Nodes
               PROVE  [lastServed[n] EXCEPT ![serving[n]] = now + 1] \in [Status -> Int]
    BY <1>3
  <2>1. lastServed[n] \in [Status -> Int] /\ now + 1 \in Int
    BY <1>2
  <2> QED BY <2>1
<1>5. TypeOK'
  BY <1>1, <1>2, <1>4 DEF TypeOK, Tick, registryVars
<1>6. \A k \in Nodes : serving[k] \in Status
  BY <1>1 DEF TypeOK
<1>7. \A k \in Nodes, s \in Status :
        lastServed'[k][s] = IF s = serving[k] THEN now + 1 ELSE lastServed[k][s]
  BY <1>2, <1>3
<1>8. \A k \in Nodes, s \in Status : lastServed[k][s] \in Int /\ lastServed[k][s] <= now
  BY <1>1, <1>2 DEF HistoryCurrent
<1>9. \A k \in Nodes, s \in Status : lastServed[k][s] <= lastServed'[k][s]
  BY <1>2, <1>7, <1>8
<1>10. now <= now'
  BY <1>2
<1>11. MessagesTrue' /\ NumberedInOrder' /\ MemoryTrue' /\ EnrolmentPast'
  BY <1>5, <1>9, <1>10, LaterKeeps DEF Tick
<1>12. HistoryCurrent'
  BY <1>2, <1>6, <1>7, <1>8 DEF HistoryCurrent, Tick
<1> QED BY <1>5, <1>11, <1>12 DEF IInv

\* The registry changes now: what it let in so far was seen by now.
LEMMA EnrolKeeps ==
  ASSUME IInv, NEW n \in Nodes, NEW key \in Keys, NEW enabled \in BOOLEAN,
         Enrol(n, key, enabled)
  PROVE  IInv'
<1>1. TypeOK /\ MessagesTrue /\ NumberedInOrder /\ HistoryCurrent /\ MemoryTrue
      /\ EnrolmentPast
  BY DEF IInv
<1>2. /\ registry' = [registry EXCEPT ![n] = [key |-> key, enabled |-> enabled]]
      /\ enrolledAt' = [enrolledAt EXCEPT ![n] = now]
      /\ now' = now /\ floor' = floor /\ nodes' = nodes
      /\ UNCHANGED nodeVars
      /\ enrolments' = enrolments + 1
  BY DEF Enrol
<1>3. now \in Nat
  BY <1>1 DEF TypeOK
<1>4. TypeOK'
  <2>1. registry' \in [Nodes -> [key : Keys, enabled : BOOLEAN]]
    BY <1>1, <1>2 DEF TypeOK
  <2>2. enrolledAt' \in [Nodes -> Nat]
    BY <1>1, <1>2 DEF TypeOK
  <2> QED BY <1>1, <1>2, <2>1, <2>2 DEF TypeOK, nodeVars, Enrol
<1>5. MessagesTrue' /\ NumberedInOrder' /\ HistoryCurrent'
  BY <1>1, <1>2 DEF MessagesTrue, NumberedInOrder, HistoryCurrent, Told, nodeVars
<1>6. EnrolmentPast'
  BY <1>1, <1>2, <1>3 DEF EnrolmentPast, TypeOK
<1>7. MemoryTrue'
  <2> SUFFICES ASSUME NEW k \in Nodes, nodes[k].known PROVE Remembered(k)'
    BY <1>1, <1>2 DEF MemoryTrue
  <2>1. Remembered(k)
    BY <1>1 DEF MemoryTrue
  <2>2. CASE k = n
    <3>1. nodes[k].lastSeen <= enrolledAt'[k]
      BY <1>1, <1>2, <2>1, <2>2 DEF Remembered, TypeOK
    <3> QED BY <1>2, <2>1, <3>1 DEF Remembered, nodeVars
  <2>3. CASE k # n
    BY <1>1, <1>2, <2>1, <2>3 DEF Remembered, TypeOK, nodeVars
  <2> QED BY <2>2, <2>3
<1> QED BY <1>4, <1>5, <1>6, <1>7 DEF IInv

\* A message carries the next number and what is true now.
LEMMA SignKeeps ==
  ASSUME IInv, NEW n \in Nodes, NEW kind \in {"registration", "heartbeat"},
         NEW d \in Drift, NEW a \in Status \cup {NoStatus}, Sign(n, kind, d, a)
  PROVE  IInv'
<1> DEFINE r == NextReport(n, kind, d, a)
           m == [report |-> r, key |-> nodeKey[n]]
<1>1. TypeOK /\ MessagesTrue /\ NumberedInOrder /\ HistoryCurrent /\ MemoryTrue
      /\ EnrolmentPast
  BY DEF IInv
<1>2. /\ numbered' = [numbered EXCEPT ![n] = @ + 1]
      /\ network' = network \cup {m}
      /\ a \in {serving[n], NoStatus}
      /\ UNCHANGED <<now, serving, changes, nodeKey, lastServed, registryVars,
                     floor, nodes, restarts>>
  BY DEF Sign, ReserveNext
<1>3. now \in Nat /\ numbered \in [Nodes -> Nat] /\ numbered[n] \in Nat /\ d \in Int
      /\ d <= MaxDrift /\ nodeKey[n] \in Keys
  BY <1>1, TimeAssumption DEF TypeOK
<1>4. /\ r.kind = kind /\ r.node = n /\ r.issuedAt = now + d
      /\ r.sequence = numbered[n] + 1 /\ r.activation = a /\ r.taken = now
      /\ r \in Report
  BY <1>3 DEF NextReport, Report
<1>5. m.report = r /\ m \in Message
  BY <1>3, <1>4 DEF Message
<1> HIDE DEF r, m
<1>6. TypeOK'
  <2>1. network' \subseteq Message /\ numbered' \in [Nodes -> Nat]
    BY <1>1, <1>2, <1>3, <1>5 DEF TypeOK
  <2> QED BY <1>1, <1>2, <2>1 DEF TypeOK, registryVars
<1>7. \A k \in Nodes : numbered'[k] = IF k = n THEN numbered[n] + 1 ELSE numbered[k]
  BY <1>2, <1>3
<1>8. MessagesTrue'
  <2> SUFFICES ASSUME NEW k \in network' PROVE Told(k.report)'
    BY DEF MessagesTrue
  <2>1. CASE k \in network
    <3>1. k.report.node \in Nodes /\ k.report.sequence \in Nat
      BY <1>1, <2>1, MessageFacts
    <3>2. Told(k.report)
      BY <1>1, <2>1 DEF MessagesTrue
    <3>3. numbered[k.report.node] \in Nat
      BY <1>3, <3>1
    <3>4. k.report.sequence <= numbered'[k.report.node]
      BY <1>7, <3>1, <3>2, <3>3 DEF Told
    <3> QED BY <1>2, <3>2, <3>4 DEF Told
  <2>2. CASE k = m
    <3>1. r.sequence <= numbered'[n]
      BY <1>3, <1>4, <1>7
    <3>2. r.activation # NoStatus => r.taken <= lastServed[n][r.activation]
      BY <1>1, <1>2, <1>3, <1>4 DEF HistoryCurrent
    <3>3. r.taken <= now /\ r.issuedAt - r.taken <= MaxDrift
      BY <1>3, <1>4, TimeAssumption
    <3> QED BY <1>2, <1>4, <1>5, <2>2, <3>1, <3>2, <3>3 DEF Told
  <2> QED BY <1>2, <2>1, <2>2
<1>9. ASSUME NEW k \in network, k.report.node = n
      PROVE  k.report.sequence < r.sequence /\ k.report.taken <= r.taken
  <2>1. k.report.sequence \in Nat /\ k.report.taken \in Nat
    BY <1>1, MessageFacts
  <2>2. k.report.sequence <= numbered[n] /\ k.report.taken <= now
    BY <1>1, <1>9 DEF MessagesTrue, Told
  <2> QED BY <1>3, <1>4, <2>1, <2>2
<1>10. NumberedInOrder'
  <2> SUFFICES ASSUME NEW k \in network', NEW l \in network',
                      k.report.node = l.report.node
               PROVE  /\ k.report.sequence < l.report.sequence
                            => k.report.taken <= l.report.taken
                      /\ k.report.sequence = l.report.sequence => k.report = l.report
    BY DEF NumberedInOrder
  <2>1. CASE k \in network /\ l \in network
    BY <1>1, <2>1 DEF NumberedInOrder
  <2>2. CASE k \in network /\ l = m
    <3>1. k.report.sequence < r.sequence /\ k.report.taken <= r.taken
      BY <1>4, <1>5, <1>9, <2>2
    <3>2. k.report.sequence \in Nat /\ r.sequence \in Nat
      BY <1>1, <1>3, <1>4, <2>2, MessageFacts
    <3> QED BY <1>5, <2>2, <3>1, <3>2
  <2>3. CASE k = m /\ l \in network
    <3>1. l.report.sequence < r.sequence
      BY <1>4, <1>5, <1>9, <2>3
    <3>2. l.report.sequence \in Nat /\ r.sequence \in Nat
      BY <1>1, <1>3, <1>4, <2>3, MessageFacts
    <3> QED BY <1>5, <2>3, <3>1, <3>2
  <2>4. CASE k = m /\ l = m
    BY <1>3, <1>4, <1>5, <2>4
  <2> QED BY <1>2, <2>1, <2>2, <2>3, <2>4
<1>11. HistoryCurrent' /\ MemoryTrue' /\ EnrolmentPast'
  BY <1>1, <1>2 DEF HistoryCurrent, MemoryTrue, Remembered, EnrolmentPast, registryVars
<1> QED BY <1>6, <1>8, <1>10, <1>11 DEF IInv

\* A number that is reserved and never sent, or a new key, leaves all else.
LEMMA NodeKeeps ==
  ASSUME IInv, NEW n \in Nodes, SignFails(n) \/ ReplaceKey(n)
  PROVE  IInv'
<1>1. TypeOK /\ MessagesTrue /\ NumberedInOrder /\ HistoryCurrent /\ MemoryTrue
      /\ EnrolmentPast
  BY DEF IInv
<1>2. UNCHANGED <<now, serving, changes, network, lastServed, registryVars,
                 floor, nodes, restarts>>
  BY DEF SignFails, ReplaceKey
<1>3. /\ numbered' \in [Nodes -> Nat]
      /\ \A k \in Nodes : numbered[k] \in Nat /\ numbered[k] <= numbered'[k]
  <2>1. CASE SignFails(n)
    BY <1>1, <2>1 DEF TypeOK, SignFails, ReserveNext
  <2>2. CASE ReplaceKey(n)
    BY <1>1, <2>2 DEF TypeOK, ReplaceKey
  <2> QED BY <2>1, <2>2
<1>4. nodeKey' \in [Nodes -> Keys]
  <2>1. CASE SignFails(n)
    BY <1>1, <2>1 DEF TypeOK, SignFails
  <2>2. CASE ReplaceKey(n)
    <3>1. nodeKey[n] + 1 \in Keys
      BY <1>1, <2>2, BoundAssumption DEF TypeOK, ReplaceKey, Keys
    <3> QED BY <1>1, <2>2, <3>1 DEF TypeOK, ReplaceKey
  <2> QED BY <2>1, <2>2
<1>5. TypeOK'
  BY <1>1, <1>2, <1>3, <1>4 DEF TypeOK, registryVars
<1>6. MessagesTrue'
  <2> SUFFICES ASSUME NEW m \in network PROVE Told(m.report)'
    BY <1>2 DEF MessagesTrue
  <2>1. m.report.node \in Nodes /\ m.report.sequence \in Nat
    BY <1>1, MessageFacts
  <2>2. Told(m.report)
    BY <1>1 DEF MessagesTrue
  <2>3. m.report.sequence <= numbered'[m.report.node]
    BY <1>3, <2>1, <2>2 DEF Told
  <2> QED BY <1>2, <2>2, <2>3 DEF Told
<1>7. NumberedInOrder' /\ HistoryCurrent' /\ MemoryTrue' /\ EnrolmentPast'
  BY <1>1, <1>2 DEF NumberedInOrder, HistoryCurrent, MemoryTrue, Remembered,
                    EnrolmentPast, registryVars
<1> QED BY <1>5, <1>6, <1>7 DEF IInv

\* The entry that an accepted message leaves is true.
LEMMA SeenKeeps ==
  ASSUME IInv, NEW m \in network, NEW a \in {m.report.activation, NoStatus},
         Verify(m), Seen(m, a), UNCHANGED <<now, nodeVars, registryVars, restarts>>
  PROVE  IInv'
<1> DEFINE n == m.report.node
           e == [known |-> TRUE, lastSeen |-> now, activation |-> a,
                 key |-> m.key, sequence |-> m.report.sequence]
<1>1. TypeOK /\ MessagesTrue /\ NumberedInOrder /\ HistoryCurrent /\ MemoryTrue
      /\ EnrolmentPast
  BY DEF IInv
<1>2. /\ m.key \in Keys /\ n \in Nodes /\ m.report.issuedAt \in Int
      /\ m.report.taken \in Nat /\ m.report.sequence \in Nat
      /\ m.report.activation \in Status \cup {NoStatus}
  BY <1>1, MessageFacts
<1>3. /\ floor' = [floor EXCEPT ![n] = m.report.sequence]
      /\ nodes' = [nodes EXCEPT ![n] = e]
      /\ registry[n] = [key |-> m.key, enabled |-> TRUE]
      /\ now - m.report.issuedAt <= MaxSkew
  BY DEF Verify, Advance, Seen, Enrolled, InWindow
<1>4. now \in Nat
  BY <1>1 DEF TypeOK
<1>5. /\ e.known /\ e.lastSeen = now /\ e.activation = a /\ e.key = m.key
      /\ e.sequence = m.report.sequence /\ e \in Entry
  BY <1>2, <1>4 DEF Entry
<1> HIDE DEF e
<1>6. TypeOK'
  <2>1. floor' \in [Nodes -> Nat] /\ nodes' \in [Nodes -> Entry]
    BY <1>1, <1>2, <1>3, <1>5 DEF TypeOK
  <2> QED BY <1>1, <2>1 DEF TypeOK, nodeVars, registryVars
<1>7. MessagesTrue' /\ NumberedInOrder' /\ HistoryCurrent' /\ EnrolmentPast'
  BY <1>1 DEF MessagesTrue, Told, NumberedInOrder, HistoryCurrent, EnrolmentPast,
              nodeVars, registryVars
<1>8. /\ nodes'[n] = e /\ floor'[n] = m.report.sequence
      /\ \A k \in Nodes \ {n} : nodes'[k] = nodes[k] /\ floor'[k] = floor[k]
  BY <1>1, <1>2, <1>3 DEF TypeOK
<1>9. ASSUME a # NoStatus
      PROVE  0 <= lastServed[n][a] /\ now - MaxSkew - MaxDrift <= lastServed[n][a]
  <2>1. a = m.report.activation /\ a \in Status
    BY <1>2, <1>9
  <2>2. lastServed[n][a] \in Int
    BY <1>1, <1>2, <2>1 DEF TypeOK
  <2>3. m.report.taken <= lastServed[n][a] /\ m.report.issuedAt - m.report.taken <= MaxDrift
    BY <1>1, <1>9, <2>1 DEF MessagesTrue, Told
  <2> QED BY <1>2, <1>3, <1>4, <2>2, <2>3, TimeAssumption
<1>10. MemoryTrue'
  <2> SUFFICES ASSUME NEW k \in Nodes
               PROVE  IF nodes'[k].known THEN Remembered(k)' ELSE nodes'[k] = Unregistered
    BY DEF MemoryTrue
  <2>1. CASE k = n
    <3>1. now' = now /\ registry' = registry /\ lastServed' = lastServed
          /\ enrolledAt' = enrolledAt
      BY DEF nodeVars, registryVars
    <3>2. /\ nodes'[k].known /\ nodes'[k].lastSeen = now /\ nodes'[k].activation = a
          /\ nodes'[k].key = m.key /\ nodes'[k].sequence = floor'[k]
      BY <1>5, <1>8, <2>1
    <3>3. registry'[k] = [key |-> nodes'[k].key, enabled |-> TRUE]
      BY <1>3, <2>1, <3>1, <3>2
    <3>4. nodes'[k].lastSeen <= now'
      BY <1>4, <3>1, <3>2
    <3>5. ASSUME nodes'[k].activation # NoStatus
          PROVE  /\ 0 <= lastServed'[k][nodes'[k].activation]
                 /\ nodes'[k].lastSeen - MaxSkew - MaxDrift
                      <= lastServed'[k][nodes'[k].activation]
      BY <1>9, <2>1, <3>1, <3>2, <3>5
    <3> QED BY <3>2, <3>3, <3>4, <3>5 DEF Remembered
  <2>2. CASE k # n
    BY <1>1, <1>8, <2>2 DEF MemoryTrue, Remembered, nodeVars, registryVars
  <2> QED BY <2>1, <2>2
<1> QED BY <1>6, <1>7, <1>10 DEF IInv

LEMMA ControllerKeeps ==
  ASSUME IInv,
         Restart \/ \E m \in network : Register(m) \/ Heartbeat(m) \/ HeartbeatOfUnknownNode(m)
  PROVE  IInv'
<1>1. TypeOK /\ MessagesTrue /\ NumberedInOrder /\ HistoryCurrent /\ MemoryTrue
      /\ EnrolmentPast
  BY DEF IInv
<1>2. CASE Restart
  <2>1. nodes' \in [Nodes -> Entry]
    BY <1>2 DEF Restart, Unregistered, Entry
  <2>2. TypeOK'
    BY <1>1, <1>2, <2>1 DEF TypeOK, Restart, nodeVars, registryVars
  <2>3. MessagesTrue' /\ NumberedInOrder' /\ HistoryCurrent' /\ EnrolmentPast'
    BY <1>1, <1>2 DEF MessagesTrue, Told, NumberedInOrder, HistoryCurrent, EnrolmentPast,
                      Restart, nodeVars, registryVars
  <2>4. MemoryTrue'
    BY <1>2 DEF MemoryTrue, Restart, Unregistered
  <2> QED BY <2>2, <2>3, <2>4 DEF IInv
<1>3. ASSUME NEW m \in network, Register(m) PROVE IInv'
  BY <1>3, SeenKeeps DEF Register
<1>4. ASSUME NEW m \in network, Heartbeat(m) PROVE IInv'
  BY <1>4, SeenKeeps DEF Heartbeat
<1>5. ASSUME NEW m \in network, HeartbeatOfUnknownNode(m) PROVE IInv'
  <2>1. m.report.node \in Nodes /\ m.report.sequence \in Nat
    BY <1>1, MessageFacts
  <2>2. /\ floor' = [floor EXCEPT ![m.report.node] = m.report.sequence]
        /\ ~nodes[m.report.node].known
        /\ UNCHANGED <<now, nodeVars, registryVars, nodes, restarts>>
    BY <1>5 DEF HeartbeatOfUnknownNode, Verify, Advance
  <2>3. TypeOK'
    <3>1. floor' \in [Nodes -> Nat]
      BY <1>1, <2>1, <2>2 DEF TypeOK
    <3> QED BY <1>1, <2>2, <3>1 DEF TypeOK, nodeVars, registryVars
  <2>4. MessagesTrue' /\ NumberedInOrder' /\ HistoryCurrent' /\ EnrolmentPast'
    BY <1>1, <2>2 DEF MessagesTrue, Told, NumberedInOrder, HistoryCurrent, EnrolmentPast,
                      nodeVars, registryVars
  <2>5. MemoryTrue'
    <3> SUFFICES ASSUME NEW k \in Nodes, nodes[k].known PROVE Remembered(k)'
      BY <1>1, <2>2 DEF MemoryTrue
    <3>1. k # m.report.node /\ floor'[k] = floor[k]
      BY <1>1, <2>1, <2>2 DEF TypeOK
    <3> QED BY <1>1, <2>2, <3>1 DEF MemoryTrue, Remembered, nodeVars, registryVars
  <2> QED BY <2>3, <2>4, <2>5 DEF IInv
<1> QED BY <1>2, <1>3, <1>4, <1>5

LEMMA StepKeeps ==
  ASSUME IInv, [Next]_vars
  PROVE  IInv'
<1>1. CASE Next
  BY <1>1, ServeKeeps, SignKeeps, NodeKeeps, EnrolKeeps, ControllerKeeps, TickKeeps DEF Next
<1>2. CASE UNCHANGED vars
  BY <1>2 DEF vars, nodeVars, registryVars, IInv, TypeOK, MessagesTrue, Told,
              NumberedInOrder, HistoryCurrent, MemoryTrue, Remembered, EnrolmentPast
<1> QED BY <1>1, <1>2

\* The inductive invariant holds in every reachable state.
THEOREM InvariantHolds == Spec => []IInv
BY Start, StepKeeps, PTL DEF Spec

-----------------------------------------------------------------------------
(* The theorems *)

\* The variables keep their types.
THEOREM TypeCorrect == Spec => []TypeOK
<1>1. IInv => TypeOK
  BY DEF IInv
<1> QED BY <1>1, InvariantHolds, PTL

\* The controller shows the contents of the last message it accepted.
THEOREM NewestShown == Spec => []ShownIsNewest
<1>1. IInv => ShownIsNewest
  BY DEF IInv, MemoryTrue, Remembered, ShownIsNewest
<1> QED BY <1>1, InvariantHolds, PTL

\* A compliant fleet served the desired release within the bounded past.
THEOREM ComplianceEarned == Spec => []CompliantServed
<1>1. ASSUME IInv PROVE CompliantServed
  <2> SUFFICES ASSUME NEW desired \in Releases, NEW accepted \in SUBSET Nodes,
                      FleetCompliant(desired, accepted), NEW n \in Registered
               PROVE  \E s \in Status :
                        /\ IsLiveDesired(s, desired)
                        /\ lastServed[n][s] >= 0
                        /\ now - lastServed[n][s] < Timeout + MaxSkew + MaxDrift
    BY DEF CompliantServed
  <2>1. TypeOK /\ MemoryTrue
    BY <1>1 DEF IInv
  <2>2. n \in Nodes /\ nodes[n].known /\ now \in Nat /\ nodes[n] \in Entry
    BY <2>1 DEF Registered, TypeOK
  <2>3. Remembered(n)
    BY <2>1, <2>2 DEF MemoryTrue
  <2>4. Classify(n, desired, accepted) = "compliant"
    BY DEF FleetCompliant
  <2>5. /\ Online(n) /\ nodes[n].activation # NoStatus
        /\ IsLiveDesired(nodes[n].activation, desired)
    BY <2>4 DEF Classify
  <2>6. nodes[n].activation \in Status /\ nodes[n].lastSeen \in Nat
    BY <2>2, <2>5 DEF Entry
  <2>7. lastServed[n][nodes[n].activation] \in Int
    BY <2>1, <2>2, <2>6 DEF TypeOK
  <2>8. /\ 0 <= lastServed[n][nodes[n].activation]
        /\ nodes[n].lastSeen - MaxSkew - MaxDrift <= lastServed[n][nodes[n].activation]
        /\ now - nodes[n].lastSeen < Timeout
    BY <2>3, <2>5 DEF Remembered, Online
  <2>9. /\ lastServed[n][nodes[n].activation] >= 0
        /\ now - lastServed[n][nodes[n].activation] < Timeout + MaxSkew + MaxDrift
    BY <2>2, <2>6, <2>7, <2>8, TimeAssumption
  <2> QED BY <2>5, <2>6, <2>9
<1> QED BY <1>1, InvariantHolds, PTL

\* A revoked or replaced enrolment shows nothing after the timeout.
THEOREM RevocationFades == Spec => []RevokedFades
<1>1. ASSUME IInv PROVE RevokedFades
  <2> SUFFICES ASSUME NEW n \in Nodes, Online(n), now - enrolledAt[n] >= Timeout
               PROVE  registry[n] = [key |-> nodes[n].key, enabled |-> TRUE]
    BY DEF RevokedFades
  <2>1. TypeOK /\ MemoryTrue
    BY <1>1 DEF IInv
  <2>2. nodes[n].known /\ now - nodes[n].lastSeen < Timeout
    BY DEF Online
  <2>3. Remembered(n)
    BY <2>1, <2>2 DEF MemoryTrue
  <2>4. nodes[n] \in Entry /\ now \in Nat /\ enrolledAt[n] \in Nat
    BY <2>1 DEF TypeOK
  <2>5. nodes[n].lastSeen \in Nat
    BY <2>4 DEF Entry
  <2>6. ~(nodes[n].lastSeen <= enrolledAt[n])
    BY <2>2, <2>4, <2>5, TimeAssumption
  <2> QED BY <2>3, <2>6 DEF Remembered
<1> QED BY <1>1, InvariantHolds, PTL

\* The inventory and the compliance report agree in every reachable state.
THEOREM AgreementHolds == Spec => []ReportsAgree
<1>1. ASSUME IInv PROVE ReportsAgree
  <2> SUFFICES ASSUME NEW desired \in Releases, NEW accepted \in SUBSET Nodes
               PROVE  /\ FleetCompliant(desired, accepted) => DriftGroups = {desired}
                      /\ \A n \in Registered :
                           LET class == Classify(n, desired, accepted) IN
                           IF class \in {"compliant", "pending_restart", "drift"}
                           THEN CorpusStatus(n) = "active"
                           ELSE CorpusStatus(n) = class
    BY DEF ReportsAgree
  <2>1. ASSUME NEW n \in Registered
        PROVE  LET class == Classify(n, desired, accepted) IN
               IF class \in {"compliant", "pending_restart", "drift"}
               THEN CorpusStatus(n) = "active"
               ELSE CorpusStatus(n) = class
    BY DEF Classify, CorpusStatus
  <2>2. ASSUME FleetCompliant(desired, accepted) PROVE DriftGroups = {desired}
    <3>1. ASSUME NEW n \in Registered
          PROVE  CorpusStatus(n) = "active" /\ nodes[n].activation.release = desired
      <4>1. Classify(n, desired, accepted) = "compliant"
        BY <2>2 DEF FleetCompliant
      <4>2. IsLiveDesired(nodes[n].activation, desired)
        BY <4>1 DEF Classify
      <4> QED BY <2>1, <4>1, <4>2 DEF IsLiveDesired
    <3>2. Registered # {}
      BY <2>2 DEF FleetCompliant
    <3> QED BY <3>1, <3>2 DEF DriftGroups
  <2> QED BY <2>1, <2>2
<1> QED BY <1>1, InvariantHolds, PTL

-----------------------------------------------------------------------------
(* The refinement of FleetView *)

LEMMA ViewStart == Init => View!Init
BY DEF Init, View!Init, Unregistered

\* Signing issues a report that is newer than all others of its node.
LEMMA SignIssues ==
  ASSUME IInv, NEW n \in Nodes, NEW kind \in {"registration", "heartbeat"},
         NEW d \in Drift, NEW a \in Status \cup {NoStatus}, Sign(n, kind, d, a)
  PROVE  View!Issue
<1> DEFINE r == NextReport(n, kind, d, a)
           m == [report |-> r, key |-> nodeKey[n]]
           issued == {k.report : k \in network}
<1>1. TypeOK /\ MessagesTrue
  BY DEF IInv
<1>2. numbered[n] \in Nat /\ now \in Nat
  BY <1>1 DEF TypeOK
<1>3. r.node = n /\ r.sequence = numbered[n] + 1 /\ r.taken = now /\ m.report = r
  BY DEF NextReport
<1>4. network' = network \cup {m} /\ floor' = floor /\ nodes' = nodes
  BY DEF Sign
<1> HIDE DEF r, m
<1>5. {k.report : k \in network'} = issued \cup {r}
  BY <1>3, <1>4
<1>6. ASSUME NEW q \in issued, q.node = r.node
      PROVE  q.sequence < r.sequence /\ q.taken <= r.taken
  <2>1. PICK k \in network : q = k.report
    OBVIOUS
  <2>2. q.sequence \in Nat /\ q.taken \in Nat
    BY <1>1, <2>1, MessageFacts
  <2>3. q.sequence <= numbered[n] /\ q.taken <= now
    BY <1>1, <1>3, <1>6, <2>1 DEF MessagesTrue, Told
  <2> QED BY <1>2, <1>3, <2>2, <2>3
<1> QED BY <1>4, <1>5, <1>6 DEF View!Issue

\* Accepting a message, whatever becomes of it, learns its report.
LEMMA AcceptLearns ==
  ASSUME IInv, NEW m \in network, Register(m) \/ Heartbeat(m) \/ HeartbeatOfUnknownNode(m)
  PROVE  View!Next
<1> DEFINE n == m.report.node
<1>1. TypeOK /\ MemoryTrue
  BY DEF IInv
<1>2. n \in Nodes /\ m.report \in {k.report : k \in network}
  BY <1>1, MessageFacts
<1>3. /\ floor[n] < m.report.sequence
      /\ floor' = [floor EXCEPT ![n] = m.report.sequence]
      /\ network' = network
  BY DEF Register, Heartbeat, HeartbeatOfUnknownNode, Verify, Fresh, Advance, nodeVars
<1>4. CASE Register(m) \/ Heartbeat(m)
  <2>1. PICK a : Seen(m, a)
    BY <1>4 DEF Register, Heartbeat
  <2>2. [k \in Nodes |-> nodes'[k].sequence] =
          [[k \in Nodes |-> nodes[k].sequence] EXCEPT ![n] = m.report.sequence]
    BY <1>1, <1>2, <2>1 DEF Seen, TypeOK
  <2>3. View!Learn(n, m.report)
    BY <1>2, <1>3, <2>2 DEF View!Learn
  <2> QED BY <1>2, <2>3 DEF View!Next
<1>5. CASE HeartbeatOfUnknownNode(m)
  <2>1. nodes' = nodes /\ nodes[n] = Unregistered
    BY <1>1, <1>2, <1>5 DEF HeartbeatOfUnknownNode, MemoryTrue
  <2>2. View!Learn(n, m.report)
    BY <1>2, <1>3, <2>1 DEF View!Learn, Unregistered
  <2> QED BY <1>2, <2>2 DEF View!Next
<1> QED BY <1>4, <1>5

LEMMA ViewStep ==
  ASSUME IInv, [Next]_vars
  PROVE  [View!Next]_View!vars
<1>1. ASSUME NEW n \in Nodes, NEW s \in Status, Serve(n, s) PROVE UNCHANGED View!vars
  BY <1>1 DEF Serve, View!vars
<1>2. ASSUME NEW n \in Nodes, SignFails(n) \/ ReplaceKey(n) PROVE UNCHANGED View!vars
  BY <1>2 DEF SignFails, ReplaceKey, View!vars
<1>3. ASSUME NEW n \in Nodes, NEW key \in Keys, NEW enabled \in BOOLEAN,
             Enrol(n, key, enabled)
      PROVE  UNCHANGED View!vars
  BY <1>3 DEF Enrol, nodeVars, View!vars
<1>4. CASE Restart
  <2>1. network' = network /\ floor' = floor
    BY <1>4 DEF Restart, nodeVars
  <2>2. [n \in Nodes |-> nodes'[n].sequence] = [n \in Nodes |-> 0]
    BY <1>4 DEF Restart, Unregistered
  <2> QED BY <2>1, <2>2 DEF View!Forget, View!Next
<1>5. CASE Tick
  BY <1>5 DEF Tick, View!vars
<1>6. CASE UNCHANGED vars
  BY <1>6 DEF vars, nodeVars, View!vars
<1>7. CASE Next
  BY <1>1, <1>2, <1>3, <1>4, <1>5, <1>7, SignIssues, AcceptLearns DEF Next, View!Next
<1> QED BY <1>6, <1>7

\* The controller implements FleetView: nothing is learnt twice or out of order.
THEOREM LearningInOrder == Spec => LearnsInOrder
BY ViewStart, ViewStep, InvariantHolds, PTL DEF Spec, LearnsInOrder, View!Spec
=============================================================================
