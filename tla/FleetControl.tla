----------------------------- MODULE FleetControl -----------------------------
(***************************************************************************)
(* Registration, heartbeats and compliance of the Lil EVY fleet: the        *)
(* signer on a node (backend/services/node_manager/fleet_client.py), the    *)
(* controller's authentication of its messages (fleet_auth.py), the node    *)
(* manager's memory of the fleet (main.py) and the compliance policy        *)
(* (fleet_compliance.py), in the mode FLEET_AUTH_MODE=required.             *)
(*                                                                         *)
(* A handler of the controller never awaits between its checks and its     *)
(* last assignment, so that one delivery is one step; a crash inside it    *)
(* after the floor is committed equals a crash after it, since the rest is *)
(* memory. The controller's clock does not step back. A key identity and   *)
(* its key pair are one value; a digest and its sequence are one release.  *)
(* No file of the repository drives the signer: what a node reports and    *)
(* when is external, one report at a time, and true when it is taken.      *)
(***************************************************************************)
EXTENDS Integers, FiniteSets

CONSTANTS
  Nodes,
  Releases,
  NoRelease,
  MaxSkew,      \* FLEET_MAX_CLOCK_SKEW_SECONDS
  Timeout,      \* HEARTBEAT_TIMEOUT_SECONDS
  Drift,        \* how far a node's clock may be ahead of the controller's
  MaxDrift,     \* and at most is
  MaxSequence,  \* bound: messages a node numbers
  MaxKey,       \* bound: keys a node ever has
  MaxChanges,   \* bound: changes of what a node serves, for each node
  MaxRestarts,  \* bound: restarts of the controller
  MaxEnrolments, \* bound: reviewed changes of the registry
  MaxTime       \* bound: time stops here

\* The activation statuses that validate_coherent_status lets through. Those
\* that are not ready, uninitialized or rejected, are one.
Ready == [release : Releases, mode : {"production", "recovery"}]
NotReady == [release |-> NoRelease, mode |-> "rejected"]
NoStatus == [release |-> NoRelease, mode |-> "none"]
Status == Ready \cup {NotReady}
Keys == 1..MaxKey

Report ==
  [kind : {"registration", "heartbeat"}, node : Nodes, issuedAt : Int,
   sequence : Nat \ {0}, activation : Status \cup {NoStatus}, taken : Nat]
Message == [report : Report, key : Keys]

ASSUME ReleaseAssumption == NoRelease \notin Releases
ASSUME TimeAssumption ==
  /\ MaxSkew \in Nat \ {0} /\ Timeout \in Nat \ {0}
  /\ MaxDrift \in Nat /\ Drift \subseteq Int /\ \A d \in Drift : d <= MaxDrift
ASSUME BoundAssumption ==
  /\ MaxSequence \in Nat /\ MaxKey \in Nat \ {0} /\ MaxChanges \in Nat
  /\ MaxRestarts \in Nat /\ MaxEnrolments \in Nat /\ MaxTime \in Nat

VARIABLES
  now,        \* the controller's clock
  serving,    \* what each node truly serves
  changes,    \* how often that changed
  numbered,   \* node_sequence: the last number a node reserved
  nodeKey,    \* the private key on the node
  network,    \* every message ever sent; it may arrive late, again or never
  registry,   \* the mounted enrolment registry
  enrolments, \* how often it changed
  floor,      \* fleet_replay_state: last accepted sequence, 0 when none
  nodes,      \* the memory of the node manager
  restarts,
  lastServed, \* history: when each node last had each status, -1 for never
  enrolledAt  \* history: when a node's record in the registry last changed

nodeVars == <<serving, changes, numbered, nodeKey, network, lastServed>>
registryVars == <<registry, enrolments, enrolledAt>>
vars == <<now, nodeVars, registryVars, floor, nodes, restarts>>

\* "node_id in self.nodes" is the field known. The key and the sequence of the
\* message that the entry was made from are history.
Unregistered ==
  [known |-> FALSE, lastSeen |-> 0, activation |-> NoStatus, key |-> 0, sequence |-> 0]
Entry ==
  [known : BOOLEAN, lastSeen : Nat, activation : Status \cup {NoStatus},
   key : Keys \cup {0}, sequence : Nat]

Init ==
  /\ now = 0
  /\ serving \in [Nodes -> Status]
  /\ changes = [n \in Nodes |-> 0]
  /\ numbered = [n \in Nodes |-> 0]
  /\ nodeKey = [n \in Nodes |-> 1]
  /\ network = {}
  /\ registry = [n \in Nodes |-> [key |-> 1, enabled |-> TRUE]]
  /\ enrolments = 0
  /\ floor = [n \in Nodes |-> 0]
  /\ nodes = [n \in Nodes |-> Unregistered]
  /\ restarts = 0
  /\ lastServed = [n \in Nodes |-> [s \in Status |-> IF s = serving[n] THEN 0 ELSE -1]]
  /\ enrolledAt = [n \in Nodes |-> 0]
-----------------------------------------------------------------------------
(* The field node. *)

Serve(n, status) ==
  /\ changes[n] < MaxChanges
  /\ status # serving[n]
  /\ serving' = [serving EXCEPT ![n] = status]
  /\ changes' = [changes EXCEPT ![n] = @ + 1]
  /\ lastServed' = [lastServed EXCEPT ![n][status] = now]
  /\ UNCHANGED <<now, numbered, nodeKey, network, registryVars, floor, nodes, restarts>>

\* sign() takes the time, commits the next number, reads the private key and
\* signs; what happens on the node before the message leaves it is a delay of
\* the network. A heartbeat may leave out the status, as legacy nodes do.
ReserveNext(n) == numbered' = [numbered EXCEPT ![n] = @ + 1]

\* Mutant of NextReport: the number is read before the reservation counts.
NextReportNumberedLate(n, kind, drift, activation) ==
  [kind |-> kind, node |-> n, issuedAt |-> now + drift, sequence |-> numbered[n],
   activation |-> activation, taken |-> now]

NextReport(n, kind, drift, activation) ==
  [kind |-> kind, node |-> n, issuedAt |-> now + drift, sequence |-> numbered[n] + 1,
   activation |-> activation, taken |-> now]

Sign(n, kind, drift, activation) ==
  /\ numbered[n] < MaxSequence
  /\ activation \in (IF kind = "heartbeat" THEN {serving[n], NoStatus} ELSE {NoStatus})
  /\ ReserveNext(n)
  /\ network' = network \cup
       {[report |-> NextReport(n, kind, drift, activation), key |-> nodeKey[n]]}
  /\ UNCHANGED <<now, serving, changes, nodeKey, lastServed, registryVars,
                 floor, nodes, restarts>>

\* The key is unavailable, or the node stops: the number is gone.
SignFails(n) ==
  /\ numbered[n] < MaxSequence
  /\ ReserveNext(n)
  /\ UNCHANGED <<now, serving, changes, nodeKey, network, lastServed, registryVars,
                 floor, nodes, restarts>>

ReplaceKey(n) ==
  /\ nodeKey[n] < MaxKey
  /\ nodeKey' = [nodeKey EXCEPT ![n] = @ + 1]
  /\ UNCHANGED <<now, serving, changes, numbered, network, lastServed,
                 registryVars, floor, nodes, restarts>>
-----------------------------------------------------------------------------
(* Enrolment: reviewed changes of the registry, rotation and disablement. *)

Enrol(n, key, enabled) ==
  /\ enrolments < MaxEnrolments
  /\ registry[n] # [key |-> key, enabled |-> enabled]
  /\ registry' = [registry EXCEPT ![n] = [key |-> key, enabled |-> enabled]]
  /\ enrolments' = enrolments + 1
  /\ enrolledAt' = [enrolledAt EXCEPT ![n] = now]
  /\ UNCHANGED <<now, nodeVars, floor, nodes, restarts>>
-----------------------------------------------------------------------------
(* The controller. *)

\* Mutant of InWindow: only a time in the future is refused.
InWindowOfFuture(m) == m.report.issuedAt - now <= MaxSkew

InWindow(m) ==
  LET age == now - m.report.issuedAt
  IN  -MaxSkew <= age /\ age <= MaxSkew

\* Mutant of Enrolled: the enablement is not looked at.
EnrolledOrDisabled(m) == registry[m.report.node].key = m.key

Enrolled(m) == registry[m.report.node] = [key |-> m.key, enabled |-> TRUE]

\* Mutant of Fresh: the newest message is accepted again.
FreshOrEqual(m) == floor[m.report.node] <= m.report.sequence

\* FleetReplayStore.advance, as one transaction.
Fresh(m) == floor[m.report.node] < m.report.sequence
\* Mutant of Advance: registrations leave the replay state alone.
AdvanceOfHeartbeat(m) ==
  floor' = IF m.report.kind = "registration" THEN floor
           ELSE [floor EXCEPT ![m.report.node] = m.report.sequence]

Advance(m) == floor' = [floor EXCEPT ![m.report.node] = m.report.sequence]

Verify(m) == InWindow(m) /\ Enrolled(m) /\ Fresh(m) /\ Advance(m)

Seen(m, activation) ==
  nodes' = [nodes EXCEPT ![m.report.node] =
    [known |-> TRUE, lastSeen |-> now, activation |-> activation,
     key |-> m.key, sequence |-> m.report.sequence]]

Register(m) ==
  /\ m.report.kind = "registration"
  /\ Verify(m)
  /\ Seen(m, NoStatus)
  /\ UNCHANGED <<now, nodeVars, registryVars, restarts>>

Heartbeat(m) ==
  /\ m.report.kind = "heartbeat"
  /\ Verify(m)
  /\ nodes[m.report.node].known
  /\ Seen(m, m.report.activation)
  /\ UNCHANGED <<now, nodeVars, registryVars, restarts>>

\* Answered with 404 after the sequence has been consumed.
HeartbeatOfUnknownNode(m) ==
  /\ m.report.kind = "heartbeat"
  /\ Verify(m)
  /\ ~nodes[m.report.node].known
  /\ UNCHANGED <<now, nodeVars, registryVars, nodes, restarts>>

\* The replay floors are in SQLite, the fleet is in memory.
Restart ==
  /\ restarts < MaxRestarts
  /\ restarts' = restarts + 1
  /\ nodes' = [n \in Nodes |-> Unregistered]
  /\ UNCHANGED <<now, nodeVars, registryVars, floor>>

Tick ==
  /\ now < MaxTime
  /\ now' = now + 1
  /\ lastServed' = [n \in Nodes |-> [lastServed[n] EXCEPT ![serving[n]] = now + 1]]
  /\ UNCHANGED <<serving, changes, numbered, nodeKey, network,
                 registryVars, floor, nodes, restarts>>

Next ==
  \/ \E n \in Nodes, s \in Status : Serve(n, s)
  \/ \E n \in Nodes, kind \in {"registration", "heartbeat"}, d \in Drift,
        a \in Status \cup {NoStatus} : Sign(n, kind, d, a)
  \/ \E n \in Nodes : SignFails(n) \/ ReplaceKey(n)
  \/ \E n \in Nodes, key \in Keys, enabled \in BOOLEAN : Enrol(n, key, enabled)
  \/ \E m \in network : Register(m) \/ Heartbeat(m) \/ HeartbeatOfUnknownNode(m)
  \/ Restart
  \/ Tick

Spec == Init /\ [][Next]_vars
-----------------------------------------------------------------------------
(* Reports of the controller, computed when they are asked for. *)

Registered == {n \in Nodes : nodes[n].known}
Online(n) == nodes[n].known /\ now - nodes[n].lastSeen < Timeout

\* Mutant of CorpusStatus: a node that went silent keeps its last status.
CorpusStatusOffline(n) ==
  LET status == nodes[n].activation IN
  IF status = NoStatus THEN "unknown"
  ELSE IF status = NotReady THEN "unready"
  ELSE IF status.mode = "recovery" THEN "recovery" ELSE "active"

\* NodeManager._corpus_status and the drift groups of _corpus_inventory
CorpusStatus(n) ==
  LET status == nodes[n].activation IN
  IF ~Online(n) \/ status = NoStatus THEN "unknown"
  ELSE IF status = NotReady THEN "unready"
  ELSE IF status.mode = "recovery" THEN "recovery" ELSE "active"

DriftGroups ==
  {nodes[n].activation.release :
     n \in {k \in Registered : CorpusStatus(k) \in {"active", "recovery"}}}

\* DesiredReleaseCompliancePolicy; accepted are the nodes with an exact receipt
IsLiveDesired(status, desired) ==
  status = [release |-> desired, mode |-> "production"]

Classify(n, desired, accepted) ==
  LET status == nodes[n].activation IN
  IF ~Online(n) \/ status = NoStatus THEN "unknown"
  ELSE IF status = NotReady THEN "unready"
  ELSE IF status.mode = "recovery" THEN "recovery"
  ELSE IF IsLiveDesired(status, desired) THEN "compliant"
  ELSE IF n \in accepted THEN "pending_restart" ELSE "drift"

FleetCompliant(desired, accepted) ==
  /\ Registered # {}
  /\ \A n \in Registered : Classify(n, desired, accepted) = "compliant"
-----------------------------------------------------------------------------
(* Properties *)

\* The variables keep their types.
TypeOK ==
  /\ now \in Nat
  /\ serving \in [Nodes -> Status]
  /\ changes \in [Nodes -> Nat]
  /\ numbered \in [Nodes -> Nat]
  /\ nodeKey \in [Nodes -> Keys]
  /\ network \subseteq Message
  /\ registry \in [Nodes -> [key : Keys, enabled : BOOLEAN]]
  /\ enrolments \in Nat
  /\ floor \in [Nodes -> Nat]
  /\ nodes \in [Nodes -> Entry]
  /\ restarts \in Nat
  /\ lastServed \in [Nodes -> [Status -> Int]]
  /\ enrolledAt \in [Nodes -> Nat]

\* While the controller knows a node, it shows the contents of the very last
\* message it ever accepted from it: no earlier one, also when messages arrive
\* out of order, twice, or from before a restart of the controller.
ShownIsNewest ==
  \A n \in Nodes : nodes[n].known => nodes[n].sequence = floor[n]

\* When the fleet is reported compliant, each node in the report truly served
\* exactly the desired production release within the last seconds: no longer
\* ago than the timeout, the accepted skew and the node's clock error explain.
\* Receipts of accepted activations make no difference.
CompliantServed ==
  \A desired \in Releases, accepted \in SUBSET Nodes :
    FleetCompliant(desired, accepted) =>
      \A n \in Registered :
        \E s \in Status :
          /\ IsLiveDesired(s, desired)
          /\ lastServed[n][s] >= 0
          /\ now - lastServed[n][s] < Timeout + MaxSkew + MaxDrift

\* Disabling a node or replacing its key in the registry takes effect within
\* the timeout: from then on nothing that the old record let in is shown.
RevokedFades ==
  \A n \in Nodes :
    (Online(n) /\ now - enrolledAt[n] >= Timeout) =>
      registry[n] = [key |-> nodes[n].key, enabled |-> TRUE]

\* The inventory and the compliance report, which classify nodes in different
\* files, never contradict each other: a compliant fleet shows no drift, and
\* a node is active in one exactly when it can be told apart by release in the
\* other.
ReportsAgree ==
  \A desired \in Releases, accepted \in SUBSET Nodes :
    /\ FleetCompliant(desired, accepted) => DriftGroups = {desired}
    /\ \A n \in Registered :
         LET class == Classify(n, desired, accepted) IN
         IF class \in {"compliant", "pending_restart", "drift"}
         THEN CorpusStatus(n) = "active"
         ELSE CorpusStatus(n) = class

\* The controller implements FleetView: reports that were signed are issued.
View == INSTANCE FleetView WITH
  issued <- {m.report : m \in network},
  learnt <- floor,
  shown <- [n \in Nodes |-> nodes[n].sequence]

\* Every node is learnt about in the order of its reports and none twice.
LearnsInOrder == View!Spec
=============================================================================
