------------------------------ MODULE FleetView ------------------------------
(***************************************************************************)
(* What the fleet controller promises about the nodes, whatever the        *)
(* network loses, repeats or reorders and however often the controller     *)
(* restarts: it learns the reports of a node in the order they were issued, *)
(* each at most once, and it shows the newest one it learnt or none.       *)
(***************************************************************************)
EXTENDS Naturals

CONSTANT Nodes

VARIABLES
  issued, \* the reports of the nodes so far
  learnt, \* per node, the number of the newest report learnt
  shown   \* per node, the number of the report shown; 0 when it shows none

vars == <<issued, learnt, shown>>

Init ==
  /\ issued = {}
  /\ learnt = [n \in Nodes |-> 0]
  /\ shown = [n \in Nodes |-> 0]

\* A node numbers its reports upward, in the order of the moments they tell of.
Issue ==
  /\ \E r \in issued' :
       /\ issued' = issued \cup {r}
       /\ \A q \in issued :
            q.node = r.node => /\ q.sequence < r.sequence
                               /\ q.taken <= r.taken
  /\ UNCHANGED <<learnt, shown>>

Learn(n, r) ==
  /\ r.node = n
  /\ learnt[n] < r.sequence
  /\ learnt' = [learnt EXCEPT ![n] = r.sequence]
  /\ shown' \in {shown, [shown EXCEPT ![n] = r.sequence]}
  \* what is shown is never older than what was learnt
  /\ shown'[n] \in {0, r.sequence}
  /\ UNCHANGED issued

Forget ==
  /\ shown' = [n \in Nodes |-> 0]
  /\ UNCHANGED <<issued, learnt>>

Next ==
  \/ Issue
  \/ \E n \in Nodes, r \in issued : Learn(n, r)
  \/ Forget

Spec == Init /\ [][Next]_vars
=============================================================================
