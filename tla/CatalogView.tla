---------------------------- MODULE CatalogView ----------------------------
(***************************************************************************)
(* What the catalog API promises its readers, with no poller, no database  *)
(* and no message in sight: a pod that is up serves one whole snapshot the *)
(* cluster really had (or the empty cold-start snapshot), and as long as   *)
(* the pod lives the snapshot it serves only ever moves forward.           *)
(*                                                                         *)
(* CatalogSync implements this module.                                     *)
(***************************************************************************)
EXTENDS Naturals, Sequences

CONSTANTS
  Pods,        \* the API server replicas
  XRDs,        \* the CompositeResourceDefinitions that can be labelled enabled
  Identified   \* those whose service-id annotation is present and not empty

VARIABLES
  history,     \* history[r]: the enabled XRDs at revision r of the cluster
  served       \* served[p]: the snapshot pod p answers GET /catalog with

Offline == [rev |-> 0, items |-> {}, up |-> FALSE]

\* The answers a pod may give now: nothing yet, or the items of one revision.
Answers ==
  {[rev |-> 0, items |-> {}, up |-> TRUE]} \cup
  {[rev |-> r, items |-> history[r] \cap Identified, up |-> TRUE] :
     r \in 1 .. Len(history)}

Init ==
  /\ history \in {<<enabled>> : enabled \in SUBSET XRDs}
  /\ served = [p \in Pods |-> Offline]

ClusterMoves ==
  /\ \E enabled \in SUBSET XRDs : history' = Append(history, enabled)
  /\ UNCHANGED served

PodUp(p) ==
  /\ ~served[p].up
  /\ \E a \in Answers : served' = [served EXCEPT ![p] = a]
  /\ UNCHANGED history

Refresh(p) ==
  /\ served[p].up
  /\ \E a \in Answers :
       /\ a.rev >= served[p].rev
       /\ served' = [served EXCEPT ![p] = a]
  /\ UNCHANGED history

PodDown(p) ==
  /\ served' = [served EXCEPT ![p] = Offline]
  /\ UNCHANGED history

Next == ClusterMoves \/ \E p \in Pods : PodUp(p) \/ Refresh(p) \/ PodDown(p)

Spec == Init /\ [][Next]_<<history, served>>

-----------------------------------------------------------------------------
\* Readers who ask two replicas and are served the same revision see the same
\* items.
ReplicasAgree ==
  \A p, q \in Pods :
    served[p].up /\ served[q].up /\ served[p].rev = served[q].rev =>
      served[p].items = served[q].items

\* A reader of a pod that stays up is never served an older revision than before.
NeverBack ==
  [][\A p \in Pods : served[p].up /\ served'[p].up => served'[p].rev >= served[p].rev]_served
=============================================================================
