------------------------------ MODULE MCServices ------------------------------
(***************************************************************************)
(* Instances with a pod, a service that selects it and its endpoint slice. *)
(***************************************************************************)
EXTENDS Metacollector

CONSTANTS n1, p1, svc, e1, s1

MCNodes == {n1}
MCPods == {p1}
MCOwners == {svc}
MCKindOf == [o \in MCOwners |-> "Service"]
MCOwnerRefs == [p \in MCPods |-> {svc}]
MCRelatedPods == [o \in MCOwners |-> MCPods]
MCSubs == {s1}
MCNodeOf == [s \in MCSubs |-> n1]
MCKindsOf == [s \in MCSubs |-> {"Pod", "Service"}]
MCQuitters == {}
MCSlices == {e1}
MCServiceOf == [e \in MCSlices |-> svc]
\* Another namespace has a slice of the same name.
MCSharedNames == MCSlices
MCInitial == {}
MCDeletable == {p1, svc}
MCMaxInc == [k \in MCPods \cup MCOwners |-> 1]
MCMaxVer == [k \in MCPods \cup MCOwners |-> IF k = p1 THEN 1 ELSE 0]

\* Ordered, at a pace TLC can follow: an endpoint slice is written once it is
\* what it has to be, and things leave when the collector has come to rest.
Paced ==
  /\ Ordered
  /\ slices' # slices => SlicesCurrent'
  /\ (\E key \in Keys : Leaves(key)) => Quiescent

\* Nothing is deleted.
Lasting == {}
=============================================================================
