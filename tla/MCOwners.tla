------------------------------- MODULE MCOwners -------------------------------
(***************************************************************************)
(* Instances with a pod, its namespace and one subscriber of its node.     *)
(***************************************************************************)
EXTENDS Metacollector

CONSTANTS n1, p1, ns, s1

MCNodes == {n1}
MCPods == {p1}
MCOwners == {ns}
MCKindOf == [o \in MCOwners |-> "Namespace"]
MCOwnerRefs == [p \in MCPods |-> {ns}]
MCRelatedPods == [o \in MCOwners |-> MCPods]
MCSubs == {s1}
MCNodeOf == [s \in MCSubs |-> n1]
MCKindsOf == [s \in MCSubs |-> {"Pod", "Namespace"}]
MCQuitters == {}
MCSlices == {}
MCServiceOf == <<>>
MCInitial == {}
MCDeletable == {p1}
MCMaxInc == [k \in MCPods \cup MCOwners |-> 1]
MCMaxVer == [k \in MCPods \cup MCOwners |-> IF k \in MCPods THEN 0 ELSE 1]

Unchanging == [k \in MCPods \cup MCOwners |-> 0]
=============================================================================
