------------------------------ MODULE MCRetract ------------------------------
(***************************************************************************)
(* Two pods of a namespace and two nodes, one of them with a subscriber:   *)
(* the namespace concerns the subscriber until the last pod leaves its     *)
(* node.                                                                   *)
(***************************************************************************)
EXTENDS Metacollector, TLC

CONSTANTS n1, n2, p1, p2, ns, s1

MCNodes == {n1, n2}
MCPods == {p1, p2}

\* The pods can be exchanged: same namespace, same owner.
MCSymmetry == Permutations(MCPods)

MCOwners == {ns}
MCKindOf == [o \in MCOwners |-> "Namespace"]
MCOwnerRefs == [p \in MCPods |-> {ns}]
MCRelatedPods == [o \in MCOwners |-> MCPods]
MCSubs == {s1}
MCNodeOf == [s \in MCSubs |-> n1]
MCKindsOf == [s \in MCSubs |-> {"Pod", "Namespace"}]
MCQuitters == {}
MCSlices == {}
MCServiceOf == <<>>
MCInitial == {ns}
MCDeletable == {p1, p2}
MCMaxInc == [k \in MCPods \cup MCOwners |-> 1]
MCMaxVer == [k \in MCPods \cup MCOwners |-> 0]
=============================================================================
