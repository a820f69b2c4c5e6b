----------------------------- MODULE MCDeployment -----------------------------
(***************************************************************************)
(* Instances with a pod of a ReplicaSet of a Deployment.  The subscriber   *)
(* selects pods and deployments: the collector of the ReplicaSet works     *)
(* without subscribers.                                                    *)
(***************************************************************************)
EXTENDS Metacollector

CONSTANTS n1, p1, rs, dp, s1

MCNodes == {n1}
MCPods == {p1}
MCOwners == {rs, dp}
MCKindOf == [o \in MCOwners |-> IF o = rs THEN "ReplicaSet" ELSE "Deployment"]
MCOwnerRefs == [p \in MCPods |-> MCOwners]
MCRelatedPods == [o \in MCOwners |-> MCPods]
MCSubs == {s1}
MCNodeOf == [s \in MCSubs |-> n1]
MCKindsOf == [s \in MCSubs |-> {"Pod", "Deployment"}]
MCQuitters == {}
MCSlices == {}
MCServiceOf == <<>>
MCInitial == MCOwners
MCDeletable == {p1}
MCMaxInc == [k \in MCPods \cup MCOwners |-> 1]
MCMaxVer == [k \in MCPods \cup MCOwners |-> 0]

\* The ReplicaSet appears in its store after the pod does.
OnlyDeployment == {dp}
Lasting == {}
=============================================================================
