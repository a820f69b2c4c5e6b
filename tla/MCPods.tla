-------------------------------- MODULE MCPods --------------------------------
(***************************************************************************)
(* Instances with pods only: one node, one pod name and two subscribers of *)
(* the node, for instance a client that reconnects.                        *)
(***************************************************************************)
EXTENDS Metacollector, TLC

CONSTANTS n1, p1, s1, s2

MCNodes == {n1}
MCPods == {p1}
MCOwners == {}
MCKindOf == <<>>
MCOwnerRefs == [p \in MCPods |-> {}]
MCRelatedPods == <<>>
MCSubs == {s1, s2}
MCNodeOf == [s \in MCSubs |-> n1]
MCKindsOf == [s \in MCSubs |-> {"Pod"}]
MCQuitters == MCSubs

\* The two subscribers can be exchanged: same node, same kinds.
MCSymmetry == Permutations(MCSubs)

MCSlices == {}
MCServiceOf == <<>>
MCInitial == {}
MCDeletable == MCPods
MCMaxInc == [k \in MCPods |-> 1]
MCMaxVer == [k \in MCPods |-> 1]

\* One subscriber that stays, and a name that is used twice.
OneSub == {s1}
OneNodeOf == [s \in OneSub |-> n1]
OneKindsOf == [s \in OneSub |-> {"Pod"}]
NoQuitters == {}
Reused == [k \in MCPods |-> 2]
Unchanging == [k \in MCPods |-> 0]
=============================================================================
