------------------------------ MODULE MCShutdown ------------------------------
(***************************************************************************)
(* The collector of pods, one collector that stands for the ones of the    *)
(* related kinds, the worker of the endpoint slices that triggers both,    *)
(* and one Watch call.                                                     *)
(***************************************************************************)
EXTENDS Shutdown

CONSTANT s1

MCKinds == {"Pod", "Related"}
MCOwnersSources == {"Related"}
MCSliceTargets == <<"Pod", "Related">>
MCSubs == {s1}
=============================================================================
