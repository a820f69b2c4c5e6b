------------------------------ MODULE MCInformer ------------------------------
(***************************************************************************)
(* An object of each type, written twice, on streams that stall twice.     *)
(***************************************************************************)
EXTENDS Informer
=============================================================================
