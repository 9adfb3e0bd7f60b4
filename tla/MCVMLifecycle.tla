---------------------------- MODULE MCVMLifecycle ----------------------------
(***************************************************************************)
(* Instances of VMLifecycle for TLC: one VM and the requests about it.     *)
(***************************************************************************)
EXTENDS VMLifecycle

CONSTANT v1
=============================================================================
