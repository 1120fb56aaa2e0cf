---------------------------- MODULE MCLifecycle ----------------------------
(***************************************************************************)
(* Instances of Lifecycle for TLC: two clients and the recorder.           *)
(***************************************************************************)
EXTENDS Lifecycle
=============================================================================
