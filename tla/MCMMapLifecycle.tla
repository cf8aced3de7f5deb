-------------------------- MODULE MCMMapLifecycle --------------------------
(***************************************************************************)
(* Small instances of MMapLifecycle for TLC.                               *)
(***************************************************************************)
EXTENDS MMapLifecycle
=============================================================================
