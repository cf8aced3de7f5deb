------------------------------ MODULE MCNative ------------------------------
(***************************************************************************)
(* Small instances of LArrayNative for TLC.                                *)
(***************************************************************************)
EXTENDS LArrayNative
=============================================================================
