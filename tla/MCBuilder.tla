----------------------------- MODULE MCBuilder -----------------------------
(***************************************************************************)
(* Small instances of LArrayBuilder for TLC.                               *)
(***************************************************************************)
EXTENDS LArrayBuilder
=============================================================================
