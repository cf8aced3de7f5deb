--------------------------- MODULE MCBitIteration ---------------------------
(***************************************************************************)
(* Small instances of BitIteration for TLC.                                *)
(***************************************************************************)
EXTENDS BitIteration
=============================================================================
