------------------------------- MODULE MCMMap -------------------------------
(***************************************************************************)
(* Small instances of MMapBuffer for TLC.                                  *)
(***************************************************************************)
EXTENDS MMapBuffer, TLC
Symmetry == Permutations(Buffer)
=============================================================================
