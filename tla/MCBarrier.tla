----------------------------- MODULE MCBarrier -----------------------------
(***************************************************************************)
(* Small instances of SharedMemoryBarrier for TLC.                         *)
(***************************************************************************)
EXTENDS SharedMemoryBarrier
=============================================================================
