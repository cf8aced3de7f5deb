--------------------------- MODULE MCInputStream ---------------------------
(***************************************************************************)
(* Small instances of LArrayInputStream, FileTransfer and LArrayBuilder    *)
(* for TLC.                                                                *)
(***************************************************************************)
EXTENDS LArrayInputStream
=============================================================================
