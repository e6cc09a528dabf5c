----------------------------- MODULE MCFileXfer -----------------------------
(* The instance of FileXfer for TLC: two transfers, of equal or different     *)
(* files.                                                                     *)
EXTENDS FileXfer

TwoTransfers == {"t1", "t2"}
TwoFiles == {"a", "b"}

=============================================================================
