--------------------------- MODULE MCApplySession ---------------------------
(* Model-checking instance of ApplySession: three upstream transactions,  *)
(* the first with two rows, the last empty (all its changes filtered).        *)
EXTENDS ApplySession

MCRows == <<2, 1, 0>>
=============================================================================
