------------------------------ MODULE MCConsole -----------------------------
(***************************************************************************)
(* Instance of Console for model checking.                                 *)
(***************************************************************************)
EXTENDS Console

\* The indices wrap after two rings.
TwoRings == 2 * INPUT_BUF
=============================================================================
