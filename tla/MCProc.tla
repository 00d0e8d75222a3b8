------------------------------- MODULE MCProc -------------------------------
(***************************************************************************)
(* Proc for model checking.                                                *)
(***************************************************************************)
EXTENDS Proc
=============================================================================
