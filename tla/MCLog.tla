------------------------------- MODULE MCLog -------------------------------
(***************************************************************************)
(* Instances of Log for model checking.                                    *)
(***************************************************************************)
EXTENDS Log
=============================================================================
