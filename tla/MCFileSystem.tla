---------------------------- MODULE MCFileSystem ----------------------------
(***************************************************************************)
(* An instance of FileSystem: one process makes, links and removes /a,     *)
(* while its child opens it, or works in it as in a directory.             *)
(***************************************************************************)
EXTENDS FileSystem

A == <<"/", "a">>
B == <<"/", "b">>

Makes ==
  {[op |-> "creat", path |-> A], [op |-> "mkdir", path |-> A],
   [op |-> "link", path |-> A, to |-> B], [op |-> "unlink", path |-> A],
   [op |-> "write"]}

Uses ==
  {[op |-> "open", path |-> A, write |-> TRUE], [op |-> "dup"], [op |-> "close"],
   [op |-> "unlink", path |-> <<"/", "a", ".">>], [op |-> "mkdir", path |-> <<"b">>],
   [op |-> "chdir", path |-> A], [op |-> "chdir", path |-> <<"..">>]}

MakesAndUses == [p |-> Makes, q |-> Uses]
=============================================================================
