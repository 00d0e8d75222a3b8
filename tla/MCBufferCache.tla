---------------------------- MODULE MCBufferCache ---------------------------
(***************************************************************************)
(* Instance of BufferCache for model checking.                             *)
(***************************************************************************)
EXTENDS BufferCache

CONSTANTS k1

\* Every block is treated alike, so it is enough to follow the writes to one
\* of them; the others hold something else, which must never turn up in it.
TwoContentsOfOneBlock(k) == IF k = k1 THEN {"old", "new"} ELSE {"other"}
=============================================================================
