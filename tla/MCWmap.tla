------------------------------- MODULE MCWmap -------------------------------
(***************************************************************************)
(* Flag combinations for the runs of Wmap.                                 *)
(***************************************************************************)
EXTENDS WmapRefinement

Anonymous == {"MAP_PRIVATE", "MAP_ANONYMOUS"}
File == {"MAP_SHARED"}
Fixed == {"MAP_FIXED"}

FixedOrNot == {Anonymous, Anonymous \cup Fixed}
AnonOrFile == {File, Anonymous \cup Fixed, File \cup Fixed}
PlacedByKernel == {Anonymous, File}

MCMinRef == -1
=============================================================================
