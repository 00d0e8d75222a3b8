--------------------------- MODULE WmapRefinement ---------------------------
(***************************************************************************)
(* The table of Wmap implements the sorted list of regions of WmapRegions. *)
(***************************************************************************)
EXTENDS Wmap

RegionOf(b) == [start |-> b.start, length |-> b.length, flags |-> b.flags, fd |-> b.fd]

regionList == [i \in 1 .. tbl.total_mmaps |-> RegionOf(tbl.arr[i - 1])]

Regions == INSTANCE WmapRegions WITH
  Region <- [start : Addrs, length : Lengths \cup NewSizes,
             flags : FlagSets, fd : {Fd}],
  regions <- regionList

\* Every call and every fault changes the list of regions the way WmapRegions
\* allows: insert, remove or replace one region, in sorted order.
RegionsSpec == Regions!Spec
=============================================================================
