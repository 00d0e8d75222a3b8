---------------------------- MODULE WmapRegions ----------------------------
(***************************************************************************)
(* What wmap, wunmap and wremap promise about the regions of a process,    *)
(* with no slots, shifting or page bookkeeping: the regions form a list    *)
(* sorted by start address; wmap adds exactly one region, wunmap takes     *)
(* exactly one away, wremap exchanges one region for one with the same     *)
(* flags and file, and a call that fails changes nothing.                  *)
(***************************************************************************)
EXTENDS Integers, Sequences

CONSTANT Region          \* records with start, length, flags and fd

VARIABLE regions

SortedByStart(s) ==
  \A i, j \in DOMAIN s : i <= j => s[i].start <= s[j].start

\* The list without its k-th region.
Without(s, k) == [i \in 1 .. Len(s) - 1 |-> IF i < k THEN s[i] ELSE s[i + 1]]

Init == regions = <<>>

Map ==
  \E k \in DOMAIN regions' : /\ regions'[k] \in Region
                             /\ Without(regions', k) = regions

Unmap == \E k \in DOMAIN regions : regions' = Without(regions, k)

Remap ==
  \E k \in DOMAIN regions, m \in DOMAIN regions' :
    /\ regions'[m] \in Region
    /\ regions'[m].flags = regions[k].flags
    /\ regions'[m].fd = regions[k].fd
    /\ Without(regions', m) = Without(regions, k)

Next == (Map \/ Unmap \/ Remap) /\ SortedByStart(regions')

Spec == Init /\ [][Next]_regions
=============================================================================
