----------------------------- MODULE WmapTable -----------------------------
(***************************************************************************)
(* The memory-mapping table of one process: the sixteen mem_blocks of      *)
(* p->arr and the parallel arrays of p->wmapinfo (proc.h), and the two     *)
(* functions of sysfile.c that edit them, as operators on a table value.   *)
(*                                                                         *)
(* Addresses are integers in 0 .. WORD-1.  WORD stands for 2^32 and is     *)
(* scaled down for model checking; the layout keeps its proportions        *)
(* (MIN_ADDR is 3/8 and MAX_ADDR = KERNBASE is 1/2 of the address space),  *)
(* so that an int overflows exactly where the user address space ends.     *)
(***************************************************************************)
EXTENDS Integers

CONSTANTS
  MAX_WMMAP_INFO,   \* slots of the table (16 in proc.h)
  PGSIZE,           \* bytes in a page (4096 in mmu.h)
  WORD              \* number of addresses (2^32)

ASSUME TableAssumption ==
  /\ MAX_WMMAP_INFO \in Nat \ {0}
  /\ PGSIZE \in Nat \ {0}
  /\ WORD \in Nat \ {0}
  /\ WORD % 8 = 0

Slots == 0 .. MAX_WMMAP_INFO - 1
Addrs == 0 .. WORD - 1

MIN_ADDR == 3 * (WORD \div 8)
MAX_ADDR == 4 * (WORD \div 8)

\* Conversion to uint, and from uint to int (gcc keeps the bits).
AsUint(x) == x % WORD
AsInt(x) == IF x % WORD < MAX_ADDR THEN x % WORD ELSE (x % WORD) - WORD

PGROUNDUP(sz) == ((sz + PGSIZE - 1) \div PGSIZE) * PGSIZE

\* The flag bits of wmap.h that the code tests, as a set.
Flags == {"MAP_PRIVATE", "MAP_SHARED", "MAP_ANONYMOUS", "MAP_FIXED"}

-----------------------------------------------------------------------------
(* The table *)

MemBlock ==
  [start : Addrs, end : Addrs, flags : SUBSET Flags, length : Int,
   fd : Int, ref : Int, valid : {0, 1}]

\* n_loaded_pages and leftmostLoadedAddr hold the bits of an int; an address
\* is kept here as a uint and read with AsInt where the code reads an int.
Table ==
  [arr : [Slots -> MemBlock],
   total_mmaps : 0 .. MAX_WMMAP_INFO,
   addr : [Slots -> Addrs],
   length : [Slots -> Int],
   n_loaded_pages : [Slots -> Nat],
   leftmostLoadedAddr : [Slots -> Addrs]]

FreeBlock ==
  [start |-> 0, end |-> 0, flags |-> {}, length |-> 0,
   fd |-> 0, ref |-> 0, valid |-> 0]

\* allocproc: what a new process starts with.
EmptyTable ==
  [arr |-> [i \in Slots |-> FreeBlock],
   total_mmaps |-> 0,
   addr |-> [i \in Slots |-> 0],
   length |-> [i \in Slots |-> 0],
   n_loaded_pages |-> [i \in Slots |-> 0],
   leftmostLoadedAddr |-> [i \in Slots |-> AsUint(MAX_ADDR + 1)]]

\* The slots in use: the searches of sys_wunmap and sys_wremap stop here.
Used(t) == 0 .. t.total_mmaps - 1

\* The prefix in use is valid, and wmapinfo lists the same mappings as arr.
InStep(t) ==
  \A i \in Used(t) :
    /\ t.arr[i].valid = 1
    /\ t.addr[i] = t.arr[i].start
    /\ t.length[i] = t.arr[i].length

\* The prefix in use is sorted by start address.
Sorted(t) ==
  \A i, j \in Used(t) : i <= j => t.arr[i].start <= t.arr[j].start

\* The first slot of S in table order.
First(S) == CHOOSE i \in S : \A j \in S : i <= j

\* Slot k of f gets x, slots k .. n-1 move one to the right.
OpenGap(f, k, n, x) ==
  [i \in Slots |-> IF i = k THEN x
                   ELSE IF k < i /\ i <= n THEN f[i - 1] ELSE f[i]]

\* Faulty variants: the shift starts one slot late; it also puts the value meant
\* for slot k into the last slot.
CloseGapLate(f, k, x) ==
  [i \in Slots |-> IF k < i /\ i < MAX_WMMAP_INFO - 1 THEN f[i + 1]
                   ELSE IF i = k THEN x ELSE f[i]]

CloseGapWipe(f, k, x) ==
  [i \in Slots |-> IF k <= i /\ i < MAX_WMMAP_INFO - 1 THEN f[i + 1]
                   ELSE IF i >= k THEN x ELSE f[i]]

\* Slot k of f is set to x, then slots k+1 .. move one to the left.  The last
\* slot keeps what it holds.
CloseGap(f, k, x) ==
  [i \in Slots |-> IF k <= i /\ i < MAX_WMMAP_INFO - 1 THEN f[i + 1]
                   ELSE IF i = k THEN x ELSE f[i]]

\* Faulty variant: always append.
InsertIdxLast(t, start) == t.total_mmaps

\* Where the loop of insert_mapping stops: the rightmost position whose left
\* neighbour does not start after the new mapping.
InsertIdx(t, start) ==
  CHOOSE k \in 0 .. t.total_mmaps :
    /\ k = 0 \/ t.arr[k - 1].start <= start
    /\ \A j \in k + 1 .. t.total_mmaps : t.arr[j - 1].start > start

\* insert_mapping with numMappings = total_mmaps, as every caller passes it.
\* A full table is left alone (FAILED).  n_loaded_pages moves with the
\* mappings and is not reset in the new slot; leftmostLoadedAddr stays put.
insert_mapping(t, start, end, flags, length, fd) ==
  LET n == t.total_mmaps
      k == InsertIdx(t, start)
      block == [start |-> start, end |-> end, flags |-> flags,
                length |-> length, fd |-> fd, ref |-> 1, valid |-> 1]
  IN  IF n = MAX_WMMAP_INFO THEN t
      ELSE [t EXCEPT !.arr = OpenGap(@, k, n, block),
                     !.total_mmaps = @ + 1,
                     !.addr = OpenGap(@, k, n, start),
                     !.length = OpenGap(@, k, n, length),
                     !.n_loaded_pages = OpenGap(@, k, n, @[k])]

\* The slots remove_mapping can find.
StartingAt(t, a) == {i \in Slots : t.arr[i].valid # 0 /\ t.arr[i].start = a}

\* remove_mapping: drop one reference of the first mapping that starts at a,
\* and the mapping itself when that was the last one.
remove_mapping(t, a) ==
  LET k == First(StartingAt(t, a))
      wiped == [FreeBlock EXCEPT !.start = t.arr[k].start]
  IN  IF StartingAt(t, a) = {} THEN t
      ELSE IF t.arr[k].ref # 1 THEN [t EXCEPT !.arr[k].ref = @ - 1]
      ELSE [t EXCEPT !.arr = CloseGap(@, k, wiped),
                     !.total_mmaps = @ - 1,
                     !.addr = CloseGap(@, k, 0),
                     !.length = CloseGap(@, k, 0),
                     !.n_loaded_pages = CloseGap(@, k, 0),
                     !.leftmostLoadedAddr = CloseGap(@, k, 0)]

\* Faulty variant: measures gaps from where the neighbour starts.
PrevEndStart(t, i) == IF i = 0 THEN MIN_ADDR - 1 ELSE AsInt(t.arr[i - 1].start)

\* The placement loop of sys_wmap (and again of sys_wremap): the loop ends at
\* the first invalid slot and takes the address after its left neighbour; a
\* table with no invalid slot yields the last gap that is wide enough.
PrevEnd(t, i) == IF i = 0 THEN MIN_ADDR - 1 ELSE AsInt(t.arr[i - 1].end)

FindPlace(t, size) ==
  LET invalid == {i \in Slots : t.arr[i].valid = 0}
      gaps == {i \in Slots :
                 AsInt(AsInt(t.arr[i].start) - PrevEnd(t, i)) > size}
      last == CHOOSE i \in gaps : \A j \in gaps : j <= i
  IN  IF invalid # {} THEN AsUint(PrevEnd(t, First(invalid)) + 1)
      ELSE IF gaps # {} THEN AsUint(PrevEnd(t, last) + 1)
      ELSE MIN_ADDR
=============================================================================
