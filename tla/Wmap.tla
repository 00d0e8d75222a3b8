-------------------------------- MODULE Wmap --------------------------------
(***************************************************************************)
(* wmap, wunmap, wremap (sysfile.c) and the page-fault handler (trap.c) of *)
(* one process: its mapping table, the user pages present in its page      *)
(* directory, and the open file behind its file-backed mappings.           *)
(*                                                                         *)
(* Only the process itself runs these handlers, one at a time, so each is  *)
(* one step.  The exception is exit() of a child, which writes the parent's*)
(* table from another process, one slot at a time (ChildExit); its writes  *)
(* fall between the parent's calls here, not inside them.                  *)
(***************************************************************************)
EXTENDS WmapTable, FiniteSets

CONSTANTS
  FixedAddrs,      \* addresses passed to wmap
  Lengths,         \* lengths passed to wmap
  FlagSets,        \* flags passed to wmap
  NewSizes,        \* sizes passed to wremap
  Touches,         \* addresses the program accesses
  ImagePages,      \* pages of the program itself (text, stack, heap)
  FileSize,        \* bytes in the file open for reading and writing
  MemOutcomes,     \* what kalloc may do to a page fault
  MaxAddr,         \* bound: last address a mapping may reach
  MinRef,          \* bound: how far below zero a reference count may sink
  MaxLive,         \* bound: mappings the program asks for
  MaxLoads,        \* bound: page faults counted in one slot
  MaxChildExits    \* bound: children that exit

\* The pages below KERNBASE, which MAX_ADDR is.
UserPages == 0 .. (MAX_ADDR \div PGSIZE) - 1

ASSUME WmapAssumption ==
  /\ FixedAddrs \subseteq Addrs
  /\ Touches \subseteq Addrs
  /\ Lengths \subseteq Int
  /\ NewSizes \subseteq Int
  /\ FlagSets \subseteq SUBSET Flags
  /\ ImagePages \subseteq UserPages
  /\ FileSize \in Nat
  /\ MemOutcomes \subseteq {"ok", "no frame", "no table"}
  /\ MinRef \in Int
  /\ MaxAddr \in Nat /\ MaxLive \in Nat /\ MaxLoads \in Nat /\ MaxChildExits \in Nat

VARIABLES
  tbl,       \* p->arr and p->wmapinfo
  present,   \* user pages whose PTE has PTE_P
  file,      \* size and offset of the open file
  status,    \* "run", "panic", or "hung": asleep or looping in the kernel
  exits      \* slots that exiting children have been through

vars == <<tbl, present, file, status, exits>>

Fd == 3
Page(va) == va \div PGSIZE

Init ==
  /\ tbl = EmptyTable
  /\ present = ImagePages
  /\ file = [size |-> FileSize, off |-> 0]
  /\ status = "run"
  /\ exits = 0

-----------------------------------------------------------------------------
(* sys_wmap *)

\* The test of the MAP_FIXED branch against one existing mapping.
FallsInside(x, b) == x > b.start /\ x < b.end

FixedFits(t, addr, end) ==
  \A i \in Slots : t.arr[i].valid # 0 =>
    ~ FallsInside(addr, t.arr[i]) /\ ~ FallsInside(end, t.arr[i])

WmapFixed(addr, length, flags) ==
  LET end == AsUint(addr + PGROUNDUP(length) - 1) IN
  /\ "MAP_FIXED" \in flags
  /\ length >= 1
  /\ addr % PGSIZE = 0
  /\ FixedFits(tbl, addr, end)
  /\ tbl' = insert_mapping(tbl, addr, end, flags, length, Fd)

WmapAnywhere(length, flags) ==
  LET addr == FindPlace(tbl, PGROUNDUP(length))
      end == AsUint(addr + PGROUNDUP(length) - 1)
  IN
  /\ "MAP_FIXED" \notin flags
  /\ length >= 1
  /\ tbl.total_mmaps # MAX_WMMAP_INFO
  /\ tbl' = insert_mapping(tbl, addr, end, flags, length, Fd)

\* Bound: the kernel places mappings ever further to the right.
WithinBound(t) == \A i \in Used(t) : t.arr[i].end <= MaxAddr

sys_wmap(addr, length, flags) ==
  /\ status = "run"
  /\ tbl.total_mmaps < MaxLive
  /\ WmapFixed(addr, length, flags) \/ WmapAnywhere(length, flags)
  /\ WithinBound(tbl')
  /\ UNCHANGED <<present, file, status, exits>>

-----------------------------------------------------------------------------
(* The page-fault case of trap() *)

\* The mappings that hold va; the handler takes the first in table order.
Holding(t, va) ==
  {i \in Slots : /\ t.arr[i].valid # 0
                 /\ t.arr[i].start <= va
                 /\ va <= t.arr[i].end}

Handler(t, va) == First(Holding(t, va))

IsAnonymous(b) == "MAP_ANONYMOUS" \in b.flags

\* Faulty variant: the page is not counted.
LoadedUncounted(t, A) ==
  LET at(i) == {va \in A : Handler(t, va) = i} IN
  [t EXCEPT !.leftmostLoadedAddr = [i \in Slots |-> First({@[i]} \cup at(i))]]

\* The bookkeeping of faults at the addresses A, each served by its handler.
Loaded(t, A) ==
  LET at(i) == {va \in A : Handler(t, va) = i} IN
  [t EXCEPT
     !.n_loaded_pages = [i \in Slots |-> @[i] + Cardinality(at(i))],
     !.leftmostLoadedAddr = [i \in Slots |->
        First({@[i]} \cup at(i))]]

\* A fault inside the kernel's copy to or from the user, with the inode locked,
\* is never served when it lies outside every mapping (the access repeats for
\* ever) or in a file-backed one (whose handler waits for that lock for ever).
\* The process is then "hung", and its state is left as it was at the call.
Stuck(va) == Holding(tbl, va) = {} \/ ~ IsAnonymous(tbl.arr[Handler(tbl, va)])

\* The bookkeeping of such faults, at A, when they are served.  One that finds
\* no page for a page table returns, is counted, and happens again.  Bound:
\* that happens to each at most once.
AfterFaults(t, A) ==
  IF "no table" \in MemOutcomes
  THEN {Loaded(Loaded(t, A), again) : again \in SUBSET A}
  ELSE {Loaded(t, A)}

\* mappages(va, PGSIZE): the pages of the PGSIZE bytes that start at va.
Spanned(va) == Page(va) .. Page(va + PGSIZE - 1)

\* *pte & PTE_P: the kernel's half of every page directory is mapped.
HasPte(p) == p \in present \/ p \notin UserPages

Min2(a, b) == IF a <= b THEN a ELSE b

\* fileread(f, va, PGSIZE) at the file's current offset.
BytesRead == IF file.off >= file.size THEN 0
             ELSE Min2(PGSIZE, file.size - file.off)

\* The file after the handler's read.
FileAfter(block) ==
  IF IsAnonymous(block) THEN file ELSE [file EXCEPT !.off = @ + BytesRead]

FaultServed(va) ==
  /\ \A p \in Spanned(va) : ~ HasPte(p)
  /\ present' = present \cup Spanned(va)
  /\ file' = FileAfter(tbl.arr[Handler(tbl, va)])
  /\ tbl' = Loaded(tbl, {va})
  /\ UNCHANGED status

\* mappages panics on a page that has a PTE already.
FaultRemaps(va) ==
  /\ \E p \in Spanned(va) : HasPte(p)
  /\ status' = "panic"
  /\ UNCHANGED <<tbl, present, file>>

\* mappages found no page for a page table: the frame is freed and the handler
\* goes on.  Reading the file then faults again, inside fileread, and the
\* second handler waits for the inode lock the first one holds.
FaultUnmapped(va) ==
  LET block == tbl.arr[Handler(tbl, va)] IN
  /\ ~ HasPte(Page(va))
  /\ IF IsAnonymous(block) \/ BytesRead = 0
     THEN tbl' = Loaded(tbl, {va}) /\ UNCHANGED status
     ELSE status' = "hung" /\ UNCHANGED tbl
  /\ UNCHANGED <<present, file>>

\* mappages found no page for the page table of the second page: the frame is
\* freed although the first page stays mapped to it, and the handler goes on.
\* A read that reaches the second page faults there, inside fileread.
FaultHalfMapped(va) ==
  LET block == tbl.arr[Handler(tbl, va)]
      second == (Page(va) + 1) * PGSIZE
      crosses == ~ IsAnonymous(block) /\ va + BytesRead > second
  IN
  /\ Page(va) + 1 \in Spanned(va)
  /\ \A p \in Spanned(va) : ~ HasPte(p)
  /\ \/ /\ ~ crosses
        /\ present' = present \cup {Page(va)}
        /\ tbl' = Loaded(tbl, {va})
        /\ file' = FileAfter(block)
        /\ UNCHANGED status
     \/ /\ crosses
        /\ ~ Stuck(second)
        /\ present' = present \cup Spanned(va)
        /\ \E t \in AfterFaults(tbl, {second}) : tbl' = Loaded(t, {va})
        /\ file' = FileAfter(block)
        /\ UNCHANGED status
     \/ /\ crosses
        /\ status' = "hung"
        /\ UNCHANGED <<tbl, present, file>>

\* An access outside every mapping prints "Segmentation Fault" and changes
\* nothing, so it is a stuttering step here.
PageFault(va, mem) ==
  /\ status = "run"
  /\ Page(va) \notin present
  /\ Holding(tbl, va) # {}
  /\ tbl.n_loaded_pages[Handler(tbl, va)] < MaxLoads
  /\ \/ mem = "ok" /\ (FaultServed(va) \/ FaultRemaps(va))
     \/ mem = "no table" /\ (FaultUnmapped(va) \/ FaultHalfMapped(va))
     \/ mem = "no frame" /\ status' = "panic" /\ UNCHANGED <<tbl, present, file>>
  /\ UNCHANGED exits

-----------------------------------------------------------------------------
(* sys_wunmap *)

Matches(t, addr) == {i \in Used(t) : t.arr[i].start = addr}

\* Faulty variant: the loop ends one page early.
VisitedShort(t, i) ==
  {{Page(AsUint(AsInt(t.leftmostLoadedAddr[i]) + PGSIZE * j)) :
      j \in 0 .. t.n_loaded_pages[i] - 2}}

\* The pages the loop over the loaded pages visits.  leftmostLoadedAddr is an
\* int: when the bound of the loop overflows, the loop runs n times or not at
\* all, depending on how the compiler evaluates it.
Visited(t, i) ==
  LET lm == AsInt(t.leftmostLoadedAddr[i])
      n == t.n_loaded_pages[i]
      all == {Page(AsUint(lm + PGSIZE * j)) : j \in 0 .. n - 1}
  IN  IF lm + PGSIZE * n >= MAX_ADDR THEN {all, {}} ELSE {all}

\* Clear and free the visited pages, then remove the table entry.  kfree
\* panics on a page of the kernel image.
Unmap(t, pgs, addr) ==
  \E pages \in Visited(t, First(Matches(t, addr))) :
    \/ /\ pages \subseteq UserPages
       /\ present' = pgs \ pages
       /\ tbl' = remove_mapping(t, addr)
       /\ UNCHANGED status
    \/ /\ ~ (pages \subseteq UserPages)
       /\ status' = "panic"
       /\ UNCHANGED <<tbl, present>>

WritesBack(b) == b.flags \cap {"MAP_ANONYMOUS", "MAP_PRIVATE"} = {}

\* filewrite(f, start, length) reads every page of the mapping; these have no
\* PTE and make it fault.
MissingPages(b) ==
  {p \in Page(b.start) .. Page(b.start + b.length - 1) : ~ HasPte(p)}

WrittenBack(b) ==
  LET n == IF b.length < 0 THEN 0 ELSE b.length IN
  [size |-> IF n > file.size THEN n ELSE file.size, off |-> n]

\* The fault happens inside writei, with the inode locked: only the anonymous
\* handler of a mapping that overlaps this one can load the page, once there is
\* memory for its page table.
WriteBack(addr, block) ==
  LET pages == MissingPages(block)
      faults == {p * PGSIZE : p \in pages}
  IN
  \/ /\ \A va \in faults : ~ Stuck(va)
     /\ file' = WrittenBack(block)
     /\ \E t \in AfterFaults(tbl, faults) : Unmap(t, present \cup pages, addr)
  \/ /\ pages # {}
     /\ "no table" \in MemOutcomes \/ \E va \in faults : Stuck(va)
     /\ status' = "hung"
     /\ UNCHANGED <<tbl, present, file>>
  \/ /\ pages # {}
     /\ "no frame" \in MemOutcomes
     /\ status' = "panic"
     /\ UNCHANGED <<tbl, present, file>>

sys_wunmap(addr) ==
  LET block == tbl.arr[First(Matches(tbl, addr))] IN
  /\ status = "run"
  /\ addr % PGSIZE = 0
  /\ Matches(tbl, addr) # {}
  /\ block.ref > MinRef
  /\ \/ WritesBack(block) /\ WriteBack(addr, block)
     \/ ~ WritesBack(block) /\ Unmap(tbl, present, addr) /\ UNCHANGED file
  /\ UNCHANGED exits

-----------------------------------------------------------------------------
(* sys_wremap *)

\* arr[location + 1].  Behind the last slot of arr lies the pointer wmapinfo
\* (struct proc), so there the code reads the words of wmapinfo: valid is
\* addr[5] and start is total_mmaps.  A smaller table uses its last address.
NextBlock(t, i) ==
  IF i + 1 \in Slots
  THEN [start |-> t.arr[i + 1].start, valid |-> t.arr[i + 1].valid]
  ELSE [start |-> t.total_mmaps, valid |-> t.addr[Min2(5, MAX_WMMAP_INFO - 1)]]

\* Faulty variant: forgets the file behind the mapping.
ReplaceLosesFile(t, oldaddr, addr, end, newsize, old) ==
  insert_mapping(remove_mapping(t, oldaddr), addr, end, old.flags, newsize, 0)

\* Remove, then insert again with the flags and descriptor of the old entry.
Replace(t, oldaddr, addr, end, newsize, old) ==
  insert_mapping(remove_mapping(t, oldaddr),
                 addr, end, old.flags, newsize, old.fd)

RemapInPlace(t, oldaddr, newsize, old) ==
  Replace(t, oldaddr, oldaddr, AsUint(oldaddr + PGROUNDUP(newsize) - 1),
          newsize, old)

\* The moved mapping ends two bytes before the next page: end - 1 twice.
RemapMove(t, oldaddr, newsize, old) ==
  LET addr == FindPlace(remove_mapping(t, oldaddr), PGROUNDUP(newsize)) IN
  Replace(t, oldaddr, addr, AsUint(addr + PGROUNDUP(newsize) - 2),
          newsize, old)

sys_wremap(oldaddr, newsize, maymove) ==
  LET found == {i \in Matches(tbl, oldaddr) : tbl.arr[i].valid = 1}
      location == First(found)
      old == tbl.arr[location]
      next == NextBlock(tbl, location)
      end == AsUint(oldaddr + PGROUNDUP(newsize))
  IN
  /\ status = "run"
  /\ oldaddr % PGSIZE = 0
  /\ found # {}
  /\ old.ref > MinRef
  /\ \/ /\ (next.valid = 1 /\ end < next.start) \/ (next.valid = 0 /\ end <= MAX_ADDR)
        /\ tbl' = RemapInPlace(tbl, oldaddr, newsize, old)
     \/ /\ ~ (next.valid = 1 /\ end < next.start)
        /\ next.valid # 0
        /\ maymove
        /\ tbl' = RemapMove(tbl, oldaddr, newsize, old)
  /\ WithinBound(tbl')
  /\ UNCHANGED <<present, file, status, exits>>

-----------------------------------------------------------------------------
\* exit() of a child drops one reference in every slot of its parent's table,
\* whether or not the child inherited a mapping.  It holds ptable.lock, which
\* the parent's calls do not take, so each slot is a step of its own; the lock
\* keeps the loops of two children apart.
ChildExit ==
  /\ status # "panic"
  /\ exits < MaxChildExits * MAX_WMMAP_INFO
  /\ exits' = exits + 1
  /\ tbl' = [tbl EXCEPT !.arr[exits % MAX_WMMAP_INFO].ref = @ - 1]
  /\ UNCHANGED <<present, file, status>>

\* wunmap and wremap fail, and change nothing, at any other address.
Starts == {tbl.arr[i].start : i \in Used(tbl)}

Next ==
  \/ \E a \in FixedAddrs, n \in Lengths, fl \in FlagSets : sys_wmap(a, n, fl)
  \/ \E a \in Starts : sys_wunmap(a)
  \/ \E a \in Starts, n \in NewSizes, mv \in BOOLEAN : sys_wremap(a, n, mv)
  \/ \E va \in Touches, mem \in MemOutcomes : PageFault(va, mem)
  \/ ChildExit

Spec == Init /\ [][Next]_vars

-----------------------------------------------------------------------------
(* Properties *)

TypeOK ==
  /\ tbl \in Table
  /\ present \subseteq UserPages
  /\ file \in [size : Nat, off : Nat]
  /\ status \in {"run", "panic", "hung"}
  /\ exits \in 0 .. MaxChildExits * MAX_WMMAP_INFO

\* The slots in use are exactly the valid prefix that every search assumes,
\* and wmapinfo, which getwmapinfo hands to the user, lists the same mappings
\* as arr: insert_mapping and remove_mapping shift both in step.
TableInStep == InStep(tbl)

\* insert_mapping "will perform the insertion in sorted order"; no sequence of
\* wmap, wunmap and wremap (nor a child's exit) leaves the table unsorted.
SortedStarts == Sorted(tbl)

\* No slot outside the prefix in use is valid, as long as the table is never
\* full: remove_mapping clears the last slot only by shifting a free one in.
NoGhost == \A i \in Slots : tbl.arr[i].valid = 1 => i \in Used(tbl)

\* Two mappings share an address.
Overlap(a, b) == a.start <= b.end /\ b.start <= a.end

\* sysfile.c:638 "will this mapping overlap with an existing one?"
\* Two mappings overlap only when the program asked for one of them with
\* MAP_FIXED: an address the kernel chooses, in sys_wmap or in the move of
\* sys_wremap, never runs into another mapping the kernel placed.
OverlapOnlyFixed ==
  \A i, j \in Used(tbl) :
    i # j /\ Overlap(tbl.arr[i], tbl.arr[j]) =>
      "MAP_FIXED" \in tbl.arr[i].flags \cup tbl.arr[j].flags

\* Unmapping never takes a page of the program itself.
ImageIntact == ImagePages \subseteq present

\* Nothing is where it should not be, whatever was touched, unmapped or failed
\* in between: the page directory has user pages only, no valid slot lies
\* outside the prefix, and the program keeps its own pages.
InPlace == TypeOK /\ NoGhost /\ ImageIntact

-----------------------------------------------------------------------------
(* Statements of the source that the code keeps only for some programs *)

\* proc.h:57 "Number of pages physically loaded into memory": the count of a
\* mapping is the number of its pages in the page directory.
LoadedCount ==
  \A i \in Used(tbl) :
    tbl.n_loaded_pages[i] =
      Cardinality({p \in present : /\ p * PGSIZE >= tbl.arr[i].start
                                   /\ p * PGSIZE <= tbl.arr[i].end})

\* sysfile.c:747 "get rid of all pde's associated with this mapping": wunmap
\* leaves no page of the mapping behind.
UnmapClears ==
  [][\A a \in Starts : sys_wunmap(a) /\ status' = "run" =>
       LET b == tbl.arr[First(Matches(tbl, a))] IN
       present' \cap (Page(b.start) .. Page(b.end)) = {}]_vars
=============================================================================
