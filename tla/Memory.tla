------------------------------- MODULE Memory -------------------------------
(***************************************************************************)
(* Physical pages and the address spaces made of them: kalloc.c, vm.c, and *)
(* what fork, exit, wait, growproc (proc.c), exec (exec.c), wmap, wunmap   *)
(* (sysfile.c) and the page-fault handler (trap.c) do with pages.          *)
(*                                                                         *)
(* A process only changes its own address space, and kalloc and kfree have *)
(* a lock of their own, so every call is one step; what another processor  *)
(* allocates in the middle of it shows as memory that runs out earlier.    *)
(* The free list is a set, because all pages are alike.  A process has at  *)
(* most one mapping, of all of Zone: module Wmap has tables of several.    *)
(***************************************************************************)
EXTENDS Integers, FiniteSets, FiniteSetsExt

CONSTANTS
  Procs, InitProc,
  NPAGES,          \* physical pages kinit1 and kinit2 put on the free list
  PGSIZE,
  ImagePages,      \* bound: pages of a program
  ZonePages,       \* pages of a mapping, from MIN_ADDR on
  NBLOCKS,         \* mem_blocks of a process: MAX_WMMAP_INFO
  NKTAB,           \* page tables setupkvm allocates for the kernel's half
  Grows,           \* arguments of sbrk
  Images,          \* sizes of programs to exec
  MaxLoads,        \* bound: page faults counted for one mapping
  UnmapsShared     \* whether programs unmap what another process still shares

Page0 == 0                         \* physical page 0, below the kernel
Absent == -1                       \* no PTE, or one without PTE_P
Frames == 1 .. NPAGES

Image == 0 .. ImagePages - 1
Zone == ImagePages .. ImagePages + ZonePages - 1
Pages == Image \cup Zone
Tables == {"low", "zone"}
TableOf(pg) == IF pg \in Image THEN "low" ELSE "zone"

ASSUME MemoryAssumption ==
  /\ InitProc \in Procs
  /\ PGSIZE \in Nat \ {0} /\ ImagePages \in Nat \ {0} /\ ZonePages \in Nat \ {0}
  /\ NBLOCKS \in Nat \ {0}
  /\ NKTAB \in Nat
  /\ Grows \subseteq Int /\ Images \subseteq Nat \ {0}
  /\ UnmapsShared \in BOOLEAN

VARIABLES
  free,       \* kmem.freelist
  proc,       \* what each process owns
  status      \* "run", "panic", or "wild" after a read through a null PTE

vars == <<free, proc, status>>

NoDir == [dir |-> Absent, ktabs |-> {}, tab |-> [t \in Tables |-> Absent],
          pte |-> [pg \in Pages |-> Absent]]

\* left is leftmostLoadedAddr, MAX_ADDR + 1 before the first page fault.
NoMap == [kind |-> "none", ref |-> 0, loaded |-> 0, left |-> ImagePages + ZonePages]

Unused == [state |-> "UNUSED", parent |-> InitProc, kstack |-> Absent,
           info |-> Absent, arr |-> {}, d |-> NoDir, sz |-> 0,
           map |-> NoMap]

PagesOf(bytes) == (bytes + PGSIZE - 1) \div PGSIZE

-----------------------------------------------------------------------------
(* kalloc and vm.c: operators on s = [free, d, ok, remap]; remap stands for  *)
(* the panic of mappages on a page that is mapped already.                   *)

kalloc(F) == Min(F)

kallocs(F, n) == {f \in F : Cardinality({g \in F : g < f}) < n}

Frees(d, pgs) == {d.pte[pg] : pg \in pgs} \ {Absent, Page0}

\* walkpgdir(alloc) and the PTE: may need a page for the page table.
mappages(s, pg, f) ==
  LET t == TableOf(pg)
      k == kalloc(s.free)
  IN  IF s.d.tab[t] # Absent
      THEN [s EXCEPT !.d.pte[pg] = f, !.remap = @ \/ s.d.pte[pg] # Absent]
      ELSE IF s.free = {} THEN [s EXCEPT !.ok = FALSE]
      ELSE [s EXCEPT !.free = @ \ {k}, !.d.tab[t] = k, !.d.pte[pg] = f]

\* The page directory and the kernel's page tables, or nothing at all.
setupkvm(F) ==
  LET take == kallocs(F, 1 + NKTAB)
      dir == kalloc(take)
  IN  IF Cardinality(F) < 1 + NKTAB
      THEN [free |-> F, d |-> NoDir, ok |-> FALSE, remap |-> FALSE]
      ELSE [free |-> F \ take, ok |-> TRUE, remap |-> FALSE,
            d |-> [NoDir EXCEPT !.dir = dir, !.ktabs = take \ {dir}]]

\* Free the image pages from newsz up to oldsz.
deallocuvm(s, oldsz, newsz) ==
  LET gone == {pg \in Image : PagesOf(newsz) <= pg /\ pg < PagesOf(oldsz)} IN
  [s EXCEPT !.free = @ \cup Frees(s.d, gone),
            !.d.pte = [pg \in Pages |-> IF pg \in gone THEN Absent ELSE @[pg]]]

\* Faulty variant: keeps the page that found no page table.
AllocPageLeaky(s, oldsz, newsz, pg) ==
  LET mem == kalloc(s.free)
      m == mappages([s EXCEPT !.free = @ \ {mem}], pg, mem)
      undo(r) == [deallocuvm(r, newsz, oldsz) EXCEPT !.ok = FALSE]
  IN  IF s.free = {} THEN undo(s)
      ELSE IF m.ok THEN m
      ELSE undo(m)

\* One turn of allocuvm's loop, with its two ways out of memory.
AllocPage(s, oldsz, newsz, pg) ==
  LET mem == kalloc(s.free)
      m == mappages([s EXCEPT !.free = @ \ {mem}], pg, mem)
      undo(r) == [deallocuvm(r, newsz, oldsz) EXCEPT !.ok = FALSE]
  IN  IF s.free = {} THEN undo(s)
      ELSE IF m.ok THEN m
      ELSE [undo(m) EXCEPT !.free = @ \cup {mem}]

allocuvm(s, oldsz, newsz) ==
  LET upto[n \in 0 .. ImagePages] ==      \* the pages below n
        IF n <= PagesOf(oldsz) THEN s
        ELSE IF ~ upto[n - 1].ok THEN upto[n - 1]
        ELSE AllocPage(upto[n - 1], oldsz, newsz, n - 1)
  IN  upto[PagesOf(newsz)]

\* Faulty variant: frees up to KERNBASE, pages that are shared included.
freevmAll(F, d) ==
  F \cup Frees(d, Pages) \cup ({d.tab[t] : t \in Tables} \ {Absent})
    \cup d.ktabs \cup {d.dir}

\* Image pages up to MIN_ADDR, every page table, and the directory.
freevm(F, d) ==
  F \cup Frees(d, Image) \cup ({d.tab[t] : t \in Tables} \ {Absent})
    \cup d.ktabs \cup {d.dir}

\* A copy of the image; ok is FALSE, and everything given back, when memory
\* runs out.
copyuvm(F, d0, sz) ==
  LET s0 == setupkvm(F)
      copy(s, pg) ==
        LET mem == kalloc(s.free)
            m == mappages([s EXCEPT !.free = @ \ {mem}], pg, mem)
        IN  IF s.free = {} THEN [s EXCEPT !.ok = FALSE]
            ELSE IF m.ok THEN m
            ELSE [m EXCEPT !.free = @ \cup {mem}]
      upto[n \in 0 .. ImagePages] ==
        IF n = 0 THEN s0
        ELSE IF ~ upto[n - 1].ok THEN upto[n - 1]
        ELSE copy(upto[n - 1], n - 1)
      s1 == upto[PagesOf(sz)]
  IN  IF ~ s0.ok \/ s1.ok THEN s1
      ELSE [s1 EXCEPT !.free = freevm(@, s1.d), !.d = NoDir]

-----------------------------------------------------------------------------
(* Processes *)

\* A process as allocproc and userinit leave it: a kernel stack, wmapinfo, a
\* mem_block per slot, and the first page of its image.
Init ==
  LET blocks == kallocs(Frames, NBLOCKS + 2)
      kstack == kalloc(blocks)
      info == kalloc(blocks \ {kstack})
      s == allocuvm(setupkvm(Frames \ blocks), 0, PGSIZE)
  IN  /\ free = s.free
      /\ proc = [p \in Procs |->
                   IF p = InitProc
                   THEN [Unused EXCEPT !.state = "ALIVE", !.kstack = kstack,
                           !.info = info, !.arr = blocks \ {kstack, info},
                           !.d = s.d, !.sz = PGSIZE]
                   ELSE Unused]
      /\ status = "run"

Alive(p) == status = "run" /\ proc[p].state = "ALIVE"

\* A process without its first page never gets out of the page fault, except
\* to be killed.
Runs(p) == Alive(p) /\ proc[p].d.pte[0] # Absent

Stop(s) == status' = s /\ UNCHANGED <<free, proc>>

Mapping(s) == status' = IF s.remap THEN "panic" ELSE status

\* Grow or shrink the image.  A size of 0 is taken for a failure of
\* deallocuvm: the pages are gone, but p->sz stays.
growproc(p, n) ==
  LET sz == proc[p].sz
      s == [free |-> free, d |-> proc[p].d, ok |-> TRUE, remap |-> FALSE]
      r == IF n > 0 THEN allocuvm(s, sz, sz + n) ELSE deallocuvm(s, sz, sz + n)
  IN
  /\ Runs(p)
  /\ n # 0 /\ sz + n >= 0 /\ PagesOf(sz + n) <= ImagePages
  /\ free' = r.free
  /\ proc' = [proc EXCEPT ![p].d = r.d,
                          ![p].sz = IF r.ok /\ sz + n # 0 THEN sz + n ELSE sz]
  /\ Mapping(r)

\* What allocproc takes for a slot: the kernel stack, which may be refused,
\* and wmapinfo and the blocks, which may not.
allocprocPages == NBLOCKS + 2

Mapped(p) == proc[p].map.kind # "none"

\* The child's copy of the parent's mapping of page z.  A private page is
\* copied, a shared one mapped again; neither asks whether the parent has
\* touched the page, in which case its PTE holds physical page 0.
ForkPage(s, p, z) ==
  LET mem == kalloc(s.free)
      pa == IF proc[p].d.pte[z] = Absent THEN Page0 ELSE proc[p].d.pte[z]
      m == mappages([s EXCEPT !.free = @ \ {mem}], z, mem)
  IN  IF proc[p].map.kind = "shared"
      THEN mappages(s, z, pa)                 \* on failure: kfree(pa) panics
      ELSE IF s.free = {} THEN [s EXCEPT !.ok = FALSE]
      ELSE IF m.ok THEN m
      ELSE [m EXCEPT !.free = @ \cup {mem}, !.ok = TRUE]

ForkMaps(s, p) ==
  LET upto[n \in 0 .. ImagePages + ZonePages] ==
        IF n <= ImagePages \/ ~ Mapped(p) THEN s
        ELSE IF ~ upto[n - 1].ok THEN upto[n - 1]
        ELSE ForkPage(upto[n - 1], p, n - 1)
  IN  upto[ImagePages + ZonePages]

\* walkpgdir finds no page table for a mapped page that was never touched.
ReadsNull(p) == Mapped(p) /\ proc[p].d.tab["zone"] = Absent

\* Faulty variant: copies one page too many.
MissingPageOffByOne(p) ==
  \E pg \in Image : pg <= PagesOf(proc[p].sz) /\ proc[p].d.pte[pg] = Absent

\* copyuvm panics on a page of the image that is not there.
MissingPage(p) ==
  \E pg \in Image : pg < PagesOf(proc[p].sz) /\ proc[p].d.pte[pg] = Absent

fork(p, q) ==
  LET blocks == kallocs(free, allocprocPages)
      kstack == kalloc(blocks)
      info == kalloc(blocks \ {kstack})
      c == copyuvm(free \ blocks, proc[p].d, proc[p].sz)
      s == ForkMaps(c, p)
  IN
  /\ Runs(p)
  /\ proc[q].state = "UNUSED"
  /\ free # {}
  /\ \/ /\ Cardinality(free) < allocprocPages \/ MissingPage(p)
        /\ Stop("panic")
     \/ /\ Cardinality(free) >= allocprocPages /\ ~ MissingPage(p)
        /\ \/ /\ ~ c.ok                       \* only the stack is given back
              /\ free' = c.free \cup {kstack}
              /\ UNCHANGED <<proc, status>>
           \/ /\ c.ok /\ ReadsNull(p)
              /\ Stop(IF c.free = {} /\ proc[p].map.kind = "private"
                      THEN "panic" ELSE "wild")
           \/ /\ c.ok /\ ~ ReadsNull(p) /\ ~ s.ok
              /\ Stop("panic")
           \/ /\ c.ok /\ ~ ReadsNull(p) /\ s.ok
              /\ free' = s.free
              /\ proc' = [proc EXCEPT ![q] =
                   [state |-> "ALIVE", parent |-> p, kstack |-> kstack,
                    info |-> info, arr |-> blocks \ {kstack, info},
                    d |-> s.d, sz |-> proc[p].sz, map |-> proc[p].map]]
              /\ Mapping(s)

\* wmapinfo, the blocks of mappings with a single reference, and the image go
\* back; every slot of the parent's table loses a reference.  A reference
\* starts at 1 and is compared with 1 only: 0 stands for all it falls to.
exit(p) ==
  LET blocks == kallocs(proc[p].arr, IF Mapped(p) /\ proc[p].map.ref = 1
                                     THEN 1 ELSE 0)
      s == deallocuvm([free |-> free \cup blocks \cup {proc[p].info},
                       d |-> proc[p].d, ok |-> TRUE, remap |-> FALSE], proc[p].sz, 0)
      parent == proc[p].parent
  IN
  /\ Alive(p)
  /\ p # InitProc
  /\ free' = s.free
  /\ proc' = [q \in Procs |->
       CASE q = p -> [proc[p] EXCEPT !.state = "ZOMBIE", !.d = s.d,
                                     !.info = Absent, !.arr = {}]
         [] q # p /\ q = parent ->
              [proc[q] EXCEPT !.map.ref = 0]
         [] q # p /\ q # parent ->
              IF proc[q].parent = p THEN [proc[q] EXCEPT !.parent = InitProc]
              ELSE proc[q]]
  /\ UNCHANGED status

wait(p, q) ==
  /\ Runs(p)
  /\ proc[q].state = "ZOMBIE" /\ proc[q].parent = p
  /\ free' = freevm(free, proc[q].d) \cup {proc[q].kstack}
  /\ proc' = [proc EXCEPT ![q] = Unused]
  /\ UNCHANGED status

\* A new directory, the program, then a guard page and a stack.  Whatever
\* fails, be it memory, the file or the arguments, and at whatever stage, the
\* new directory is freed and the old image stays.
exec(p, bytes) ==
  LET s0 == setupkvm(free)
      s1 == allocuvm(s0, 0, bytes)
      top == PGSIZE * PagesOf(bytes)
      s2 == allocuvm(s1, top, top + 2 * PGSIZE)
      reached == {s0, s1} \cup (IF s1.ok THEN {s2} ELSE {})
  IN
  /\ Runs(p)
  /\ PagesOf(bytes) + 2 <= ImagePages
  /\ \/ /\ ~ s0.ok
        /\ UNCHANGED vars
     \/ /\ s0.ok
        /\ \E s \in reached : free' = freevm(s.free, s.d)
        /\ UNCHANGED <<proc, status>>
     \/ /\ s0.ok /\ s1.ok /\ s2.ok
        /\ free' = freevm(s2.free, proc[p].d)
        /\ proc' = [proc EXCEPT ![p].d = s2.d, ![p].sz = top + 2 * PGSIZE]
        /\ Mapping(s2)

-----------------------------------------------------------------------------
(* Mappings *)

sys_wmap(p, kind) ==
  /\ Runs(p)
  /\ ~ Mapped(p)
  /\ proc' = [proc EXCEPT ![p].map.kind = kind, ![p].map.ref = 1]
  /\ UNCHANGED <<free, status>>

\* The first access to a page.  Without a page for the page table the new page
\* is freed, and counted as loaded all the same.
PageFault(p, z) ==
  LET mem == kalloc(free)
      m == mappages([free |-> free \ {mem}, d |-> proc[p].d,
                     ok |-> TRUE, remap |-> FALSE], z, mem)
  IN
  /\ Runs(p)
  /\ Mapped(p)
  /\ proc[p].d.pte[z] = Absent
  /\ proc[p].map.loaded < MaxLoads
  /\ \/ free = {} /\ Stop("panic")
     \/ /\ free # {}
        /\ free' = IF m.ok THEN m.free ELSE m.free \cup {mem}
        /\ proc' = [proc EXCEPT ![p].d = m.d, ![p].map.loaded = @ + 1,
                                ![p].map.left = Min({@, z})]
        /\ Mapping(m)

\* The pages the loop of sys_wunmap visits.
Visited(p) ==
  {pg \in Zone : proc[p].map.left <= pg /\ pg < proc[p].map.left + proc[p].map.loaded}

SharedWith(p, pgs) ==
  \E q \in Procs \ {p}, pg \in pgs, z \in Zone :
    proc[p].d.pte[pg] \in Frames /\ proc[q].d.pte[z] = proc[p].d.pte[pg]

\* Free the pages counted as loaded; kfree panics on physical page 0.
\* remove_mapping takes the mapping away only if this was its one reference.
sys_wunmap(p) ==
  LET gone == Visited(p) IN
  /\ Runs(p)
  /\ Mapped(p)
  /\ UnmapsShared \/ ~ SharedWith(p, gone)
  /\ \/ /\ \E pg \in gone : proc[p].d.pte[pg] = Page0
        /\ Stop("panic")
     \/ /\ \A pg \in gone : proc[p].d.pte[pg] # Page0
        /\ free' = free \cup Frees(proc[p].d, gone)
        /\ proc' = [proc EXCEPT
             ![p].d.pte = [pg \in Pages |-> IF pg \in gone THEN Absent ELSE @[pg]],
             ![p].map = IF @.ref = 1 THEN NoMap ELSE @]
        /\ UNCHANGED status

Next ==
  \/ \E p, q \in Procs : fork(p, q) \/ wait(p, q)
  \/ \E p \in Procs : exit(p) \/ sys_wunmap(p)
  \/ \E p \in Procs, n \in Grows : growproc(p, n)
  \/ \E p \in Procs, n \in Images : exec(p, n)
  \/ \E p \in Procs, kind \in {"private", "shared"} : sys_wmap(p, kind)
  \/ \E p \in Procs, z \in Zone : PageFault(p, z)

Spec == Init /\ [][Next]_vars

-----------------------------------------------------------------------------
(* Properties *)

\* Every frame a process holds, with the use it makes of it.
Uses(p) ==
  {<<p, "kstack", 0, proc[p].kstack>>, <<p, "info", 0, proc[p].info>>,
   <<p, "dir", 0, proc[p].d.dir>>}
    \cup {<<p, "arr", 0, f>> : f \in proc[p].arr}
    \cup {<<p, "ktab", 0, f>> : f \in proc[p].d.ktabs}
    \cup {<<p, t, 0, proc[p].d.tab[t]>> : t \in Tables}
    \cup {<<p, "page", pg, proc[p].d.pte[pg]>> : pg \in Pages}

AllUses == {u \in UNION {Uses(p) : p \in Procs} : u[4] \in Frames}

Held == {u[4] : u \in AllUses}

\* Every field has its type, and PTEs, tables and lists hold frames.
TypeOK ==
  /\ free \subseteq Frames
  /\ status \in {"run", "panic", "wild"}
  /\ \A p \in Procs :
       /\ proc[p].state \in {"UNUSED", "ALIVE", "ZOMBIE"}
       /\ proc[p].parent \in Procs
       /\ proc[p].sz \in 0 .. PGSIZE * ImagePages
       /\ proc[p].arr \subseteq Frames
       /\ proc[p].map.loaded \in 0 .. MaxLoads
       /\ \A t \in Tables : proc[p].d.tab[t] \in Frames \cup {Absent}
       /\ \A pg \in Pages : proc[p].d.pte[pg] \in Frames \cup {Absent, Page0}

\* A page kalloc handed out has one use until kfree gets it back, whatever
\* failed on the way: it is never on the free list and in use, and never used
\* twice, except as the same page of a MAP_SHARED mapping that fork gave to
\* another process.
OneOwner ==
  /\ free \cap Held = {}
  /\ \A u, v \in AllUses :
       u[4] = v[4] /\ u # v =>
         /\ u[2] = "page" /\ v[2] = "page" /\ u[3] = v[3] /\ u[3] \in Zone
         /\ \A w \in {u, v} : proc[w[1]].map.kind # "private"

\* The image of a live process is there up to p->sz and nowhere else, so that
\* copyuvm finds every page it copies: all of it, or, after sbrk(-sz), which
\* growproc takes for a failure, none.
SizeMapped ==
  \A p \in Procs :
    proc[p].state = "ALIVE" =>
      LET present == {pg \in Image : proc[p].d.pte[pg] # Absent} IN
      present \in {{}, 0 .. PagesOf(proc[p].sz) - 1}

\* Every page is accounted for: free or used once, and the image of a process
\* is as large as p->sz says.
PagesAccounted == TypeOK /\ OneOwner /\ SizeMapped

\* The pages of a child of p: what allocproc takes, the directory with the
\* kernel's tables, and the image and the mapping with a table each.
ChildNeeds(p) ==
  allocprocPages + (1 + NKTAB) + (1 + PagesOf(proc[p].sz))
    + (IF Mapped(p) THEN 1 + ZonePages ELSE 0)

\* The panics of allocproc, fork, copyuvm, kfree and the page-fault handler
\* are only reached with no free page, in a fork with fewer than a child
\* needs, or in a wunmap of physical page 0, which fork maps for a shared page
\* the parent does not have: no order of calls makes copyuvm miss a page of
\* the image or mappages find a page mapped already.
PanicOnlyWhenOut ==
  status = "panic" =>
    \/ free = {}
    \/ /\ \E q \in Procs : proc[q].state = "UNUSED"
       /\ \E p \in Procs : /\ proc[p].state = "ALIVE" /\ proc[p].d.pte[0] # Absent
                           /\ Cardinality(free) < ChildNeeds(p)
    \/ \E p \in Procs : \E pg \in Visited(p) : proc[p].d.pte[pg] = Page0

ZoneFrames(p) == Frees(proc[p].d, Zone)

\* Every path, the failing ones included, gives back what it took, but for
\* what the code abandons: exit the mem_blocks of unused or shared slots, wait
\* and exec the pages above MIN_ADDR, and a fork whose copyuvm fails the
\* wmapinfo and the mem_blocks of the child it gives up.
OnlyKnownLeaks ==
  [][LET lost == (free \cup Held) \ (free \cup Held)'
         exiting == {p \in Procs : proc[p].state = "ALIVE" /\ proc'[p].state = "ZOMBIE"}
         newdir == {p \in Procs : proc[p].d.dir # proc'[p].d.dir}
     IN  IF proc' = proc
         THEN lost = {} \/ lost = kallocs(free, allocprocPages) \ {kalloc(free)}
         ELSE lost \subseteq UNION {proc[p].arr : p \in exiting}
                       \cup UNION {ZoneFrames(p) : p \in newdir}]_vars
=============================================================================
