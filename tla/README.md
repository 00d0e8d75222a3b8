# A TLA+ model of xv6 with wmap

The repository is xv6 for x86 (`src/xv6-public/`), extended with `wmap`, `wunmap`
and `wremap`: lazily loaded, anonymous or file-backed memory mappings. This
directory models the parts of the kernel whose correctness depends on the order
in which things happen, from the disk driver up to the shell, checks them with TLC
on small instances, and proves with TLAPS, for every size, the invariants of the
mapping table, the process table, the log, the buffer cache, the pipe and the
console with its locks, and that the mapping calls, the log and the cache implement
their abstract specifications.

## 1. The system

| Component | State | Operations | Interacts with |
|---|---|---|---|
| mapping table (`sysfile.c`, `proc.h`) | `p->arr`: 16 `mem_block`s; `p->wmapinfo`: parallel arrays, count | `insert_mapping`, `remove_mapping`, the placement loop | the three calls below; `exit` of a child writes the parent's table |
| `wmap`, `wunmap`, `wremap`, page faults (`sysfile.c`, `trap.c`) | the table, the page directory, the open file | one handler each | `mappages`, `kalloc`, `fileread`, `filewrite` |
| pages and address spaces (`kalloc.c`, `vm.c`, `exec.c`, `proc.c`) | free list, page directories, `p->sz` | `sbrk`, `fork`, `exec`, `exit`, `wait`, faults | mappings of parent and child |
| disk, buffer cache, sleep locks (`ide.c`, `bio.c`, `sleeplock.c`) | request queue, LRU list, `refcnt`, `B_DIRTY` | `bget`, `bread`, `bwrite`, `brelse`, `iderw`, `ideintr` | log, inodes |
| log (`log.c`) | `log.outstanding`, `committing`, header in memory and on disk, log blocks | `begin_op`, `log_write`, `end_op`, `commit`, `recover_from_log` | buffer cache, every file-system call |
| inodes, directories, files (`fs.c`, `file.c`, `sysfile.c`, `mkfs.c`) | `icache`, dinodes, bitmap, `ftable`, descriptors | `iget`, `iput`, `namex`, `create`, `open`, `link`, `unlink`, `chdir`, `dup`, `close`, ... | log, cache |
| pipe (`pipe.c`) | ring buffer, counters, open flags | `pipewrite`, `piperead`, `pipeclose` | `sleep`/`wakeup`, `kill`, file table |
| processes (`proc.c`) | `ptable`, states, parents, channels | `fork`, `exit`, `wait`, `kill`, `sleep`, `wakeup`, scheduler | everything |
| spin locks and console (`spinlock.c`, `console.c`) | locks, interrupt flags, `pushcli` depth, input ring | `acquire`, `release`, `consoleintr`, `consoleread`, `cprintf` | scheduler, `exit` |
| shell and init (`sh.c`, `init.c`) | command trees, descriptors, children | parser, `runcmd`, `main` | `fork`, `wait`, `pipe`, `dup`, `close` |

What is hard here: the table is kept in five arrays that must move together
through any sequence of calls; the page-fault handler runs in the middle of other
kernel code (`filewrite` reads a mapping and faults on it); memory can run out at
any allocation of a call; `begin_op` and `end_op` of several processes interleave
with a commit and with crashes; sleeping processes depend on somebody else's
wakeup; `kill` takes a different lock than the code that tests `killed`; `iput`,
`brelse` and `fileclose` give up a lock before they are done; a spin lock is taken
by one thread and released by another across `swtch`.

What makes each component right:

- table: sorted, contiguous, all arrays describing the same mappings;
- mappings: disjoint, inside the user address space; a fault loads one page and
  an unmap removes exactly the pages of the mapping, never one of the program;
- memory: a page has one use, and every failing path gives back what it took;
- cache and disk: one copy of a block, one owner, no write lost, every wait ends;
- log: a transaction reaches the disk whole or not at all, whatever the crash
  point; the reservation covers every operation admitted; nobody sleeps for ever;
- files: references and links are counted, no name or block dangles;
- pipe: a reliable byte stream, no lost wakeup, freed only when unused;
- processes: every zombie is reaped by exactly one parent, no wakeup is lost;
- locks: who is inside a section holds its lock; processors do not wait for each
  other in a circle;
- shell: every program gets its own ends of the pipes, and the prompt comes back
  when the line is done.

## 2. Modules

| Module | Models |
|---|---|
| `WmapTable` | the table as a value, `insert_mapping`, `remove_mapping`, the placement loop as operators on it |
| `Wmap` | one process: `sys_wmap`, `sys_wunmap`, `sys_wremap`, the page-fault case of `trap`, and `ChildExit`, one slot of the loop of `exit` over the parent's table |
| `WmapRegions` | abstract specification: a sorted list of regions, changed one region at a time |
| `WmapRefinement` | the refinement mapping from `Wmap` to `WmapRegions` |
| `WmapProofs`, `ProcProofs`, `LogProofs`, `BufferCacheProofs`, `PipeProofs`, `ConsoleProofs` | theorems (section 5) |
| `NaturalFacts`, `ModuloFacts` | least and greatest elements, and remainders: lemmas the proofs share |
| `Memory` | `kalloc`, `kfree`, page directories, and what `growproc`, `fork`, `exec`, `exit`, `wait`, `wmap`, `wunmap` and faults do with pages |
| `BufferCache` | `bio.c`, the sleep lock of a buffer, the queue and interrupt of `ide.c` |
| `BlockStore` | abstract specification: blocks with one content and one owner |
| `Log` | the log, the part of the buffer cache it relies on, the disk, crashes |
| `AtomicDisk` | abstract specification: a disk that changes atomically |
| `FileSystem` | inodes, directories, path names, the open-file table, descriptors, on the image `mkfs` writes |
| `Pipe` | a pipe with several readers and writers, kills included |
| `Proc` | the process table: `fork`, `exit`, `wait`, `kill`, `sys_sleep`, `wakeup`, the scheduler of each processor, the clock |
| `Spinlock` | `acquire`, `release`, `pushcli`, `popcli` on several processors, as parts of actions |
| `Console` | extends `Spinlock`: the input ring, its interrupt handler and reader, printing, and `sleep`, `sched`, `yield`, `exit` at the level of their locks |
| `Shell` | the parser, the processes of `runcmd`, the loops of `sh` and `init` |
| `MCWmap`, `MCMemory`, ... | one per model: sets of arguments, symmetries and views for the runs |

**WmapTable and Wmap.** An address is an integer below `WORD`, which stands for
2^32 and keeps the proportions of the layout: `MIN_ADDR` is 3/8 and `MAX_ADDR` 1/2
of it, so that an `int` overflows exactly where the user address space ends.
Conversions between `int` and `uint` are `AsInt` and `AsUint`. What the code does
with one slot in a loop is an operator on the whole array (`OpenGap`,
`CloseGap`); both keep the slots the loops leave alone, such as the last one when
a full table shrinks, and the entry of `n_loaded_pages` in the slot opened.
`arr[16]`, which `wremap` reads for the last mapping, is the pointer that follows
the array (`NextBlock`). The overflow in the loop bound of `wunmap` is undefined
behaviour; the model lets the loop run in full or not at all (`Visited`).
Each handler runs alone in its process and is one step. A page fault inside a
handler is part of that handler's step: `WriteBack` computes which pages of the
mapping are missing and what serving them does. `status` is `"hung"` where the
process waits for a lock it holds itself or repeats a fault for ever.
`MemOutcomes` are the failures of `kalloc`: no frame for the page, or no page for
a page table, be it that of the first page (`FaultUnmapped`) or, at an unaligned
address, of the second (`FaultHalfMapped`). A fault nested in a write-back has the
same outcomes (`AfterFaults`). `ChildExit` comes between any two calls of the
parent; a decrement inside one of them is not modelled. The table is at first the
empty one of `allocproc`; the copy that `fork` makes is not a start state, and with
mappings that are neither private nor shared, which it leaves out, it has holes. A fault outside every mapping prints and changes
nothing, so it is a stuttering step. Calls that return an error change nothing and
have no action.

**Memory.** A page directory is its frame, the frames of its page tables and the
function from pages to frames. A process has an image of up to `ImagePages` pages
and at most one mapping, of all of `Zone`, private or shared. Each call is one
step, made of the allocations the code makes in their order, any of which may
find the free list empty; `exec` may fail after any of them for another reason (its
file or its arguments). `status` is `"panic"` after one of the kernel's panics
and `"wild"` after a read through a PTE that does not exist.

**BufferCache.** A section under `bcache.lock`, `idelock` or the spin lock of a
sleep lock is one step; `sleep` takes `ptable.lock` before it lets go of such a
lock, so deciding to sleep and sleeping are one step. `brelse` is two: it unlocks,
then drops its reference. The drive's interrupt may report an error (`ideintr`),
after which the buffer is marked valid all the same. `log_write` stands for the
log's pinning of up to `MaxPinned` blocks. A process has one block at a time;
`install_trans`, `write_log` and `bmap` have two (log.c:75, 183), always of
different kinds and in the same order, which `EveryWaitEnds` does not cover. The
panics for a buffer that is not locked (bio.c:112, 123; ide.c:142) have no step: a
caller writes and releases only what it has locked.

**Log.** A process is between calls, asleep in `begin_op`, in an operation,
between the test and the append of `log_write`, or committing. `log_write` is two
steps because it tests for space before it takes `log.lock`. Each block written to
disk is a step, so a crash can fall between any two: `write_log` and
`install_trans` move `tail` one block at a time. `Crash` clears everything in
memory and starts `read_head`. A block's contents are a model value; `evict` is
the recycling of a clean, unused buffer by `bget`.

**FileSystem.** What a process does between taking an inode's sleep lock and
releasing it is one step, unless it needs a second lock in between; `iput` is four
(lock, free, invalidate, drop), and a call is the sequence of such steps that
`run[p]` records. A directory is the function from names to inode numbers that its
entries amount to. An inode has one block: the indirect blocks of `bmap` and `itrunc`
(fs.c:384, 421) have no counterpart, `filewrite` is one chunk, which `writei` writes
in full, and it writes to files without a block yet. The inode cache (`fs.in`, `fs.ref`) and the disk (`fs.dinode`,
`fs.bitmap`) are separate, so that a stale copy would show. `fork` and `exit` copy
and drop descriptors and the current directory.

**Pipe.** `p->lock` is held from one sleep to the next, so a call is a sequence of
segments, each from taking the lock to the return or to the decision to sleep.
`sleep` is a step of its own: `kill` holds `ptable.lock` only and can come in
between. `pipeclose` is one step with the drop of the last reference in `fileclose`
before it: between the two nobody can reach the pipe through that end. Bytes are
positions in the stream modulo `STREAM`, and `nread`, `nwrite` wrap at `WORD`.

**Proc.** Slots, pids, parents, channels and states are those of `struct proc`;
`cpu` is the process each processor runs. A section under `ptable.lock` is one
step, up to its release or the switch into the scheduler. `fork` is three:
`allocproc` claims a slot under the lock, what follows runs without it and may
fail (`fork_fail`), and `fork_run` takes the lock again. `sys_sleep` holds
`tickslock` from its test to `sleep`, so `timer` on processor 0 waits meanwhile,
and a process that holds or spins for the lock is not interrupted
(`InterruptsOff`), but `kill` comes in between. `timer` is the whole interrupt: the
tick with its wakeup (trap.c:53) and the `yield` of the process interrupted
(trap.c:163), between which that processor does nothing else. `init` forks and
waits: it never sleeps for ticks or exits, and is not a target of `kill`, since its
exit panics.

**Spinlock and Console.** The finest grain: a step is a segment of a thread up to
its next operation on a lock, and `acquire` first turns interrupts off and says
what it wants, then spins. The keyboard handler runs on top of whatever thread it
interrupted on `IntrCpu`, and only when the interrupt flag is set. `swtch` moves a
processor between a process and its scheduler with `ptable.lock` held. Coarser than
the code: `pushcli` reads the flags and turns interrupts off in one step (the file
TRICKS argues that an interrupt in between does no harm); a process is preempted in
user mode only, although trap.c:163 also interrupts kernel code that holds no lock;
a process starts as if it came from `yield`, not through `forkret`; `exit` prints
once, not twice; and `^U` does not stop at a newline (console.c:205), which it never
meets, since a newline ends the line being edited.

**Shell.** A line is a sequence of tokens. The parser is translated function by
function; the grammar it is compared with (`GrammarLine`) is stated separately,
as the set of commands a sequence of tokens can be read as. `runcmd` gives a
process a list of system calls, one step each; `fork`, `pipe`, `open` and `exec` may
fail at any time. `cd` is the shell's own: it prompts again, and what `chdir` does is
in `FileSystem`. The programs started are filters
that read their input to its end. `loose` marks the processes nobody waits for:
those behind `&`, and those of a command whose second `fork` failed.

`PROJECT.json` names the source lines of every definition.

## 3. Runs

| Run | Checks | Bounds |
|---|---|---|
| `wmap_table` | `TableInStep`, `SortedStarts`, `RegionsSpec` | 3 slots, all of which fill up, three pages of addresses, one child exits slot by slot |
| `wmap_pages` | `InPlace`, `OverlapOnlyFixed` | 2 mappings in 3 slots, 4 accesses, three of them unaligned, all failures of `kalloc` |
| `wmap_append` | `LoadedCount`, `UnmapClears` | mappings of at most two pages, placed by the kernel, no `wremap`, aligned accesses |
| `memory` | `PagesAccounted`, `PanicOnlyWhenOut`, `OnlyKnownLeaks` | 2 processes, 20 pages, images of up to 3 and mappings of 2 pages |
| `buffer_cache` | `CacheConsistent`, `RequestOwned`, `BlockStoreSpec`, `EveryWaitEnds` | 2 processes, 3 blocks, 2 buffers, 1 of them pinned |
| `log_crash` | `LogConsistent`, `AtomicDiskSpec` | 2 processes, 3 blocks, 2 values, any number of crashes |
| `log_live` | `NoPanic`, `Woken`, `Settles` | 3 processes, as many blocks as the log holds |
| `file_system` | `InodesConsistent`, `DiskConsistent`, `OnlyIputDeadlocks`, `PanicsAreKnown` | 2 processes, 3 inodes, as many cache entries and blocks, 1 open file, 2 names; one process creates, links, removes and writes, the other opens, duplicates, closes and walks |
| `pipe` | `StreamIntact`, `NoLostWakeup`, `FreedUnused`, `CallsEnd` | 1 reader, 2 writers, a buffer of 2, counters modulo 4, 3 bytes, one kill |
| `proc` | `OneProcessor`, `EmbryoOwned`, `ChildrenAwaited`, `KilledDies`, `OrphansReaped` | 3 slots, 2 processors, pids up to 3, a clock that wraps |
| `console` | `LocksHeld`, `KeepsInterruptFlag`, `ReaderServed`, `OnlyExitDeadlocks` | 2 processors, a reader and another process, a ring of 2, indices modulo 4 |
| `shell` | `ParsesGrammar`, `StdioWired`, `PromptMeansDone`, `PromptsAgain` | 6 processes, every line of up to 4 tokens and five longer ones, every word of a line different |

Several of these are conjunctions of invariants that are stated one by one in the
module:

| Invariant | Conjuncts |
|---|---|
| `InPlace` (`Wmap`) | `TypeOK`; `NoGhost`: no slot behind the prefix is valid; `ImageIntact`: unmapping takes no page of the program |
| `PagesAccounted` (`Memory`) | `TypeOK`; `OneOwner`: a page has one use, unless `fork` shared it; `SizeMapped`: the image is mapped up to `p->sz` |
| `CacheConsistent` (`BufferCache`) | `TypeOK`; `OneCopy`: a block is in one buffer; `CleanIsOnDisk`: while the drive reports no error, a valid buffer without `B_DIRTY` is what the disk holds; `PanicOnlyWhenFull`: `bget` gives up only when no buffer can be recycled |
| `LogConsistent` (`Log`) | `TypeOK`; `CommitExcludesOps`: no operation runs during a commit; `SleeperHasWaker`: who sleeps in `begin_op` will be woken by someone; `DurableWhenQuiet`: with no operation and no commit in progress, recovery would find what memory holds |
| `InodesConsistent` (`FileSystem`) | `TypeOK`; `RefsCounted`: reference counts equal the references; `CacheIsCurrent`: a valid cached inode that nobody has locked is the one on disk |
| `DiskConsistent` (`FileSystem`) | `NoDanglingName`: names lead to allocated inodes, which count at least these names; `BlocksOwnedOnce`: the bitmap and the inodes agree on who has a block |
| `StreamIntact`, `CallsEnd` (`Pipe`) | `TypeOK` and `InOrder`; `ReadEnds` and `WriteEnds` |
| `ChildrenAwaited` (`Proc`) | `ParentAlive`: the parent of every child, zombies included, is alive; `WaitNotMissed`: a parent asleep in `wait` has a child, no zombie among them, and is not killed |
| `LocksHeld` (`Console`) | `TypeOK`; `LockedInside`: who is in a section holds its lock; `CliMatched`: the `pushcli` depth counts the locks held or spun for, and interrupts are off meanwhile; `NoPanic` |
| `ReaderServed` (`Console`) | `RingHoldsLines`: between the indices are the bytes typed and not yet read; `NoLostWakeup`: the reader does not sleep on a finished line |

Why the bounds are enough. Three slots give an insertion in front, between and
behind, a full table, and a removal with one and with two slots to shift; a
fourth repeats these. Two flag combinations tell apart what the code tells apart
(anonymous or file, fixed or not). In `memory`, 20 pages are fewer than two
processes with image and mapping need, so that every allocation of every call
fails somewhere; pages are interchangeable, and the view `Shape` says so. Two
buffers for three blocks make every hit, miss and recycling happen, and two
processes every race of `brelse` and `bget`; the writes to one block are followed,
since all blocks are treated alike. The log's interesting cases need two
processes, so that one waits while the other commits, and a header of at least
two blocks, so that a crash can fall in the middle; there is no bound on crashes.
The log of the runs holds as many blocks as three operations may fill, one less
than `LOGSIZE`, as on a disk made by `mkfs`. In the file system two processes are
the smallest number for a race between a lookup and the last `iput`; inodes and open
files run out. Blocks and cache entries do not, there are as many as inodes: with one
block less, or one entry less, their panics are reached and the properties hold too,
but fewer calls get as far as a race. In the pipe two writers are the
smallest number at which a wakeup reaches the wrong one, and counters that wrap
after two buffers make every alignment of the ring happen. In `proc` three slots
give a process that exits while its child is a zombie and `init` waits, and two
processors forks, kills and exits that run at the same time; two forks that fill
two slots at once need a fourth pid and are covered by the proofs of section 5
only. In the console a ring of two bytes is empty, partly and completely full
within a line, with indices that wrap after two rings. In the shell four tokens
give every pair of operators, and the longer lines a pipeline of three, nested
blocks, redirections on both sides and jobs in the background, and six slots are
enough to run each of them. A word is named for its place in the line, so that two
arguments, or an argument and a file, cannot be mixed up unseen.

Deadlock is not checked where the system may stop: a panicked kernel (`Wmap`,
`Memory`, `BufferCache`, `FileSystem`, `Shell`), a pipe everybody has closed, and
`Console` and `FileSystem`, whose own properties say which deadlocks happen. It is
checked for `Log` and `Proc`.

Each property is guarded by a faulty variant of one definition (listed as
`mutants`): with it TLC finds the property violated.

### Where the code departs from what one expects of it

The models contain what the code does, so some properties hold only with an
exception, which the property names or the bounds exclude:

| Source | What happens | Where it shows |
|---|---|---|
| sysfile.c:639 | only ends strictly inside an old mapping are refused, so `MAP_FIXED` accepts an equal or an enclosing mapping (sysfile.c:638 asks "will this mapping overlap with an existing one?") | `OverlapOnlyFixed` excepts `MAP_FIXED` |
| sysfile.c:742 | the write-back of `wunmap` reads a page never touched, and the fault handler waits for the inode lock the write holds | status `"hung"` of `Wmap` |
| sysfile.c:566 | removing from a full table leaves a second copy of the last mapping, on which later placements and unmaps stumble | `wmap_pages` and `wmap_append` keep a slot free |
| proc.c:533 | every child's exit lowers the references of all of the parent's mappings, after which `wunmap` and `wremap` keep entries they should remove | `wmap_pages`, `wmap_append` have no child; `wmap_table` has one |
| trap.c:113 | at an unaligned address, when only the second page lacks a page table, the frame is freed although the first page stays mapped to it | `FaultHalfMapped` of `Wmap`; `Memory`, which would see the frame used twice, has aligned accesses only |
| sysfile.c:517, 670, 690, 885; trap.c:111 | a page count left in a slot by `insert_mapping`; gaps never reused; mappings past `MAX_ADDR`; moved mappings that end a byte short; two pages mapped by an unaligned fault; pages behind a hole that `wunmap` leaves mapped | bounds of `wmap_append`, for which `LoadedCount` and `UnmapClears` are checked |
| proc.c:397 | a shared page has no count of its users: the first `wunmap` frees it under the other process | `UnmapsShared` is `FALSE` in `memory` |
| proc.c:357, 397 | `fork` with a mapping of which some page was never touched reads through a PTE that is not there, or maps physical page 0 | status `"wild"`; the last case of `PanicOnlyWhenOut` |
| proc.c:304, 529; vm.c:284; exec.c:103 | a `fork` whose `copyuvm` fails keeps the child's `wmapinfo` and `mem_block`s; `exit` keeps `mem_block`s of unused slots; `wait` and `exec` lose the pages above `MIN_ADDR` | `OnlyKnownLeaks` lists them |
| log.c:218 | `begin_op` reserves for `LOGSIZE` blocks (param.h:11 "max data blocks in on-disk log"), but the log on disk has one less for its header; operations that use exactly their reservation panic | operations of `log_live` write fewer than `MAXOPBLOCKS` |
| fs.c:335 | of two concurrent `iput`s of an inode without links both may see two references, and neither frees it, although fs.c:327 says "If that was the last reference and the inode has no links to it, free the inode" | `InodesConsistent` and `DiskConsistent` do not ask for it |
| fs.c:334, sysfile.c:227 | `iput` locks the inode; `unlink` does so with the child locked, and a process on its way down waits for the child with the parent locked | `OnlyIputDeadlocks` |
| sysfile.c:224 | a process whose current directory was removed together with its parent has a `..` that dangles; using it panics or enters a reused inode | excluded from `file_system` by its calls |
| proc.c:96, 307, 760 | a slot given back by a failed fork keeps its pid; a kill of that pid marks the slot, and the next process in it starts killed | `KilledDies` asks only that what is marked dies |
| pipe.c:86, 107 | a process killed between its test and its sleep sleeps until another wakeup | `NoLostWakeup` of `Pipe` is stated without a kill |
| proc.c:536 | `exit` prints with `ptable.lock` held while the keyboard handler wakes with `cons.lock` held: two processors spin for ever | `OnlyExitDeadlocks` |
| init.c:25 | `init` exits when its `fork` fails, which panics | `panicked` of `Shell`; `PromptsAgain` excepts it |

## 4. Fairness

Liveness is checked under what the code's scheduling gives:

- `Log`: a woken process, one that holds a buffer, the committer and recovery are
  runnable and run on (weak fairness). An operation makes finitely many writes and
  ends: `end_op` is strongly fair, because it alternates with writes. Nothing is
  assumed of `begin_op` of a new operation, of `evict` or of `Crash`; `Settles`
  assumes crashes stop.
- `Pipe`: a process inside a call that is not asleep runs on. Strong fairness of
  `pipewrite` and `piperead` stands for a spinlock that a process does not lose for
  ever. Nothing is assumed of starting a call, closing or killing.
- `Proc`: the clock interrupts every processor (weak fairness of `timer`). The loop
  of `scheduler` passes over every slot, so a process that is runnable again and
  again is run (strong fairness). A process inside the kernel that runs again and
  again takes its next step (strong fairness of `Kernel`): the clock interrupts it,
  but a time slice is long enough for a step. `init` calls `wait` in a loop
  (init.c). Nothing is assumed of what other processes do in user space.
- `BufferCache`: the drive answers every request, a process that is runnable in
  the kernel runs on, and a caller that has a block gives it back in the end
  (`brelse` is strongly fair, because it alternates with writes). Nothing is
  assumed of asking for a block.
- `Shell`: every process that can take a step takes it (weak fairness of `Step`,
  `startsh` and `reap`): filters end when their input does, `init` restarts the
  shell and reaps. `exec` of `sh` does not fail for ever (strong fairness of
  `execsh`): the program exists, and memory comes back. Nobody has to type.

## 5. Proofs

### Mappings

`WmapProofs` proves, for every number of slots, page size, address space and every
set of arguments allowed by `TableAssumption` and `WmapAssumption`:

- `TypeCorrect`: `Spec => []TypeOK`;
- `AlwaysInStep`: `Spec => []TableInStep`;
- `AlwaysSorted`: `Spec => []SortedStarts`;
- `WmapImplementsRegions`: `Spec => RegionsSpec`.

None of the three invariants is inductive alone: to insert in sorted order the searched
prefix must be sorted and typed; `remove_mapping` searches all valid slots, and
that it removes inside the prefix follows from the prefix being valid; the table's
count stays in its type because a mapping that is removed was counted. The
inductive invariant is their conjunction, `Inv`. `Invariance` follows from
`InitInv` and one lemma per handler (`WmapInv`, `WremapInv`, `PageFaultInv`,
`WunmapInv`, `ChildExitInv`), which rest on `InsertKeeps` and
`RemoveKeeps`: they say that the two editing functions keep a typed, consistent, sorted
table so, from `InsertIdxPosition` (the loop of `insert_mapping` stops at the
right place), `OpenGapType`, `CloseGapType`, and least and greatest elements of
sets of naturals (`NatMin`, `NatMax`).

For the refinement, `ListOf` is the list of regions of a table, and the invariant is
extended by `Regional`: the mappings in use have the lengths, flags and descriptor of
some call, so that what `wremap` puts back is again a region. `InsertRegion` and
`RemoveRegion` say what the two editing functions do to the list; `RemapsRemoved`,
that the entry whose flags and descriptor `sys_wremap` keeps is the one
`remove_mapping` then takes out, although the two search differently. After a
child's exit a mapping may have a count other than one: then `wunmap` changes only
the count, and `wremap` adds a region without taking the old one away, which is a
`Map` step of the list.

The assumptions are only that sizes are positive, that `WORD` is a multiple of
eight, and that arguments are addresses, integers and flags.

### Processes

`ProcProofs` proves, for any number of slots, processors, ticks and pids:

- `TypeCorrect`: `Spec => []TypeOK`;
- `AlwaysOneProcessor`: `Spec => []OneProcessor`;
- `AlwaysEmbryoOwned`: `Spec => []EmbryoOwned`;
- `AlwaysChildrenAwaited`: `Spec => []ChildrenAwaited`.

`OneProcessor` alone is not inductive: `fork_run` and `fork_fail` overwrite the
state of the slot the fork remembers, which is harmless only while that slot is
still the embryo of this fork. `EmbryoOwned` says so, and is kept because
`allocproc` takes unused slots only and `wakeup1`, `kill`, `wait` and `exit` leave
embryos alone. `Inv` is the conjunction of the three. There is one lemma per action
(`SchedulerInv`, `TimerInv`, `GotoInv`, `AllocprocInv`, `ForkEndInv`, ...), each
resting on what its kind of step does: `ProcessorsStay` (no process starts or
stops), `ProcessorLeft` (one process gives up its processor), `EmbryosStay` (no
fork starts or ends), `WakeupSleepers` (what `wakeup1` may change) and `FirstSlot`
(the scan finds a slot of the set it looks for).

`ChildrenAwaited` rests on a second invariant, `Family`, proved on top of `Inv`:
`InitLives` (`init` is alive, not killed and not about to exit), `Lineage` (nobody
is its own parent, an unused slot has no parent, and the embryo of a fork has none
until the fork is about to end), `ParentAlive` and `WaitNotMissed`. `exit` marks the
zombie, hands its children to `init` and wakes parent and `init` in one section,
which is why the last two are kept; without `Lineage`, `fork_run` could make a child
of a process that waits, and a reused slot could have an old parent.

### Log

`LogProofs` proves, for any number of processes, blocks and values and any number
of crashes:

- `Consistent`: `Spec => []LogConsistent`;
- `ReservationSuffices`: `Spec => []NoPanic`;
- `LogImplementsAtomicDisk`: `Spec => AtomicDiskSpec`.

Each has the hypothesis `Reserved`: an operation writes fewer than `MAXOPBLOCKS`
blocks, the log has room for more than one operation, and the log on disk has at
least `LOGSIZE - 1` blocks. `mkfs` gives `LOGSIZE - 1` with `LOGSIZE` 30 and
`MAXOPBLOCKS` 10; with operations that use all of their reservation `NoPanic` is
false (section 3). The inductive invariant is `TypeOK` with

- `Control`: where processes, the committer and recovery can be at the same time;
- `Loops`: how far `write_log` and `install_trans` are, and what the header on disk
  is at that point;
- `Contained`: what the cache, the log and the home blocks hold: the cache differs
  from the disk only in blocks that are logged or about to be, the log has what
  `write_log` has copied, the home blocks what `install_trans` has copied;
- `Space`: the header and what active operations may still write fit in the log.
  An operation that is alone needs a case of its own, since `begin_op` may have
  admitted it together with others that have ended.

The refinement maps the disk to what recovery would make of it (`Recovered`): only
`write_head`, the commit point, and the crash change it or what memory holds. Each
kind of step has its lemma (`RefinesWrite`, `RefinesCommit`, `RefinesCrash`, ...).

### Buffer cache

`BufferCacheProofs` proves, for any finite set of processes, any blocks and
contents, any number of buffers and any `MaxPinned`:

- `AlwaysCacheConsistent`: `Spec => []CacheConsistent`;
- `AlwaysRequestOwned`: `Spec => []RequestOwned`;
- `CacheImplementsBlockStore`: `Spec => BlockStoreSpec`.

`Inv` has one predicate per reason: `References` (`refcnt` counts the processes
between `bget` and the end of `brelse`, so a buffer with none is locked by nobody
and in no request, `UnusedFree`), `Locked` (the holder of a sleep lock is the
process that uses the buffer), `Flags` and `Stages` (what `B_VALID` and `B_DIRTY`
are at each point of `bread`, `bwrite` and `iderw`), `Pending`, `Owned` and `Asleep`
(requests and sleepers match, one to one), `Driven` (the drive has the data of the
first request), `Copies` (one buffer per block, clean buffers equal the disk). One
lemma per action shows it kept (`HitInv`, `RecycleInv`, `AcquireInv`, `RequestInv`,
`WriteInv`, `InterruptInv`, `ReleaseInv`, `UnrefInv`, ...). Processes are finite in
number because `refcnt` counts them.

For the refinement, `Mapped` says that the content of a block is in its only valid
buffer or else on the disk, and its owner the holder of that buffer's lock. Then
`acquiresleep` gets the block, `bwrite` and `log_write` put, `brelse` releases, and
everything else changes neither content nor owner: recycling because the victim is
clean and unlocked, the interrupt because a write brings to the disk what the
buffer held. A step in or after which the drive has failed is the store's `Fail`.

### Pipe

`PipeProofs` proves, for any sets of readers and writers, any sizes allowed by
`PipeAssumption`, in which `PIPESIZE` divides the range of the counters:

- `AlwaysStreamIntact`: `Spec => []StreamIntact`;
- `AlwaysNoLostWakeup`: `Spec => []NoLostWakeup`;
- `AlwaysFreedUnused`: `Spec => []FreedUnused`.

The inductive invariant adds to `TypeOK` and `InOrder` who may be in which call
while which end is open (`Roles`), and what a sleeper and a process about to sleep
know of the buffer (`Sleepers`). The arithmetic is in lemmas about the counters:
their difference modulo `WORD` is the number of bytes held, and two different
positions of the stream that are both in the buffer have different slots.

### Console

`ConsoleProofs` proves, for any sets of processors and processes, any size of the
ring that divides the range of its indices, any characters and any `MaxRead`:

- `AlwaysLocksHeld`: `Spec => []LocksHeld`;
- `AlwaysKeepsInterruptFlag`: `Spec => []KeepsInterruptFlag`;
- `AlwaysReaderServed`: `Spec => []ReaderServed`;
- `AlwaysOnlyExitDeadlocks`: `Spec => []OnlyExitDeadlocks`.

None is inductive alone. A lock is acquired by one thread and released by another
(the scheduler takes `ptable.lock`, the process it switches to gives it back), so who
holds what must be read off from where every thread is. `Inv` is the conjunction of

- `Held`: the locks a processor holds or spins for are those of the label its thread
  is at and of the handler on top of it (`Places`), `ncli` is their number, and with
  one of them interrupts are off;
- `Threading`: a processor runs its scheduler or one process, nobody else runs that
  process, and a process that does not run is inside `sched`; this is what makes the
  lock that `sched` leaves behind the one the next thread expects;
- `Handler`: the handler runs only on top of code that holds no lock, which is why
  it cannot meet its own processor's lock in `acquire` and panic;
- `FlagsKept`: what `IF` is in user mode and on the way back from `sleep`, that the
  reader's sections were entered with interrupts on, and that `saved`, the `intena`
  of `sched`'s frame, still says so when it is put back;
- `Sleeps`: the reader goes to sleep on an empty ring, or the handler has finished a
  line and is about to wake it;
- `Ring`: the bytes from `r` to `w` are the lines not read and those from `w` to `e`
  the line being typed.

There is one lemma per action; those that take or give back a lock rest on
`AcquireCore` and `ReleaseCore` (a thread), `HandlerAcquireCore` and
`HandlerReleaseCore` (the handler) and `SchedInv` (the change of threads). The ring
rests on `TakeByteRing`, `EditRing`, `CommitRing` and `EraseRing`, and these on
lemmas about remainders in `ModuloFacts`, which the pipe uses too. The number of
locks a processor holds is at most two, and `Cardinality` of such sets is proved from
its definition (`CountLocks`, `CountMore`, `CountLess`).

### Only model-checked

- Liveness (`Woken`, `Settles`, `EveryWaitEnds`, `CallsEnd`, `KilledDies`,
  `OrphansReaped`, `PromptsAgain`): fairness is out of the prover's reach.
- `InPlace`, `OverlapOnlyFixed`, `LoadedCount`, `UnmapClears`: they hold only for
  the programs to which the constants of their runs restrict the calls.
- `Shell`: its parser is recursive, and what a recursive definition computes for
  every input cannot be proved here.
- `Memory`: `allocuvm`, `copyuvm` and `ForkMaps` loop over pages, as recursive
  functions of the page number inside one step; that such a loop keeps
  `PagesAccounted` for every size is induction over data.
- `FileSystem`: no proof has been attempted. `RefsCounted` and `NoDanglingName`
  compare counters with cardinalities over three tables and the calls in progress,
  so every section of every call needs its own counting argument. TLC checks them
  on the instances of section 3 only.

## 6. Not modelled

- Contents: the bytes of files and pages, file offsets except in a mapping's
  write-back, and what `getwmapinfo`, `getpgdirinfo` and `fstat` read.
- Combinations: a mapping's descriptor that is closed or reused before `wunmap`
  (`Wmap` has one file, open all the time), a pipe read into a mapping, the
  mapping tables of two processes at once beyond the one mapping of `Memory`.
- In the file system: files and directories of more than one block, devices'
  read and write, and a crash in the middle of a call, which is `Log`'s subject.
- `pipealloc` and its failures; fetching system-call arguments; loading an ELF
  file and building `argv` in `exec`; segments and control registers.
- Device registers (`lapic.c`, `ioapic.c`, `uart.c`, `mp.c`, the ports of `ide.c`
  and `kbd.c`), boot code, assembly, string functions, `printf`, `umalloc` and the
  remaining user programs: sequential code, or code whose state is the hardware's.

## 7. Plan

Next: `OneOwner` of `Memory` with one step per page of its loops, which removes the induction,
then the composition of `Wmap` with `FileSystem` (descriptors behind mappings).
