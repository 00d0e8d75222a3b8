----------------------------- MODULE BufferCache ----------------------------
(***************************************************************************)
(* The buffer cache (bio.c), the sleep lock of each buffer (sleeplock.c)   *)
(* and the disk driver below it (ide.c): processes that get, write and     *)
(* release blocks, the queue of requests, and the drive's interrupt.       *)
(*                                                                         *)
(* bcache.lock, the spin lock inside a sleep lock and idelock are held for *)
(* one step each.  sleep() takes ptable.lock before it lets go of such a   *)
(* lock, so deciding to sleep and sleeping are one step.  A caller has one *)
(* block at a time.                                                        *)
(***************************************************************************)
EXTENDS Integers, FiniteSets, Sequences

CONSTANTS
  Procs,
  Blocks,
  DataOf(_),    \* contents a block may have
  NBUF,         \* buffers in the cache
  Nobody,       \* no process, no block, no data
  MaxPinned     \* blocks the log keeps dirty in the cache at any time

Data == UNION {DataOf(k) : k \in Blocks}

ASSUME BufferCacheAssumption ==
  /\ IsFiniteSet(Procs)
  /\ \A k \in Blocks : DataOf(k) # {}
  /\ Nobody \notin Procs \cup Blocks \cup Data
  /\ NBUF \in Nat \ {0} /\ MaxPinned \in Nat

Bufs == 1 .. NBUF

VARIABLES
  lru,        \* the list from bcache.head.next on: most recently used first
  buf,        \* blockno, refcnt and the flags and data of every buffer
  lock,       \* the sleep lock of every buffer: its holder, or Nobody
  idequeue,
  drive,      \* data sent to the drive for the request it works on
  disk,
  pc, has,    \* where each process is, and the buffer it refers to
  failed,     \* the drive has reported an error
  panicked

cache == <<lru, buf>>
device == <<idequeue, drive, disk, failed>>
vars == <<cache, lock, device, pc, has, panicked>>

Init ==
  /\ lru = [i \in Bufs |-> NBUF + 1 - i]
  /\ buf = [b \in Bufs |-> [blockno |-> Nobody, refcnt |-> 0, valid |-> FALSE,
                            dirty |-> FALSE, data |-> Nobody]]
  /\ disk = [k \in Blocks |-> CHOOSE d \in DataOf(k) : TRUE]
  /\ lock = [b \in Bufs |-> Nobody]
  /\ idequeue = <<>>
  /\ drive = Nobody
  /\ pc = [p \in Procs |-> "idle"]
  /\ has = [p \in Procs |-> 0]
  /\ failed = FALSE
  /\ panicked = FALSE

Goto(p, l) == pc' = [pc EXCEPT ![p] = l]

-----------------------------------------------------------------------------
(* bget *)

Cached(k) == {b \in Bufs : buf[b].blockno = k}

\* Faulty variant: forgets that the log keeps dirty blocks in the cache.
UnusedIgnoringLog == {b \in Bufs : buf[b].refcnt = 0}

Unused == {b \in Bufs : buf[b].refcnt = 0 /\ ~ buf[b].dirty}

\* The unused buffer nearest the end of the list.
Victim == lru[CHOOSE i \in Bufs :
                lru[i] \in Unused /\ \A j \in Bufs : lru[j] \in Unused => j <= i]

Recycled(b, k) ==
  [b EXCEPT !.blockno = k, !.refcnt = 1, !.valid = FALSE, !.dirty = FALSE]

bgetHit(p, k) ==
  \E b \in Cached(k) :
    /\ buf' = [buf EXCEPT ![b].refcnt = @ + 1]
    /\ has' = [has EXCEPT ![p] = b]
    /\ Goto(p, "acquiresleep")
    /\ UNCHANGED panicked

bgetRecycle(p, k) ==
  /\ Cached(k) = {}
  /\ Unused # {}
  /\ buf' = [buf EXCEPT ![Victim] = Recycled(@, k)]
  /\ has' = [has EXCEPT ![p] = Victim]
  /\ Goto(p, "acquiresleep")
  /\ UNCHANGED panicked

bgetPanic(k) ==
  /\ Cached(k) = {}
  /\ Unused = {}
  /\ panicked' = TRUE
  /\ UNCHANGED <<buf, has, pc>>

bget(p, k) ==
  /\ pc[p] = "idle"
  /\ bgetHit(p, k) \/ bgetRecycle(p, k) \/ bgetPanic(k)
  /\ UNCHANGED <<lru, lock, device>>

-----------------------------------------------------------------------------
(* Sleep locks *)

\* bread goes on to the disk when the block has not been read yet.
acquiresleep(p) ==
  LET b == has[p] IN
  /\ pc[p] = "acquiresleep"
  /\ \/ /\ lock[b] = Nobody
        /\ lock' = [lock EXCEPT ![b] = p]
        /\ Goto(p, IF buf[b].valid THEN "use" ELSE "iderw")
     \/ /\ lock[b] # Nobody
        /\ Goto(p, "sleep lock")
        /\ UNCHANGED lock
  /\ UNCHANGED <<cache, device, has, panicked>>

\* Faulty variant: wakes nobody.
WakeNone(b, pcs) == pcs

\* wakeup(lk) for the lock of b.
WakeLock(b, pcs) ==
  [p \in Procs |-> IF pcs[p] = "sleep lock" /\ has[p] = b
                   THEN "acquiresleep" ELSE pcs[p]]

\* wakeup(b), the channel iderw sleeps on.
WakeIO(b, pcs) ==
  [p \in Procs |-> IF pcs[p] = "sleep io" /\ has[p] = b
                   THEN "io done" ELSE pcs[p]]

-----------------------------------------------------------------------------
(* The disk driver *)

\* What idestart sends with the command: the data of a write.
idestart(b) == IF buf[b].dirty THEN buf[b].data ELSE Nobody

\* Append the request, start the drive when it was idle, and sleep.
iderw(p) ==
  LET b == has[p] IN
  /\ pc[p] = "iderw"
  /\ idequeue' = Append(idequeue, b)
  /\ drive' = IF idequeue = <<>> THEN idestart(b) ELSE drive
  /\ Goto(p, "sleep io")
  /\ UNCHANGED <<cache, lock, disk, has, failed, panicked>>

\* Woken: iderw looks at the flags again.
iderwCheck(p) ==
  LET b == has[p] IN
  /\ pc[p] = "io done"
  /\ Goto(p, IF buf[b].valid /\ ~ buf[b].dirty THEN "use" ELSE "sleep io")
  /\ UNCHANGED <<cache, lock, device, has, panicked>>

\* Faulty variant: goes on as if the next request were a read.
NextRequestReads(q) == Nobody

\* The drive goes on with the next request.
NextRequest(q) == IF q = <<>> THEN Nobody ELSE idestart(Head(q))

\* The drive has served the first request or given up on it.  Only a read
\* looks at the error, and then keeps the old bytes; the flags say "valid" and
\* "clean" in either case.
ideintr(ok) ==
  LET b == Head(idequeue)
      k == buf[b].blockno
  IN
  /\ idequeue # <<>>
  /\ idequeue' = Tail(idequeue)
  /\ disk' = IF ok /\ buf[b].dirty THEN [disk EXCEPT ![k] = drive] ELSE disk
  /\ buf' = [buf EXCEPT ![b] =
               [@ EXCEPT !.data = IF ok /\ ~ buf[b].dirty THEN disk[k]
                                  ELSE buf[b].data,
                         !.valid = TRUE, !.dirty = FALSE]]
  /\ failed' = (failed \/ ~ ok)
  /\ pc' = WakeIO(b, pc)
  /\ drive' = NextRequest(Tail(idequeue))
  /\ UNCHANGED <<lru, lock, has, panicked>>

-----------------------------------------------------------------------------
(* A process that has a block *)

\* Change the data and write it through.
bwrite(p, k, d) ==
  LET b == has[p] IN
  /\ pc[p] = "use"
  /\ buf[b].blockno = k
  /\ buf' = [buf EXCEPT ![b].data = d, ![b].dirty = TRUE]
  /\ Goto(p, "iderw")
  /\ UNCHANGED <<lru, lock, device, has, panicked>>

\* Change the data and leave it to the log, which marks the buffer dirty so
\* that it stays in the cache until the commit writes it with bwrite.
log_write(p, k, d) ==
  LET b == has[p] IN
  /\ pc[p] = "use"
  /\ buf[b].blockno = k
  /\ Cardinality({c \in Bufs \ {b} : buf[c].dirty}) < MaxPinned
  /\ buf' = [buf EXCEPT ![b].data = d, ![b].dirty = TRUE]
  /\ UNCHANGED <<lru, lock, device, pc, has, panicked>>

\* releasesleep: unlock and wake.
brelse(p) ==
  LET b == has[p] IN
  /\ pc[p] = "use"
  /\ lock' = [lock EXCEPT ![b] = Nobody]
  /\ pc' = WakeLock(b, [pc EXCEPT ![p] = "brelse"])
  /\ UNCHANGED <<cache, device, has, panicked>>

\* Faulty variant: the count is dropped only when nobody waits.
UnrefIfIdle(b) ==
  IF \E p \in Procs : pc[p] = "acquiresleep" /\ has[p] = b
  THEN buf ELSE [buf EXCEPT ![b].refcnt = @ - 1]

Unref(b) == [buf EXCEPT ![b].refcnt = @ - 1]

MoveToHead(b) ==
  LET n == CHOOSE i \in Bufs : lru[i] = b
  IN [i \in Bufs |-> IF i = 1 THEN b ELSE IF i <= n THEN lru[i - 1] ELSE lru[i]]

\* Later, under bcache.lock: drop the reference; the last one moves the buffer
\* to the head of the list.
brelseUnref(p) ==
  LET b == has[p] IN
  /\ pc[p] = "brelse"
  /\ buf' = Unref(b)
  /\ lru' = IF buf'[b].refcnt = 0 THEN MoveToHead(b) ELSE lru
  /\ has' = [has EXCEPT ![p] = 0]
  /\ Goto(p, "idle")
  /\ UNCHANGED <<lock, device, panicked>>

Next ==
  /\ ~ panicked
  /\ \/ \E p \in Procs, k \in Blocks : bget(p, k)
     \/ \E p \in Procs, k \in Blocks : \E d \in DataOf(k) :
          bwrite(p, k, d) \/ log_write(p, k, d)
     \/ \E p \in Procs : \/ acquiresleep(p) \/ iderw(p) \/ iderwCheck(p)
                         \/ brelse(p) \/ brelseUnref(p)
     \/ \E ok \in BOOLEAN : ideintr(ok)

Spec == Init /\ [][Next]_vars

\* The drive answers every request, and the scheduler runs every process.  A
\* caller may write a block several times but gives it back in the end.
FairSpec ==
  /\ Spec
  /\ WF_vars(~ panicked /\ \E ok \in BOOLEAN : ideintr(ok))
  /\ \A p \in Procs :
       /\ WF_vars(~ panicked /\ (acquiresleep(p) \/ iderw(p)
                                 \/ iderwCheck(p) \/ brelseUnref(p)))
       /\ SF_vars(~ panicked /\ brelse(p))

-----------------------------------------------------------------------------
(* Properties *)

TypeOK ==
  /\ lru \in [Bufs -> Bufs] /\ {lru[i] : i \in Bufs} = Bufs
  /\ buf \in [Bufs -> [blockno : Blocks \cup {Nobody},
                       refcnt : Nat,
                       valid : BOOLEAN, dirty : BOOLEAN, data : Data \cup {Nobody}]]
  /\ lock \in [Bufs -> Procs \cup {Nobody}]
  /\ {idequeue[i] : i \in DOMAIN idequeue} \subseteq Bufs
  /\ drive \in Data \cup {Nobody}
  /\ disk \in [Blocks -> Data]
  /\ has \in [Procs -> Bufs \cup {0}]

\* bio.c:4 "The buffer cache is a linked list of buf structures holding cached
\* copies of disk block contents": bget never gives a block a second buffer,
\* however hits, recycling and releases interleave.
OneCopy ==
  \A b, c \in Bufs : b # c /\ buf[b].blockno = buf[c].blockno =>
    buf[b].blockno = Nobody

\* While the drive works, a buffer without B_DIRTY holds what is on the disk:
\* no interleaving of bwrite, log_write, recycling and interrupts loses a
\* write.
CleanIsOnDisk ==
  ~ failed => \A b \in Bufs : buf[b].valid /\ ~ buf[b].dirty =>
                buf[b].data = disk[buf[b].blockno]

\* bget panics only when every buffer is either kept by the log or in the
\* hands of another process: with a buffer per process on top of what the log
\* may pin it never does, because no interleaving of brelse's two steps leaks
\* a reference.
PanicOnlyWhenFull ==
  panicked => \A b \in Bufs : buf[b].dirty \/ \E p \in Procs : has[p] = b

\* The list has every buffer once, a block has one buffer, a clean buffer is
\* what the disk holds, and references are not leaked.
CacheConsistent == TypeOK /\ OneCopy /\ CleanIsOnDisk /\ PanicOnlyWhenFull

\* A request in the queue belongs to a process that has the buffer locked and
\* sleeps until the request is served; nobody else can touch its data, and the
\* data the drive was given is still that of the buffer.
RequestOwned ==
  /\ \A i, j \in DOMAIN idequeue : i # j => idequeue[i] # idequeue[j]
  /\ \A i \in DOMAIN idequeue : \E p \in Procs :
       lock[idequeue[i]] = p /\ has[p] = idequeue[i] /\ pc[p] = "sleep io"
  /\ idequeue # <<>> => drive = idestart(Head(idequeue))

\* The cache and the disk below it are a store of blocks with one owner each.
Content(k) ==
  LET c == {b \in Cached(k) : buf[b].valid} IN
  IF c = {} THEN disk[k] ELSE buf[CHOOSE b \in c : TRUE].data

Owner(k) ==
  LET c == {b \in Cached(k) : lock[b] # Nobody} IN
  IF c = {} THEN Nobody ELSE lock[CHOOSE b \in c : TRUE]

Store == INSTANCE BlockStore WITH
  content <- [k \in Blocks |-> Content(k)],
  owner <- [k \in Blocks |-> Owner(k)]

BlockStoreSpec == Store!Spec

\* Every sleep ends: a request is served and its process goes on with the
\* block, and a process that waits for a lock is woken when it is released.
EveryWaitEnds ==
  \A p \in Procs :
    /\ (pc[p] = "iderw") ~> (pc[p] = "use" \/ panicked)
    /\ (pc[p] = "sleep lock") ~> (pc[p] = "acquiresleep" \/ panicked)
=============================================================================
