-------------------------- MODULE BufferCacheProofs -------------------------
(***************************************************************************)
(* The buffer cache, its sleep locks and the disk driver implement a store *)
(* of blocks, for any number of processes, blocks and buffers.             *)
(***************************************************************************)
EXTENDS BufferCache, NaturalFacts, FiniteSetTheorems

-----------------------------------------------------------------------------
(* The driver's queue *)

\* A queue that is not empty has a head, its first element.
LEMMA QueueHead ==
  ASSUME NEW S, NEW q \in Seq(S), q # <<>>
  PROVE  1 \in DOMAIN q /\ q[1] \in S /\ Head(q) = q[1]
  OBVIOUS

-----------------------------------------------------------------------------
(* The list of buffers *)

\* The list has every buffer once.
Listed == lru \in [Bufs -> Bufs] /\ \A b \in Bufs : \E i \in Bufs : lru[i] = b

\* bget's second loop ends at an unused buffer when there is one.
LEMMA VictimUnused ==
  ASSUME Listed, Unused # {}
  PROVE  Victim \in Unused
<1> DEFINE S == {i \in Bufs : lru[i] \in Unused}
<1>0. NBUF \in Nat
  BY BufferCacheAssumption, Zenon
<1>1. S \in SUBSET (0 .. NBUF)
  BY <1>0, SMTT(20) DEF Bufs
<1>2. S # {}
  <2>1. PICK b \in Unused : TRUE
    OBVIOUS
  <2> QED BY <2>1, Zenon DEF Listed, Unused
<1>3. \E m \in S : \A k \in S : k <= m
  <2> HIDE DEF S
  <2> QED BY <1>0, <1>1, <1>2, NatMax, Zenon
<1>4. \E i \in Bufs : lru[i] \in Unused /\ \A j \in Bufs : lru[j] \in Unused => j <= i
  BY <1>3, Zenon
<1> QED BY <1>4, Zenon DEF Victim

\* Moving a buffer to the head keeps every buffer in the list once.
LEMMA MoveToHeadListed ==
  ASSUME Listed, NEW b \in Bufs, lru' = MoveToHead(b)
  PROVE  Listed'
<1>0. NBUF \in Nat
  BY BufferCacheAssumption, Zenon
<1>1. PICK n \in Bufs : n = (CHOOSE i \in Bufs : lru[i] = b) /\ lru[n] = b
  BY Zenon DEF Listed
<1>2. lru' = [i \in Bufs |-> IF i = 1 THEN b ELSE IF i <= n THEN lru[i - 1] ELSE lru[i]]
  BY <1>1, Zenon DEF MoveToHead
<1>3. \A i \in Bufs : i # 1 => i - 1 \in Bufs
  BY <1>0, SMTT(20) DEF Bufs
<1>4. lru' \in [Bufs -> Bufs]
  BY <1>2, <1>3, SMTT(20) DEF Listed
<1>5. ASSUME NEW c \in Bufs PROVE \E j \in Bufs : lru'[j] = c
  <2>1. PICK j \in Bufs : lru[j] = c
    BY Zenon DEF Listed
  <2>2. CASE j = n
    <3>1. 1 \in Bufs
      BY <1>0, SMTT(20) DEF Bufs
    <3> QED BY <1>1, <1>2, <2>1, <2>2, <3>1, Zenon
  <2>3. CASE j < n
    <3> DEFINE i == j + 1
    <3>1. i \in Bufs /\ i # 1 /\ i <= n /\ i - 1 = j
      BY <1>0, <2>3, SMTT(20) DEF Bufs
    <3> HIDE DEF i
    <3>2. lru'[i] = lru[i - 1]
      BY <1>2, <3>1, Zenon
    <3> QED BY <2>1, <3>1, <3>2, Zenon
  <2>4. CASE j > n
    <3>1. j # 1 /\ ~ j <= n
      BY <1>0, <2>4, SMTT(20) DEF Bufs
    <3> QED BY <1>2, <2>1, <3>1, Zenon
  <2> QED BY <1>0, <2>2, <2>3, <2>4, SMTT(20) DEF Bufs
<1> QED BY <1>4, <1>5, Zenon DEF Listed

-----------------------------------------------------------------------------
(* The inductive invariant *)

Holding == {"use", "iderw", "sleep io", "io done"}

BufType == [blockno : Blocks \cup {Nobody}, refcnt : Nat,
            valid : BOOLEAN, dirty : BOOLEAN, data : Data \cup {Nobody}]

Typed ==
  /\ Listed
  /\ buf \in [Bufs -> BufType]
  /\ lock \in [Bufs -> Procs \cup {Nobody}]
  /\ idequeue \in Seq(Bufs)
  /\ drive \in Data \cup {Nobody}
  /\ disk \in [Blocks -> Data]
  /\ pc \in [Procs -> Holding \cup {"idle", "acquiresleep", "sleep lock", "brelse"}]
  /\ has \in [Procs -> Bufs \cup {0}]
  /\ failed \in BOOLEAN /\ panicked \in BOOLEAN

Users(b) == {p \in Procs : has[p] = b}

\* refcnt counts the processes between bget and the end of brelse.
References ==
  /\ \A p \in Procs : pc[p] = "idle" <=> has[p] = 0
  /\ \A b \in Bufs : buf[b].refcnt = Cardinality(Users(b))
  /\ \A p \in Procs : has[p] # 0 => buf[has[p]].blockno # Nobody

\* A buffer is locked by the one process that uses it.
Locked ==
  /\ \A p \in Procs : pc[p] \in Holding => lock[has[p]] = p
  /\ \A b \in Bufs : lock[b] # Nobody => has[lock[b]] = b /\ pc[lock[b]] \in Holding

\* The buffers with B_VALID, and those with B_DIRTY.
Valid == {b \in Bufs : buf[b].valid}
Dirty == {b \in Bufs : buf[b].dirty}

\* A dirty buffer has been read or written, and a valid one is some block.
Flags ==
  /\ \A b \in Valid : buf[b].blockno # Nobody
  /\ Dirty \subseteq Valid
  /\ \A b \in Dirty : buf[b].data \in Data

\* What the flags say in each place of the code.
Stages ==
  /\ \A p \in Procs : pc[p] = "use" => has[p] \in Valid
  /\ \A p \in Procs : pc[p] = "iderw" => has[p] \notin Valid \/ has[p] \in Dirty
  /\ \A p \in Procs : pc[p] = "io done" => has[p] \in Valid /\ has[p] \notin Dirty

\* A request waits in the queue, once, with something to do.
Pending ==
  /\ \A i, j \in DOMAIN idequeue : idequeue[i] = idequeue[j] => i = j
  /\ \A i \in DOMAIN idequeue : idequeue[i] \notin Valid \/ idequeue[i] \in Dirty

\* It waits on behalf of a process that sleeps with the buffer locked.
Owned ==
  /\ \A i \in DOMAIN idequeue : lock[idequeue[i]] \in Procs
  /\ \A i \in DOMAIN idequeue : pc[lock[idequeue[i]]] = "sleep io"

\* A process that sleeps has a request.
Asleep ==
  \A p \in Procs : pc[p] = "sleep io" => \E i \in DOMAIN idequeue : idequeue[i] = has[p]

\* The drive works on the first request.
Driven ==
  idequeue # <<>> =>
    drive = IF idequeue[1] \in Dirty THEN buf[idequeue[1]].data ELSE Nobody

\* A block has one buffer, and a clean buffer holds what is on the disk.
Copies ==
  /\ \A b, c \in Bufs : b # c /\ buf[b].blockno = buf[c].blockno => buf[b].blockno = Nobody
  /\ ~ failed => \A b \in Valid \ Dirty : buf[b].data = disk[buf[b].blockno]

Inv ==
  /\ Typed /\ References /\ Locked /\ Flags /\ Stages /\ Pending
  /\ Owned /\ Asleep /\ Driven /\ Copies /\ PanicOnlyWhenFull

\* binit's state, with nobody in the cache and an idle drive, satisfies the
\* invariant.
LEMMA InitInv == Init => Inv
<1> SUFFICES ASSUME Init PROVE Inv
  OBVIOUS
<1>0. NBUF \in Nat /\ Bufs = 1 .. NBUF /\ 0 \notin Bufs
  BY BufferCacheAssumption, SMTT(20) DEF Bufs
<1>1. Listed
  <2>1. lru = [i \in Bufs |-> NBUF + 1 - i]
    BY Zenon DEF Init
  <2>2. \A b \in Bufs : NBUF + 1 - b \in Bufs /\ NBUF + 1 - (NBUF + 1 - b) = b
    BY <1>0, SMTT(20)
  <2> QED BY <2>1, <2>2, Zenon DEF Listed
<1>2. disk \in [Blocks -> Data]
  BY BufferCacheAssumption, Zenon DEF Init, Data
<1>3. Typed
  <2>1. \A b \in Bufs : buf[b] \in BufType
    BY Zenon DEF Init, BufType
  <2>2. buf \in [Bufs -> BufType]
    BY <2>1, Zenon DEF Init
  <2>3. pc \in [Procs -> Holding \cup {"idle", "acquiresleep", "sleep lock", "brelse"}]
    BY Zenon DEF Init
  <2>4. /\ lock \in [Bufs -> Procs \cup {Nobody}] /\ has \in [Procs -> Bufs \cup {0}]
        /\ idequeue \in Seq(Bufs)
    BY SMTT(20) DEF Init
  <2>5. drive \in Data \cup {Nobody} /\ failed \in BOOLEAN /\ panicked \in BOOLEAN
    BY Zenon DEF Init
  <2> QED BY <1>1, <1>2, <2>2, <2>3, <2>4, <2>5, Zenon DEF Typed
<1>4. References
  <2>1. \A b \in Bufs : Users(b) = {}
    BY <1>0, Zenon DEF Users, Init
  <2> QED BY <2>1, FS_EmptySet, Zenon DEF References, Init
<1>5. Valid = {} /\ Dirty = {} /\ idequeue = <<>>
  BY Zenon DEF Init, Valid, Dirty
<1>6. Locked /\ Flags /\ Stages /\ Pending /\ Owned /\ Asleep /\ Driven
  BY <1>5, SMTT(20) DEF Init, Locked, Flags, Stages, Pending, Owned, Asleep, Driven, Holding
<1>7. Copies /\ PanicOnlyWhenFull
  BY <1>5, Zenon DEF Init, Copies, PanicOnlyWhenFull
<1> QED BY <1>3, <1>4, <1>6, <1>7, Zenon DEF Inv

-----------------------------------------------------------------------------
(* Counting references *)

\* A set of processes is finite, and has no member exactly when it counts none.
LEMMA CountUsers ==
  ASSUME NEW b
  PROVE  /\ IsFiniteSet(Users(b)) /\ Cardinality(Users(b)) \in Nat
         /\ Cardinality(Users(b)) = 0 <=> Users(b) = {}
<1>1. IsFiniteSet(Users(b))
  <2>1. Users(b) \in SUBSET Procs
    BY Zenon DEF Users
  <2> QED BY <2>1, BufferCacheAssumption, FS_Subset, Zenon
<1> QED BY <1>1, FS_CardinalityType, FS_EmptySet, Zenon

\* bget's new reference is counted once.
LEMMA UserGained ==
  ASSUME has \in [Procs -> Bufs \cup {0}], NEW p \in Procs, NEW b \in Bufs,
         has[p] = 0, has' = [has EXCEPT ![p] = b], 0 \notin Bufs
  PROVE  \A c \in Bufs : Cardinality(Users(c)') =
           IF c = b THEN Cardinality(Users(c)) + 1 ELSE Cardinality(Users(c))
<1>1. Users(b)' = Users(b) \cup {p} /\ p \notin Users(b)
  BY Zenon DEF Users
<1>2. \A c \in Bufs : c # b => Users(c)' = Users(c)
  BY Zenon DEF Users
<1>3. Cardinality(Users(b)') = Cardinality(Users(b)) + 1
  <2>1. IsFiniteSet(Users(b))
    BY CountUsers, Zenon
  <2>2. Cardinality(Users(b) \cup {p}) = Cardinality(Users(b)) + 1
    BY <1>1, <2>1, FS_AddElement, Zenon
  <2> QED BY <1>1, <2>2, Zenon
<1> QED BY <1>2, <1>3, Zenon

\* brelse's reference is given back once.
LEMMA UserLost ==
  ASSUME has \in [Procs -> Bufs \cup {0}], NEW p \in Procs, NEW b \in Bufs,
         has[p] = b, has' = [has EXCEPT ![p] = 0], 0 \notin Bufs
  PROVE  /\ Cardinality(Users(b)) > 0
         /\ \A c \in Bufs : Cardinality(Users(c)') =
              IF c = b THEN Cardinality(Users(c)) - 1 ELSE Cardinality(Users(c))
<1>1. Users(b)' = Users(b) \ {p} /\ p \in Users(b)
  BY Zenon DEF Users
<1>2. \A c \in Bufs : c # b => Users(c)' = Users(c)
  BY Zenon DEF Users
<1>3. Cardinality(Users(b)') = Cardinality(Users(b)) - 1
  <2>1. IsFiniteSet(Users(b))
    BY CountUsers, Zenon
  <2>2. Cardinality(Users(b) \ {p}) = Cardinality(Users(b)) - 1
    BY <1>1, <2>1, FS_RemoveElement, Zenon
  <2> QED BY <1>1, <2>2, Zenon
<1>4. Cardinality(Users(b)) > 0
  BY <1>1, CountUsers, SMTT(20)
<1> QED BY <1>2, <1>3, <1>4, Zenon

-----------------------------------------------------------------------------
(* What the types say of single values *)

\* Every reference, lock holder and request is a buffer or a process that exists.
LEMMA Values ==
  ASSUME Inv
  PROVE  /\ 0 \notin Bufs /\ Nobody \notin Procs /\ Nobody \notin Blocks
         /\ \A p \in Procs : has[p] \in Bufs \/ has[p] = 0
         /\ \A p \in Procs : pc[p] # "idle" => has[p] \in Bufs
         /\ \A b \in Bufs : lock[b] \in Procs \/ lock[b] = Nobody
         /\ \A i \in DOMAIN idequeue : idequeue[i] \in Bufs
         /\ Valid \subseteq Bufs /\ Dirty \subseteq Bufs
<1>1. 0 \notin Bufs /\ Nobody \notin Procs /\ Nobody \notin Blocks
  BY BufferCacheAssumption, SMTT(20) DEF Bufs
<1>2. \A p \in Procs : has[p] \in Bufs \/ has[p] = 0
  <2>1. has \in [Procs -> Bufs \cup {0}]
    BY Zenon DEF Inv, Typed
  <2> QED BY <2>1, Zenon
<1>3. \A p \in Procs : pc[p] # "idle" => has[p] \in Bufs
  BY <1>2, Zenon DEF Inv, References
<1>4. \A b \in Bufs : lock[b] \in Procs \/ lock[b] = Nobody
  <2>1. lock \in [Bufs -> Procs \cup {Nobody}]
    BY Zenon DEF Inv, Typed
  <2> QED BY <2>1, Zenon
<1>5. \A i \in DOMAIN idequeue : idequeue[i] \in Bufs
  <2>1. idequeue \in Seq(Bufs)
    BY Zenon DEF Inv, Typed
  <2> QED BY <2>1, SMTT(20)
<1>6. Valid \subseteq Bufs /\ Dirty \subseteq Bufs
  BY Zenon DEF Valid, Dirty
<1> QED BY <1>1, <1>2, <1>3, <1>4, <1>5, <1>6, Zenon

\* A reference more.
LEMMA BufHit ==
  ASSUME buf \in [Bufs -> BufType], NEW b \in Bufs,
         buf' = [buf EXCEPT ![b].refcnt = @ + 1]
  PROVE  /\ buf' \in [Bufs -> BufType] /\ Valid' = Valid /\ Dirty' = Dirty
         /\ \A c \in Bufs : buf'[c].refcnt = IF c = b THEN buf[c].refcnt + 1
                                             ELSE buf[c].refcnt
         /\ \A c \in Bufs : buf'[c].blockno = buf[c].blockno
         /\ \A c \in Bufs : buf'[c].data = buf[c].data
<1>1. buf' \in [Bufs -> BufType]
  BY SMTT(20) DEF BufType
<1>2. \A c \in Bufs : buf'[c].refcnt = IF c = b THEN buf[c].refcnt + 1 ELSE buf[c].refcnt
  BY Zenon DEF BufType
<1>3. \A c \in Bufs : buf'[c].blockno = buf[c].blockno
  BY Zenon DEF BufType
<1>4. \A c \in Bufs : buf'[c].valid = buf[c].valid
  BY Zenon DEF BufType
<1>5. \A c \in Bufs : buf'[c].dirty = buf[c].dirty
  BY Zenon DEF BufType
<1>6. \A c \in Bufs : buf'[c].data = buf[c].data
  BY Zenon DEF BufType
<1>7. Valid' = Valid
  BY <1>4, Zenon DEF Valid
<1>8. Dirty' = Dirty
  BY <1>5, Zenon DEF Dirty
<1> QED BY <1>1, <1>2, <1>3, <1>6, <1>7, <1>8, Zenon

\* A buffer that nobody refers to is not locked and has no request.
LEMMA UnusedFree ==
  ASSUME Inv, NEW b \in Unused
  PROVE  /\ b \in Bufs /\ lock[b] = Nobody
         /\ \A p \in Procs : has[p] # b
         /\ \A i \in DOMAIN idequeue : idequeue[i] # b
<1>1. b \in Bufs /\ Users(b) = {}
  BY CountUsers, Zenon DEF Inv, References, Unused
<1>2. \A p \in Procs : has[p] # b
  BY <1>1, Zenon DEF Users
<1>3. lock[b] = Nobody
  BY <1>1, <1>2, Values, Zenon DEF Inv, Locked
<1> QED BY <1>1, <1>2, <1>3, Values, Zenon DEF Inv, Owned

-----------------------------------------------------------------------------
(* bget *)

\* A hit only counts a reference.
LEMMA HitInv ==
  ASSUME Inv, ~ panicked, NEW p \in Procs, NEW k \in Blocks, pc[p] = "idle",
         bgetHit(p, k), UNCHANGED <<lru, lock, device>>
  PROVE  Inv'
<1>0. /\ Typed /\ References /\ Locked /\ Flags /\ Stages /\ Pending /\ Owned
      /\ Asleep /\ Driven /\ Copies
  BY Zenon DEF Inv
<1>1. PICK b \in Bufs :
        /\ buf[b].blockno = k
        /\ buf' = [buf EXCEPT ![b].refcnt = @ + 1]
        /\ has' = [has EXCEPT ![p] = b]
        /\ pc' = [pc EXCEPT ![p] = "acquiresleep"]
        /\ UNCHANGED panicked
  BY Zenon DEF bgetHit, Cached, Goto
<1>2. /\ UNCHANGED lru /\ UNCHANGED lock /\ UNCHANGED idequeue
      /\ UNCHANGED drive /\ UNCHANGED disk /\ UNCHANGED failed
  BY Zenon DEF device
<1>3. /\ 0 \notin Bufs /\ Nobody \notin Procs /\ Nobody \notin Blocks
      /\ \A q \in Procs : has[q] \in Bufs \/ has[q] = 0
      /\ \A q \in Procs : pc[q] # "idle" => has[q] \in Bufs
      /\ \A c \in Bufs : lock[c] \in Procs \/ lock[c] = Nobody
      /\ \A i \in DOMAIN idequeue : idequeue[i] \in Bufs
      /\ Valid \subseteq Bufs /\ Dirty \subseteq Bufs
  BY Values, Zenon
<1>4. /\ buf' \in [Bufs -> BufType]
      /\ has' \in [Procs -> Bufs \cup {0}]
      /\ pc' \in [Procs -> Holding \cup {"idle", "acquiresleep", "sleep lock", "brelse"}]
  BY <1>0, <1>1, BufHit, Zenon DEF Typed
<1>5. /\ Valid' = Valid /\ Dirty' = Dirty
      /\ \A c \in Bufs : buf'[c].refcnt = IF c = b THEN buf[c].refcnt + 1 ELSE buf[c].refcnt
      /\ \A c \in Bufs : buf'[c].blockno = buf[c].blockno
      /\ \A c \in Bufs : buf'[c].data = buf[c].data
  BY <1>0, <1>1, BufHit, Zenon DEF Typed
<1>6. /\ has[p] = 0 /\ has'[p] = b /\ pc'[p] = "acquiresleep"
      /\ \A q \in Procs : q # p => pc'[q] = pc[q] /\ has'[q] = has[q]
  BY <1>0, <1>1, Zenon DEF Typed, References
<1>7. Typed'
  BY <1>0, <1>1, <1>2, <1>4, Zenon DEF Typed, Listed
<1>8. References'
  <2>1. \A c \in Bufs : Cardinality(Users(c)') =
          IF c = b THEN Cardinality(Users(c)) + 1 ELSE Cardinality(Users(c))
    BY <1>0, <1>1, <1>3, <1>6, UserGained, ZenonT(30) DEF Typed
  <2>2. \A c \in Bufs : buf'[c].refcnt = Cardinality(Users(c)')
    BY <1>0, <1>5, <2>1, Zenon DEF References
  <2>3. \A q \in Procs : pc'[q] = "idle" <=> has'[q] = 0
    BY <1>0, <1>3, <1>6, SMTT(20) DEF References
  <2>4. \A q \in Procs : has'[q] # 0 => buf'[has'[q]].blockno # Nobody
    BY <1>0, <1>1, <1>3, <1>5, <1>6, SMTT(20) DEF References
  <2> QED BY <2>2, <2>3, <2>4, Zenon DEF References
<1>9. Locked'
  <2>1. "acquiresleep" \notin Holding
    BY Zenon DEF Holding
  <2>2. \A c \in Bufs : lock[c] # p
    BY <1>0, <1>3, <1>6, SMTT(20) DEF Locked
  <2>3. \A q \in Procs : pc'[q] \in Holding => lock'[has'[q]] = q
    BY <1>0, <1>2, <1>6, <2>1, SMTT(20) DEF Locked
  <2>4. \A c \in Bufs : lock'[c] # Nobody => has'[lock'[c]] = c /\ pc'[lock'[c]] \in Holding
    BY <1>0, <1>2, <1>3, <1>6, <2>2, SMTT(20) DEF Locked
  <2> QED BY <2>3, <2>4, Zenon DEF Locked
<1>10. Flags' /\ Stages'
  <2>1. Flags'
    BY <1>0, <1>3, <1>5, Zenon DEF Flags
  <2>2. Stages'
    BY <1>0, <1>5, <1>6, Zenon DEF Stages
  <2> QED BY <2>1, <2>2, Zenon
<1>11. Pending' /\ Owned' /\ Asleep'
  <2>1. Pending'
    BY <1>0, <1>2, <1>5, Zenon DEF Pending
  <2>2. Owned'
    BY <1>0, <1>2, <1>6, ZenonT(30) DEF Owned
  <2>3. Asleep'
    BY <1>0, <1>2, <1>6, Zenon DEF Asleep
  <2> QED BY <2>1, <2>2, <2>3, Zenon
<1>12. Copies' /\ Driven'
  BY <1>0, <1>2, <1>3, <1>5, SMTT(20) DEF Copies, Driven
<1>13. PanicOnlyWhenFull'
  BY <1>1, Zenon DEF PanicOnlyWhenFull
<1> QED BY <1>7, <1>8, <1>9, <1>10, <1>11, <1>12, <1>13, Zenon DEF Inv

\* The flags are cleared, and the buffer stands for another block.
LEMMA BufRecycled ==
  ASSUME buf \in [Bufs -> BufType], NEW b \in Bufs, NEW k \in Blocks, b \notin Dirty,
         buf' = [buf EXCEPT ![b] = Recycled(@, k)]
  PROVE  /\ buf' \in [Bufs -> BufType] /\ Valid' = Valid \ {b} /\ Dirty' = Dirty
         /\ \A c \in Bufs : buf'[c].refcnt = IF c = b THEN 1 ELSE buf[c].refcnt
         /\ \A c \in Bufs : buf'[c].blockno = IF c = b THEN k ELSE buf[c].blockno
         /\ \A c \in Bufs : buf'[c].data = buf[c].data
<1>1. buf' \in [Bufs -> BufType]
  BY Zenon DEF BufType, Recycled
<1>2. \A c \in Bufs : buf'[c].refcnt = IF c = b THEN 1 ELSE buf[c].refcnt
  BY Zenon DEF BufType, Recycled
<1>3. \A c \in Bufs : buf'[c].blockno = IF c = b THEN k ELSE buf[c].blockno
  BY Zenon DEF BufType, Recycled
<1>4. \A c \in Bufs : buf'[c].valid = IF c = b THEN FALSE ELSE buf[c].valid
  BY Zenon DEF BufType, Recycled
<1>5. \A c \in Bufs : buf'[c].dirty = IF c = b THEN FALSE ELSE buf[c].dirty
  BY Zenon DEF BufType, Recycled
<1>6. \A c \in Bufs : buf'[c].data = buf[c].data
  BY Zenon DEF BufType, Recycled
<1>7. Valid' = Valid \ {b}
  BY <1>4, Zenon DEF Valid
<1>8. Dirty' = Dirty
  BY <1>5, Zenon DEF Dirty
<1> QED BY <1>1, <1>2, <1>3, <1>6, <1>7, <1>8, Zenon

\* The victim is clean and nobody refers to it, so recycling it takes nothing
\* from anybody.
LEMMA RecycleInv ==
  ASSUME Inv, ~ panicked, NEW p \in Procs, NEW k \in Blocks, pc[p] = "idle",
         bgetRecycle(p, k), UNCHANGED <<lru, lock, device>>
  PROVE  Inv'
<1>0. /\ Typed /\ References /\ Locked /\ Flags /\ Stages /\ Pending /\ Owned
      /\ Asleep /\ Driven /\ Copies
  BY Zenon DEF Inv
<1>1. PICK b \in Unused :
        /\ buf' = [buf EXCEPT ![b] = Recycled(@, k)]
        /\ has' = [has EXCEPT ![p] = b]
        /\ pc' = [pc EXCEPT ![p] = "acquiresleep"]
        /\ UNCHANGED panicked
  <2>1. Victim \in Unused
    BY <1>0, VictimUnused, Zenon DEF bgetRecycle, Typed
  <2> QED BY <2>1, Zenon DEF bgetRecycle, Goto
<1>2. /\ UNCHANGED lru /\ UNCHANGED lock /\ UNCHANGED idequeue
      /\ UNCHANGED drive /\ UNCHANGED disk /\ UNCHANGED failed
  BY Zenon DEF device
<1>3. /\ 0 \notin Bufs /\ Nobody \notin Procs /\ Nobody \notin Blocks
      /\ \A q \in Procs : has[q] \in Bufs \/ has[q] = 0
      /\ \A q \in Procs : pc[q] # "idle" => has[q] \in Bufs
      /\ \A c \in Bufs : lock[c] \in Procs \/ lock[c] = Nobody
      /\ \A i \in DOMAIN idequeue : idequeue[i] \in Bufs
      /\ Valid \subseteq Bufs /\ Dirty \subseteq Bufs
  BY Values, Zenon
<1>4. /\ b \in Bufs /\ b \notin Dirty /\ lock[b] = Nobody
      /\ \A q \in Procs : has[q] # b
      /\ \A i \in DOMAIN idequeue : idequeue[i] # b
      /\ \A c \in Bufs : buf[c].blockno # k
  <2>1. b \notin Dirty
    BY Zenon DEF Unused, Dirty
  <2>2. \A c \in Bufs : buf[c].blockno # k
    BY Zenon DEF bgetRecycle, Cached
  <2> QED BY <2>1, <2>2, UnusedFree, Zenon
<1>5. /\ buf' \in [Bufs -> BufType]
      /\ has' \in [Procs -> Bufs \cup {0}]
      /\ pc' \in [Procs -> Holding \cup {"idle", "acquiresleep", "sleep lock", "brelse"}]
  BY <1>0, <1>1, <1>4, BufRecycled, Zenon DEF Typed
<1>6. /\ Valid' = Valid \ {b} /\ Dirty' = Dirty
      /\ \A c \in Bufs : buf'[c].refcnt = IF c = b THEN 1 ELSE buf[c].refcnt
      /\ \A c \in Bufs : buf'[c].blockno = IF c = b THEN k ELSE buf[c].blockno
      /\ \A c \in Bufs : buf'[c].data = buf[c].data
  BY <1>0, <1>1, <1>4, BufRecycled, Zenon DEF Typed
<1>7. /\ has[p] = 0 /\ has'[p] = b /\ pc'[p] = "acquiresleep"
      /\ \A q \in Procs : q # p => pc'[q] = pc[q] /\ has'[q] = has[q]
  BY <1>0, <1>1, Zenon DEF Typed, References
<1>8. Typed'
  BY <1>0, <1>1, <1>2, <1>5, Zenon DEF Typed, Listed
<1>9. References'
  <2>1. \A c \in Bufs : Cardinality(Users(c)') =
          IF c = b THEN Cardinality(Users(c)) + 1 ELSE Cardinality(Users(c))
    BY <1>0, <1>1, <1>3, <1>4, <1>7, UserGained, ZenonT(40) DEF Typed
  <2>2. Cardinality(Users(b)) = 0
    <3>1. Users(b) = {}
      BY <1>4, Zenon DEF Users
    <3> QED BY <3>1, CountUsers, Zenon
  <2>3. \A c \in Bufs : buf'[c].refcnt = Cardinality(Users(c)')
    BY <1>0, <1>6, <2>1, <2>2, SMTT(20) DEF References
  <2>4. \A q \in Procs : pc'[q] = "idle" <=> has'[q] = 0
    BY <1>0, <1>3, <1>4, <1>7, SMTT(20) DEF References
  <2>5. \A q \in Procs : has'[q] # 0 => buf'[has'[q]].blockno # Nobody
    BY <1>0, <1>3, <1>4, <1>6, <1>7, SMTT(20) DEF References
  <2> QED BY <2>3, <2>4, <2>5, Zenon DEF References
<1>10. Locked'
  <2>1. "acquiresleep" \notin Holding
    BY Zenon DEF Holding
  <2>2. \A c \in Bufs : lock[c] # p
    BY <1>0, <1>3, <1>7, SMTT(20) DEF Locked
  <2>3. \A q \in Procs : pc'[q] \in Holding => lock'[has'[q]] = q
    BY <1>0, <1>2, <1>7, <2>1, SMTT(20) DEF Locked
  <2>4. \A c \in Bufs : lock'[c] # Nobody => has'[lock'[c]] = c /\ pc'[lock'[c]] \in Holding
    BY <1>0, <1>2, <1>3, <1>7, <2>2, SMTT(20) DEF Locked
  <2> QED BY <2>3, <2>4, Zenon DEF Locked
<1>11. Flags' /\ Stages'
  <2>1. Flags'
    BY <1>0, <1>3, <1>4, <1>6, Zenon DEF Flags
  <2>2. Stages'
    <3>1. \A q \in Procs : pc'[q] # "acquiresleep" =>
            pc'[q] = pc[q] /\ has'[q] = has[q] /\ has[q] # b
      BY <1>4, <1>7, Zenon
    <3>2. Dirty' = Dirty /\ \A c : c # b => (c \in Valid' <=> c \in Valid)
      BY <1>6, Zenon
    <3> QED BY <1>0, <3>1, <3>2, Zenon DEF Stages
  <2> QED BY <2>1, <2>2, Zenon
<1>12. Pending' /\ Owned' /\ Asleep'
  <2>1. Pending'
    BY <1>0, <1>2, <1>6, Zenon DEF Pending
  <2>2. Owned'
    BY <1>0, <1>2, <1>7, ZenonT(30) DEF Owned
  <2>3. Asleep'
    BY <1>0, <1>2, <1>7, Zenon DEF Asleep
  <2> QED BY <2>1, <2>2, <2>3, Zenon
<1>13. Driven'
  BY <1>0, <1>2, <1>3, <1>6, Zenon DEF Driven
<1>14. Copies'
  <2>1. \A c, d \in Bufs : c # d /\ buf'[c].blockno = buf'[d].blockno => buf'[c].blockno = Nobody
    BY <1>0, <1>4, <1>6, SMTT(20) DEF Copies
  <2>2. ~ failed' => \A c \in Valid' \ Dirty' : buf'[c].data = disk'[buf'[c].blockno]
    BY <1>0, <1>2, <1>3, <1>6, Zenon DEF Copies
  <2> QED BY <2>1, <2>2, Zenon DEF Copies
<1>15. PanicOnlyWhenFull'
  BY <1>1, Zenon DEF PanicOnlyWhenFull
<1> QED BY <1>8, <1>9, <1>10, <1>11, <1>12, <1>13, <1>14, <1>15, Zenon DEF Inv

\* bget panics only with every buffer pinned or referred to.
LEMMA PanicInv ==
  ASSUME Inv, NEW k \in Blocks, bgetPanic(k), UNCHANGED <<lru, lock, device>>
  PROVE  Inv'
<1>0. /\ Typed /\ References /\ Locked /\ Flags /\ Stages /\ Pending /\ Owned
      /\ Asleep /\ Driven /\ Copies
  BY Zenon DEF Inv
<1>1. /\ Unused = {} /\ panicked' = TRUE
      /\ UNCHANGED buf /\ UNCHANGED has /\ UNCHANGED pc
  BY Zenon DEF bgetPanic
<1>2. /\ UNCHANGED lru /\ UNCHANGED lock /\ UNCHANGED idequeue
      /\ UNCHANGED drive /\ UNCHANGED disk /\ UNCHANGED failed
  BY Zenon DEF device
<1>3. Typed'
  BY <1>0, <1>1, <1>2, Zenon DEF Typed, Listed
<1>4. Valid' = Valid /\ Dirty' = Dirty
  BY <1>1, Zenon DEF Valid, Dirty
<1>5. References' /\ Locked'
  <2>1. \A c \in Bufs : Users(c)' = Users(c)
    BY <1>1, Zenon DEF Users
  <2>2. References'
    BY <1>0, <1>1, <2>1, Zenon DEF References
  <2>3. Locked'
    BY <1>0, <1>1, <1>2, Zenon DEF Locked
  <2> QED BY <2>2, <2>3, Zenon
<1>6. Flags' /\ Stages'
  BY <1>0, <1>1, <1>4, Zenon DEF Flags, Stages
<1>7. Pending' /\ Owned' /\ Asleep' /\ Driven' /\ Copies'
  BY <1>0, <1>1, <1>2, <1>4, Zenon DEF Pending, Owned, Asleep, Driven, Copies
<1>8. PanicOnlyWhenFull'
  <2>1. ASSUME NEW c \in Bufs PROVE buf[c].dirty \/ \E q \in Procs : has[q] = c
    <3>1. buf[c].dirty \/ buf[c].refcnt # 0
      BY <1>1, Zenon DEF Unused
    <3>2. buf[c].refcnt # 0 => Users(c) # {}
      BY <1>0, CountUsers, Zenon DEF References
    <3> QED BY <3>1, <3>2, Zenon DEF Users
  <2> QED BY <1>1, <2>1, Zenon DEF PanicOnlyWhenFull
<1> QED BY <1>3, <1>5, <1>6, <1>7, <1>8, Zenon DEF Inv
-----------------------------------------------------------------------------
(* Steps that change no buffer *)

\* What such a step leaves true.
LEMMA SameBuffers ==
  ASSUME Inv, ~ panicked, UNCHANGED <<lru, buf, has, disk, failed, panicked>>,
         \A p \in Procs : pc'[p] = "idle" <=> pc[p] = "idle"
  PROVE  /\ Listed' /\ References' /\ Flags' /\ Copies' /\ PanicOnlyWhenFull'
         /\ Valid' = Valid /\ Dirty' = Dirty
<1>0. Typed /\ References /\ Flags /\ Copies
  BY Zenon DEF Inv
<1>1. /\ UNCHANGED lru /\ UNCHANGED buf /\ UNCHANGED has /\ UNCHANGED disk
      /\ UNCHANGED failed /\ ~ panicked'
  OBVIOUS
<1>2. Valid' = Valid /\ Dirty' = Dirty
  BY <1>1, Zenon DEF Valid, Dirty
<1>3. References'
  <2>1. \A c \in Bufs : Users(c)' = Users(c)
    BY <1>1, Zenon DEF Users
  <2> QED BY <1>0, <1>1, <2>1, Zenon DEF References
<1>4. Flags'
  BY <1>0, <1>1, <1>2, Zenon DEF Flags
<1>5. Copies'
  <2>1. UNCHANGED buf /\ UNCHANGED disk /\ UNCHANGED failed
    BY <1>1, Zenon
  <2>2. \A c, d \in Bufs : c # d /\ buf'[c].blockno = buf'[d].blockno => buf'[c].blockno = Nobody
    BY <1>0, <2>1, Zenon DEF Copies
  <2>3. ~ failed' => \A c \in Valid' \ Dirty' : buf'[c].data = disk'[buf'[c].blockno]
    BY <1>0, <1>2, <2>1, SMTT(20) DEF Copies
  <2> QED BY <2>2, <2>3, Zenon DEF Copies
<1>6. PanicOnlyWhenFull'
  BY <1>1, Zenon DEF PanicOnlyWhenFull
<1>7. Listed'
  BY <1>0, <1>1, Zenon DEF Typed, Listed
<1> QED BY <1>2, <1>3, <1>4, <1>5, <1>6, <1>7, Zenon

\* A process takes the sleep lock of its buffer, or sleeps for it.
LEMMA AcquireInv ==
  ASSUME Inv, ~ panicked, NEW p \in Procs, acquiresleep(p)
  PROVE  Inv'
<1>0. /\ Typed /\ References /\ Locked /\ Flags /\ Stages /\ Pending /\ Owned
      /\ Asleep /\ Driven /\ Copies
  BY Zenon DEF Inv
<1>1. /\ UNCHANGED lru /\ UNCHANGED buf /\ UNCHANGED idequeue /\ UNCHANGED drive
      /\ UNCHANGED disk /\ UNCHANGED failed /\ UNCHANGED has /\ UNCHANGED panicked
      /\ pc[p] = "acquiresleep"
  BY Zenon DEF acquiresleep, cache, device
<1>2. /\ 0 \notin Bufs /\ Nobody \notin Procs
      /\ \A q \in Procs : pc[q] # "idle" => has[q] \in Bufs
      /\ \A c \in Bufs : lock[c] \in Procs \/ lock[c] = Nobody
      /\ \A i \in DOMAIN idequeue : idequeue[i] \in Bufs
  BY Values, Zenon
<1>3. PICK b \in Bufs : b = has[p]
  BY <1>1, <1>2, Zenon
<1>4. PICK l \in {"use", "iderw", "sleep lock"} :
        /\ pc' = [pc EXCEPT ![p] = l]
        /\ l = "use" => b \in Valid
        /\ l = "iderw" => b \notin Valid
        /\ l = "sleep lock" => UNCHANGED lock
        /\ l # "sleep lock" => lock[b] = Nobody /\ lock' = [lock EXCEPT ![b] = p]
  <2>1. CASE lock[b] # Nobody
    BY <1>3, <2>1, Zenon DEF acquiresleep, Goto
  <2>2. CASE lock[b] = Nobody
    <3>1. /\ lock' = [lock EXCEPT ![b] = p]
          /\ pc' = [pc EXCEPT ![p] = IF buf[b].valid THEN "use" ELSE "iderw"]
      BY <1>3, <2>2, Zenon DEF acquiresleep, Goto
    <3>2. CASE buf[b].valid
      BY <2>2, <3>1, <3>2, Zenon DEF Valid
    <3>3. CASE ~ buf[b].valid
      BY <2>2, <3>1, <3>3, Zenon DEF Valid
    <3> QED BY <3>2, <3>3, Zenon
  <2> QED BY <2>1, <2>2, Zenon
<1>5. /\ lock' \in [Bufs -> Procs \cup {Nobody}]
      /\ pc' \in [Procs -> Holding \cup {"idle", "acquiresleep", "sleep lock", "brelse"}]
  <2>1. /\ lock \in [Bufs -> Procs \cup {Nobody}]
        /\ pc \in [Procs -> Holding \cup {"idle", "acquiresleep", "sleep lock", "brelse"}]
    BY <1>0, Zenon DEF Typed
  <2> QED BY <1>4, <2>1, Zenon DEF Holding
<1>6. /\ pc'[p] = l /\ \A q \in Procs : q # p => pc'[q] = pc[q]
      /\ \A c \in Bufs : c # b => lock'[c] = lock[c]
      /\ lock'[b] = IF l = "sleep lock" THEN lock[b] ELSE p
  BY <1>0, <1>4, Zenon DEF Typed
<1>7. /\ Listed' /\ References' /\ Flags' /\ Copies' /\ PanicOnlyWhenFull'
      /\ Valid' = Valid /\ Dirty' = Dirty
  <2>1. \A q \in Procs : pc'[q] = "idle" <=> pc[q] = "idle"
    BY <1>1, <1>6, Zenon
  <2> QED BY <1>1, <2>1, SameBuffers, Zenon
<1>8. Typed'
  BY <1>0, <1>1, <1>5, <1>7, Zenon DEF Typed
<1>9. Locked'
  <2>1. \A q \in Procs : pc'[q] \in Holding => lock'[has'[q]] = q
    <3>1. ASSUME NEW q \in Procs, q # p, pc[q] \in Holding PROVE lock'[has[q]] = q
      <4>1. has[q] \in Bufs /\ lock[has[q]] = q
        BY <1>0, <1>2, <3>1, Zenon DEF Locked, Holding
      <4> QED BY <1>2, <1>4, <1>6, <4>1, ZenonT(40)
    <3>2. pc'[p] \in Holding => lock'[b] = p
      BY <1>4, <1>6, Zenon DEF Holding
    <3> QED BY <1>1, <1>3, <1>6, <3>1, <3>2, Zenon
  <2>2. ASSUME NEW c \in Bufs, lock'[c] # Nobody
        PROVE  has[lock'[c]] = c /\ pc'[lock'[c]] \in Holding
    <3>1. CASE lock'[c] = p /\ c = b /\ l # "sleep lock"
      BY <1>3, <1>6, <3>1, Zenon DEF Holding
    <3>2. CASE lock'[c] = lock[c]
      <4>1. has[lock[c]] = c /\ pc[lock[c]] \in Holding /\ lock[c] \in Procs
        BY <1>0, <1>2, <2>2, <3>2, Zenon DEF Locked
      <4>2. lock[c] # p
        BY <1>1, <4>1, Zenon DEF Holding
      <4> QED BY <1>6, <3>2, <4>1, <4>2, Zenon
    <3> QED BY <1>6, <3>1, <3>2, Zenon
  <2> QED BY <1>1, <2>1, <2>2, Zenon DEF Locked
<1>10. Stages'
  BY <1>0, <1>1, <1>3, <1>4, <1>6, <1>7, Zenon DEF Stages
<1>11. Pending' /\ Driven'
  <2>1. Pending'
    BY <1>0, <1>1, <1>7, Zenon DEF Pending
  <2>2. Driven'
    BY <1>0, <1>1, <1>7, Zenon DEF Driven
  <2> QED BY <2>1, <2>2, Zenon
<1>12. Owned'
  <2>1. \A i \in DOMAIN idequeue : lock'[idequeue[i]] = lock[idequeue[i]]
    <3> SUFFICES ASSUME NEW i \in DOMAIN idequeue
                 PROVE  lock'[idequeue[i]] = lock[idequeue[i]]
      OBVIOUS
    <3>1. idequeue[i] \in Bufs /\ lock[idequeue[i]] # Nobody
      BY <1>0, <1>2, Zenon DEF Owned
    <3> QED BY <1>4, <1>6, <3>1, Zenon
  <2>2. \A i \in DOMAIN idequeue : lock[idequeue[i]] # p
    BY <1>0, <1>1, Zenon DEF Owned
  <2>3. \A i \in DOMAIN idequeue : pc'[lock[idequeue[i]]] = "sleep io"
    <3>1. \A q \in Procs : q # p => pc'[q] = pc[q]
      BY <1>6, Zenon
    <3> QED BY <1>0, <2>2, <3>1, Zenon DEF Owned
  <2>4. \A i \in DOMAIN idequeue : lock[idequeue[i]] \in Procs
    BY <1>0, Zenon DEF Owned
  <2> QED BY <1>1, <2>1, <2>3, <2>4, Zenon DEF Owned
<1>13. Asleep'
  BY <1>0, <1>1, <1>4, <1>6, Zenon DEF Asleep
<1> QED BY <1>7, <1>8, <1>9, <1>10, <1>11, <1>12, <1>13, Zenon DEF Inv
\* A woken process looks at the flags again.
LEMMA CheckInv ==
  ASSUME Inv, ~ panicked, NEW p \in Procs, iderwCheck(p)
  PROVE  Inv'
<1>0. /\ Typed /\ References /\ Locked /\ Flags /\ Stages /\ Pending /\ Owned
      /\ Asleep /\ Driven /\ Copies
  BY Zenon DEF Inv
<1>1. /\ UNCHANGED lru /\ UNCHANGED buf /\ UNCHANGED idequeue /\ UNCHANGED drive
      /\ UNCHANGED disk /\ UNCHANGED failed /\ UNCHANGED has /\ UNCHANGED panicked
      /\ UNCHANGED lock /\ pc[p] = "io done"
  BY Zenon DEF iderwCheck, cache, device
<1>2. has[p] \in Valid /\ has[p] \notin Dirty
  BY <1>0, <1>1, Zenon DEF Stages
<1>3. pc' = [pc EXCEPT ![p] = "use"]
  <2>1. buf[has[p]].valid /\ ~ buf[has[p]].dirty
    BY <1>2, Zenon DEF Valid, Dirty
  <2> QED BY <2>1, Zenon DEF iderwCheck, Goto
<1>4. pc' \in [Procs -> Holding \cup {"idle", "acquiresleep", "sleep lock", "brelse"}]
  <2>1. pc \in [Procs -> Holding \cup {"idle", "acquiresleep", "sleep lock", "brelse"}]
    BY <1>0, Zenon DEF Typed
  <2> QED BY <1>3, <2>1, Zenon DEF Holding
<1>5. pc'[p] = "use" /\ \A q \in Procs : q # p => pc'[q] = pc[q]
  BY <1>0, <1>3, Zenon DEF Typed
<1>6. /\ Listed' /\ References' /\ Flags' /\ Copies' /\ PanicOnlyWhenFull'
      /\ Valid' = Valid /\ Dirty' = Dirty
  <2>1. \A q \in Procs : pc'[q] = "idle" <=> pc[q] = "idle"
    BY <1>1, <1>5, Zenon
  <2> QED BY <1>1, <2>1, SameBuffers, Zenon
<1>7. Typed'
  BY <1>0, <1>1, <1>4, <1>6, Zenon DEF Typed
<1>8. Locked'
  <2>1. \A q \in Procs : pc'[q] \in Holding <=> pc[q] \in Holding
    BY <1>1, <1>5, Zenon DEF Holding
  <2>2. \A c \in Bufs : lock[c] \in Procs \/ lock[c] = Nobody
    BY Values, Zenon
  <2> QED BY <1>0, <1>1, <2>1, <2>2, Zenon DEF Locked
<1>9. Stages'
  BY <1>0, <1>1, <1>2, <1>5, <1>6, Zenon DEF Stages
<1>10. Pending' /\ Driven'
  <2>1. Pending'
    BY <1>0, <1>1, <1>6, Zenon DEF Pending
  <2>2. Driven'
    BY <1>0, <1>1, <1>6, Zenon DEF Driven
  <2> QED BY <2>1, <2>2, Zenon
<1>11. Owned'
  <2>1. \A q \in Procs : pc[q] = "sleep io" => pc'[q] = "sleep io"
    BY <1>1, <1>5, Zenon
  <2> QED BY <1>0, <1>1, <2>1, Zenon DEF Owned
<1>12. Asleep'
  <2>1. \A q \in Procs : pc'[q] = "sleep io" => pc[q] = "sleep io"
    BY <1>5, Zenon
  <2> QED BY <1>0, <1>1, <2>1, Zenon DEF Asleep
<1> QED BY <1>6, <1>7, <1>8, <1>9, <1>10, <1>11, <1>12, Zenon DEF Inv

\* releasesleep: the waiters are woken, and only they.
LEMMA ReleaseInv ==
  ASSUME Inv, ~ panicked, NEW p \in Procs, brelse(p)
  PROVE  Inv'
<1>0. /\ Typed /\ References /\ Locked /\ Flags /\ Stages /\ Pending /\ Owned
      /\ Asleep /\ Driven /\ Copies
  BY Zenon DEF Inv
<1>1. /\ UNCHANGED lru /\ UNCHANGED buf /\ UNCHANGED idequeue /\ UNCHANGED drive
      /\ UNCHANGED disk /\ UNCHANGED failed /\ UNCHANGED has /\ UNCHANGED panicked
      /\ pc[p] = "use"
  BY Zenon DEF brelse, cache, device
<1>2. /\ 0 \notin Bufs /\ Nobody \notin Procs
      /\ \A q \in Procs : pc[q] # "idle" => has[q] \in Bufs
      /\ \A c \in Bufs : lock[c] \in Procs \/ lock[c] = Nobody
      /\ \A i \in DOMAIN idequeue : idequeue[i] \in Bufs
  BY Values, Zenon
<1>3. PICK b \in Bufs : b = has[p] /\ lock[b] = p
  <2>1. pc[p] \in Holding
    BY <1>1, Zenon DEF Holding
  <2> QED BY <1>0, <1>1, <1>2, <2>1, Zenon DEF Locked
<1>4. /\ lock' = [lock EXCEPT ![b] = Nobody]
      /\ pc' = WakeLock(b, [pc EXCEPT ![p] = "brelse"])
  BY <1>3, Zenon DEF brelse
<1>5. /\ lock' \in [Bufs -> Procs \cup {Nobody}]
      /\ lock'[b] = Nobody /\ \A c \in Bufs : c # b => lock'[c] = lock[c]
  BY <1>0, <1>4, Zenon DEF Typed
<1>6. /\ pc' \in [Procs -> Holding \cup {"idle", "acquiresleep", "sleep lock", "brelse"}]
      /\ pc'[p] = "brelse"
      /\ \A q \in Procs : q # p => \/ pc'[q] = pc[q]
                                   \/ pc[q] = "sleep lock" /\ pc'[q] = "acquiresleep"
  <2>1. pc \in [Procs -> Holding \cup {"idle", "acquiresleep", "sleep lock", "brelse"}]
    BY <1>0, Zenon DEF Typed
  <2> QED BY <1>4, <2>1, Zenon DEF WakeLock
<1>7. /\ Listed' /\ References' /\ Flags' /\ Copies' /\ PanicOnlyWhenFull'
      /\ Valid' = Valid /\ Dirty' = Dirty
  <2>1. \A q \in Procs : pc'[q] = "idle" <=> pc[q] = "idle"
    BY <1>1, <1>6, Zenon
  <2> QED BY <1>1, <2>1, SameBuffers, Zenon
<1>8. Typed'
  BY <1>0, <1>1, <1>5, <1>6, <1>7, Zenon DEF Typed
<1>9. \A q \in Procs : pc'[q] \in Holding <=> q # p /\ pc[q] \in Holding
  BY <1>6, Zenon DEF Holding
<1>10. Locked'
  <2>1. ASSUME NEW q \in Procs, pc'[q] \in Holding PROVE lock'[has[q]] = q
    <3>1. q # p /\ pc[q] \in Holding
      BY <1>9, <2>1, Zenon
    <3>2. lock[has[q]] = q /\ has[q] \in Bufs
      BY <1>0, <1>2, <3>1, Zenon DEF Locked, Holding
    <3> QED BY <1>3, <1>5, <3>1, <3>2, Zenon
  <2>2. ASSUME NEW c \in Bufs, lock'[c] # Nobody
        PROVE  has[lock'[c]] = c /\ pc'[lock'[c]] \in Holding
    <3>1. c # b /\ lock'[c] = lock[c]
      BY <1>5, <2>2, Zenon
    <3>2. has[lock[c]] = c /\ pc[lock[c]] \in Holding /\ lock[c] \in Procs
      BY <1>0, <1>2, <2>2, <3>1, Zenon DEF Locked
    <3> QED BY <1>3, <1>9, <3>1, <3>2, Zenon
  <2> QED BY <1>1, <2>1, <2>2, Zenon DEF Locked
<1>11. Stages'
  <2>1. \A q \in Procs : pc'[q] \in Holding => pc'[q] = pc[q]
    BY <1>6, Zenon DEF Holding
  <2>2. \A q \in Procs : pc'[q] \in {"use", "iderw", "io done"} => pc'[q] = pc[q]
    BY <2>1, Zenon DEF Holding
  <2> QED BY <1>0, <1>1, <1>7, <2>2, Zenon DEF Stages
<1>12. Pending' /\ Driven'
  <2>1. Pending'
    BY <1>0, <1>1, <1>7, Zenon DEF Pending
  <2>2. Driven'
    BY <1>0, <1>1, <1>7, Zenon DEF Driven
  <2> QED BY <2>1, <2>2, Zenon
<1>13. Owned'
  <2>1. \A i \in DOMAIN idequeue : idequeue[i] # b
    BY <1>0, <1>1, <1>3, Zenon DEF Owned
  <2>2. \A i \in DOMAIN idequeue : lock'[idequeue[i]] = lock[idequeue[i]]
    BY <1>2, <1>5, <2>1, Zenon
  <2>3. \A q \in Procs : pc[q] = "sleep io" => pc'[q] = "sleep io"
    BY <1>1, <1>6, Zenon
  <2> QED BY <1>0, <1>1, <2>2, <2>3, Zenon DEF Owned
<1>14. Asleep'
  <2>1. \A q \in Procs : pc'[q] = "sleep io" => pc[q] = "sleep io"
    BY <1>6, Zenon
  <2> QED BY <1>0, <1>1, <2>1, Zenon DEF Asleep
<1> QED BY <1>7, <1>8, <1>10, <1>11, <1>12, <1>13, <1>14, Zenon DEF Inv
\* Positions of the queue when a request is appended.
LEMMA Appended ==
  ASSUME idequeue \in Seq(Bufs), NEW b \in Bufs, idequeue' = Append(idequeue, b)
  PROVE  /\ idequeue' \in Seq(Bufs) /\ idequeue' # <<>>
         /\ \E n \in Nat :
              /\ DOMAIN idequeue = 1 .. n /\ DOMAIN idequeue' = 1 .. n + 1
              /\ \A i \in 1 .. n : idequeue'[i] = idequeue[i]
              /\ idequeue'[n + 1] = b
              /\ idequeue = <<>> <=> n = 0
<1>1. idequeue' \in Seq(Bufs) /\ idequeue' # <<>>
  OBVIOUS
<1>2. PICK n \in Nat : n = Len(idequeue)
  OBVIOUS
<1>3. DOMAIN idequeue = 1 .. n /\ DOMAIN idequeue' = 1 .. n + 1
  BY <1>2, SMTT(20)
<1>4. \A i \in 1 .. n : idequeue'[i] = idequeue[i]
  BY <1>2, SMTT(20)
<1>5. idequeue'[n + 1] = b
  BY <1>2, SMTT(20)
<1>6. idequeue = <<>> <=> n = 0
  BY <1>2, SMTT(20)
<1> QED BY <1>1, <1>3, <1>4, <1>5, <1>6, Zenon

\* A process appends its request and sleeps; it starts an idle drive.
LEMMA RequestInv ==
  ASSUME Inv, ~ panicked, NEW p \in Procs, iderw(p)
  PROVE  Inv'
<1>0. /\ Typed /\ References /\ Locked /\ Flags /\ Stages /\ Pending /\ Owned
      /\ Asleep /\ Driven /\ Copies
  BY Zenon DEF Inv
<1>1. /\ UNCHANGED lru /\ UNCHANGED buf /\ UNCHANGED lock /\ UNCHANGED disk
      /\ UNCHANGED failed /\ UNCHANGED has /\ UNCHANGED panicked
      /\ pc[p] = "iderw" /\ pc' = [pc EXCEPT ![p] = "sleep io"]
  BY Zenon DEF iderw, cache, Goto
<1>2. /\ 0 \notin Bufs /\ Nobody \notin Procs
      /\ \A q \in Procs : pc[q] # "idle" => has[q] \in Bufs
      /\ \A c \in Bufs : lock[c] \in Procs \/ lock[c] = Nobody
      /\ \A i \in DOMAIN idequeue : idequeue[i] \in Bufs
  BY Values, Zenon
<1>3. PICK b \in Bufs : b = has[p] /\ lock[b] = p
  <2>1. pc[p] \in Holding
    BY <1>1, Zenon DEF Holding
  <2> QED BY <1>0, <1>1, <1>2, <2>1, Zenon DEF Locked
<1>4. /\ idequeue' = Append(idequeue, b)
      /\ drive' = IF idequeue = <<>> THEN idestart(b) ELSE drive
  BY <1>3, Zenon DEF iderw
<1>5. idequeue \in Seq(Bufs)
  BY <1>0, Zenon DEF Typed
<1>6. idequeue' \in Seq(Bufs) /\ idequeue' # <<>>
  BY <1>4, <1>5, Appended, Zenon
<1>7. PICK n \in Nat :
        /\ DOMAIN idequeue = 1 .. n /\ DOMAIN idequeue' = 1 .. n + 1
        /\ \A i \in 1 .. n : idequeue'[i] = idequeue[i]
        /\ idequeue'[n + 1] = b
        /\ idequeue = <<>> <=> n = 0
  BY <1>4, <1>5, Appended, Zenon
<1>a. /\ n + 1 \in 1 .. n + 1 /\ \A i \in 1 .. n : i \in 1 .. n + 1
      /\ \A i \in 1 .. n + 1 : i \in 1 .. n \/ i = n + 1
  OBVIOUS
<1>8. \A i \in 1 .. n : idequeue[i] # b
  BY <1>0, <1>1, <1>3, <1>7, Zenon DEF Owned
<1>9. b \notin Valid \/ b \in Dirty
  BY <1>0, <1>1, <1>3, Zenon DEF Stages
<1>10. /\ pc' \in [Procs -> Holding \cup {"idle", "acquiresleep", "sleep lock", "brelse"}]
       /\ pc'[p] = "sleep io" /\ \A q \in Procs : q # p => pc'[q] = pc[q]
  <2>1. pc \in [Procs -> Holding \cup {"idle", "acquiresleep", "sleep lock", "brelse"}]
    BY <1>0, Zenon DEF Typed
  <2> QED BY <1>1, <2>1, Zenon DEF Holding
<1>11. /\ Listed' /\ References' /\ Flags' /\ Copies' /\ PanicOnlyWhenFull'
       /\ Valid' = Valid /\ Dirty' = Dirty
  <2>1. \A q \in Procs : pc'[q] = "idle" <=> pc[q] = "idle"
    BY <1>1, <1>10, Zenon
  <2> QED BY <1>1, <2>1, SameBuffers, Zenon
<1>12. idestart(b) = IF b \in Dirty THEN buf[b].data ELSE Nobody
  BY Zenon DEF idestart, Dirty
<1>13. drive' \in Data \cup {Nobody}
  <2>1. drive \in Data \cup {Nobody}
    BY <1>0, Zenon DEF Typed
  <2>2. b \in Dirty => buf[b].data \in Data
    BY <1>0, Zenon DEF Flags
  <2> QED BY <1>4, <1>12, <2>1, <2>2, Zenon
<1>14. Typed'
  BY <1>0, <1>1, <1>6, <1>10, <1>11, <1>13, Zenon DEF Typed
<1>15. Locked'
  <2>1. \A q \in Procs : pc'[q] \in Holding <=> pc[q] \in Holding
    BY <1>1, <1>10, Zenon DEF Holding
  <2> QED BY <1>0, <1>1, <1>2, <2>1, Zenon DEF Locked
<1>16. Stages'
  BY <1>0, <1>1, <1>10, <1>11, Zenon DEF Stages
<1>17. Pending'
  <2>1. \A i, j \in 1 .. n + 1 : idequeue'[i] = idequeue'[j] => i = j
    <3>1. \A i, j \in 1 .. n : idequeue[i] = idequeue[j] => i = j
      BY <1>0, <1>7, Zenon DEF Pending
    <3> QED BY <1>7, <1>8, <1>a, <3>1, Zenon
  <2>2. \A i \in 1 .. n + 1 : idequeue'[i] \notin Valid' \/ idequeue'[i] \in Dirty'
    <3>1. \A i \in 1 .. n : idequeue[i] \notin Valid \/ idequeue[i] \in Dirty
      BY <1>0, <1>7, Zenon DEF Pending
    <3> QED BY <1>7, <1>9, <1>11, <1>a, <3>1, Zenon
  <2> QED BY <1>7, <2>1, <2>2, Zenon DEF Pending
<1>18. Owned'
  <2> SUFFICES ASSUME NEW i \in 1 .. n + 1
               PROVE  lock[idequeue'[i]] \in Procs /\ pc'[lock[idequeue'[i]]] = "sleep io"
    BY <1>1, <1>7, Zenon DEF Owned
  <2>1. CASE i = n + 1
    BY <1>3, <1>7, <1>10, <2>1, Zenon
  <2>2. CASE i \in 1 .. n
    <3>1. lock[idequeue[i]] \in Procs /\ pc[lock[idequeue[i]]] = "sleep io"
      BY <1>0, <1>7, <2>2, Zenon DEF Owned
    <3> QED BY <1>1, <1>7, <1>10, <2>2, <3>1, Zenon
  <2> QED BY <1>a, <2>1, <2>2, Zenon
<1>19. Asleep'
  <2> SUFFICES ASSUME NEW q \in Procs, pc'[q] = "sleep io"
               PROVE  \E i \in 1 .. n + 1 : idequeue'[i] = has[q]
    BY <1>1, <1>7, Zenon DEF Asleep
  <2>1. CASE q = p
    BY <1>3, <1>7, <1>a, <2>1, Zenon
  <2>2. CASE q # p
    <3>1. PICK i \in 1 .. n : idequeue[i] = has[q]
      BY <1>0, <1>7, <1>10, <2>2, Zenon DEF Asleep
    <3> QED BY <1>7, <1>a, <3>1, Zenon
  <2> QED BY <2>1, <2>2, Zenon
<1>20. Driven'
  <2>1. CASE n = 0
    <3>1. idequeue'[1] = b
      BY <1>7, <2>1, SMTT(20)
    <3>2. drive' = IF b \in Dirty THEN buf[b].data ELSE Nobody
      BY <1>4, <1>7, <1>12, <2>1, Zenon
    <3> QED BY <1>1, <1>11, <3>1, <3>2, Zenon DEF Driven
  <2>2. CASE n # 0
    <3>1. idequeue'[1] = idequeue[1] /\ drive' = drive /\ idequeue # <<>>
      BY <1>4, <1>7, <2>2, SMTT(20)
    <3> QED BY <1>0, <1>1, <1>11, <3>1, Zenon DEF Driven
  <2> QED BY <2>1, <2>2, Zenon
<1> QED BY <1>11, <1>14, <1>15, <1>16, <1>17, <1>18, <1>19, <1>20, Zenon DEF Inv
-----------------------------------------------------------------------------
(* bwrite and log_write *)

Written(b, d) == [buf EXCEPT ![b].data = d, ![b].dirty = TRUE]

\* New data, and B_DIRTY.
LEMMA BufWritten ==
  ASSUME buf \in [Bufs -> BufType], NEW b \in Bufs, NEW d \in Data,
         buf' = Written(b, d)
  PROVE  /\ buf' \in [Bufs -> BufType] /\ Valid' = Valid /\ Dirty' = Dirty \cup {b}
         /\ \A c \in Bufs : buf'[c].refcnt = buf[c].refcnt
         /\ \A c \in Bufs : buf'[c].blockno = buf[c].blockno
         /\ \A c \in Bufs : buf'[c].data = IF c = b THEN d ELSE buf[c].data
<1>1. buf' \in [Bufs -> BufType]
  BY Zenon DEF BufType, Written
<1>2. \A c \in Bufs : buf'[c].refcnt = buf[c].refcnt
  BY Zenon DEF BufType, Written
<1>3. \A c \in Bufs : buf'[c].blockno = buf[c].blockno
  BY Zenon DEF BufType, Written
<1>4. \A c \in Bufs : buf'[c].valid = buf[c].valid
  BY Zenon DEF BufType, Written
<1>5. \A c \in Bufs : buf'[c].dirty = IF c = b THEN TRUE ELSE buf[c].dirty
  BY Zenon DEF BufType, Written
<1>6. \A c \in Bufs : buf'[c].data = IF c = b THEN d ELSE buf[c].data
  BY Zenon DEF BufType, Written
<1>7. Valid' = Valid
  BY <1>4, Zenon DEF Valid
<1>8. Dirty' = Dirty \cup {b}
  BY <1>5, Zenon DEF Dirty
<1> QED BY <1>1, <1>2, <1>3, <1>6, <1>7, <1>8, Zenon

\* The writer has the buffer locked and no request of its own is in the queue,
\* so the drive never sees the data change.
LEMMA WrittenInv ==
  ASSUME Inv, ~ panicked, NEW p \in Procs, NEW d \in Data, NEW l \in {"use", "iderw"},
         pc[p] = "use", buf' = Written(has[p], d),
         pc' = [pc EXCEPT ![p] = l], UNCHANGED <<lru, lock, device, has, panicked>>
  PROVE  Inv'
<1>0. /\ Typed /\ References /\ Locked /\ Flags /\ Stages /\ Pending /\ Owned
      /\ Asleep /\ Driven /\ Copies
  BY Zenon DEF Inv
<1>1. /\ UNCHANGED lru /\ UNCHANGED lock /\ UNCHANGED idequeue /\ UNCHANGED drive
      /\ UNCHANGED disk /\ UNCHANGED failed /\ UNCHANGED has /\ UNCHANGED panicked
  BY Zenon DEF device
<1>2. /\ 0 \notin Bufs /\ Nobody \notin Procs
      /\ \A q \in Procs : has[q] \in Bufs \/ has[q] = 0
      /\ \A q \in Procs : pc[q] # "idle" => has[q] \in Bufs
      /\ \A c \in Bufs : lock[c] \in Procs \/ lock[c] = Nobody
      /\ \A i \in DOMAIN idequeue : idequeue[i] \in Bufs
      /\ Valid \subseteq Bufs /\ Dirty \subseteq Bufs
  BY Values, Zenon
<1>3. PICK b \in Bufs : b = has[p] /\ lock[b] = p /\ b \in Valid
  <2>1. pc[p] \in Holding
    BY Zenon DEF Holding
  <2> QED BY <1>0, <1>2, <2>1, Zenon DEF Locked, Stages
<1>4. buf' = Written(b, d)
  BY <1>3, Zenon
<1>5. buf' \in [Bufs -> BufType]
  BY <1>0, <1>4, BufWritten, Zenon DEF Typed
<1>6. /\ Valid' = Valid /\ Dirty' = Dirty \cup {b}
      /\ \A c \in Bufs : buf'[c].refcnt = buf[c].refcnt
      /\ \A c \in Bufs : buf'[c].blockno = buf[c].blockno
      /\ \A c \in Bufs : buf'[c].data = IF c = b THEN d ELSE buf[c].data
  BY <1>0, <1>4, BufWritten, Zenon DEF Typed
<1>7. /\ pc' \in [Procs -> Holding \cup {"idle", "acquiresleep", "sleep lock", "brelse"}]
      /\ pc'[p] = l /\ \A q \in Procs : q # p => pc'[q] = pc[q]
  <2>1. pc \in [Procs -> Holding \cup {"idle", "acquiresleep", "sleep lock", "brelse"}]
    BY <1>0, Zenon DEF Typed
  <2> QED BY <2>1, Zenon DEF Holding
<1>8. Typed'
  BY <1>0, <1>1, <1>5, <1>7, Zenon DEF Typed, Listed
<1>9. References'
  <2>1. \A c \in Bufs : Users(c)' = Users(c)
    BY <1>1, Zenon DEF Users
  <2>2. \A c \in Bufs : buf'[c].refcnt = Cardinality(Users(c)')
    BY <1>0, <1>6, <2>1, Zenon DEF References
  <2>3. \A q \in Procs : pc'[q] = "idle" <=> has'[q] = 0
    BY <1>0, <1>1, <1>7, Zenon DEF References
  <2>4. \A q \in Procs : has'[q] # 0 => buf'[has'[q]].blockno # Nobody
    BY <1>0, <1>1, <1>2, <1>6, SMTT(20) DEF References
  <2> QED BY <2>2, <2>3, <2>4, Zenon DEF References
<1>10. Locked'
  <2>1. \A q \in Procs : pc'[q] \in Holding <=> pc[q] \in Holding
    BY <1>7, Zenon DEF Holding
  <2> QED BY <1>0, <1>1, <1>2, <2>1, Zenon DEF Locked
<1>11. Flags'
  <2>1. \A c \in Valid' : buf'[c].blockno # Nobody
    BY <1>0, <1>2, <1>6, Zenon DEF Flags
  <2>2. Dirty' \subseteq Valid'
    BY <1>0, <1>3, <1>6, Zenon DEF Flags
  <2>3. \A c \in Dirty' : buf'[c].data \in Data
    BY <1>0, <1>2, <1>6, Zenon DEF Flags
  <2> QED BY <2>1, <2>2, <2>3, Zenon DEF Flags
<1>12. Stages'
  <2>1. \A q \in Procs : q # p /\ pc[q] \in Holding => has[q] # b
    BY <1>0, <1>3, Zenon DEF Locked
  <2>2. \A q \in Procs : q # p /\ pc[q] = "io done" => has[q] # b
    BY <2>1, Zenon DEF Holding
  <2> QED BY <1>0, <1>1, <1>3, <1>6, <1>7, <2>2, Zenon DEF Stages
<1>13. \A i \in DOMAIN idequeue : idequeue[i] # b
  BY <1>0, <1>3, Zenon DEF Owned
<1>14. Pending'
  BY <1>0, <1>1, <1>6, Zenon DEF Pending
<1>15. Owned'
  <2>1. \A q \in Procs : pc[q] = "sleep io" => pc'[q] = "sleep io"
    BY <1>7, Zenon
  <2> QED BY <1>0, <1>1, <2>1, Zenon DEF Owned
<1>16. Asleep'
  BY <1>0, <1>1, <1>7, ZenonT(30) DEF Asleep
<1>17. Driven'
  <2> SUFFICES ASSUME idequeue # <<>>
               PROVE  drive = IF idequeue[1] \in Dirty' THEN buf'[idequeue[1]].data ELSE Nobody
    BY <1>1, Zenon DEF Driven
  <2>0. idequeue \in Seq(Bufs)
    BY <1>0, Zenon DEF Typed
  <2>1. 1 \in DOMAIN idequeue
    BY <2>0, QueueHead, Zenon
  <2>2. idequeue[1] \in Bufs /\ idequeue[1] # b
    BY <1>2, <1>13, <2>1, Zenon
  <2> QED BY <1>0, <1>6, <2>2, Zenon DEF Driven
<1>18. Copies'
  <2>1. \A c, e \in Bufs : c # e /\ buf'[c].blockno = buf'[e].blockno => buf'[c].blockno = Nobody
    BY <1>0, <1>6, SMTT(20) DEF Copies
  <2>2. ~ failed' => \A c \in Valid' \ Dirty' : buf'[c].data = disk'[buf'[c].blockno]
    BY <1>0, <1>1, <1>2, <1>6, Zenon DEF Copies
  <2> QED BY <2>1, <2>2, Zenon DEF Copies
<1>19. PanicOnlyWhenFull'
  BY <1>1, SMTT(20) DEF PanicOnlyWhenFull
<1> QED BY <1>8, <1>9, <1>10, <1>11, <1>12, <1>14, <1>15, <1>16, <1>17, <1>18, <1>19, Zenon
     DEF Inv

\* bwrite goes on to iderw, log_write leaves the caller where it is.
LEMMA WriteInv ==
  ASSUME Inv, ~ panicked, NEW p \in Procs, NEW k \in Blocks, NEW d \in DataOf(k),
         bwrite(p, k, d) \/ log_write(p, k, d)
  PROVE  Inv'
<1>1. d \in Data
  BY Zenon DEF Data
<1>2. CASE bwrite(p, k, d)
  BY <1>1, <1>2, WrittenInv, Zenon DEF bwrite, Goto, Written
<1>3. CASE log_write(p, k, d)
  <2>1. pc' = [pc EXCEPT ![p] = "use"]
    BY <1>3, Zenon DEF log_write, Inv, Typed
  <2> QED BY <1>1, <1>3, <2>1, WrittenInv, Zenon DEF log_write, Written
<1> QED BY <1>2, <1>3, Zenon
-----------------------------------------------------------------------------
(* The end of brelse *)

\* A reference less.
LEMMA BufUnref ==
  ASSUME buf \in [Bufs -> BufType], NEW b \in Bufs, buf[b].refcnt > 0, buf' = Unref(b)
  PROVE  /\ buf' \in [Bufs -> BufType] /\ Valid' = Valid /\ Dirty' = Dirty
         /\ \A c \in Bufs : buf'[c].refcnt = IF c = b THEN buf[c].refcnt - 1
                                             ELSE buf[c].refcnt
         /\ \A c \in Bufs : buf'[c].blockno = buf[c].blockno
         /\ \A c \in Bufs : buf'[c].data = buf[c].data
<1>1. buf' \in [Bufs -> BufType]
  BY SMTT(20) DEF BufType, Unref
<1>2. \A c \in Bufs : buf'[c].refcnt = IF c = b THEN buf[c].refcnt - 1 ELSE buf[c].refcnt
  BY Zenon DEF BufType, Unref
<1>3. \A c \in Bufs : buf'[c].blockno = buf[c].blockno
  BY Zenon DEF BufType, Unref
<1>4. \A c \in Bufs : buf'[c].valid = buf[c].valid
  BY Zenon DEF BufType, Unref
<1>5. \A c \in Bufs : buf'[c].dirty = buf[c].dirty
  BY Zenon DEF BufType, Unref
<1>6. \A c \in Bufs : buf'[c].data = buf[c].data
  BY Zenon DEF BufType, Unref
<1>7. Valid' = Valid
  BY <1>4, Zenon DEF Valid
<1>8. Dirty' = Dirty
  BY <1>5, Zenon DEF Dirty
<1> QED BY <1>1, <1>2, <1>3, <1>6, <1>7, <1>8, Zenon

\* The count is still that of the processes that refer to the buffer, and the
\* list still has every buffer.
LEMMA UnrefInv ==
  ASSUME Inv, ~ panicked, NEW p \in Procs, brelseUnref(p)
  PROVE  Inv'
<1>0. /\ Typed /\ References /\ Locked /\ Flags /\ Stages /\ Pending /\ Owned
      /\ Asleep /\ Driven /\ Copies
  BY Zenon DEF Inv
<1>1. /\ UNCHANGED lock /\ UNCHANGED idequeue /\ UNCHANGED drive
      /\ UNCHANGED disk /\ UNCHANGED failed /\ UNCHANGED panicked
      /\ pc[p] = "brelse" /\ pc' = [pc EXCEPT ![p] = "idle"]
      /\ has' = [has EXCEPT ![p] = 0]
  BY Zenon DEF brelseUnref, device, Goto
<1>2. /\ 0 \notin Bufs /\ Nobody \notin Procs
      /\ \A q \in Procs : has[q] \in Bufs \/ has[q] = 0
      /\ \A q \in Procs : pc[q] # "idle" => has[q] \in Bufs
      /\ \A c \in Bufs : lock[c] \in Procs \/ lock[c] = Nobody
      /\ \A i \in DOMAIN idequeue : idequeue[i] \in Bufs
      /\ Valid \subseteq Bufs /\ Dirty \subseteq Bufs
  BY Values, Zenon
<1>3. PICK b \in Bufs : b = has[p]
  BY <1>1, <1>2, Zenon
<1>4. buf' = Unref(b) /\ (lru' = lru \/ lru' = MoveToHead(b))
  BY <1>3, Zenon DEF brelseUnref
<1>5. /\ Cardinality(Users(b)) > 0
      /\ \A c \in Bufs : Cardinality(Users(c)') =
           IF c = b THEN Cardinality(Users(c)) - 1 ELSE Cardinality(Users(c))
  <2>1. has \in [Procs -> Bufs \cup {0}]
    BY <1>0, Zenon DEF Typed
  <2> QED BY <1>1, <1>2, <1>3, <2>1, UserLost, Zenon
<1>6. buf \in [Bufs -> BufType] /\ buf[b].refcnt > 0
  BY <1>0, <1>5, Zenon DEF Typed, References
<1>7. buf' \in [Bufs -> BufType]
  BY <1>4, <1>6, BufUnref, Zenon
<1>8. /\ Valid' = Valid /\ Dirty' = Dirty
      /\ \A c \in Bufs : buf'[c].refcnt = IF c = b THEN buf[c].refcnt - 1
                                          ELSE buf[c].refcnt
      /\ \A c \in Bufs : buf'[c].blockno = buf[c].blockno
      /\ \A c \in Bufs : buf'[c].data = buf[c].data
  BY <1>4, <1>6, BufUnref, Zenon
<1>9. Listed'
  <2>1. Listed
    BY <1>0, Zenon DEF Typed
  <2>2. CASE lru' = lru
    BY <2>1, <2>2, Zenon DEF Listed
  <2>3. CASE lru' = MoveToHead(b)
    BY <2>1, <2>3, MoveToHeadListed, Zenon
  <2> QED BY <1>4, <2>2, <2>3, Zenon
<1>10. /\ pc' \in [Procs -> Holding \cup {"idle", "acquiresleep", "sleep lock", "brelse"}]
       /\ has' \in [Procs -> Bufs \cup {0}]
  BY <1>0, <1>1, Zenon DEF Typed
<1>11. /\ has'[p] = 0 /\ pc'[p] = "idle"
       /\ \A q \in Procs : q # p => pc'[q] = pc[q] /\ has'[q] = has[q]
  BY <1>0, <1>1, Zenon DEF Typed
<1>12. Typed'
  BY <1>0, <1>1, <1>7, <1>9, <1>10, Zenon DEF Typed
<1>13. References'
  <2>1. \A c \in Bufs : buf'[c].refcnt = Cardinality(Users(c)')
    BY <1>0, <1>5, <1>8, Zenon DEF References
  <2>2. \A q \in Procs : pc'[q] = "idle" <=> has'[q] = 0
    BY <1>0, <1>11, Zenon DEF References
  <2>3. \A q \in Procs : has'[q] # 0 => buf'[has'[q]].blockno # Nobody
    BY <1>0, <1>2, <1>8, <1>11, SMTT(20) DEF References
  <2> QED BY <2>1, <2>2, <2>3, Zenon DEF References
<1>14. Locked'
  <2>1. "idle" \notin Holding /\ "brelse" \notin Holding
    BY Zenon DEF Holding
  <2>2. \A c \in Bufs : lock[c] # p
    BY <1>0, <1>1, <1>2, <2>1, SMTT(20) DEF Locked
  <2>3. \A q \in Procs : pc'[q] \in Holding => lock'[has'[q]] = q
    BY <1>0, <1>1, <1>11, <2>1, SMTT(20) DEF Locked
  <2>4. \A c \in Bufs : lock'[c] # Nobody => has'[lock'[c]] = c /\ pc'[lock'[c]] \in Holding
    BY <1>0, <1>1, <1>2, <1>11, <2>2, SMTT(20) DEF Locked
  <2> QED BY <2>3, <2>4, Zenon DEF Locked
<1>15. Flags'
  BY <1>0, <1>2, <1>8, Zenon DEF Flags
<1>16. Stages'
  BY <1>0, <1>8, <1>11, Zenon DEF Stages
<1>17. Pending'
  BY <1>0, <1>1, <1>8, Zenon DEF Pending
<1>18. Owned'
  BY <1>0, <1>1, <1>11, Zenon DEF Owned
<1>19. Asleep'
  BY <1>0, <1>1, <1>11, ZenonT(30) DEF Asleep
<1>20. Driven'
  <2> SUFFICES ASSUME idequeue # <<>>
               PROVE  drive = IF idequeue[1] \in Dirty' THEN buf'[idequeue[1]].data ELSE Nobody
    BY <1>1, Zenon DEF Driven
  <2>1. idequeue \in Seq(Bufs)
    BY <1>0, Zenon DEF Typed
  <2>2. 1 \in DOMAIN idequeue
    BY <2>1, QueueHead, Zenon
  <2> QED BY <1>0, <1>2, <1>8, <2>2, Zenon DEF Driven
<1>21. Copies'
  <2>1. \A c, e \in Bufs : c # e /\ buf'[c].blockno = buf'[e].blockno => buf'[c].blockno = Nobody
    BY <1>0, <1>8, SMTT(20) DEF Copies
  <2>2. ~ failed' => \A c \in Valid' \ Dirty' : buf'[c].data = disk'[buf'[c].blockno]
    BY <1>0, <1>1, <1>2, <1>8, Zenon DEF Copies
  <2> QED BY <2>1, <2>2, Zenon DEF Copies
<1>22. PanicOnlyWhenFull'
  BY <1>1, Zenon DEF PanicOnlyWhenFull
<1> QED BY <1>12, <1>13, <1>14, <1>15, <1>16, <1>17, <1>18, <1>19, <1>20, <1>21, <1>22, Zenon
     DEF Inv
-----------------------------------------------------------------------------
(* The drive's interrupt *)

\* Positions of the queue when the first request leaves it.
LEMMA Removed ==
  ASSUME idequeue \in Seq(Bufs), idequeue # <<>>, idequeue' = Tail(idequeue)
  PROVE  /\ idequeue' \in Seq(Bufs) /\ Head(idequeue) = idequeue[1]
         /\ \E n \in Nat :
              /\ DOMAIN idequeue = 1 .. n + 1 /\ DOMAIN idequeue' = 1 .. n
              /\ \A i \in 1 .. n : idequeue'[i] = idequeue[i + 1]
              /\ idequeue' = <<>> <=> n = 0
<1>1. idequeue' \in Seq(Bufs) /\ Head(idequeue) = idequeue[1]
  OBVIOUS
<1>2. PICK n \in Nat : n = Len(idequeue) - 1
  OBVIOUS
<1>3. DOMAIN idequeue = 1 .. n + 1 /\ DOMAIN idequeue' = 1 .. n
  BY <1>2, SMTT(20)
<1>4. \A i \in 1 .. n : idequeue'[i] = idequeue[i + 1]
  BY <1>2, SMTT(20)
<1>5. idequeue' = <<>> <=> n = 0
  <2>1. Len(idequeue') = n
    BY <1>2, SMTT(20)
  <2> QED BY <1>1, <2>1, SMTT(20)
<1> QED BY <1>1, <1>3, <1>4, <1>5, Zenon

Served(b, d) ==
  [buf EXCEPT ![b] = [@ EXCEPT !.data = d, !.valid = TRUE, !.dirty = FALSE]]

\* The buffer is valid and clean.
LEMMA BufServed ==
  ASSUME buf \in [Bufs -> BufType], NEW b \in Bufs, NEW d \in Data \cup {Nobody},
         buf' = Served(b, d)
  PROVE  /\ buf' \in [Bufs -> BufType]
         /\ Valid' = Valid \cup {b} /\ Dirty' = Dirty \ {b}
         /\ \A c \in Bufs : buf'[c].refcnt = buf[c].refcnt
         /\ \A c \in Bufs : buf'[c].blockno = buf[c].blockno
         /\ \A c \in Bufs : buf'[c].data = IF c = b THEN d ELSE buf[c].data
<1>1. buf' \in [Bufs -> BufType]
  BY Zenon DEF BufType, Served
<1>2. \A c \in Bufs : buf'[c].refcnt = buf[c].refcnt
  BY Zenon DEF BufType, Served
<1>3. \A c \in Bufs : buf'[c].blockno = buf[c].blockno
  BY Zenon DEF BufType, Served
<1>4. \A c \in Bufs : buf'[c].valid = IF c = b THEN TRUE ELSE buf[c].valid
  BY Zenon DEF BufType, Served
<1>5. \A c \in Bufs : buf'[c].dirty = IF c = b THEN FALSE ELSE buf[c].dirty
  BY Zenon DEF BufType, Served
<1>6. \A c \in Bufs : buf'[c].data = IF c = b THEN d ELSE buf[c].data
  BY Zenon DEF BufType, Served
<1>7. Valid' = Valid \cup {b}
  BY <1>4, Zenon DEF Valid
<1>8. Dirty' = Dirty \ {b}
  BY <1>5, Zenon DEF Dirty
<1> QED BY <1>1, <1>2, <1>3, <1>6, <1>7, <1>8, Zenon

\* The process whose request it was, and no other, goes on.
LEMMA Woken ==
  ASSUME Inv, NEW b \in Bufs, pc' = WakeIO(b, pc)
  PROVE  /\ pc' \in [Procs -> Holding \cup {"idle", "acquiresleep", "sleep lock", "brelse"}]
         /\ \A q \in Procs : has[q] # b \/ pc[q] # "sleep io" => pc'[q] = pc[q]
         /\ \A q \in Procs : has[q] = b /\ pc[q] = "sleep io" => pc'[q] = "io done"
<1>1. pc \in [Procs -> Holding \cup {"idle", "acquiresleep", "sleep lock", "brelse"}]
  BY Zenon DEF Inv, Typed
<1>2. \A q \in Procs : pc'[q] = IF pc[q] = "sleep io" /\ has[q] = b THEN "io done" ELSE pc[q]
  BY Zenon DEF WakeIO
<1>3. \A q \in Procs : pc'[q] \in Holding \cup {"idle", "acquiresleep", "sleep lock", "brelse"}
  BY <1>1, <1>2, Zenon DEF Holding
<1>4. pc' \in [Procs -> Holding \cup {"idle", "acquiresleep", "sleep lock", "brelse"}]
  BY <1>3, Zenon DEF WakeIO
<1> QED BY <1>2, <1>4, Zenon

\* What ideintr does to the data: a write that went well is on the disk, a read
\* that went well has what is there.
LEMMA Transfer ==
  ASSUME Inv, NEW ok \in BOOLEAN, ideintr(ok)
  PROVE  \E b \in Bufs, k \in Blocks, d \in Data \cup {Nobody} :
           /\ b = idequeue[1] /\ k = buf[b].blockno
           /\ lock[b] \in Procs /\ has[lock[b]] = b /\ pc[lock[b]] = "sleep io"
           /\ buf' = Served(b, d)
           /\ disk' \in [Blocks -> Data] /\ \A j \in Blocks : j # k => disk'[j] = disk[j]
           /\ b \in Dirty => d = buf[b].data
           /\ b \notin Dirty => disk' = disk
           /\ ok => d = disk'[k]
<1>0. Typed /\ References /\ Locked /\ Flags /\ Owned /\ Driven
  BY Zenon DEF Inv
<1>1. idequeue \in Seq(Bufs) /\ disk \in [Blocks -> Data] /\ buf \in [Bufs -> BufType]
  BY <1>0, Zenon DEF Typed
<1>2. idequeue # <<>>
  BY Zenon DEF ideintr
<1>3. PICK b \in Bufs : b = idequeue[1] /\ b = Head(idequeue) /\ 1 \in DOMAIN idequeue
  BY <1>1, <1>2, QueueHead, Zenon
<1>4. lock[b] \in Procs /\ has[lock[b]] = b /\ pc[lock[b]] = "sleep io"
  <2>1. lock[b] \in Procs /\ pc[lock[b]] = "sleep io"
    BY <1>0, <1>3, Zenon DEF Owned
  <2>2. lock[b] # Nobody
    BY <2>1, Values, Zenon
  <2> QED BY <1>0, <2>1, <2>2, Zenon DEF Locked
<1>5. PICK k \in Blocks : k = buf[b].blockno
  <2>1. buf[b].blockno # Nobody
    BY <1>0, <1>4, Values, Zenon DEF References
  <2>2. buf[b].blockno \in Blocks \cup {Nobody}
    BY <1>1, Zenon DEF BufType
  <2> QED BY <2>1, <2>2, Zenon
<1>6. buf[b].dirty <=> b \in Dirty
  BY Zenon DEF Dirty
<1>7. /\ disk' = IF ok /\ b \in Dirty THEN [disk EXCEPT ![k] = drive] ELSE disk
      /\ buf' = Served(b, IF ok /\ b \notin Dirty THEN disk[k] ELSE buf[b].data)
  <2>1. disk' = IF ok /\ buf[b].dirty THEN [disk EXCEPT ![k] = drive] ELSE disk
    BY <1>3, <1>5, Zenon DEF ideintr
  <2>2. buf' = Served(b, IF ok /\ ~ buf[b].dirty THEN disk[k] ELSE buf[b].data)
    BY <1>3, <1>5, Zenon DEF ideintr, Served
  <2>3. (IF ok /\ ~ buf[b].dirty THEN disk[k] ELSE buf[b].data)
          = (IF ok /\ b \notin Dirty THEN disk[k] ELSE buf[b].data)
    BY <1>6, Zenon
  <2> QED BY <1>6, <2>1, <2>2, <2>3, Zenon
<1>8. b \in Dirty => drive = buf[b].data /\ drive \in Data
  BY <1>0, <1>2, <1>3, Zenon DEF Driven, Flags
<1>9. buf[b].data \in Data \cup {Nobody}
  BY <1>1, Zenon DEF BufType
<1>10. PICK d \in Data \cup {Nobody} : d = IF ok /\ b \notin Dirty THEN disk[k] ELSE buf[b].data
  BY <1>1, <1>9, Zenon
<1>11. /\ disk' \in [Blocks -> Data] /\ \A j \in Blocks : j # k => disk'[j] = disk[j]
       /\ ok => d = disk'[k]
       /\ b \notin Dirty => disk' = disk
  BY <1>1, <1>7, <1>8, <1>10, Zenon
<1>12. buf' = Served(b, d)
  BY <1>7, <1>10, Zenon
<1> QED BY <1>3, <1>4, <1>5, <1>10, <1>11, <1>12, Zenon
\* The served request leaves the queue and its buffer matches the disk; the
\* other requests, their buffers and their owners are as they were.
LEMMA InterruptInv ==
  ASSUME Inv, ~ panicked, NEW ok \in BOOLEAN, ideintr(ok)
  PROVE  Inv'
<1>0. /\ Typed /\ References /\ Locked /\ Flags /\ Stages /\ Pending /\ Owned
      /\ Asleep /\ Driven /\ Copies
  BY Zenon DEF Inv
<1>1. /\ UNCHANGED lru /\ UNCHANGED lock /\ UNCHANGED has /\ UNCHANGED panicked
      /\ idequeue # <<>> /\ idequeue' = Tail(idequeue)
      /\ drive' = NextRequest(idequeue')
      /\ failed' = (failed \/ ~ ok)
  BY Zenon DEF ideintr
<1>2. /\ 0 \notin Bufs /\ Nobody \notin Procs
      /\ \A q \in Procs : has[q] \in Bufs \/ has[q] = 0
      /\ \A c \in Bufs : lock[c] \in Procs \/ lock[c] = Nobody
      /\ \A i \in DOMAIN idequeue : idequeue[i] \in Bufs
      /\ Valid \subseteq Bufs /\ Dirty \subseteq Bufs
  BY Values, Zenon
<1>3. PICK b \in Bufs, k \in Blocks, d \in Data \cup {Nobody} :
        /\ b = idequeue[1] /\ k = buf[b].blockno
        /\ lock[b] \in Procs /\ has[lock[b]] = b /\ pc[lock[b]] = "sleep io"
        /\ buf' = Served(b, d)
        /\ disk' \in [Blocks -> Data] /\ \A j \in Blocks : j # k => disk'[j] = disk[j]
        /\ b \in Dirty => d = buf[b].data
        /\ b \notin Dirty => disk' = disk
        /\ ok => d = disk'[k]
  BY Transfer, Zenon
<1>4. /\ buf' \in [Bufs -> BufType] /\ idequeue \in Seq(Bufs)
      /\ disk' \in [Blocks -> Data]
  BY <1>0, <1>3, BufServed, Zenon DEF Typed
<1>5. /\ Valid' = Valid \cup {b} /\ Dirty' = Dirty \ {b}
      /\ \A c \in Bufs : buf'[c].refcnt = buf[c].refcnt
      /\ \A c \in Bufs : buf'[c].blockno = buf[c].blockno
      /\ \A c \in Bufs : buf'[c].data = IF c = b THEN d ELSE buf[c].data
  BY <1>0, <1>3, BufServed, Zenon DEF Typed
<1>6. idequeue' \in Seq(Bufs) /\ Head(idequeue) = b
  BY <1>1, <1>3, <1>4, Removed, Zenon
<1>7. PICK n \in Nat :
        /\ DOMAIN idequeue = 1 .. n + 1 /\ DOMAIN idequeue' = 1 .. n
        /\ \A i \in 1 .. n : idequeue'[i] = idequeue[i + 1]
        /\ idequeue' = <<>> <=> n = 0
  BY <1>1, <1>4, Removed, Zenon
<1>8. /\ \A i \in 1 .. n : i + 1 \in 1 .. n + 1 /\ i + 1 # 1
      /\ \A i \in 1 .. n + 1 : i # 1 => \E j \in 1 .. n : i = j + 1
      /\ 1 \in 1 .. n + 1
  <2>1. \A i \in 1 .. n + 1 : i # 1 => i - 1 \in 1 .. n /\ i = (i - 1) + 1
    OBVIOUS
  <2> QED BY <2>1, SMTT(20)
<1>a. \A i \in 1 .. n : \E j \in 1 .. n + 1 : j # 1 /\ idequeue'[i] = idequeue[j]
  BY <1>7, <1>8, Zenon
<1>9. pc' = WakeIO(b, pc)
  BY <1>6, Zenon DEF ideintr
<1>10. pc' \in [Procs -> Holding \cup {"idle", "acquiresleep", "sleep lock", "brelse"}]
  BY <1>9, Woken, Zenon
<1>11. /\ \A q \in Procs : has[q] # b \/ pc[q] # "sleep io" => pc'[q] = pc[q]
       /\ \A q \in Procs : has[q] = b /\ pc[q] = "sleep io" => pc'[q] = "io done"
  BY <1>9, Woken, Zenon
\* The other requests are for other buffers.
<1>12. \A i \in 1 .. n : idequeue'[i] \in Bufs /\ idequeue'[i] # b
  <2>1. \A i \in 1 .. n + 1 : idequeue[i] = idequeue[1] => i = 1
    BY <1>0, <1>7, <1>8, Zenon DEF Pending
  <2>2. \A i \in 1 .. n + 1 : idequeue[i] \in Bufs
    BY <1>2, <1>7, Zenon
  <2> QED BY <1>3, <1>a, <2>1, <2>2, Zenon
<1>13. drive' \in Data \cup {Nobody} /\ Driven'
  <2>1. CASE n = 0
    BY <1>1, <1>7, <2>1, Zenon DEF NextRequest, Driven
  <2>2. CASE n # 0
    <3>1. idequeue' # <<>> /\ 1 \in 1 .. n /\ Head(idequeue') = idequeue'[1]
      BY <1>6, <1>7, <2>2, SMTT(20)
    <3>2. PICK c \in Bufs : c = idequeue'[1] /\ c # b
      BY <1>12, <3>1, Zenon
    <3>3. drive' = IF c \in Dirty THEN buf[c].data ELSE Nobody
      BY <1>1, <3>1, <3>2, Zenon DEF NextRequest, idestart, Dirty
    <3>4. /\ c \in Dirty' <=> c \in Dirty
          /\ buf'[c].data = buf[c].data
      BY <1>5, <3>2, Zenon
    <3>5. Driven'
      BY <3>2, <3>3, <3>4, Zenon DEF Driven
    <3>6. drive' \in Data \cup {Nobody}
      BY <1>0, <3>3, Zenon DEF Flags
    <3> QED BY <3>5, <3>6, Zenon
  <2> QED BY <2>1, <2>2, Zenon
<1>14. failed' \in BOOLEAN
  BY <1>1, Zenon
<1>15. Typed'
  BY <1>0, <1>1, <1>4, <1>6, <1>10, <1>13, <1>14, Zenon DEF Typed, Listed
<1>16. References'
  <2>1. \A c \in Bufs : Users(c)' = Users(c)
    BY <1>1, Zenon DEF Users
  <2>2. \A c \in Bufs : buf'[c].refcnt = Cardinality(Users(c)')
    BY <1>0, <1>5, <2>1, Zenon DEF References
  <2>3. \A q \in Procs : pc'[q] = "idle" <=> has'[q] = 0
    BY <1>0, <1>1, <1>11, ZenonT(40) DEF References
  <2>4. \A q \in Procs : has'[q] # 0 => buf'[has'[q]].blockno # Nobody
    BY <1>0, <1>1, <1>2, <1>5, Zenon DEF References
  <2> QED BY <2>2, <2>3, <2>4, Zenon DEF References
<1>17. Locked'
  <2>1. \A q \in Procs : pc'[q] \in Holding <=> pc[q] \in Holding
    BY <1>11, Zenon DEF Holding
  <2> QED BY <1>0, <1>1, <1>2, <2>1, Zenon DEF Locked
<1>18. Flags'
  <2>1. buf[b].blockno # Nobody
    BY <1>3, Values, Zenon
  <2>2. \A c \in Valid' : buf'[c].blockno # Nobody
    BY <1>0, <1>2, <1>5, <2>1, Zenon DEF Flags
  <2>3. Dirty' \subseteq Valid'
    BY <1>0, <1>5, Zenon DEF Flags
  <2>4. \A c \in Dirty' : buf'[c].data \in Data
    BY <1>0, <1>2, <1>5, Zenon DEF Flags
  <2> QED BY <2>2, <2>3, <2>4, Zenon DEF Flags
<1>19. Stages'
  <2>1. \A q \in Procs : pc[q] \in {"iderw", "io done"} => has[q] # b
    <3>1. \A q \in Procs : pc[q] \in {"iderw", "io done"} => lock[has[q]] = q
      BY <1>0, Zenon DEF Locked, Holding
    <3> QED BY <1>3, <3>1, Zenon
  <2>2. \A q \in Procs : pc'[q] = "use" => has[q] \in Valid'
    BY <1>0, <1>5, <1>11, Zenon DEF Stages
  <2>3. \A q \in Procs : pc'[q] = "iderw" => has[q] \notin Valid' \/ has[q] \in Dirty'
    BY <1>0, <1>5, <1>11, <2>1, Zenon DEF Stages
  <2>4. \A q \in Procs : pc'[q] = "io done" => has[q] \in Valid' /\ has[q] \notin Dirty'
    BY <1>0, <1>5, <1>11, Zenon DEF Stages
  <2> QED BY <1>1, <2>2, <2>3, <2>4, Zenon DEF Stages
<1>20. Pending'
  <2>1. \A i, j \in 1 .. n : idequeue'[i] = idequeue'[j] => i = j
    <3>1. \A i, j \in 1 .. n + 1 : idequeue[i] = idequeue[j] => i = j
      BY <1>0, <1>7, Zenon DEF Pending
    <3>2. \A i, j \in 1 .. n : i + 1 = j + 1 => i = j
      OBVIOUS
    <3> QED BY <1>7, <1>8, <3>1, <3>2, SMTT(20)
  <2>2. \A i \in 1 .. n : idequeue'[i] \notin Valid' \/ idequeue'[i] \in Dirty'
    <3>1. \A i \in 1 .. n + 1 : idequeue[i] \notin Valid \/ idequeue[i] \in Dirty
      BY <1>0, <1>7, Zenon DEF Pending
    <3> QED BY <1>5, <1>a, <1>12, <3>1, Zenon
  <2> QED BY <1>7, <2>1, <2>2, Zenon DEF Pending
<1>21. Owned'
  <2>1. \A c \in Bufs : lock[c] \in Procs /\ pc[lock[c]] = "sleep io" /\ c # b
                        => pc'[lock[c]] = "sleep io"
    <3>1. \A c \in Bufs : lock[c] \in Procs => has[lock[c]] = c
      BY <1>0, <1>2, Zenon DEF Locked
    <3> QED BY <1>11, <3>1, Zenon
  <2>2. \A i \in 1 .. n : lock[idequeue'[i]] \in Procs /\ pc[lock[idequeue'[i]]] = "sleep io"
    <3>1. \A i \in 1 .. n + 1 : lock[idequeue[i]] \in Procs /\ pc[lock[idequeue[i]]] = "sleep io"
      BY <1>0, <1>7, Zenon DEF Owned
    <3> QED BY <1>a, <3>1, ZenonT(30)
  <2>3. \A i \in 1 .. n : pc'[lock[idequeue'[i]]] = "sleep io"
    BY <1>12, <2>1, <2>2, Zenon
  <2> QED BY <1>1, <1>7, <2>2, <2>3, Zenon DEF Owned
<1>22. Asleep'
  <2> SUFFICES ASSUME NEW q \in Procs, pc'[q] = "sleep io"
               PROVE  \E j \in 1 .. n : idequeue'[j] = has[q]
    BY <1>1, <1>7, Zenon DEF Asleep
  <2>1. pc[q] = "sleep io" /\ has[q] # b
    BY <1>11, Zenon
  <2>2. PICK i \in 1 .. n + 1 : idequeue[i] = has[q]
    BY <1>0, <1>7, <2>1, Zenon DEF Asleep
  <2>3. i # 1
    BY <1>3, <2>1, <2>2, Zenon
  <2> QED BY <1>7, <1>8, <2>2, <2>3, ZenonT(40)
<1>23. Copies'
  <2>1. \A c, e \in Bufs : c # e /\ buf'[c].blockno = buf'[e].blockno => buf'[c].blockno = Nobody
    BY <1>0, <1>5, SMTT(20) DEF Copies
  <2>2. ASSUME ~ failed', NEW c \in Valid' \ Dirty'
        PROVE  buf'[c].data = disk'[buf'[c].blockno]
    <3>1. ~ failed /\ ok /\ c \in Bufs
      BY <1>1, <1>2, <1>5, <2>2, Zenon
    <3>2. CASE c = b
      BY <1>3, <1>5, <3>1, <3>2, Zenon
    <3>3. CASE c # b
      <4>1. c \in Valid \ Dirty
        BY <1>5, <2>2, <3>3, Zenon
      <4>2. buf[c].data = disk[buf[c].blockno]
        BY <1>0, <3>1, <4>1, Zenon DEF Copies
      <4>3. buf[c].blockno # k /\ buf[c].blockno # Nobody
        BY <1>0, <1>3, <3>1, <3>3, <4>1, Values, Zenon DEF Copies, Flags
      <4>4. buf[c].blockno \in Blocks
        <5>1. buf \in [Bufs -> BufType]
          BY <1>0, Zenon DEF Typed
        <5>2. buf[c].blockno \in Blocks \cup {Nobody}
          BY <3>1, <5>1, Zenon DEF BufType
        <5> QED BY <4>3, <5>2, Zenon
      <4> QED BY <1>3, <1>5, <3>1, <3>3, <4>2, <4>3, <4>4, Zenon
    <3> QED BY <3>2, <3>3, Zenon
  <2> QED BY <2>1, <2>2, Zenon DEF Copies
<1>24. PanicOnlyWhenFull'
  BY <1>1, Zenon DEF PanicOnlyWhenFull
<1> QED BY <1>13, <1>15, <1>16, <1>17, <1>18, <1>19, <1>20, <1>21, <1>22, <1>23, <1>24, Zenon
     DEF Inv
-----------------------------------------------------------------------------
(* The invariant holds *)

\* bget keeps the invariant, whether it finds the block, recycles a buffer or
\* panics.
LEMMA BgetInv ==
  ASSUME Inv, ~ panicked, NEW p \in Procs, NEW k \in Blocks, bget(p, k)
  PROVE  Inv'
<1>1. pc[p] = "idle" /\ UNCHANGED <<lru, lock, device>>
  BY Zenon DEF bget
<1>2. CASE bgetHit(p, k)
  BY <1>1, <1>2, HitInv, Zenon
<1>3. CASE bgetRecycle(p, k)
  BY <1>1, <1>3, RecycleInv, Zenon
<1>4. CASE bgetPanic(k)
  BY <1>1, <1>4, PanicInv, Zenon
<1> QED BY <1>2, <1>3, <1>4, Zenon DEF bget

\* Every step of the cache and of the drive keeps the invariant.
LEMMA StepInv == Inv /\ [Next]_vars => Inv'
<1> SUFFICES ASSUME Inv, [Next]_vars PROVE Inv'
  OBVIOUS
<1>1. CASE UNCHANGED vars
  <2>1. /\ UNCHANGED lru /\ UNCHANGED buf /\ UNCHANGED lock /\ UNCHANGED idequeue
        /\ UNCHANGED drive /\ UNCHANGED disk /\ UNCHANGED pc /\ UNCHANGED has
        /\ UNCHANGED failed /\ UNCHANGED panicked
    BY <1>1, Zenon DEF vars, cache, device
  <2>2. Typed'
    BY <2>1, Zenon DEF Inv, Typed, Listed
  <2>3. References' /\ Locked'
    <3>1. \A b \in Bufs : Users(b)' = Users(b)
      BY <2>1, Zenon DEF Users
    <3>2. References'
      BY <2>1, <3>1, Zenon DEF Inv, References
    <3> QED BY <2>1, <3>2, Zenon DEF Inv, Locked
  <2>4. Valid' = Valid /\ Dirty' = Dirty
    BY <2>1, Zenon DEF Valid, Dirty
  <2>5. Flags' /\ Stages' /\ Pending'
    BY <2>1, <2>4, Zenon DEF Inv, Flags, Stages, Pending
  <2>6. Owned' /\ Asleep' /\ Driven'
    BY <2>1, <2>4, Zenon DEF Inv, Owned, Asleep, Driven
  <2>7. Copies' /\ PanicOnlyWhenFull'
    BY <2>1, <2>4, Zenon DEF Inv, Copies, PanicOnlyWhenFull
  <2> QED BY <2>2, <2>3, <2>5, <2>6, <2>7, Zenon DEF Inv
<1>2. CASE Next
  <2>0. ~ panicked
    BY <1>2, Zenon DEF Next
  <2>1. CASE \E p \in Procs, k \in Blocks : bget(p, k)
    BY <2>0, <2>1, BgetInv, Zenon
  <2>2. CASE \E p \in Procs, k \in Blocks : \E d \in DataOf(k) :
               bwrite(p, k, d) \/ log_write(p, k, d)
    BY <2>0, <2>2, WriteInv, Zenon
  <2>3. CASE \E p \in Procs : acquiresleep(p)
    BY <2>0, <2>3, AcquireInv, Zenon
  <2>4. CASE \E p \in Procs : iderw(p)
    BY <2>0, <2>4, RequestInv, Zenon
  <2>5. CASE \E p \in Procs : iderwCheck(p)
    BY <2>0, <2>5, CheckInv, Zenon
  <2>6. CASE \E p \in Procs : brelse(p)
    BY <2>0, <2>6, ReleaseInv, Zenon
  <2>7. CASE \E p \in Procs : brelseUnref(p)
    BY <2>0, <2>7, UnrefInv, Zenon
  <2>8. CASE \E ok \in BOOLEAN : ideintr(ok)
    BY <2>0, <2>8, InterruptInv, Zenon
  <2> QED BY <1>2, <2>1, <2>2, <2>3, <2>4, <2>5, <2>6, <2>7, <2>8, Zenon DEF Next
<1> QED BY <1>1, <1>2, Zenon

\* The invariant holds in every reachable state.
LEMMA Invariance == Spec => []Inv
<1> QED BY InitInv, StepInv, PTL DEF Spec

\* bio.c: whatever hits, recycling, writes, releases and interrupts happen in
\* whatever order, the list has every buffer once, a block has one buffer, a
\* clean buffer is what the disk holds, and a panic means that every buffer is
\* in use or kept by the log.
THEOREM AlwaysCacheConsistent == Spec => []CacheConsistent
<1>1. Inv => CacheConsistent
  <2> SUFFICES ASSUME Inv PROVE CacheConsistent
    OBVIOUS
  <2>1. Typed /\ Copies /\ PanicOnlyWhenFull
    BY Zenon DEF Inv
  <2>2. TypeOK
    <3>1. lru \in [Bufs -> Bufs] /\ {lru[i] : i \in Bufs} = Bufs
      BY <2>1, Zenon DEF Typed, Listed
    <3>2. {idequeue[i] : i \in DOMAIN idequeue} \subseteq Bufs
      BY Values, Zenon
    <3> QED BY <2>1, <3>1, <3>2, Zenon DEF Typed, TypeOK, BufType
  <2>3. OneCopy
    BY <2>1, Zenon DEF Copies, OneCopy
  <2>4. CleanIsOnDisk
    BY <2>1, Zenon DEF Copies, CleanIsOnDisk, Valid, Dirty
  <2> QED BY <2>1, <2>2, <2>3, <2>4, Zenon DEF CacheConsistent
<1> QED BY <1>1, Invariance, PTL

\* ide.c: a request in the queue belongs to a process that has the buffer
\* locked and sleeps until the drive has served it, and the drive still has the
\* data of the first one.
THEOREM AlwaysRequestOwned == Spec => []RequestOwned
<1>1. Inv => RequestOwned
  <2> SUFFICES ASSUME Inv PROVE RequestOwned
    OBVIOUS
  <2>1. Typed /\ Locked /\ Pending /\ Owned /\ Driven
    BY Zenon DEF Inv
  <2>2. \A i \in DOMAIN idequeue : \E p \in Procs :
          lock[idequeue[i]] = p /\ has[p] = idequeue[i] /\ pc[p] = "sleep io"
    <3>1. \A i \in DOMAIN idequeue :
            lock[idequeue[i]] \in Procs /\ pc[lock[idequeue[i]]] = "sleep io"
      BY <2>1, Zenon DEF Owned
    <3>2. \A i \in DOMAIN idequeue : idequeue[i] \in Bufs /\ lock[idequeue[i]] # Nobody
      BY <3>1, Values, Zenon
    <3>3. \A i \in DOMAIN idequeue : has[lock[idequeue[i]]] = idequeue[i]
      BY <2>1, <3>2, Zenon DEF Locked
    <3> QED BY <3>1, <3>3, Zenon
  <2>3. ASSUME idequeue # <<>> PROVE drive = idestart(Head(idequeue))
    <3>1. idequeue \in Seq(Bufs)
      BY <2>1, Zenon DEF Typed
    <3>2. PICK b \in Bufs : b = idequeue[1] /\ b = Head(idequeue)
      BY <2>3, <3>1, SMTT(20)
    <3>3. idestart(b) = IF b \in Dirty THEN buf[b].data ELSE Nobody
      BY Zenon DEF idestart, Dirty
    <3> QED BY <2>1, <2>3, <3>2, <3>3, Zenon DEF Driven
  <2> QED BY <2>1, <2>2, <2>3, Zenon DEF RequestOwned, Pending
<1> QED BY <1>1, Invariance, PTL
-----------------------------------------------------------------------------
(* The cache implements a store of blocks *)

\* The content of a block is in its valid buffer, or on the disk.
ContentHeld ==
  /\ \A k \in Blocks, b \in Valid : buf[b].blockno = k => Content(k) = buf[b].data
  /\ \A k \in Blocks : (\A b \in Valid : buf[b].blockno # k) => Content(k) = disk[k]

\* The owner of a block is the holder of its buffer's lock.
OwnerHeld ==
  /\ \A k \in Blocks, b \in Bufs : buf[b].blockno = k => Owner(k) = lock[b]
  /\ \A k \in Blocks : (\A b \in Bufs : buf[b].blockno # k) => Owner(k) = Nobody

\* Content and Owner choose the only buffer there is to choose.
LEMMA Mapped == Inv => ContentHeld /\ OwnerHeld
<1> SUFFICES ASSUME Inv PROVE ContentHeld /\ OwnerHeld
  OBVIOUS
<1>1. \A b, c \in Bufs : buf[b].blockno = buf[c].blockno /\ buf[b].blockno # Nobody => b = c
  BY Zenon DEF Inv, Copies
<1>2. Nobody \notin Blocks
  BY Values, Zenon
<1>3. ContentHeld
  <2> SUFFICES ASSUME NEW k \in Blocks
               PROVE  /\ \A b \in Valid : buf[b].blockno = k => Content(k) = buf[b].data
                      /\ (\A b \in Valid : buf[b].blockno # k) => Content(k) = disk[k]
    BY Zenon DEF ContentHeld
  <2> DEFINE C == {b \in Cached(k) : buf[b].valid}
  <2>1. Content(k) = IF C = {} THEN disk[k] ELSE buf[CHOOSE b \in C : TRUE].data
    BY Zenon DEF Content
  <2>2. C = {b \in Valid : buf[b].blockno = k}
    BY Zenon DEF Cached, Valid
  <2>3. Valid \subseteq Bufs
    BY Values, Zenon
  <2> HIDE DEF C
  <2>4. ASSUME NEW b \in Valid, buf[b].blockno = k PROVE Content(k) = buf[b].data
    <3>1. C = {b}
      BY <1>1, <1>2, <2>2, <2>3, <2>4, Zenon
    <3>2. C # {} /\ (CHOOSE c \in C : TRUE) = b
      BY <3>1, Zenon
    <3> QED BY <2>1, <3>2, Zenon
  <2>5. (\A b \in Valid : buf[b].blockno # k) => Content(k) = disk[k]
    BY <2>1, <2>2, Zenon
  <2> QED BY <2>4, <2>5, Zenon
<1>4. OwnerHeld
  <2> SUFFICES ASSUME NEW k \in Blocks
               PROVE  /\ \A b \in Bufs : buf[b].blockno = k => Owner(k) = lock[b]
                      /\ (\A b \in Bufs : buf[b].blockno # k) => Owner(k) = Nobody
    BY Zenon DEF OwnerHeld
  <2> DEFINE C == {b \in Cached(k) : lock[b] # Nobody}
  <2>1. Owner(k) = IF C = {} THEN Nobody ELSE lock[CHOOSE b \in C : TRUE]
    BY Zenon DEF Owner
  <2>2. C = {b \in Bufs : buf[b].blockno = k /\ lock[b] # Nobody}
    BY Zenon DEF Cached
  <2> HIDE DEF C
  <2>4. ASSUME NEW b \in Bufs, buf[b].blockno = k PROVE Owner(k) = lock[b]
    <3>1. CASE lock[b] = Nobody
      <4>1. C = {}
        BY <1>1, <1>2, <2>2, <2>4, <3>1, Zenon
      <4> QED BY <2>1, <3>1, <4>1, Zenon
    <3>2. CASE lock[b] # Nobody
      <4>1. C = {b}
        BY <1>1, <1>2, <2>2, <2>4, <3>2, Zenon
      <4>2. C # {} /\ (CHOOSE c \in C : TRUE) = b
        BY <4>1, Zenon
      <4> QED BY <2>1, <4>2, Zenon
    <3> QED BY <3>1, <3>2, Zenon
  <2>5. (\A b \in Bufs : buf[b].blockno # k) => Owner(k) = Nobody
    BY <2>1, <2>2, Zenon
  <2> QED BY <2>4, <2>5, Zenon
<1> QED BY <1>3, <1>4, Zenon

\* The same after a step.
LEMMA MappedNext == Inv' => ContentHeld' /\ OwnerHeld'
<1> QED BY Mapped, PTL

\* binit starts with the disk's contents and no owners.
LEMMA RefinesInit == Init => Store!Init
<1> SUFFICES ASSUME Init PROVE Store!Init
  OBVIOUS
<1>1. Inv
  BY InitInv, Zenon
<1>2. ContentHeld /\ OwnerHeld
  BY <1>1, Mapped, Zenon
<1>3. Valid = {} /\ \A b \in Bufs : lock[b] = Nobody
  BY Zenon DEF Init, Valid
<1>4. disk \in [Blocks -> Data]
  BY <1>1, Zenon DEF Inv, Typed
<1>5. \A k \in Blocks : Content(k) = disk[k] /\ Content(k) \in Data
  BY <1>2, <1>3, <1>4, Zenon DEF ContentHeld
<1>6. \A k \in Blocks : Owner(k) = Nobody
  BY <1>2, <1>3, Zenon DEF OwnerHeld
<1>7. [k \in Blocks |-> Content(k)] \in [Blocks -> Data]
  BY <1>5, Zenon
<1>8. [k \in Blocks |-> Owner(k)] = [b \in Blocks |-> Nobody]
  BY <1>6, Zenon
<1>9. failed = FALSE
  BY Zenon DEF Init
<1> QED BY <1>7, <1>8, <1>9, Zenon DEF Store!Init

\* A step after which every block has its content and its owner is no step of
\* the store.
LEMMA Unmoved ==
  ASSUME UNCHANGED failed, \A k \in Blocks : Content(k)' = Content(k),
         \A k \in Blocks : Owner(k)' = Owner(k)
  PROVE  UNCHANGED Store!vars
<1>1. [k \in Blocks |-> Content(k)]' = [k \in Blocks |-> Content(k)]
  OBVIOUS
<1>2. [k \in Blocks |-> Owner(k)]' = [k \in Blocks |-> Owner(k)]
  OBVIOUS
<1> QED BY <1>1, <1>2, Zenon DEF Store!vars
\* Buffers that keep block, validity and data, over the same disk, keep every
\* content.
LEMMA KeepsContent ==
  ASSUME Inv, Inv', Valid' = Valid, UNCHANGED disk,
         \A b \in Bufs : buf'[b].blockno = buf[b].blockno,
         \A b \in Bufs : buf'[b].data = buf[b].data
  PROVE  \A k \in Blocks : Content(k)' = Content(k)
<1>1. ContentHeld /\ ContentHeld' /\ Valid \subseteq Bufs
  BY Mapped, MappedNext, Values, Zenon
<1> SUFFICES ASSUME NEW k \in Blocks PROVE Content(k)' = Content(k)
  OBVIOUS
<1>2. CASE \E b \in Valid : buf[b].blockno = k
  BY <1>1, <1>2, SMTT(20) DEF ContentHeld
<1>3. CASE \A b \in Valid : buf[b].blockno # k
  BY <1>1, <1>3, SMTT(20) DEF ContentHeld
<1> QED BY <1>2, <1>3, Zenon

\* Buffers that keep block and lock keep every owner.
LEMMA KeepsOwner ==
  ASSUME Inv, Inv', UNCHANGED lock, \A b \in Bufs : buf'[b].blockno = buf[b].blockno
  PROVE  \A k \in Blocks : Owner(k)' = Owner(k)
<1>1. OwnerHeld /\ OwnerHeld'
  BY Mapped, MappedNext, Zenon
<1> SUFFICES ASSUME NEW k \in Blocks PROVE Owner(k)' = Owner(k)
  OBVIOUS
<1>2. CASE \E b \in Bufs : buf[b].blockno = k
  BY <1>1, <1>2, SMTT(20) DEF OwnerHeld
<1>3. CASE \A b \in Bufs : buf[b].blockno # k
  BY <1>1, <1>3, Zenon DEF OwnerHeld
<1> QED BY <1>2, <1>3, Zenon

\* A hit is no step of the store.
LEMMA RefinesHit ==
  ASSUME Inv, Inv', NEW p \in Procs, NEW k \in Blocks, bgetHit(p, k),
         UNCHANGED <<lru, lock, device>>
  PROVE  UNCHANGED Store!vars
<1>1. PICK b \in Bufs : buf' = [buf EXCEPT ![b].refcnt = @ + 1]
  BY Zenon DEF bgetHit, Cached
<1>2. UNCHANGED lock /\ UNCHANGED disk /\ UNCHANGED failed
  BY Zenon DEF device
<1>3. /\ Valid' = Valid
      /\ \A c \in Bufs : buf'[c].blockno = buf[c].blockno
      /\ \A c \in Bufs : buf'[c].data = buf[c].data
  BY <1>1, BufHit, Zenon DEF Inv, Typed
<1> QED BY <1>2, <1>3, KeepsContent, KeepsOwner, Unmoved, Zenon

\* Recycling is no step of the store: the victim is clean, so its block is on
\* the disk, and nobody has it locked.
LEMMA RefinesRecycle ==
  ASSUME Inv, Inv', ~ failed, NEW p \in Procs, NEW k \in Blocks, bgetRecycle(p, k),
         UNCHANGED <<lru, lock, device>>
  PROVE  UNCHANGED Store!vars
<1>1. UNCHANGED lock /\ UNCHANGED disk /\ UNCHANGED failed
  BY Zenon DEF device
<1>2. PICK v \in Unused : buf' = [buf EXCEPT ![v] = Recycled(@, k)]
  <2>1. Unused # {} /\ buf' = [buf EXCEPT ![Victim] = Recycled(@, k)]
    BY Zenon DEF bgetRecycle
  <2>2. Victim \in Unused
    BY <2>1, VictimUnused, Zenon DEF Inv, Typed
  <2> QED BY <2>1, <2>2, Zenon
<1>3. v \in Bufs /\ lock[v] = Nobody
  BY UnusedFree, Zenon
<1>4. v \notin Dirty
  BY Zenon DEF Unused, Dirty
<1>5. buf \in [Bufs -> BufType]
  BY Zenon DEF Inv, Typed
<1>6. /\ Valid' = Valid \ {v}
      /\ \A c \in Bufs : buf'[c].blockno = IF c = v THEN k ELSE buf[c].blockno
      /\ \A c \in Bufs : buf'[c].data = buf[c].data
  BY <1>2, <1>3, <1>4, <1>5, BufRecycled, ZenonT(40)
<1>7. \A c \in Bufs : buf[c].blockno # k
  BY Zenon DEF bgetRecycle, Cached
<1>8. /\ ContentHeld /\ ContentHeld' /\ OwnerHeld /\ OwnerHeld' /\ Copies
      /\ Valid \subseteq Bufs /\ Nobody \notin Blocks
  BY Mapped, MappedNext, Values, Zenon DEF Inv
<1>9. ASSUME NEW j \in Blocks PROVE Content(j)' = Content(j)
  <2>1. CASE \E b \in Valid : b # v /\ buf[b].blockno = j
    <3>1. PICK b \in Valid : b # v /\ buf[b].blockno = j
      BY <2>1, Zenon
    <3>2. b \in Valid' /\ b \in Bufs /\ buf'[b].blockno = j /\ buf'[b].data = buf[b].data
      BY <1>6, <1>8, <3>1, Zenon
    <3>3. Content(j) = buf[b].data
      BY <1>8, <3>1, Zenon DEF ContentHeld
    <3>4. Content(j)' = buf'[b].data
      BY <1>8, <3>2, Zenon DEF ContentHeld
    <3> QED BY <3>2, <3>3, <3>4, Zenon
  <2>2. CASE v \in Valid /\ buf[v].blockno = j
    <3>1. \A b \in Valid' : buf'[b].blockno # j
      BY <1>3, <1>6, <1>8, <2>2, Zenon DEF Copies
    <3>2. Content(j)' = disk'[j]
      BY <1>8, <3>1, Zenon DEF ContentHeld
    <3>3. Content(j) = buf[v].data
      BY <1>8, <2>2, Zenon DEF ContentHeld
    <3>4. buf[v].data = disk[j]
      BY <1>4, <1>8, <2>2, Zenon DEF Copies
    <3> QED BY <1>1, <3>2, <3>3, <3>4, Zenon
  <2>3. CASE \A b \in Valid : buf[b].blockno # j
    <3>1. \A b \in Valid' : buf'[b].blockno # j
      BY <1>6, <1>8, <2>3, Zenon
    <3> QED BY <1>1, <1>8, <2>3, <3>1, Zenon DEF ContentHeld
  <2> QED BY <2>1, <2>2, <2>3, Zenon
<1>10. ASSUME NEW j \in Blocks PROVE Owner(j)' = Owner(j)
  <2>1. CASE j = k
    <3>1. Owner(j) = Nobody
      BY <1>7, <1>8, <2>1, Zenon DEF OwnerHeld
    <3>2. Owner(j)' = lock'[v]
      BY <1>3, <1>6, <1>8, <2>1, Zenon DEF OwnerHeld
    <3> QED BY <1>1, <1>3, <3>1, <3>2, Zenon
  <2>2. CASE j # k /\ buf[v].blockno = j
    <3>1. Owner(j) = Nobody
      BY <1>3, <1>8, <2>2, Zenon DEF OwnerHeld
    <3>2. \A b \in Bufs : buf'[b].blockno # j
      BY <1>3, <1>6, <1>8, <2>2, Zenon DEF Copies
    <3> QED BY <1>8, <3>1, <3>2, Zenon DEF OwnerHeld
  <2>3. CASE j # k /\ buf[v].blockno # j
    <3>1. \A b \in Bufs : buf'[b].blockno = j <=> buf[b].blockno = j
      BY <1>3, <1>6, <2>3, Zenon
    <3>2. CASE \E b \in Bufs : buf[b].blockno = j
      BY <1>1, <1>8, <3>1, <3>2, SMTT(20) DEF OwnerHeld
    <3>3. CASE \A b \in Bufs : buf[b].blockno # j
      BY <1>8, <3>1, <3>3, Zenon DEF OwnerHeld
    <3> QED BY <3>2, <3>3, Zenon
  <2> QED BY <2>1, <2>2, <2>3, Zenon
<1> QED BY <1>1, <1>9, <1>10, Unmoved, Zenon
\* Steps that leave buffers, locks and disk alone, as queueing a request,
\* checking its flags and going to sleep do, are no steps of the store.
LEMMA RefinesQuiet ==
  ASSUME Inv, Inv', UNCHANGED buf, UNCHANGED lock, UNCHANGED disk, UNCHANGED failed
  PROVE  UNCHANGED Store!vars
<1>1. Valid' = Valid
  BY Zenon DEF Valid
<1>2. /\ \A b \in Bufs : buf'[b].blockno = buf[b].blockno
      /\ \A b \in Bufs : buf'[b].data = buf[b].data
  OBVIOUS
<1> QED BY <1>1, <1>2, KeepsContent, KeepsOwner, Unmoved, Zenon

\* Giving back the reference is no step of the store.
LEMMA RefinesUnref ==
  ASSUME Inv, Inv', NEW p \in Procs, brelseUnref(p)
  PROVE  UNCHANGED Store!vars
<1>1. UNCHANGED lock /\ UNCHANGED disk /\ UNCHANGED failed /\ pc[p] = "brelse"
  BY Zenon DEF brelseUnref, device
<1>2. PICK b \in Bufs : b = has[p] /\ buf' = Unref(b)
  BY <1>1, Values, Zenon DEF brelseUnref
<1>3. buf \in [Bufs -> BufType] /\ References
  BY Zenon DEF Inv, Typed
<1>4. buf[b].refcnt > 0
  <2>1. p \in Users(b)
    BY <1>2, Zenon DEF Users
  <2>2. Cardinality(Users(b)) \in Nat /\ Cardinality(Users(b)) # 0
    BY <2>1, CountUsers, Zenon
  <2> QED BY <1>3, <2>2, SMTT(20) DEF References
<1>5. /\ Valid' = Valid
      /\ \A c \in Bufs : buf'[c].blockno = buf[c].blockno
      /\ \A c \in Bufs : buf'[c].data = buf[c].data
  BY <1>2, <1>3, <1>4, BufUnref, ZenonT(40)
<1> QED BY <1>1, <1>5, KeepsContent, KeepsOwner, Unmoved, Zenon

\* The block a process refers to, and how a change of its buffer's lock shows
\* in the store.
LEMMA OwnerMoves ==
  ASSUME Inv, Inv', NEW p \in Procs, pc[p] # "idle", UNCHANGED buf, UNCHANGED disk,
         UNCHANGED failed, NEW o, lock' = [lock EXCEPT ![has[p]] = o]
  PROVE  \E k \in Blocks :
           /\ Owner(k) = lock[has[p]]
           /\ [j \in Blocks |-> Owner(j)]' = [[j \in Blocks |-> Owner(j)] EXCEPT ![k] = o]
           /\ [j \in Blocks |-> Content(j)]' = [j \in Blocks |-> Content(j)]
<1>1. PICK b \in Bufs : b = has[p]
  BY Values, Zenon
<1>2. PICK k \in Blocks : k = buf[b].blockno
  <2>1. buf \in [Bufs -> BufType] /\ References /\ 0 \notin Bufs
    BY Values, Zenon DEF Inv, Typed
  <2>2. buf[b].blockno \in Blocks \cup {Nobody}
    BY <2>1, Zenon DEF BufType
  <2>3. buf[b].blockno # Nobody
    BY <1>1, <2>1, Zenon DEF References
  <2> QED BY <2>2, <2>3, Zenon
<1>3. OwnerHeld /\ OwnerHeld' /\ Copies /\ Nobody \notin Blocks
  BY Mapped, MappedNext, Values, Zenon DEF Inv
<1>4. /\ lock'[b] = o /\ \A c \in Bufs : c # b => lock'[c] = lock[c]
  <2>1. lock \in [Bufs -> Procs \cup {Nobody}]
    BY Zenon DEF Inv, Typed
  <2> QED BY <1>1, <2>1, Zenon
<1>5. Owner(k) = lock[b] /\ Owner(k)' = o
  BY <1>2, <1>3, <1>4, Zenon DEF OwnerHeld
<1>6. ASSUME NEW j \in Blocks, j # k PROVE Owner(j)' = Owner(j)
  <2>1. CASE \E c \in Bufs : buf[c].blockno = j
    BY <1>2, <1>3, <1>4, <1>6, <2>1, SMTT(20) DEF OwnerHeld
  <2>2. CASE \A c \in Bufs : buf[c].blockno # j
    BY <1>3, <2>2, Zenon DEF OwnerHeld
  <2> QED BY <2>1, <2>2, Zenon
<1>7. [j \in Blocks |-> Owner(j)]' = [[j \in Blocks |-> Owner(j)] EXCEPT ![k] = o]
  BY <1>5, <1>6, Zenon
<1>8. \A j \in Blocks : Content(j)' = Content(j)
  <2>1. Valid' = Valid
    BY Zenon DEF Valid
  <2>2. /\ \A c \in Bufs : buf'[c].blockno = buf[c].blockno
        /\ \A c \in Bufs : buf'[c].data = buf[c].data
    OBVIOUS
  <2> QED BY <2>1, <2>2, KeepsContent, Zenon
<1>9. [j \in Blocks |-> Content(j)]' = [j \in Blocks |-> Content(j)]
  BY <1>8, Zenon
<1> QED BY <1>1, <1>5, <1>7, <1>9, Zenon

\* Taking the sleep lock gets the block; finding it taken is no step.
LEMMA RefinesAcquire ==
  ASSUME Inv, Inv', NEW p \in Procs, acquiresleep(p)
  PROVE  Store!Next \/ UNCHANGED Store!vars
<1>1. UNCHANGED buf /\ UNCHANGED disk /\ UNCHANGED failed /\ pc[p] = "acquiresleep"
  BY Zenon DEF acquiresleep, cache, device
<1>2. CASE UNCHANGED lock
  BY <1>1, <1>2, RefinesQuiet, Zenon
<1>3. CASE lock[has[p]] = Nobody /\ lock' = [lock EXCEPT ![has[p]] = p]
  <2>1. PICK k \in Blocks :
          /\ Owner(k) = lock[has[p]]
          /\ [j \in Blocks |-> Owner(j)]' = [[j \in Blocks |-> Owner(j)] EXCEPT ![k] = p]
          /\ [j \in Blocks |-> Content(j)]' = [j \in Blocks |-> Content(j)]
    BY <1>1, <1>3, OwnerMoves, Zenon
  <2>2. [j \in Blocks |-> Owner(j)][k] = Nobody
    BY <1>3, <2>1, Zenon
  <2>3. Store!Get(p, k)
    BY <1>1, <2>1, <2>2, Zenon DEF Store!Get
  <2> QED BY <2>3, Zenon DEF Store!Next
<1> QED BY <1>2, <1>3, Zenon DEF acquiresleep

\* brelse releases the block.
LEMMA RefinesRelease ==
  ASSUME Inv, Inv', NEW p \in Procs, brelse(p)
  PROVE  Store!Next
<1>1. /\ UNCHANGED buf /\ UNCHANGED disk /\ UNCHANGED failed /\ pc[p] = "use"
      /\ lock' = [lock EXCEPT ![has[p]] = Nobody]
  BY Zenon DEF brelse, cache, device
<1>2. lock[has[p]] = p
  BY <1>1, Zenon DEF Inv, Locked, Holding
<1>3. PICK k \in Blocks :
        /\ Owner(k) = lock[has[p]]
        /\ [j \in Blocks |-> Owner(j)]' = [[j \in Blocks |-> Owner(j)] EXCEPT ![k] = Nobody]
        /\ [j \in Blocks |-> Content(j)]' = [j \in Blocks |-> Content(j)]
  BY <1>1, OwnerMoves, Zenon
<1>4. [j \in Blocks |-> Owner(j)][k] = p
  BY <1>2, <1>3, Zenon
<1>5. Store!Release(p, k)
  BY <1>1, <1>3, <1>4, Zenon DEF Store!Release
<1> QED BY <1>5, Zenon DEF Store!Next
\* bwrite and log_write put the new data: only the block's owner can.
LEMMA RefinesWrite ==
  ASSUME Inv, Inv', NEW p \in Procs, NEW k \in Blocks, NEW d \in DataOf(k),
         bwrite(p, k, d) \/ log_write(p, k, d)
  PROVE  Store!Next
<1>1. /\ UNCHANGED lock /\ UNCHANGED disk /\ UNCHANGED failed /\ pc[p] = "use"
      /\ buf[has[p]].blockno = k /\ buf' = Written(has[p], d)
  BY Zenon DEF bwrite, log_write, device, Written
<1>2. PICK b \in Bufs : b = has[p] /\ lock[b] = p /\ b \in Valid /\ buf[b].blockno = k
  <2>1. has[p] \in Bufs
    BY <1>1, Values, Zenon
  <2>2. lock[has[p]] = p /\ has[p] \in Valid
    BY <1>1, Zenon DEF Inv, Locked, Stages, Holding
  <2> QED BY <1>1, <2>1, <2>2, Zenon
<1>3. d \in Data
  BY Zenon DEF Data
<1>4. /\ Valid' = Valid
      /\ \A c \in Bufs : buf'[c].blockno = buf[c].blockno
      /\ \A c \in Bufs : buf'[c].data = IF c = b THEN d ELSE buf[c].data
  BY <1>1, <1>2, <1>3, BufWritten, ZenonT(40) DEF Inv, Typed
<1>5. /\ ContentHeld /\ ContentHeld' /\ OwnerHeld /\ Valid \subseteq Bufs
  BY Mapped, MappedNext, Values, ZenonT(40)
<1>6. Content(k)' = d
  <2>1. Content(k)' = buf'[b].data
    BY <1>2, <1>4, <1>5, Zenon DEF ContentHeld
  <2> QED BY <1>2, <1>4, <2>1, ZenonT(40)
<1>7. ASSUME NEW j \in Blocks, j # k PROVE Content(j)' = Content(j)
  <2>1. CASE \E c \in Valid : buf[c].blockno = j
    <3>1. PICK c \in Valid : buf[c].blockno = j /\ c # b /\ c \in Bufs
      BY <1>2, <1>5, <1>7, <2>1, ZenonT(40)
    <3>2. Content(j) = buf[c].data
      BY <1>5, <3>1, Zenon DEF ContentHeld
    <3>3. Content(j)' = buf'[c].data
      BY <1>4, <1>5, <3>1, Zenon DEF ContentHeld
    <3> QED BY <1>4, <3>1, <3>2, <3>3, ZenonT(40)
  <2>2. CASE \A c \in Valid : buf[c].blockno # j
    <3>1. \A c \in Valid' : buf'[c].blockno # j
      BY <1>4, <1>5, <2>2, Zenon
    <3> QED BY <1>1, <1>5, <2>2, <3>1, ZenonT(40) DEF ContentHeld
  <2> QED BY <2>1, <2>2, Zenon
<1>8. [j \in Blocks |-> Content(j)]' = [[j \in Blocks |-> Content(j)] EXCEPT ![k] = d]
  BY <1>6, <1>7, ZenonT(40)
<1>9. [j \in Blocks |-> Owner(j)][k] = p
  BY <1>2, <1>5, Zenon DEF OwnerHeld
<1>10. [j \in Blocks |-> Owner(j)]' = [j \in Blocks |-> Owner(j)]
  <2>1. \A j \in Blocks : Owner(j)' = Owner(j)
    BY <1>1, <1>4, KeepsOwner, Zenon
  <2> QED BY <2>1, Zenon
<1>11. Store!Put(p, k, d)
  BY <1>1, <1>8, <1>9, <1>10, Zenon DEF Store!Put
<1> QED BY <1>3, <1>11, Zenon DEF Store!Next

\* A request served well is no step of the store: a write takes to the disk
\* what the buffer held, a read takes from it what the block's content was.
LEMMA RefinesInterrupt ==
  ASSUME Inv, Inv', ~ failed, ideintr(TRUE)
  PROVE  UNCHANGED Store!vars
<1>1. UNCHANGED lock /\ UNCHANGED failed
  BY Zenon DEF ideintr, Inv, Typed
<1>2. PICK b \in Bufs, k \in Blocks, d \in Data \cup {Nobody} :
        /\ b = idequeue[1] /\ k = buf[b].blockno
        /\ lock[b] \in Procs /\ has[lock[b]] = b /\ pc[lock[b]] = "sleep io"
        /\ buf' = Served(b, d)
        /\ disk' \in [Blocks -> Data] /\ \A j \in Blocks : j # k => disk'[j] = disk[j]
        /\ b \in Dirty => d = buf[b].data
        /\ b \notin Dirty => disk' = disk
        /\ TRUE => d = disk'[k]
  BY Transfer, Zenon
<1>3. /\ Valid' = Valid \cup {b}
      /\ \A c \in Bufs : buf'[c].blockno = buf[c].blockno
      /\ \A c \in Bufs : buf'[c].data = IF c = b THEN d ELSE buf[c].data
  BY <1>2, BufServed, Zenon DEF Inv, Typed
<1>4. /\ ContentHeld /\ ContentHeld' /\ Valid \subseteq Bufs /\ Nobody \notin Blocks
      /\ Copies /\ Flags
  BY Mapped, MappedNext, Values, Zenon DEF Inv
<1>a. buf[b].blockno = k /\ b \in Valid' /\ buf'[b].blockno = k
  BY <1>2, <1>3, Zenon
<1>b. \A j \in Blocks : j # k => disk'[j] = disk[j]
  BY <1>2, ZenonT(40)
<1>5. b \notin Valid \/ b \in Dirty
  <2>1. idequeue \in Seq(Bufs) /\ idequeue # <<>>
    BY Zenon DEF Inv, Typed, ideintr
  <2>2. 1 \in DOMAIN idequeue
    BY <2>1, QueueHead, Zenon
  <2> QED BY <1>2, <2>2, Zenon DEF Inv, Pending
<1>6. Content(k)' = d
  <2>1. Content(k)' = buf'[b].data
    BY <1>4, <1>a, Zenon DEF ContentHeld
  <2> QED BY <1>3, <2>1, Zenon
<1>7. Content(k) = d
  <2>1. CASE b \in Dirty
    <3>1. b \in Valid
      BY <1>4, <2>1, Zenon DEF Flags
    <3> QED BY <1>2, <1>4, <2>1, <3>1, Zenon DEF ContentHeld
  <2>2. CASE b \notin Dirty
    <3>1. \A c \in Valid : buf[c].blockno # k
      BY <1>2, <1>4, <1>5, <2>2, Zenon DEF Copies
    <3> QED BY <1>2, <1>4, <2>2, <3>1, ZenonT(40) DEF ContentHeld
  <2> QED BY <2>1, <2>2, Zenon
<1>8. ASSUME NEW j \in Blocks, j # k PROVE Content(j)' = Content(j)
  <2>1. CASE \E c \in Valid : buf[c].blockno = j
    <3>1. PICK c \in Valid : buf[c].blockno = j /\ c # b /\ c \in Bufs
      BY <1>2, <1>4, <1>8, <2>1, Zenon
    <3>2. Content(j) = buf[c].data
      BY <1>4, <3>1, Zenon DEF ContentHeld
    <3>3. Content(j)' = buf'[c].data
      BY <1>3, <1>4, <3>1, SMTT(20) DEF ContentHeld
    <3> QED BY <1>3, <3>1, <3>2, <3>3, Zenon
  <2>2. CASE \A c \in Valid : buf[c].blockno # j
    <3>1. \A c \in Valid' : buf'[c].blockno # j
      BY <1>3, <1>4, <1>8, <1>a, <2>2, Zenon
    <3>2. Content(j)' = disk'[j] /\ Content(j) = disk[j]
      BY <1>4, <2>2, <3>1, Zenon DEF ContentHeld
    <3> QED BY <1>8, <1>b, <3>2, Zenon
  <2> QED BY <2>1, <2>2, Zenon
<1>9. \A j \in Blocks : Content(j)' = Content(j)
  BY <1>6, <1>7, <1>8, Zenon
<1>10. \A j \in Blocks : Owner(j)' = Owner(j)
  BY <1>1, <1>3, KeepsOwner, Zenon
<1> QED BY <1>1, <1>9, <1>10, Unmoved, Zenon

\* Every step of the cache is a step of the store or none.
LEMMA RefinesStep == Inv /\ Inv' /\ [Next]_vars => [Store!Next]_(Store!vars)
<1> SUFFICES ASSUME Inv, Inv', [Next]_vars PROVE Store!Next \/ UNCHANGED Store!vars
  OBVIOUS
<1>1. CASE failed'
  <2>1. failed' = TRUE
    BY <1>1, Zenon DEF Inv, Typed
  <2> QED BY <2>1, Zenon DEF Store!Next, Store!Fail
<1>2. CASE UNCHANGED vars
  <2>1. UNCHANGED buf /\ UNCHANGED lock /\ UNCHANGED disk /\ UNCHANGED failed
    BY <1>2, Zenon DEF vars, cache, device
  <2> QED BY <2>1, RefinesQuiet, Zenon
<1>3. CASE ~ failed' /\ Next
  <2>0. ~ panicked
    BY <1>3, Zenon DEF Next
  <2>1. ASSUME NEW p \in Procs, NEW k \in Blocks, bget(p, k) PROVE UNCHANGED Store!vars
    <3>1. UNCHANGED <<lru, lock, device>> /\ UNCHANGED failed
      BY <2>1, Zenon DEF bget, device
    <3>2. CASE bgetHit(p, k)
      BY <3>1, <3>2, RefinesHit, Zenon
    <3>3. CASE bgetRecycle(p, k)
      BY <1>3, <3>1, <3>3, RefinesRecycle, Zenon
    <3>4. CASE bgetPanic(k)
      <4>1. UNCHANGED buf /\ UNCHANGED lock /\ UNCHANGED disk
        BY <3>1, <3>4, Zenon DEF bgetPanic, device
      <4> QED BY <3>1, <4>1, RefinesQuiet, Zenon
    <3> QED BY <2>1, <3>2, <3>3, <3>4, Zenon DEF bget
  <2>2. CASE \E p \in Procs, k \in Blocks : \E d \in DataOf(k) :
               bwrite(p, k, d) \/ log_write(p, k, d)
    BY <2>2, RefinesWrite, Zenon
  <2>3. CASE \E p \in Procs : acquiresleep(p)
    BY <2>3, RefinesAcquire, Zenon
  <2>4. CASE \E p \in Procs : iderw(p) \/ iderwCheck(p)
    <3>1. UNCHANGED buf /\ UNCHANGED lock /\ UNCHANGED disk /\ UNCHANGED failed
      BY <2>4, Zenon DEF iderw, iderwCheck, cache, device
    <3> QED BY <3>1, RefinesQuiet, Zenon
  <2>5. CASE \E p \in Procs : brelse(p)
    BY <2>5, RefinesRelease, Zenon
  <2>6. CASE \E p \in Procs : brelseUnref(p)
    BY <2>6, RefinesUnref, Zenon
  <2>7. CASE \E ok \in BOOLEAN : ideintr(ok)
    <3>1. ideintr(TRUE) /\ ~ failed
      <4>1. PICK ok \in BOOLEAN : ideintr(ok)
        BY <2>7, Zenon
      <4>2. failed' = (failed \/ ~ ok)
        BY <4>1, Zenon DEF ideintr
      <4>3. ok = TRUE /\ ~ failed
        BY <1>3, <4>2, Zenon
      <4> QED BY <4>1, <4>3, Zenon
    <3> QED BY <3>1, RefinesInterrupt, Zenon
  <2> QED BY <1>3, <2>1, <2>2, <2>3, <2>4, <2>5, <2>6, <2>7, Zenon DEF Next
<1> QED BY <1>1, <1>2, <1>3, Zenon

\* bio.c, sleeplock.c and ide.c together are a store of blocks with one owner
\* each: until the drive reports an error, a block's content changes only by
\* what its owner writes.
THEOREM CacheImplementsBlockStore == Spec => BlockStoreSpec
<1> QED BY RefinesInit, RefinesStep, Invariance, PTL DEF Spec, BlockStoreSpec, Store!Spec
=============================================================================
