----------------------------- MODULE WmapProofs -----------------------------
(***************************************************************************)
(* What holds for every number of slots, page size and address space: the  *)
(* functions that edit the mapping table keep it well-typed, the prefix in *)
(* use valid and in step with wmapinfo, and the mappings sorted by start;  *)
(* so do wmap, wunmap, wremap, the page-fault handler and a child's exit.  *)
(* Together they implement the list of regions of WmapRegions.             *)
(***************************************************************************)
EXTENDS WmapRefinement, Sequences, NaturalFacts, FiniteSetTheorems

-----------------------------------------------------------------------------
(* Searching the table *)

\* First picks a least element.
LEMMA FirstIn ==
  ASSUME NEW S \in SUBSET Nat, S # {}
  PROVE  First(S) \in S /\ \A j \in S : First(S) <= j
BY NatMin, Zenon DEF First

-----------------------------------------------------------------------------
(* insert_mapping *)

\* The types of a table's fields.
LEMMA TableFields ==
  ASSUME NEW t \in Table
  PROVE  /\ t.total_mmaps \in Nat /\ t.total_mmaps <= MAX_WMMAP_INFO
         /\ t.arr \in [Slots -> MemBlock]
         /\ t.addr \in [Slots -> Addrs]
         /\ t.length \in [Slots -> Int]
         /\ t.n_loaded_pages \in [Slots -> Nat]
         /\ t.leftmostLoadedAddr \in [Slots -> Addrs]
BY TableAssumption DEF Table

\* The types of a block's fields.
LEMMA BlockFields ==
  ASSUME NEW b \in MemBlock
  PROVE  /\ b.start \in Addrs /\ b.end \in Addrs /\ b.flags \in SUBSET Flags
         /\ b.length \in Int /\ b.fd \in Int /\ b.ref \in Int /\ b.valid \in {0, 1}
BY Zenon DEF MemBlock

\* The insertion loop stops at a position of the prefix in use that keeps the
\* starts in order.
LEMMA InsertIdxPosition ==
  ASSUME NEW t \in Table, NEW start \in Addrs
  PROVE  LET k == InsertIdx(t, start) IN
         /\ k \in 0 .. t.total_mmaps
         /\ k = 0 \/ t.arr[k - 1].start <= start
         /\ \A j \in k + 1 .. t.total_mmaps : t.arr[j - 1].start > start
<1> DEFINE n == t.total_mmaps
           Good(k) == k = 0 \/ t.arr[k - 1].start <= start
           S == {k \in 0 .. n : Good(k)}
<1>1. n \in Nat /\ n <= MAX_WMMAP_INFO /\ \A i \in Slots : t.arr[i].start \in Addrs
  BY TableFields, BlockFields, Zenon
<1>2. S \in SUBSET (0 .. n) /\ 0 \in S
  BY <1>1
<1>3. PICK m \in S : \A k \in S : k <= m
  <2> HIDE DEF S
  <2> QED BY <1>1, <1>2, NatMax, Zenon
<1>4. ASSUME NEW j \in m + 1 .. n PROVE t.arr[j - 1].start > start
  <2>1. j \in 0 .. n /\ j \notin S /\ j - 1 \in Slots
    BY <1>1, <1>3, TableAssumption DEF Slots
  <2>2. ~ (t.arr[j - 1].start <= start)
    BY <2>1, Zenon
  <2> QED BY <1>1, <2>1, <2>2, TableAssumption DEF Addrs
<1>5. /\ m \in 0 .. n /\ Good(m)
      /\ \A j \in m + 1 .. n : t.arr[j - 1].start > start
  BY <1>3, <1>4, Zenon
<1>6. \E k \in 0 .. n : /\ k = 0 \/ t.arr[k - 1].start <= start
                        /\ \A j \in k + 1 .. n : t.arr[j - 1].start > start
  BY <1>5, Zenon
<1> QED BY <1>6, Zenon DEF InsertIdx

\* Shifting to the right keeps the type of an array.
LEMMA OpenGapType ==
  ASSUME NEW X, NEW f \in [Slots -> X], NEW n \in Nat, NEW k \in 0 .. n, NEW x \in X
  PROVE  OpenGap(f, k, n, x) \in [Slots -> X]
<1>1. ASSUME NEW i \in Slots, k < i PROVE f[i - 1] \in X
  BY <1>1, TableAssumption DEF Slots
<1> QED BY <1>1, Zenon DEF OpenGap

\* insert_mapping keeps the table well-typed, in step with wmapinfo and sorted.
LEMMA InsertKeeps ==
  ASSUME NEW t \in Table, InStep(t), Sorted(t),
         NEW start \in Addrs, NEW end \in Addrs, NEW flags \in SUBSET Flags,
         NEW length \in Int, NEW fd \in Int
  PROVE  LET u == insert_mapping(t, start, end, flags, length, fd)
         IN  u \in Table /\ InStep(u) /\ Sorted(u)
<1> DEFINE n == t.total_mmaps
           k == InsertIdx(t, start)
           block == [start |-> start, end |-> end, flags |-> flags,
                     length |-> length, fd |-> fd, ref |-> 1, valid |-> 1]
           u == insert_mapping(t, start, end, flags, length, fd)
<1>1. CASE n = MAX_WMMAP_INFO
  BY <1>1, Zenon DEF insert_mapping
<1>2. CASE n # MAX_WMMAP_INFO
  <2>1. /\ n \in Nat /\ n < MAX_WMMAP_INFO /\ MAX_WMMAP_INFO \in Nat
        /\ t.arr \in [Slots -> MemBlock] /\ block \in MemBlock
    <3>1. block \in MemBlock
      BY DEF MemBlock
    <3> HIDE DEF block
    <3> QED BY <1>2, <3>1, TableFields, TableAssumption
  <2>2. /\ k \in 0 .. n /\ k \in Slots
        /\ k = 0 \/ t.arr[k - 1].start <= start
        /\ \A j \in k + 1 .. n : t.arr[j - 1].start > start
    BY <2>1, InsertIdxPosition DEF Slots
  <2> HIDE DEF block, k
  <2>3. u = [t EXCEPT !.arr = OpenGap(t.arr, k, n, block),
                      !.total_mmaps = n + 1,
                      !.addr = OpenGap(t.addr, k, n, start),
                      !.length = OpenGap(t.length, k, n, length),
                      !.n_loaded_pages = OpenGap(t.n_loaded_pages, k, n,
                                                 t.n_loaded_pages[k])]
    BY <1>2, Zenon DEF insert_mapping, block, k
  <2>4. /\ u.arr = OpenGap(t.arr, k, n, block)
        /\ u.total_mmaps = n + 1
        /\ u.addr = OpenGap(t.addr, k, n, start)
        /\ u.length = OpenGap(t.length, k, n, length)
    BY <2>3, Zenon DEF Table
  <2>5. u \in Table
    <3>1. OpenGap(t.arr, k, n, block) \in [Slots -> MemBlock]
      BY <2>1, <2>2, OpenGapType, Zenon
    <3>2. OpenGap(t.addr, k, n, start) \in [Slots -> Addrs]
      BY <2>1, <2>2, OpenGapType, TableFields, Zenon
    <3>3. OpenGap(t.length, k, n, length) \in [Slots -> Int]
      BY <2>1, <2>2, OpenGapType, TableFields, Zenon
    <3>4. t.n_loaded_pages \in [Slots -> Nat] /\ t.n_loaded_pages[k] \in Nat
      BY <2>2, TableFields, Zenon
    <3>5. OpenGap(t.n_loaded_pages, k, n, t.n_loaded_pages[k]) \in [Slots -> Nat]
      BY <2>1, <2>2, <3>4, OpenGapType, Zenon
    <3>6. n + 1 \in 0 .. MAX_WMMAP_INFO
      BY <2>1
    <3> QED BY <2>3, <3>1, <3>2, <3>3, <3>5, <3>6, Zenon DEF Table
  <2> HIDE DEF u
  <2>6. \A i \in 0 .. n : i \in Slots
    BY <2>1 DEF Slots
  <2>7. \A i \in 0 .. n :
          u.arr[i] = IF i = k THEN block
                     ELSE IF k < i THEN t.arr[i - 1] ELSE t.arr[i]
    BY <2>1, <2>2, <2>4, <2>6 DEF OpenGap
  <2>8. Used(u) = 0 .. n /\ Used(t) = 0 .. n - 1
    BY <2>1, <2>4 DEF Used
  <2>9. ASSUME NEW i \in 0 .. n
        PROVE  /\ u.arr[i].valid = 1
               /\ u.addr[i] = u.arr[i].start
               /\ u.length[i] = u.arr[i].length
    <3>1. CASE i = k
      BY <3>1, <2>2, <2>4, <2>6, <2>7 DEF OpenGap, block
    <3>2. CASE k < i
      <4>1. i - 1 \in Used(t) /\ i # k /\ i <= n
        BY <3>2, <2>1, <2>2, <2>8
      <4> QED BY <3>2, <4>1, <2>4, <2>6, <2>7 DEF OpenGap, InStep
    <3>3. CASE i < k
      <4>1. i \in Used(t) /\ i # k /\ ~ (k < i)
        BY <3>3, <2>1, <2>2, <2>8
      <4> QED BY <4>1, <2>4, <2>6, <2>7, Zenon DEF OpenGap, InStep
    <3> QED BY <3>1, <3>2, <3>3, <2>1, <2>2
  <2>10. InStep(u)
    BY <2>8, <2>9, Zenon DEF InStep
  <2>11. \A i \in 0 .. n : i < k => u.arr[i].start <= start
    <3> SUFFICES ASSUME NEW i \in 0 .. n, i < k PROVE u.arr[i].start <= start
      OBVIOUS
    <3>1. /\ i \in Used(t) /\ k - 1 \in Used(t) /\ i <= k - 1
          /\ i \in Slots /\ k - 1 \in Slots
      BY <2>1, <2>2, <2>6, <2>8
    <3>2. t.arr[i].start <= t.arr[k - 1].start /\ t.arr[k - 1].start <= start
      BY <3>1, <2>2 DEF Sorted
    <3>3. t.arr[i].start \in Int /\ t.arr[k - 1].start \in Int /\ start \in Int
      <4>1. t.arr[i] \in MemBlock /\ t.arr[k - 1] \in MemBlock
        BY <3>1, <2>1, Zenon
      <4> QED BY <4>1, BlockFields, TableAssumption DEF Addrs
    <3> QED BY <3>1, <3>2, <3>3, <2>2, <2>7
  <2>12. \A i \in 0 .. n : k < i => start <= u.arr[i].start
    <3> SUFFICES ASSUME NEW i \in 0 .. n, k < i PROVE start <= u.arr[i].start
      OBVIOUS
    <3>1. i \in k + 1 .. n /\ i - 1 \in Slots /\ u.arr[i] = t.arr[i - 1]
      BY <2>1, <2>2, <2>6, <2>7 DEF Slots
    <3>2. t.arr[i - 1].start \in Int /\ start \in Int
      BY <3>1, <2>1, BlockFields, TableAssumption DEF Addrs
    <3> QED BY <3>1, <3>2, <2>2
  <2>13. ASSUME NEW i \in 0 .. n, NEW j \in 0 .. n, i <= j
         PROVE  u.arr[i].start <= u.arr[j].start
    <3>0. u.arr[k] = block /\ block.start = start
      BY <2>2, <2>7, Zenon DEF block
    <3>1. u.arr[i].start \in Int /\ u.arr[j].start \in Int /\ start \in Int
      <4>1. u.arr[i] \in MemBlock /\ u.arr[j] \in MemBlock
        BY <2>5, <2>6, TableFields, Zenon
      <4> QED BY <4>1, BlockFields, TableAssumption DEF Addrs
    <3>2. CASE i <= k /\ k <= j
      <4>1. u.arr[i].start <= start
        BY <3>0, <3>1, <3>2, <2>1, <2>2, <2>11
      <4>2. start <= u.arr[j].start
        BY <3>0, <3>1, <3>2, <2>1, <2>2, <2>12
      <4> QED BY <3>1, <4>1, <4>2
    <3>3. CASE j < k
      <4>1. i \in Used(t) /\ j \in Used(t) /\ ~ (k < i) /\ ~ (k < j) /\ i # k /\ j # k
        BY <2>1, <2>2, <2>8, <2>13, <3>3
      <4>2. t.arr[i].start <= t.arr[j].start
        BY <4>1, <2>13, Zenon DEF Sorted
      <4> QED BY <4>1, <4>2, <2>7, Zenon
    <3>4. CASE k < i
      <4>1. i - 1 \in Used(t) /\ j - 1 \in Used(t) /\ k < j /\ i # k /\ j # k
        BY <2>1, <2>2, <2>8, <2>13, <3>4
      <4>2. t.arr[i - 1].start <= t.arr[j - 1].start
        BY <4>1, <2>13 DEF Sorted
      <4> QED BY <4>1, <4>2, <2>7, <3>4, Zenon
    <3> QED BY <3>2, <3>3, <3>4, <2>1, <2>2
  <2>14. Sorted(u)
    BY <2>8, <2>13, Zenon DEF Sorted
  <2> QED BY <2>5, <2>10, <2>14, Zenon DEF u
<1> QED BY <1>1, <1>2, Zenon

-----------------------------------------------------------------------------
(* remove_mapping *)

\* Shifting to the left keeps the type of an array.
LEMMA CloseGapType ==
  ASSUME NEW X, NEW f \in [Slots -> X], NEW k \in Slots, NEW x \in X
  PROVE  CloseGap(f, k, x) \in [Slots -> X]
<1>1. ASSUME NEW i \in Slots, i < MAX_WMMAP_INFO - 1 PROVE f[i + 1] \in X
  BY <1>1, TableAssumption DEF Slots
<1> QED BY <1>1, Zenon DEF CloseGap

\* remove_mapping at the start of a mapping in use keeps the table well-typed,
\* in step with wmapinfo and sorted.
LEMMA RemoveKeeps ==
  ASSUME NEW t \in Table, InStep(t), Sorted(t), NEW a \in Addrs,
         NEW i0 \in Used(t), t.arr[i0].start = a
  PROVE  LET u == remove_mapping(t, a)
         IN  u \in Table /\ InStep(u) /\ Sorted(u)
<1> DEFINE n == t.total_mmaps
           k == First(StartingAt(t, a))
           wiped == [FreeBlock EXCEPT !.start = t.arr[k].start]
           u == remove_mapping(t, a)
<1>1. /\ n \in Nat /\ n <= MAX_WMMAP_INFO /\ MAX_WMMAP_INFO \in Nat
      /\ t.arr \in [Slots -> MemBlock]
      /\ Used(t) = 0 .. n - 1 /\ Slots = 0 .. MAX_WMMAP_INFO - 1
  BY TableFields, TableAssumption, Zenon DEF Used, Slots
<1>2. StartingAt(t, a) # {} /\ k \in Slots /\ k \in Used(t)
  <2>1. i0 \in StartingAt(t, a)
    BY <1>1 DEF StartingAt, InStep
  <2>2. StartingAt(t, a) \in SUBSET Nat /\ StartingAt(t, a) \subseteq Slots
    BY <1>1 DEF StartingAt
  <2>3. k \in StartingAt(t, a) /\ k <= i0
    BY <2>1, <2>2, FirstIn, Zenon
  <2> HIDE DEF k
  <2> QED BY <1>1, <2>1, <2>2, <2>3
<1> HIDE DEF k
<1>3. CASE t.arr[k].ref # 1
  <2>1. u = [t EXCEPT !.arr[k].ref = @ - 1]
    BY <1>2, <1>3, Zenon DEF remove_mapping, k
  <2> DEFINE b == [t.arr[k] EXCEPT !.ref = @ - 1]
  <2>2. u = [t EXCEPT !.arr = [t.arr EXCEPT ![k] = b]]
    BY <2>1, Zenon
  <2>3. b \in MemBlock /\ b.start = t.arr[k].start /\ b.length = t.arr[k].length
        /\ b.valid = t.arr[k].valid
    <3>1. t.arr[k] \in MemBlock
      BY <1>1, <1>2, Zenon
    <3> QED BY <3>1 DEF MemBlock
  <2> HIDE DEF b, u
  <2>4. /\ u.arr = [t.arr EXCEPT ![k] = b] /\ u.total_mmaps = n
        /\ u.addr = t.addr /\ u.length = t.length
    BY <2>2, Zenon DEF Table
  <2>5. u \in Table
    <3>1. [t.arr EXCEPT ![k] = b] \in [Slots -> MemBlock]
      BY <1>1, <2>3, Zenon
    <3> QED BY <2>2, <3>1, Zenon DEF Table
  <2>6. \A i \in Slots : /\ u.arr[i].start = t.arr[i].start
                        /\ u.arr[i].length = t.arr[i].length
                        /\ u.arr[i].valid = t.arr[i].valid
    BY <1>1, <2>3, <2>4, Zenon
  <2>7. Used(u) = Used(t) /\ Used(t) \subseteq Slots
    BY <1>1, <2>4 DEF Used
  <2>8. InStep(u)
    BY <2>4, <2>6, <2>7 DEF InStep
  <2>9. Sorted(u)
    BY <2>6, <2>7, Zenon DEF Sorted
  <2> QED BY <2>5, <2>8, <2>9, Zenon DEF u
<1>4. CASE t.arr[k].ref = 1
  <2>1. u = [t EXCEPT !.arr = CloseGap(t.arr, k, wiped),
                      !.total_mmaps = n - 1,
                      !.addr = CloseGap(t.addr, k, 0),
                      !.length = CloseGap(t.length, k, 0),
                      !.n_loaded_pages = CloseGap(t.n_loaded_pages, k, 0),
                      !.leftmostLoadedAddr = CloseGap(t.leftmostLoadedAddr, k, 0)]
    BY <1>2, <1>4, Zenon DEF remove_mapping, k
  <2>2. wiped \in MemBlock
    <3>1. t.arr[k].start \in Addrs
      BY <1>1, <1>2, BlockFields, Zenon
    <3>2. 0 \in Addrs
      BY TableAssumption DEF Addrs
    <3> QED BY <3>1, <3>2 DEF MemBlock, FreeBlock
  <2> HIDE DEF wiped, u
  <2>3. /\ u.arr = CloseGap(t.arr, k, wiped) /\ u.total_mmaps = n - 1
        /\ u.addr = CloseGap(t.addr, k, 0) /\ u.length = CloseGap(t.length, k, 0)
    BY <2>1, Zenon DEF Table
  <2>4. u \in Table
    <3>0. 0 \in Addrs
      BY TableAssumption DEF Addrs
    <3>1. CloseGap(t.arr, k, wiped) \in [Slots -> MemBlock]
      BY <1>1, <1>2, <2>2, CloseGapType, Zenon
    <3>2. CloseGap(t.addr, k, 0) \in [Slots -> Addrs]
      BY <1>2, <3>0, CloseGapType, TableFields, Zenon
    <3>3. CloseGap(t.length, k, 0) \in [Slots -> Int]
      <4>1. 0 \in Int /\ t.length \in [Slots -> Int]
        BY TableFields
      <4> QED BY <1>2, <4>1, CloseGapType, Zenon
    <3>4. CloseGap(t.n_loaded_pages, k, 0) \in [Slots -> Nat]
      BY <1>2, CloseGapType, TableFields, Zenon
    <3>5. CloseGap(t.leftmostLoadedAddr, k, 0) \in [Slots -> Addrs]
      BY <1>2, <3>0, CloseGapType, TableFields, Zenon
    <3>6. n - 1 \in 0 .. MAX_WMMAP_INFO
      BY <1>1, <1>2
    <3> QED BY <2>1, <3>1, <3>2, <3>3, <3>4, <3>5, <3>6, Zenon DEF Table
  <2>5. Used(u) = 0 .. n - 2
    BY <1>1, <2>3 DEF Used
  <2> DEFINE old(i) == IF k <= i THEN i + 1 ELSE i
  <2>6. ASSUME NEW i \in 0 .. n - 2
        PROVE  /\ old(i) \in Used(t)
               /\ u.arr[i] = t.arr[old(i)]
               /\ u.addr[i] = t.addr[old(i)] /\ u.length[i] = t.length[old(i)]
    <3>1. old(i) \in Used(t) /\ i \in Slots /\ i < MAX_WMMAP_INFO - 1 /\ (~ (k <= i) => i # k)
      BY <1>1, <1>2
    <3> QED BY <3>1, <2>3, Zenon DEF CloseGap
  <2>7. InStep(u)
    BY <2>5, <2>6 DEF InStep
  <2>8. ASSUME NEW i \in 0 .. n - 2, NEW j \in 0 .. n - 2, i <= j
        PROVE  u.arr[i].start <= u.arr[j].start
    <3>1. old(i) <= old(j)
      BY <1>1, <1>2, <2>8
    <3> HIDE DEF old
    <3> QED BY <3>1, <2>6, Zenon DEF Sorted
  <2>9. Sorted(u)
    BY <2>5, <2>8, Zenon DEF Sorted
  <2> QED BY <2>4, <2>7, <2>9, Zenon DEF u
<1> QED BY <1>3, <1>4, Zenon

-----------------------------------------------------------------------------
(* The other operators on tables *)

\* Conversion to uint yields an address, conversion to int an integer.
LEMMA ConversionType ==
  ASSUME NEW x \in Int
  PROVE  AsUint(x) \in Addrs /\ AsInt(x) \in Int
BY TableAssumption DEF AsUint, AsInt, Addrs, MAX_ADDR

\* Addresses are integers.
LEMMA AddrInt == \A a \in Addrs : a \in Int
BY TableAssumption DEF Addrs

\* PGROUNDUP yields an integer.
LEMMA RoundUpType ==
  ASSUME NEW x \in Int
  PROVE  PGROUNDUP(x) \in Int
BY TableAssumption DEF PGROUNDUP

\* The placement loop yields an address.
LEMMA FindPlaceType ==
  ASSUME NEW t \in Table, NEW size \in Int
  PROVE  FindPlace(t, size) \in Addrs
<1> DEFINE invalid == {i \in Slots : t.arr[i].valid = 0}
           gaps == {i \in Slots :
                      AsInt(AsInt(t.arr[i].start) - PrevEnd(t, i)) > size}
           last == CHOOSE i \in gaps : \A j \in gaps : j <= i
<1>1. Slots = 0 .. MAX_WMMAP_INFO - 1 /\ MAX_WMMAP_INFO - 1 \in Nat
      /\ MIN_ADDR \in Addrs /\ MIN_ADDR \in Int
  BY TableAssumption DEF Slots, Addrs, MIN_ADDR
<1>2. ASSUME NEW i \in Slots PROVE AsUint(PrevEnd(t, i) + 1) \in Addrs
  <2>1. PrevEnd(t, i) \in Int
    <3>1. CASE i = 0
      BY <1>1, <3>1 DEF PrevEnd
    <3>2. CASE i # 0
      <4>1. i - 1 \in Slots
        BY <1>1, <3>2
      <4>2. t.arr[i - 1] \in MemBlock
        BY <4>1, TableFields, Zenon
      <4>3. t.arr[i - 1].end \in Int
        BY <4>2, BlockFields, TableAssumption DEF Addrs
      <4> QED BY <3>2, <4>3, ConversionType, Zenon DEF PrevEnd
    <3> QED BY <3>1, <3>2, Zenon
  <2> QED BY <2>1, ConversionType
<1>3. invalid \in SUBSET Nat /\ invalid \subseteq Slots /\ gaps \in SUBSET (0 .. MAX_WMMAP_INFO - 1)
  BY <1>1
<1>4. ASSUME invalid # {} PROVE First(invalid) \in Slots
  <2> HIDE DEF invalid
  <2> QED BY <1>3, <1>4, FirstIn, Zenon
<1>5. ASSUME gaps # {} PROVE last \in Slots
  <2> HIDE DEF gaps
  <2>1. \E i \in gaps : \A j \in gaps : j <= i
    BY <1>1, <1>3, <1>5, NatMax, Zenon
  <2> QED BY <1>1, <1>3, <2>1, Zenon
<1>6. FindPlace(t, size) = IF invalid # {} THEN AsUint(PrevEnd(t, First(invalid)) + 1)
                           ELSE IF gaps # {} THEN AsUint(PrevEnd(t, last) + 1)
                           ELSE MIN_ADDR
  BY Zenon DEF FindPlace
<1> HIDE DEF invalid, gaps, last
<1> QED BY <1>1, <1>2, <1>4, <1>5, <1>6, Zenon

-----------------------------------------------------------------------------
(* The calls *)

\* Counting loaded pages keeps the type, and leaves the mappings alone.
LEMMA LoadedKeeps ==
  ASSUME NEW t \in Table, InStep(t), Sorted(t),
         NEW A \in SUBSET Addrs, IsFiniteSet(A)
  PROVE  LET u == Loaded(t, A)
         IN  /\ u \in Table /\ InStep(u) /\ Sorted(u)
             /\ u.arr = t.arr /\ u.total_mmaps = t.total_mmaps
<1> DEFINE at(i) == {va \in A : Handler(t, va) = i}
           loads == [i \in Slots |-> t.n_loaded_pages[i] + Cardinality(at(i))]
           left == [i \in Slots |-> First({t.leftmostLoadedAddr[i]} \cup at(i))]
           u == Loaded(t, A)
<1>1. ASSUME NEW i \in Slots PROVE loads[i] \in Nat
  <2>1. IsFiniteSet(at(i))
    BY FS_Subset, Zenon
  <2>2. Cardinality(at(i)) \in Nat
    BY <2>1, FS_CardinalityType, Zenon
  <2>3. t.n_loaded_pages[i] \in Nat
    BY TableFields, Zenon
  <2> HIDE DEF at
  <2> QED BY <2>2, <2>3
<1>2. ASSUME NEW i \in Slots PROVE left[i] \in Addrs
  <2> DEFINE S == {t.leftmostLoadedAddr[i]} \cup at(i)
  <2>1. t.leftmostLoadedAddr[i] \in Addrs
    BY TableFields, Zenon
  <2>2. S \in SUBSET Addrs /\ S # {}
    BY <2>1, Zenon
  <2>3. S \in SUBSET Nat
    BY <2>2, TableAssumption DEF Addrs
  <2>4. left[i] = First(S)
    OBVIOUS
  <2> HIDE DEF S
  <2> QED BY <2>2, <2>3, <2>4, FirstIn, Zenon
<1>3. u = [t EXCEPT !.n_loaded_pages = loads, !.leftmostLoadedAddr = left]
  BY Zenon DEF Loaded
<1>4. loads \in [Slots -> Nat] /\ left \in [Slots -> Addrs]
  BY <1>1, <1>2, Zenon
<1> HIDE DEF loads, left, u
<1>5. u \in Table
  BY <1>3, <1>4, Zenon DEF Table
<1>6. /\ u.arr = t.arr /\ u.total_mmaps = t.total_mmaps
      /\ u.addr = t.addr /\ u.length = t.length
  BY <1>3, Zenon DEF Table
<1>7. InStep(u) /\ Sorted(u)
  BY <1>6, Zenon DEF InStep, Sorted, Used
<1> QED BY <1>5, <1>6, <1>7, Zenon DEF u

\* So does counting faults inside the kernel, the repeated ones twice.
LEMMA AfterFaultsKeep ==
  ASSUME NEW t \in Table, InStep(t), Sorted(t),
         NEW A \in SUBSET Addrs, IsFiniteSet(A), NEW u \in AfterFaults(t, A)
  PROVE  /\ u \in Table /\ InStep(u) /\ Sorted(u)
         /\ u.arr = t.arr /\ u.total_mmaps = t.total_mmaps
<1> DEFINE v == Loaded(t, A)
<1>1. /\ v \in Table /\ InStep(v) /\ Sorted(v)
      /\ v.arr = t.arr /\ v.total_mmaps = t.total_mmaps
  BY LoadedKeeps, Zenon
<1>2. u = v \/ \E again \in SUBSET A : u = Loaded(v, again)
  BY Zenon DEF AfterFaults
<1> HIDE DEF v
<1>3. CASE u = v
  BY <1>1, <1>3, Zenon
<1>4. ASSUME NEW again \in SUBSET A, u = Loaded(v, again)
      PROVE  /\ u \in Table /\ InStep(u) /\ Sorted(u)
             /\ u.arr = t.arr /\ u.total_mmaps = t.total_mmaps
  <2>1. again \in SUBSET Addrs /\ IsFiniteSet(again)
    BY FS_Subset, Zenon
  <2> QED BY <1>1, <1>4, <2>1, LoadedKeeps, Zenon
<1> QED BY <1>2, <1>3, <1>4, Zenon

-----------------------------------------------------------------------------
(* The invariant *)

\* The invariant is inductive as it stands: every edit of the table relies on
\* the prefix in use being valid (remove_mapping) and sorted (insert_mapping).
Inv == TypeOK /\ TableInStep /\ SortedStarts

\* The number of slots that exiting children go through.
LEMMA ExitBound == MaxChildExits * MAX_WMMAP_INFO \in Nat
<1>1. MaxChildExits \in Nat /\ MAX_WMMAP_INFO \in Nat
  BY WmapAssumption, TableAssumption, Zenon
<1> QED BY <1>1

\* A new process satisfies the invariant.
LEMMA InitInv == Init => Inv
<1> SUFFICES ASSUME Init PROVE Inv
  OBVIOUS
<1>1. 0 \in Addrs /\ AsUint(MAX_ADDR + 1) \in Addrs
  BY TableAssumption DEF Addrs, AsUint, MAX_ADDR
<1>2. FreeBlock \in MemBlock
  BY <1>1 DEF FreeBlock, MemBlock
<1>3. EmptyTable \in Table
  BY <1>1, <1>2, TableAssumption DEF EmptyTable, Table
<1>4. Used(EmptyTable) = {}
  BY DEF Used, EmptyTable
<1>5. InStep(EmptyTable) /\ Sorted(EmptyTable)
  BY <1>4, Zenon DEF InStep, Sorted
<1>6. file \in [size : Nat, off : Nat] /\ exits \in 0 .. MaxChildExits * MAX_WMMAP_INFO
  <2>1. FileSize \in Nat /\ MaxChildExits * MAX_WMMAP_INFO \in Nat
    BY ExitBound, WmapAssumption, Zenon
  <2> QED BY <2>1 DEF Init
<1>7. present \subseteq UserPages /\ status \in {"run", "panic", "hung"}
  BY WmapAssumption, Zenon DEF Init
<1>8. tbl = EmptyTable
  BY Zenon DEF Init
<1> QED BY <1>3, <1>5, <1>6, <1>7, <1>8, Zenon DEF Inv, TypeOK, TableInStep, SortedStarts

\* What the calls are given.
LEMMA ArgumentTypes ==
  /\ \A a \in FixedAddrs \cup Touches : a \in Addrs /\ a \in Int
  /\ \A n \in Lengths \cup NewSizes : n \in Int /\ PGROUNDUP(n) \in Int
  /\ \A fl \in FlagSets : fl \in SUBSET Flags
  /\ Fd \in Int
<1>1. \A a \in FixedAddrs \cup Touches : a \in Addrs
  BY WmapAssumption, Zenon
<1>2. \A n \in Lengths \cup NewSizes : n \in Int
  BY WmapAssumption, Zenon
<1>3. \A fl \in FlagSets : fl \in SUBSET Flags
  BY WmapAssumption, Zenon
<1>4. Fd \in Int
  BY DEF Fd
<1> QED BY <1>1, <1>2, <1>3, <1>4, AddrInt, RoundUpType, Zenon

\* sys_wmap preserves the invariant.
LEMMA WmapInv ==
  ASSUME Inv, NEW a \in FixedAddrs, NEW n \in Lengths, NEW fl \in FlagSets,
         sys_wmap(a, n, fl)
  PROVE  Inv'
<1>1. /\ a \in Addrs /\ a \in Int /\ n \in Int /\ PGROUNDUP(n) \in Int
      /\ fl \in SUBSET Flags /\ Fd \in Int
  BY ArgumentTypes, Zenon
<1>2. tbl \in Table /\ InStep(tbl) /\ Sorted(tbl)
  BY Zenon DEF Inv, TypeOK, TableInStep, SortedStarts
<1>3. tbl' \in Table /\ InStep(tbl') /\ Sorted(tbl')
  <2>1. CASE WmapFixed(a, n, fl)
    <3>1. AsUint(a + PGROUNDUP(n) - 1) \in Addrs
      BY <1>1, ConversionType
    <3> QED BY <1>1, <1>2, <2>1, <3>1, InsertKeeps, Zenon DEF WmapFixed
  <2>2. CASE WmapAnywhere(n, fl)
    <3> DEFINE addr == FindPlace(tbl, PGROUNDUP(n))
               end == AsUint(addr + PGROUNDUP(n) - 1)
    <3>1. addr \in Addrs /\ addr \in Int
      BY <1>1, <1>2, FindPlaceType, TableAssumption DEF Addrs
    <3>2. end \in Addrs
      BY <1>1, <3>1, ConversionType
    <3>3. tbl' = insert_mapping(tbl, addr, end, fl, n, Fd)
      BY <2>2, Zenon DEF WmapAnywhere
    <3> HIDE DEF addr, end
    <3> QED BY <1>1, <1>2, <3>1, <3>2, <3>3, InsertKeeps, Zenon
  <2> QED BY <2>1, <2>2, Zenon DEF sys_wmap
<1>4. UNCHANGED <<present, file, status, exits>>
  BY Zenon DEF sys_wmap
<1> QED BY <1>3, <1>4, Zenon DEF Inv, TypeOK, TableInStep, SortedStarts, InStep, Sorted, Used

\* sys_wremap preserves the invariant.
LEMMA WremapInv ==
  ASSUME Inv, NEW a \in Starts, NEW n \in NewSizes, NEW mv \in BOOLEAN,
         sys_wremap(a, n, mv)
  PROVE  Inv'
<1> DEFINE found == {i \in Matches(tbl, a) : tbl.arr[i].valid = 1}
           old == tbl.arr[First(found)]
           t == remove_mapping(tbl, a)
<1>1. tbl \in Table /\ InStep(tbl) /\ Sorted(tbl)
  BY Zenon DEF Inv, TypeOK, TableInStep, SortedStarts
<1>2. Used(tbl) \subseteq Slots /\ Slots \subseteq Nat
  BY <1>1, TableFields, TableAssumption DEF Used, Slots
<1>3. PICK i0 \in Used(tbl) : tbl.arr[i0].start = a
  BY Zenon DEF Starts
<1>4. /\ a \in Addrs /\ a \in Int /\ n \in Int /\ PGROUNDUP(n) \in Int
  <2>1. tbl.arr[i0] \in MemBlock
    BY <1>1, <1>2, TableFields, Zenon
  <2>2. a \in Addrs
    BY <1>3, <2>1, BlockFields, Zenon
  <2> QED BY <2>2, ArgumentTypes, AddrInt, Zenon
<1>5. t \in Table /\ InStep(t) /\ Sorted(t)
  BY <1>1, <1>3, <1>4, RemoveKeeps, Zenon
<1>6. old.flags \in SUBSET Flags /\ old.fd \in Int
  <2>1. found # {} /\ found \in SUBSET Nat /\ found \subseteq Slots
    BY <1>2, Zenon DEF Matches, sys_wremap
  <2> HIDE DEF found
  <2>2. First(found) \in Slots
    BY <2>1, FirstIn, Zenon
  <2>3. old \in MemBlock
    BY <1>1, <2>2, TableFields, Zenon
  <2> QED BY <2>3, BlockFields, Zenon
<1>7. tbl' = RemapInPlace(tbl, a, n, old) \/ tbl' = RemapMove(tbl, a, n, old)
  BY Zenon DEF sys_wremap
<1>8. ASSUME NEW addr \in Addrs, NEW end \in Addrs,
             tbl' = Replace(tbl, a, addr, end, n, old)
      PROVE  tbl' \in Table /\ InStep(tbl') /\ Sorted(tbl')
  <2>1. tbl' = insert_mapping(t, addr, end, old.flags, n, old.fd)
    BY <1>8, Zenon DEF Replace
  <2> HIDE DEF t, old
  <2> QED BY <1>4, <1>5, <1>6, <2>1, InsertKeeps, Zenon
<1> HIDE DEF t, old
<1>9. tbl' \in Table /\ InStep(tbl') /\ Sorted(tbl')
  <2>1. CASE tbl' = RemapInPlace(tbl, a, n, old)
    <3>1. AsUint(a + PGROUNDUP(n) - 1) \in Addrs
      BY <1>4, ConversionType
    <3> QED BY <1>4, <1>8, <2>1, <3>1, Zenon DEF RemapInPlace
  <2>2. CASE tbl' = RemapMove(tbl, a, n, old)
    <3> DEFINE addr == FindPlace(t, PGROUNDUP(n))
               end == AsUint(addr + PGROUNDUP(n) - 2)
    <3>1. addr \in Addrs /\ addr \in Int
      BY <1>4, <1>5, FindPlaceType, TableAssumption DEF Addrs
    <3>2. end \in Addrs
      BY <1>4, <3>1, ConversionType
    <3>3. tbl' = Replace(tbl, a, addr, end, n, old)
      BY <2>2, Zenon DEF RemapMove, t
    <3> HIDE DEF addr, end
    <3> QED BY <1>8, <3>1, <3>2, <3>3, Zenon
  <2> QED BY <1>7, <2>1, <2>2, Zenon
<1>10. UNCHANGED <<present, file, status, exits>>
  BY Zenon DEF sys_wremap
<1> QED BY <1>9, <1>10, Zenon DEF Inv, TypeOK, TableInStep, SortedStarts, InStep, Sorted, Used

\* A page below MAX_ADDR starts at an address.
LEMMA PageStart ==
  ASSUME NEW p \in UserPages
  PROVE  p * PGSIZE \in Addrs
<1> DEFINE q == MAX_ADDR \div PGSIZE
<1>1. PGSIZE \in Nat /\ PGSIZE > 0 /\ MAX_ADDR \in Nat /\ MAX_ADDR < WORD /\ WORD \in Nat
  BY TableAssumption DEF MAX_ADDR
<1>2. q \in Nat /\ q * PGSIZE <= MAX_ADDR
  <2> HIDE DEF MAX_ADDR
  <2>1. MAX_ADDR = PGSIZE * q + (MAX_ADDR % PGSIZE) /\ MAX_ADDR % PGSIZE >= 0 /\ q \in Nat
    BY <1>1
  <2>2. PGSIZE * q = q * PGSIZE /\ PGSIZE * q \in Int /\ MAX_ADDR % PGSIZE \in Int
    BY <1>1, <2>1
  <2> QED BY <1>1, <2>1, <2>2
<1> HIDE DEF q
<1>3. p \in Nat /\ q - p \in Nat
  BY <1>2 DEF UserPages, q
<1>4. q * PGSIZE = p * PGSIZE + (q - p) * PGSIZE /\ (q - p) * PGSIZE \in Nat
      /\ p * PGSIZE \in Nat
  BY <1>1, <1>2, <1>3
<1> QED BY <1>1, <1>2, <1>4 DEF Addrs

\* The handler changes the page counts only: of its own fault, after those of a
\* fault inside its read of the file.
LEMMA PageFaultTable ==
  ASSUME Inv, NEW va \in Touches, NEW mem \in MemOutcomes, PageFault(va, mem)
  PROVE  /\ tbl' \in Table /\ InStep(tbl') /\ Sorted(tbl')
         /\ tbl'.arr = tbl.arr /\ tbl'.total_mmaps = tbl.total_mmaps
<1> DEFINE second == (Page(va) + 1) * PGSIZE
<1>1. tbl \in Table /\ InStep(tbl) /\ Sorted(tbl)
  BY Zenon DEF Inv, TypeOK, TableInStep, SortedStarts
<1>2. {va} \in SUBSET Addrs /\ IsFiniteSet({va})
  BY ArgumentTypes, FS_Singleton, Zenon
<1>3. \/ tbl' = tbl
      \/ tbl' = Loaded(tbl, {va})
      \/ FaultHalfMapped(va)
  BY Zenon DEF PageFault, FaultServed, FaultRemaps, FaultUnmapped
<1>4. ASSUME FaultHalfMapped(va)
      PROVE  \/ tbl' = tbl \/ tbl' = Loaded(tbl, {va})
             \/ \E t \in AfterFaults(tbl, {second}) : tbl' = Loaded(t, {va})
  BY <1>4, Zenon DEF FaultHalfMapped
<1>5. ASSUME FaultHalfMapped(va)
      PROVE  {second} \in SUBSET Addrs /\ IsFiniteSet({second})
  <2>1. Page(va) + 1 \in UserPages
    BY <1>5, Zenon DEF FaultHalfMapped, HasPte
  <2>2. second \in Addrs
    BY <2>1, PageStart, Zenon
  <2> HIDE DEF second
  <2> QED BY <2>2, FS_Singleton, Zenon
<1> HIDE DEF second
<1>6. CASE tbl' = tbl
  BY <1>1, <1>6, Zenon DEF InStep, Sorted, Used
<1>7. CASE tbl' = Loaded(tbl, {va})
  BY <1>1, <1>2, <1>7, LoadedKeeps, Zenon
<1>8. ASSUME FaultHalfMapped(va),
             NEW t \in AfterFaults(tbl, {second}), tbl' = Loaded(t, {va})
      PROVE  /\ tbl' \in Table /\ InStep(tbl') /\ Sorted(tbl')
             /\ tbl'.arr = tbl.arr /\ tbl'.total_mmaps = tbl.total_mmaps
  <2>1. /\ t \in Table /\ InStep(t) /\ Sorted(t)
        /\ t.arr = tbl.arr /\ t.total_mmaps = tbl.total_mmaps
    BY <1>1, <1>5, <1>8, AfterFaultsKeep, Zenon
  <2> QED BY <1>2, <1>8, <2>1, LoadedKeeps, Zenon
<1> QED BY <1>3, <1>4, <1>6, <1>7, <1>8, Zenon

\* The page-fault handler preserves the invariant.
LEMMA PageFaultInv ==
  ASSUME Inv, NEW va \in Touches, NEW mem \in MemOutcomes, PageFault(va, mem)
  PROVE  Inv'
<1>1. tbl' \in Table /\ InStep(tbl') /\ Sorted(tbl')
  BY PageFaultTable, Zenon
<1>2. file' \in [size : Nat, off : Nat]
  <2>1. BytesRead \in Nat
    BY TableAssumption DEF Inv, TypeOK, BytesRead, Min2
  <2>2. file' = file \/ file' = [file EXCEPT !.off = @ + BytesRead]
    BY Zenon DEF PageFault, FaultServed, FaultRemaps, FaultUnmapped, FaultHalfMapped, FileAfter
  <2> QED BY <2>1, <2>2 DEF Inv, TypeOK
<1>3. present' \subseteq UserPages
  <2>1. Page(va) \in Spanned(va)
    <3>1. va \in Int /\ PGSIZE \in Nat \ {0}
      BY ArgumentTypes, TableAssumption, Zenon
    <3> QED BY <3>1 DEF Spanned, Page
  <2>2. CASE present' = present
    BY <2>2, Zenon DEF Inv, TypeOK
  <2>3. CASE /\ \A p \in Spanned(va) : ~ HasPte(p)
             /\ present' = present \cup Spanned(va) \/ present' = present \cup {Page(va)}
    BY <2>1, <2>3, Zenon DEF HasPte, Inv, TypeOK
  <2> QED BY <2>2, <2>3, Zenon DEF PageFault, FaultServed, FaultRemaps, FaultUnmapped, FaultHalfMapped
<1>4. status' \in {"run", "panic", "hung"} /\ exits' = exits
  BY Zenon DEF PageFault, FaultServed, FaultRemaps, FaultUnmapped, FaultHalfMapped, Inv, TypeOK
<1> QED BY <1>1, <1>2, <1>3, <1>4, Zenon DEF Inv, TypeOK, TableInStep, SortedStarts, InStep, Sorted, Used

\* Clearing the visited pages and removing the entry keeps the table and the
\* page directory in order.
LEMMA UnmapKeeps ==
  ASSUME NEW t \in Table, InStep(t), Sorted(t), NEW pgs \in SUBSET UserPages,
         NEW a \in Addrs, NEW i0 \in Used(t), t.arr[i0].start = a,
         TypeOK, TableInStep, SortedStarts, Unmap(t, pgs, a)
  PROVE  /\ tbl' \in Table /\ InStep(tbl') /\ Sorted(tbl')
         /\ present' \subseteq UserPages
         /\ status' \in {"run", "panic", "hung"}
<1> DEFINE u == remove_mapping(t, a)
<1>1. u \in Table /\ InStep(u) /\ Sorted(u)
  BY RemoveKeeps, Zenon
<1>2. \/ tbl' = u /\ present' \subseteq pgs /\ status' = status
      \/ status' = "panic" /\ tbl' = tbl /\ present' = present
  BY Zenon DEF Unmap
<1> HIDE DEF u
<1>3. tbl' \in Table /\ InStep(tbl') /\ Sorted(tbl')
  BY <1>1, <1>2, Zenon DEF TypeOK, TableInStep, SortedStarts
<1> QED BY <1>2, <1>3, Zenon DEF TypeOK

\* What sys_wunmap removes the mapping from: the table as it is, or as the
\* faults inside the write-back leave it.
LEMMA WunmapCases ==
  ASSUME Inv, NEW a \in Starts, sys_wunmap(a)
  PROVE  /\ \/ \E t \in Table, pgs \in SUBSET UserPages :
                 /\ InStep(t) /\ Sorted(t) /\ t.arr = tbl.arr /\ t.total_mmaps = tbl.total_mmaps
                 /\ Unmap(t, pgs, a)
            \/ status' \in {"hung", "panic"} /\ UNCHANGED <<tbl, present>>
         /\ file' \in [size : Nat, off : Nat]
<1> DEFINE block == tbl.arr[First(Matches(tbl, a))]
           pages == MissingPages(block)
           faults == {p * PGSIZE : p \in pages}
<1>1. tbl \in Table /\ InStep(tbl) /\ Sorted(tbl) /\ TypeOK
  BY Zenon DEF Inv, TypeOK, TableInStep, SortedStarts
<1>2. Used(tbl) \subseteq Slots /\ Slots \subseteq Nat
  BY <1>1, TableFields, TableAssumption DEF Used, Slots
<1>3. block \in MemBlock
  <2>1. Matches(tbl, a) # {} /\ Matches(tbl, a) \in SUBSET Nat /\ Matches(tbl, a) \subseteq Slots
    BY <1>2, Zenon DEF Matches, Starts
  <2>2. First(Matches(tbl, a)) \in Slots
    BY <2>1, FirstIn, Zenon
  <2> QED BY <1>1, <2>2, TableFields, Zenon
<1> HIDE DEF block
<1>4. pages \subseteq UserPages /\ IsFiniteSet(pages)
  <2>1. pages \subseteq UserPages
    BY Zenon DEF MissingPages, HasPte
  <2>2. IsFiniteSet(UserPages)
    <3>1. (MAX_ADDR \div PGSIZE) - 1 \in Int
      BY TableAssumption DEF MAX_ADDR
    <3> QED BY <3>1, FS_Interval DEF UserPages
  <2> HIDE DEF pages
  <2> QED BY <2>1, <2>2, FS_Subset, Zenon
<1> HIDE DEF pages
<1>5. faults \in SUBSET Addrs /\ IsFiniteSet(faults)
  <2>1. faults \in SUBSET Addrs
    BY <1>4, PageStart, Zenon
  <2> DEFINE f == [p \in pages |-> p * PGSIZE]
  <2>2. f \in Surjection(pages, faults)
    BY Zenon DEF Surjection
  <2> HIDE DEF f, faults
  <2>3. IsFiniteSet(faults)
    BY <1>4, <2>2, FS_Surjection, Zenon
  <2> QED BY <2>1, <2>3, Zenon
<1> HIDE DEF faults
<1>6. ASSUME NEW t \in AfterFaults(tbl, faults)
      PROVE  /\ t \in Table /\ InStep(t) /\ Sorted(t)
             /\ t.arr = tbl.arr /\ t.total_mmaps = tbl.total_mmaps
  BY <1>1, <1>5, AfterFaultsKeep, Zenon
<1>7. present \in SUBSET UserPages /\ present \cup pages \in SUBSET UserPages
  BY <1>1, <1>4, Zenon DEF TypeOK
<1>8. WrittenBack(block) \in [size : Nat, off : Nat]
  BY <1>1, <1>3, BlockFields DEF TypeOK, WrittenBack
<1>9. \/ /\ \E t \in AfterFaults(tbl, faults) : Unmap(t, present \cup pages, a)
         /\ file' = WrittenBack(block)
      \/ Unmap(tbl, present, a) /\ file' = file
      \/ status' \in {"hung", "panic"} /\ UNCHANGED <<tbl, present, file>>
  BY Zenon DEF sys_wunmap, WriteBack, block, pages, faults
<1>10. file' \in [size : Nat, off : Nat]
  BY <1>1, <1>8, <1>9, Zenon DEF TypeOK
<1>11. CASE \E t \in AfterFaults(tbl, faults) : Unmap(t, present \cup pages, a)
  BY <1>6, <1>7, <1>10, <1>11, Zenon
<1>12. CASE Unmap(tbl, present, a)
  BY <1>1, <1>7, <1>10, <1>12, Zenon
<1> QED BY <1>9, <1>10, <1>11, <1>12, Zenon

\* A mapping in use starts at an address.
LEMMA StartType ==
  ASSUME tbl \in Table, NEW i \in Used(tbl)
  PROVE  tbl.arr[i].start \in Addrs
<1>1. i \in Slots
  BY TableFields, TableAssumption DEF Used, Slots
<1>2. tbl.arr[i] \in MemBlock
  BY <1>1, TableFields, Zenon
<1> QED BY <1>2, BlockFields, Zenon

\* sys_wunmap preserves the invariant, the write-back and the faults inside it
\* included.
LEMMA WunmapInv ==
  ASSUME Inv, NEW a \in Starts, sys_wunmap(a)
  PROVE  Inv'
<1>1. /\ tbl \in Table /\ InStep(tbl) /\ Sorted(tbl)
      /\ TypeOK /\ TableInStep /\ SortedStarts
  BY Zenon DEF Inv, TypeOK, TableInStep, SortedStarts
<1>2. PICK i0 \in Used(tbl) : tbl.arr[i0].start = a
  BY Zenon DEF Starts
<1>3. a \in Addrs
  BY <1>1, <1>2, StartType, Zenon
<1>4. /\ tbl' \in Table /\ InStep(tbl') /\ Sorted(tbl')
      /\ present' \subseteq UserPages
      /\ status' \in {"run", "panic", "hung"}
  <2>1. ASSUME NEW t \in Table, NEW pgs \in SUBSET UserPages,
               InStep(t), Sorted(t), t.arr = tbl.arr, t.total_mmaps = tbl.total_mmaps,
               Unmap(t, pgs, a)
        PROVE  /\ tbl' \in Table /\ InStep(tbl') /\ Sorted(tbl')
               /\ present' \subseteq UserPages
               /\ status' \in {"run", "panic", "hung"}
    <3>1. i0 \in Used(t) /\ t.arr[i0].start = a
      BY <1>2, <2>1, Zenon DEF Used
    <3> QED BY <1>1, <1>3, <2>1, <3>1, UnmapKeeps, Zenon
  <2>2. CASE status' \in {"hung", "panic"} /\ UNCHANGED <<tbl, present>>
    BY <1>1, <2>2, Zenon DEF TypeOK
  <2> QED BY <2>1, <2>2, WunmapCases, Zenon
<1>5. file' \in [size : Nat, off : Nat] /\ exits' = exits
  BY WunmapCases, Zenon DEF sys_wunmap
<1> QED BY <1>1, <1>4, <1>5, Zenon DEF Inv, TypeOK, TableInStep, SortedStarts, InStep, Sorted, Used

\* A child's exit preserves the invariant.
LEMMA ChildExitInv ==
  ASSUME Inv, ChildExit
  PROVE  Inv'
<1> DEFINE drop(b) == [b EXCEPT !.ref = @ - 1]
           k == exits % MAX_WMMAP_INFO
           arr == [tbl.arr EXCEPT ![k] = drop(tbl.arr[k])]
<1>1. tbl \in Table /\ InStep(tbl) /\ Sorted(tbl)
  BY Zenon DEF Inv, TypeOK, TableInStep, SortedStarts
<1>2. ASSUME NEW b \in MemBlock
      PROVE  /\ drop(b) \in MemBlock /\ drop(b).start = b.start
             /\ drop(b).length = b.length /\ drop(b).valid = b.valid
  BY DEF MemBlock
<1>3. tbl' = [tbl EXCEPT !.arr = arr]
  BY Zenon DEF ChildExit
<1> HIDE DEF drop, k
<1>4. tbl.arr \in [Slots -> MemBlock] /\ \A i \in Slots : tbl.arr[i] \in MemBlock
  BY <1>1, TableFields, Zenon
<1>5. arr \in [Slots -> MemBlock]
  BY <1>2, <1>4, Zenon
<1>6. \A i \in Slots : /\ arr[i].start = tbl.arr[i].start
                      /\ arr[i].length = tbl.arr[i].length
                      /\ arr[i].valid = tbl.arr[i].valid
  BY <1>2, <1>4, Zenon
<1> HIDE DEF arr
<1>7. tbl' \in Table
  BY <1>1, <1>3, <1>5, Zenon DEF Table
<1>8. /\ tbl'.arr = arr /\ tbl'.total_mmaps = tbl.total_mmaps
      /\ tbl'.addr = tbl.addr /\ tbl'.length = tbl.length
  BY <1>1, <1>3, Zenon DEF Table
<1>9. Used(tbl) \subseteq Slots
  BY <1>1, TableFields, TableAssumption DEF Used, Slots
<1>10. InStep(tbl') /\ Sorted(tbl')
  BY <1>1, <1>6, <1>8, <1>9 DEF InStep, Sorted, Used
<1>11. exits' \in 0 .. MaxChildExits * MAX_WMMAP_INFO
  <2> DEFINE n == MaxChildExits * MAX_WMMAP_INFO
  <2>1. n \in Nat
    BY ExitBound, Zenon
  <2>2. exits \in 0 .. n /\ exits < n /\ exits' = exits + 1
    BY Zenon DEF ChildExit, Inv, TypeOK
  <2> HIDE DEF n
  <2>3. exits' \in 0 .. n
    BY <2>1, <2>2
  <2> QED BY <2>3, Zenon DEF n
<1>12. UNCHANGED <<present, file, status>>
  BY Zenon DEF ChildExit
<1> QED BY <1>7, <1>10, <1>11, <1>12, Zenon DEF Inv, TypeOK, TableInStep, SortedStarts, InStep, Sorted, Used

\* Every step preserves the invariant.
LEMMA NextInv == Inv /\ [Next]_vars => Inv'
<1> SUFFICES ASSUME Inv, [Next]_vars PROVE Inv'
  OBVIOUS
<1>1. CASE \E a \in FixedAddrs, n \in Lengths, fl \in FlagSets : sys_wmap(a, n, fl)
  BY <1>1, WmapInv, Zenon
<1>2. CASE \E a \in Starts : sys_wunmap(a)
  BY <1>2, WunmapInv, Zenon
<1>3. CASE \E a \in Starts, n \in NewSizes, mv \in BOOLEAN : sys_wremap(a, n, mv)
  BY <1>3, WremapInv, Zenon
<1>4. CASE \E va \in Touches, mem \in MemOutcomes : PageFault(va, mem)
  BY <1>4, PageFaultInv, Zenon
<1>5. CASE ChildExit
  BY <1>5, ChildExitInv, Zenon
<1>6. CASE UNCHANGED vars
  BY <1>6, Zenon DEF vars, Inv, TypeOK, TableInStep, SortedStarts, InStep, Sorted, Used
<1> QED BY <1>1, <1>2, <1>3, <1>4, <1>5, <1>6, Zenon DEF Next

-----------------------------------------------------------------------------
(* Theorems *)

\* The invariant holds in every reachable state.
THEOREM Invariance == Spec => []Inv
<1>1. Inv /\ [Next]_vars => Inv'
  BY NextInv, Zenon
<1> QED BY InitInv, <1>1, PTL DEF Spec

\* Every field of the table, the page directory and the file stays in its
\* type, whatever is mapped, unmapped, remapped, touched or left by a child.
THEOREM TypeCorrect == Spec => []TypeOK
<1>1. Inv => TypeOK
  BY Zenon DEF Inv
<1> QED BY Invariance, <1>1, PTL

\* The prefix in use is always valid and lists the same mappings as wmapinfo:
\* what getwmapinfo reports is what the page-fault handler serves.
THEOREM AlwaysInStep == Spec => []TableInStep
<1>1. Inv => TableInStep
  BY Zenon DEF Inv
<1> QED BY Invariance, <1>1, PTL

\* The table is always sorted by start address, which insert_mapping promises
\* and relies on.
THEOREM AlwaysSorted == Spec => []SortedStarts
<1>1. Inv => SortedStarts
  BY Zenon DEF Inv
<1> QED BY Invariance, <1>1, PTL

-----------------------------------------------------------------------------
(* The list of regions *)

Region == [start : Addrs, length : Lengths \cup NewSizes, flags : FlagSets, fd : {Fd}]

\* The regions of a table; regionList is that of tbl.
ListOf(t) == [i \in 1 .. t.total_mmaps |-> RegionOf(t.arr[i - 1])]

\* A table whose mappings are regions.
Regional(t) == \A i \in Used(t) : RegionOf(t.arr[i]) \in Region

\* The rest of a list, by its length.
LEMMA WithoutIs ==
  ASSUME NEW S, NEW n \in Nat, NEW s \in [1 .. n -> S], NEW k \in 1 .. n
  PROVE  Regions!Without(s, k) = [i \in 1 .. n - 1 |-> IF i < k THEN s[i] ELSE s[i + 1]]
<1>1. Len(s) = n
  OBVIOUS
<1> QED BY <1>1, Zenon DEF Regions!Without

\* The list of a table, and its type.
LEMMA ListType ==
  ASSUME NEW t \in Table
  PROVE  /\ t.total_mmaps \in Nat /\ DOMAIN ListOf(t) = 1 .. t.total_mmaps
         /\ \A i \in 1 .. t.total_mmaps : ListOf(t)[i] = RegionOf(t.arr[i - 1])
         /\ Regional(t) => ListOf(t) \in [1 .. t.total_mmaps -> Region]
<1>1. t.total_mmaps \in Nat
  BY TableFields, Zenon
<1>2. Regional(t) => \A i \in 1 .. t.total_mmaps : RegionOf(t.arr[i - 1]) \in Region
  BY <1>1 DEF Regional, Used
<1> QED BY <1>1, <1>2, Zenon DEF ListOf

\* insert_mapping adds one region to the list, unless the table is full.
LEMMA InsertRegion ==
  ASSUME NEW t \in Table, Regional(t), t.total_mmaps # MAX_WMMAP_INFO,
         NEW start \in Addrs, NEW end \in Addrs, NEW flags \in FlagSets,
         NEW length \in Lengths \cup NewSizes, NEW fd \in {Fd},
         insert_mapping(t, start, end, flags, length, fd) \in Table
  PROVE  LET u == insert_mapping(t, start, end, flags, length, fd) IN
         /\ Regional(u)
         /\ \E m \in DOMAIN ListOf(u) :
              /\ ListOf(u)[m] \in Region
              /\ ListOf(u)[m].flags = flags /\ ListOf(u)[m].fd = fd
              /\ Regions!Without(ListOf(u), m) = ListOf(t)
<1> DEFINE n == t.total_mmaps
           k == InsertIdx(t, start)
           block == [start |-> start, end |-> end, flags |-> flags,
                     length |-> length, fd |-> fd, ref |-> 1, valid |-> 1]
           u == insert_mapping(t, start, end, flags, length, fd)
<1>1. n \in Nat /\ n < MAX_WMMAP_INFO /\ MAX_WMMAP_INFO \in Nat
  BY TableFields, TableAssumption
<1>2. k \in 0 .. n
  BY InsertIdxPosition, Zenon
<1>3. RegionOf(block) \in Region /\ RegionOf(block).flags = flags /\ RegionOf(block).fd = fd
  BY Zenon DEF RegionOf, Region
<1>4. u.arr = OpenGap(t.arr, k, n, block) /\ u.total_mmaps = n + 1
  <2> HIDE DEF block, k
  <2>1. u = [t EXCEPT !.arr = OpenGap(t.arr, k, n, block),
                      !.total_mmaps = n + 1,
                      !.addr = OpenGap(t.addr, k, n, start),
                      !.length = OpenGap(t.length, k, n, length),
                      !.n_loaded_pages = OpenGap(t.n_loaded_pages, k, n,
                                                 t.n_loaded_pages[k])]
    BY Zenon DEF insert_mapping, block, k
  <2> QED BY <2>1, Zenon DEF Table
<1> HIDE DEF block, k, u
<1>5. \A i \in 0 .. n :
        u.arr[i] = IF i = k THEN block ELSE IF k < i THEN t.arr[i - 1] ELSE t.arr[i]
  BY <1>1, <1>2, <1>4 DEF OpenGap, Slots
<1>6. ASSUME NEW i \in 0 .. n PROVE RegionOf(u.arr[i]) \in Region
  <2>1. CASE i = k
    BY <1>3, <1>5, <2>1, Zenon
  <2>2. CASE i # k
    <3>1. PICK j \in Used(t) : u.arr[i] = t.arr[j]
      BY <1>1, <1>2, <1>5, <2>2 DEF Used
    <3> QED BY <3>1, Zenon DEF Regional
  <2> QED BY <2>1, <2>2, Zenon
<1>7. Regional(u)
  BY <1>1, <1>4, <1>6 DEF Regional, Used
<1>8. u \in Table
  BY Zenon DEF u
<1>9. k + 1 \in DOMAIN ListOf(u) /\ ListOf(u)[k + 1] = RegionOf(block)
  <2>1. k + 1 \in 1 .. n + 1 /\ u.arr[(k + 1) - 1] = block
    BY <1>1, <1>2, <1>5
  <2> QED BY <1>4, <1>8, <2>1, ListType, Zenon
<1>10. Regions!Without(ListOf(u), k + 1) = ListOf(t)
  <2> DEFINE s == ListOf(u)
  <2>1. s \in [1 .. n + 1 -> Region] /\ n + 1 \in Nat /\ k + 1 \in 1 .. n + 1
    BY <1>1, <1>2, <1>4, <1>7, <1>8, ListType
  <2>2. \A i \in 1 .. n + 1 : s[i] = RegionOf(u.arr[i - 1])
    BY <1>4, <1>8, ListType, Zenon
  <2> HIDE DEF s
  <2>3. Regions!Without(s, k + 1) =
          [i \in 1 .. (n + 1) - 1 |-> IF i < k + 1 THEN s[i] ELSE s[i + 1]]
    BY <2>1, WithoutIs, Zenon
  <2>4. ASSUME NEW i \in 1 .. n
        PROVE  (IF i < k + 1 THEN s[i] ELSE s[i + 1]) = RegionOf(t.arr[i - 1])
    <3>1. CASE i < k + 1
      <4>1. i \in 1 .. n + 1 /\ i - 1 \in 0 .. n /\ i - 1 < k
        BY <1>1, <1>2, <3>1
      <4>2. u.arr[i - 1] = t.arr[i - 1]
        BY <1>2, <1>5, <4>1
      <4> QED BY <2>2, <3>1, <4>1, <4>2, Zenon
    <3>2. CASE ~ (i < k + 1)
      <4>1. i + 1 \in 1 .. n + 1 /\ (i + 1) - 1 = i /\ i \in 0 .. n /\ k < i /\ i # k
        BY <1>1, <1>2, <3>2
      <4>2. u.arr[i] = t.arr[i - 1]
        BY <1>5, <4>1, Zenon
      <4> QED BY <2>2, <3>2, <4>1, <4>2, Zenon
    <3> QED BY <3>1, <3>2, Zenon
  <2>5. (n + 1) - 1 = n
    BY <1>1
  <2> QED BY <2>3, <2>4, <2>5, Zenon DEF ListOf, s
<1>11. /\ ListOf(u)[k + 1] \in Region
       /\ ListOf(u)[k + 1].flags = flags /\ ListOf(u)[k + 1].fd = fd
  BY <1>3, <1>9, Zenon
<1> QED BY <1>7, <1>9, <1>10, <1>11, Zenon DEF u

\* remove_mapping finds the first mapping in use that starts at the address.
LEMMA RemovedSlot ==
  ASSUME NEW t \in Table, InStep(t), NEW a \in Addrs, NEW i0 \in Used(t), t.arr[i0].start = a
  PROVE  LET k == First(StartingAt(t, a)) IN
         /\ StartingAt(t, a) # {} /\ k \in StartingAt(t, a)
         /\ k \in Used(t) /\ k \in Slots /\ t.arr[k].start = a /\ t.arr[k].valid = 1
         /\ \A j \in StartingAt(t, a) : k <= j
<1> DEFINE k == First(StartingAt(t, a))
<1>1. t.total_mmaps \in Nat /\ t.total_mmaps <= MAX_WMMAP_INFO /\ MAX_WMMAP_INFO \in Nat
  BY TableFields, TableAssumption, Zenon
<1>2. i0 \in StartingAt(t, a)
  BY <1>1 DEF StartingAt, InStep, Used, Slots
<1>3. StartingAt(t, a) \in SUBSET Nat /\ StartingAt(t, a) \subseteq Slots
  BY <1>1 DEF StartingAt, Slots
<1>4. k \in StartingAt(t, a) /\ \A j \in StartingAt(t, a) : k <= j
  BY <1>2, <1>3, FirstIn, Zenon
<1>5. k <= i0 /\ k \in Nat /\ k \in Slots /\ t.arr[k].start = a
  BY <1>2, <1>3, <1>4, Zenon DEF StartingAt
<1> HIDE DEF k
<1>6. k \in Used(t)
  BY <1>1, <1>5 DEF Used
<1> QED BY <1>2, <1>4, <1>5, <1>6, Zenon DEF k, InStep

\* remove_mapping takes one region from the list, or drops a reference.
LEMMA RemoveRegion ==
  ASSUME NEW t \in Table, InStep(t), Regional(t), NEW a \in Addrs,
         NEW i0 \in Used(t), t.arr[i0].start = a, remove_mapping(t, a) \in Table
  PROVE  LET u == remove_mapping(t, a)
             k == First(StartingAt(t, a))
         IN  /\ Regional(u)
             /\ \/ u.total_mmaps = t.total_mmaps /\ ListOf(u) = ListOf(t)
                \/ /\ u.total_mmaps = t.total_mmaps - 1
                   /\ k + 1 \in DOMAIN ListOf(t)
                   /\ ListOf(u) = Regions!Without(ListOf(t), k + 1)
<1> DEFINE n == t.total_mmaps
           k == First(StartingAt(t, a))
           wiped == [FreeBlock EXCEPT !.start = t.arr[k].start]
           u == remove_mapping(t, a)
<1>1. n \in Nat /\ n <= MAX_WMMAP_INFO /\ MAX_WMMAP_INFO \in Nat
  BY TableFields, TableAssumption, Zenon
<1>2. StartingAt(t, a) # {} /\ k \in 0 .. n - 1 /\ k \in Slots
  BY RemovedSlot, Zenon DEF Used
<1> HIDE DEF k
<1>3. CASE t.arr[k].ref # 1
  <2> DEFINE b == [t.arr[k] EXCEPT !.ref = @ - 1]
  <2>1. u = [t EXCEPT !.arr = [t.arr EXCEPT ![k] = b]]
    BY <1>2, <1>3, Zenon DEF remove_mapping, k
  <2>2. t.arr[k] \in MemBlock /\ t.arr \in [Slots -> MemBlock]
    BY <1>2, TableFields, Zenon
  <2>3. RegionOf(b) = RegionOf(t.arr[k])
    BY <2>2, Zenon DEF MemBlock, RegionOf
  <2> HIDE DEF b, u
  <2>4. u.arr = [t.arr EXCEPT ![k] = b] /\ u.total_mmaps = n
    BY <2>1, Zenon DEF Table
  <2>5. \A i \in 0 .. n - 1 : RegionOf(u.arr[i]) = RegionOf(t.arr[i])
    <3>1. \A i \in 0 .. n - 1 : i \in Slots
      BY <1>1 DEF Slots
    <3>2. \A i \in Slots : u.arr[i] = IF i = k THEN b ELSE t.arr[i]
      BY <2>2, <2>4, Zenon
    <3> QED BY <2>3, <3>1, <3>2, Zenon
  <2>6. Regional(u)
    BY <2>4, <2>5, Zenon DEF Regional, Used
  <2>7. ListOf(u) = ListOf(t)
    <3>1. \A i \in 1 .. n : RegionOf(u.arr[i - 1]) = RegionOf(t.arr[i - 1])
      BY <1>1, <2>5
    <3> QED BY <2>4, <3>1, Zenon DEF ListOf
  <2> QED BY <2>4, <2>6, <2>7, Zenon DEF u
<1>4. CASE t.arr[k].ref = 1
  <2>1. u = [t EXCEPT !.arr = CloseGap(t.arr, k, wiped),
                      !.total_mmaps = n - 1,
                      !.addr = CloseGap(t.addr, k, 0),
                      !.length = CloseGap(t.length, k, 0),
                      !.n_loaded_pages = CloseGap(t.n_loaded_pages, k, 0),
                      !.leftmostLoadedAddr = CloseGap(t.leftmostLoadedAddr, k, 0)]
    BY <1>2, <1>4, Zenon DEF remove_mapping, k
  <2> HIDE DEF wiped, u
  <2>2. u.arr = CloseGap(t.arr, k, wiped) /\ u.total_mmaps = n - 1
    BY <2>1, Zenon DEF Table
  <2>3. \A i \in 0 .. n - 2 : u.arr[i] = IF i < k THEN t.arr[i] ELSE t.arr[i + 1]
    <3>1. \A i \in 0 .. n - 2 : i \in Slots /\ i < MAX_WMMAP_INFO - 1
      BY <1>1 DEF Slots
    <3> QED BY <1>1, <1>2, <2>2, <3>1 DEF CloseGap
  <2>4. Regional(u)
    <3>1. ASSUME NEW i \in 0 .. n - 2 PROVE RegionOf(u.arr[i]) \in Region
      <4>1. PICK j \in Used(t) : u.arr[i] = t.arr[j]
        BY <1>1, <1>2, <2>3 DEF Used
      <4> QED BY <4>1, Zenon DEF Regional
    <3>2. Used(u) = 0 .. n - 2
      BY <1>1, <2>2 DEF Used
    <3> QED BY <3>1, <3>2, Zenon DEF Regional
  <2> DEFINE s == ListOf(t)
  <2>5. /\ s \in [1 .. n -> Region] /\ k + 1 \in 1 .. n /\ DOMAIN s = 1 .. n
        /\ \A i \in 1 .. n : s[i] = RegionOf(t.arr[i - 1])
    BY <1>1, <1>2, ListType
  <2> HIDE DEF s
  <2>6. Regions!Without(s, k + 1) = [i \in 1 .. n - 1 |-> IF i < k + 1 THEN s[i] ELSE s[i + 1]]
    BY <1>1, <2>5, WithoutIs, Zenon
  <2>7. ASSUME NEW i \in 1 .. n - 1
        PROVE  (IF i < k + 1 THEN s[i] ELSE s[i + 1]) = RegionOf(u.arr[i - 1])
    <3>1. CASE i < k + 1
      <4>1. i \in 1 .. n /\ i - 1 \in 0 .. n - 2 /\ i - 1 < k
        BY <1>1, <1>2, <3>1
      <4> QED BY <2>3, <2>5, <3>1, <4>1, Zenon
    <3>2. CASE ~ (i < k + 1)
      <4>1. /\ i + 1 \in 1 .. n /\ i - 1 \in 0 .. n - 2 /\ ~ (i - 1 < k)
            /\ (i + 1) - 1 = (i - 1) + 1
        BY <1>1, <1>2, <3>2
      <4> QED BY <2>3, <2>5, <3>2, <4>1, Zenon
    <3> QED BY <3>1, <3>2, Zenon
  <2>8. ListOf(u) = Regions!Without(s, k + 1)
    BY <2>2, <2>6, <2>7, Zenon DEF ListOf
  <2> QED BY <2>2, <2>4, <2>5, <2>8, Zenon DEF s, u, k
<1> QED BY <1>3, <1>4, Zenon DEF k

-----------------------------------------------------------------------------
(* The calls on the list of regions *)

\* The slots and the count are all that the list depends on.
LEMMA SameRegions ==
  ASSUME NEW t, NEW u, u.arr = t.arr, u.total_mmaps = t.total_mmaps
  PROVE  ListOf(u) = ListOf(t) /\ (Regional(t) => Regional(u)) /\ Used(u) = Used(t)
  BY Zenon DEF ListOf, Regional, Used

\* regionList is the list of tbl, before and after a step.
LEMMA RegionLists == regionList = ListOf(tbl) /\ regionList' = ListOf(tbl')
  BY Zenon DEF regionList, ListOf

\* A table the invariant allows.
LEMMA InvTable ==
  ASSUME Inv
  PROVE  tbl \in Table /\ InStep(tbl) /\ Sorted(tbl)
  BY Zenon DEF Inv, TypeOK, TableInStep, SortedStarts

\* Inserting a region into the table is Map, or nothing when the table is full.
LEMMA InsertMaps ==
  ASSUME NEW t \in Table, InStep(t), Sorted(t), Regional(t),
         NEW start \in Addrs, NEW end \in Addrs, NEW flags \in FlagSets,
         NEW length \in Lengths \cup NewSizes, NEW fd \in {Fd},
         ListOf(t) = regionList,
         tbl' = insert_mapping(t, start, end, flags, length, fd)
  PROVE  Regional(tbl') /\ (Regions!Map \/ UNCHANGED regionList)
<1> DEFINE u == insert_mapping(t, start, end, flags, length, fd)
<1>1. CASE t.total_mmaps = MAX_WMMAP_INFO
  <2>1. tbl' = t
    BY <1>1, Zenon DEF insert_mapping
  <2> QED BY <2>1, RegionLists, Zenon
<1>2. CASE t.total_mmaps # MAX_WMMAP_INFO
  <2>1. flags \in SUBSET Flags /\ length \in Int /\ fd \in Int
    BY ArgumentTypes, Zenon
  <2>2. u \in Table
    BY <2>1, InsertKeeps, Zenon
  <2>3. /\ Regional(u)
        /\ \E m \in DOMAIN ListOf(u) : /\ ListOf(u)[m] \in Region
                                       /\ Regions!Without(ListOf(u), m) = ListOf(t)
    BY <1>2, <2>2, InsertRegion
  <2> HIDE DEF u
  <2>4. tbl' = u /\ regionList' = ListOf(u)
    BY RegionLists, Zenon DEF u
  <2> QED BY <2>3, <2>4, Zenon DEF Regions!Map, Region
<1> QED BY <1>1, <1>2, Zenon

\* wmap maps one region, or fails.
LEMMA WmapRefines ==
  ASSUME Inv, Regional(tbl), NEW a \in FixedAddrs, NEW n \in Lengths, NEW fl \in FlagSets,
         sys_wmap(a, n, fl)
  PROVE  Regional(tbl') /\ (Regions!Map \/ UNCHANGED regionList)
<1>1. a \in Addrs /\ a \in Int /\ n \in Int /\ PGROUNDUP(n) \in Int
  BY ArgumentTypes, Zenon
<1>2. \E addr \in Addrs, end \in Addrs : tbl' = insert_mapping(tbl, addr, end, fl, n, Fd)
  <2>1. CASE WmapFixed(a, n, fl)
    <3>1. AsUint(a + PGROUNDUP(n) - 1) \in Addrs
      BY <1>1, ConversionType
    <3> QED BY <1>1, <2>1, <3>1, Zenon DEF WmapFixed
  <2>2. CASE WmapAnywhere(n, fl)
    <3>1. FindPlace(tbl, PGROUNDUP(n)) \in Addrs /\ FindPlace(tbl, PGROUNDUP(n)) \in Int
      BY <1>1, InvTable, FindPlaceType, AddrInt, Zenon
    <3>2. AsUint(FindPlace(tbl, PGROUNDUP(n)) + PGROUNDUP(n) - 1) \in Addrs
      BY <1>1, <3>1, ConversionType
    <3> QED BY <2>2, <3>1, <3>2, Zenon DEF WmapAnywhere
  <2> QED BY <2>1, <2>2, Zenon DEF sys_wmap
<1>3. n \in Lengths \cup NewSizes /\ Fd \in {Fd}
  OBVIOUS
<1> QED BY <1>2, <1>3, InvTable, RegionLists, InsertMaps, Zenon

\* wunmap takes one region away, drops a reference, or does not end.
LEMMA WunmapRefines ==
  ASSUME Inv, Regional(tbl), NEW a \in Starts, sys_wunmap(a)
  PROVE  Regional(tbl') /\ (Regions!Unmap \/ UNCHANGED regionList)
<1>1. PICK i0 \in Used(tbl) : tbl.arr[i0].start = a
  BY Zenon DEF Starts
<1>2. a \in Addrs
  BY <1>1, InvTable, StartType, Zenon
<1>3. CASE tbl' = tbl
  BY <1>3, RegionLists, Zenon
<1>4. ASSUME NEW t \in Table, InStep(t), Sorted(t), t.arr = tbl.arr,
             t.total_mmaps = tbl.total_mmaps, tbl' = remove_mapping(t, a)
      PROVE  Regional(tbl') /\ (Regions!Unmap \/ UNCHANGED regionList)
  <2>1. ListOf(t) = regionList /\ Regional(t) /\ i0 \in Used(t) /\ t.arr[i0].start = a
    BY <1>1, <1>4, SameRegions, RegionLists, Zenon
  <2>2. remove_mapping(t, a) \in Table
    BY <1>2, <1>4, <2>1, RemoveKeeps, Zenon
  <2>3. /\ Regional(remove_mapping(t, a))
        /\ \/ ListOf(remove_mapping(t, a)) = ListOf(t)
           \/ \E k \in DOMAIN ListOf(t) :
                ListOf(remove_mapping(t, a)) = Regions!Without(ListOf(t), k)
    BY <1>2, <1>4, <2>1, <2>2, RemoveRegion, Zenon
  <2> QED BY <1>4, <2>1, <2>3, RegionLists, Zenon DEF Regions!Unmap
<1>5. \/ tbl' = tbl
      \/ \E t \in Table : /\ InStep(t) /\ Sorted(t) /\ t.arr = tbl.arr
                          /\ t.total_mmaps = tbl.total_mmaps /\ tbl' = remove_mapping(t, a)
  BY WunmapCases, Zenon DEF Unmap
<1> QED BY <1>3, <1>4, <1>5, Zenon

\* The entry sys_wremap reads is the one remove_mapping finds.
LEMMA RemapsRemoved ==
  ASSUME tbl \in Table, InStep(tbl), NEW a \in Addrs,
         NEW i0 \in Used(tbl), tbl.arr[i0].start = a
  PROVE  First({i \in Matches(tbl, a) : tbl.arr[i].valid = 1}) = First(StartingAt(tbl, a))
<1> DEFINE found == {i \in Matches(tbl, a) : tbl.arr[i].valid = 1}
           k == First(StartingAt(tbl, a))
<1>1. Used(tbl) \subseteq Slots /\ Slots \subseteq Nat
  BY TableFields, TableAssumption DEF Used, Slots
<1>2. k \in found /\ \A j \in StartingAt(tbl, a) : k <= j
  BY RemovedSlot, Zenon DEF Matches
<1>3. found \subseteq StartingAt(tbl, a) /\ found \in SUBSET Nat
  <2>1. \A i \in found : i \in Slots /\ tbl.arr[i].start = a /\ tbl.arr[i].valid # 0
    BY <1>1 DEF Matches
  <2> QED BY <1>1, <2>1, Zenon DEF StartingAt
<1> HIDE DEF found, k
<1>4. First(found) \in found /\ \A j \in found : First(found) <= j
  BY <1>2, <1>3, FirstIn, Zenon
<1>5. First(found) <= k /\ k <= First(found) /\ k \in Nat /\ First(found) \in Nat
  BY <1>2, <1>3, <1>4, Zenon
<1>6. First(found) = k
  BY <1>5
<1> QED BY <1>6, Zenon DEF found, k

\* wremap exchanges one region for one with the same flags and file; of a
\* mapping with other references it only adds the new one.
LEMMA WremapRefines ==
  ASSUME Inv, Regional(tbl), NEW a \in Starts, NEW n \in NewSizes, NEW mv \in BOOLEAN,
         sys_wremap(a, n, mv)
  PROVE  Regional(tbl') /\ (Regions!Map \/ Regions!Remap \/ UNCHANGED regionList)
<1> DEFINE k == First(StartingAt(tbl, a))
           old == tbl.arr[k]
           t == remove_mapping(tbl, a)
<1>1. tbl \in Table /\ InStep(tbl) /\ Sorted(tbl)
  BY InvTable, Zenon
<1>2. PICK i0 \in Used(tbl) : tbl.arr[i0].start = a
  BY Zenon DEF Starts
<1>3. a \in Addrs /\ a \in Int /\ n \in Int /\ PGROUNDUP(n) \in Int
  BY <1>1, <1>2, StartType, ArgumentTypes, AddrInt, Zenon
<1>4. t \in Table /\ InStep(t) /\ Sorted(t)
  BY <1>1, <1>2, <1>3, RemoveKeeps, Zenon
<1>5. /\ Regional(t)
      /\ \/ ListOf(t) = ListOf(tbl)
         \/ /\ t.total_mmaps = tbl.total_mmaps - 1 /\ k + 1 \in DOMAIN ListOf(tbl)
            /\ ListOf(t) = Regions!Without(ListOf(tbl), k + 1)
  BY <1>1, <1>2, <1>3, <1>4, RemoveRegion, Zenon
<1>6. k \in Used(tbl) /\ old.flags \in FlagSets /\ old.fd \in {Fd}
  <2>1. k \in Used(tbl)
    BY <1>1, <1>2, <1>3, RemovedSlot, Zenon
  <2>2. RegionOf(old) \in Region
    BY <2>1, Zenon DEF Regional
  <2> QED BY <2>1, <2>2, Zenon DEF RegionOf, Region
<1>7. \E addr \in Addrs, end \in Addrs : tbl' = insert_mapping(t, addr, end, old.flags, n, old.fd)
  <2>1. tbl' = RemapInPlace(tbl, a, n, old) \/ tbl' = RemapMove(tbl, a, n, old)
    <3>1. First({i \in Matches(tbl, a) : tbl.arr[i].valid = 1}) = k
      BY <1>1, <1>2, <1>3, RemapsRemoved, Zenon
    <3> QED BY <3>1, Zenon DEF sys_wremap
  <2> HIDE DEF old, k
  <2>2. CASE tbl' = RemapInPlace(tbl, a, n, old)
    <3>1. AsUint(a + PGROUNDUP(n) - 1) \in Addrs
      BY <1>3, ConversionType
    <3> QED BY <1>3, <2>2, <3>1, Zenon DEF RemapInPlace, Replace
  <2>3. CASE tbl' = RemapMove(tbl, a, n, old)
    <3>1. FindPlace(t, PGROUNDUP(n)) \in Addrs /\ FindPlace(t, PGROUNDUP(n)) \in Int
      BY <1>3, <1>4, FindPlaceType, AddrInt, Zenon
    <3>2. AsUint(FindPlace(t, PGROUNDUP(n)) + PGROUNDUP(n) - 2) \in Addrs
      BY <1>3, <3>1, ConversionType
    <3> QED BY <2>3, <3>1, <3>2, Zenon DEF RemapMove, Replace
  <2> QED BY <2>1, <2>2, <2>3, Zenon
<1>8. PICK addr \in Addrs, end \in Addrs :
        tbl' = insert_mapping(t, addr, end, old.flags, n, old.fd)
  BY <1>7, Zenon
<1>9. n \in Lengths \cup NewSizes
  OBVIOUS
<1>10. CASE ListOf(t) = ListOf(tbl)
  <2> HIDE DEF old, t
  <2> QED BY <1>4, <1>5, <1>6, <1>8, <1>9, <1>10, RegionLists, InsertMaps, Zenon
<1>11. CASE /\ t.total_mmaps = tbl.total_mmaps - 1 /\ k + 1 \in DOMAIN ListOf(tbl)
            /\ ListOf(t) = Regions!Without(ListOf(tbl), k + 1)
  <2>1. ListOf(tbl)[k + 1].flags = old.flags /\ ListOf(tbl)[k + 1].fd = old.fd
    <3>1. k \in Nat /\ k + 1 \in 1 .. tbl.total_mmaps /\ (k + 1) - 1 = k
      BY <1>1, <1>6, TableFields DEF Used
    <3>2. ListOf(tbl)[k + 1] = RegionOf(old)
      BY <1>1, <3>1, ListType, Zenon
    <3> QED BY <3>2 DEF RegionOf
  <2>2. t.total_mmaps # MAX_WMMAP_INFO
    BY <1>1, <1>11, TableFields, TableAssumption
  <2> HIDE DEF old, k, t
  <2>3. tbl' \in Table
    <3>1. old.flags \in SUBSET Flags /\ n \in Int /\ old.fd \in Int
      BY <1>6, <1>9, ArgumentTypes, Zenon
    <3> QED BY <1>4, <1>8, <3>1, InsertKeeps, Zenon
  <2>4. /\ Regional(tbl')
        /\ \E m \in DOMAIN ListOf(tbl') :
             /\ ListOf(tbl')[m] \in Region
             /\ ListOf(tbl')[m].flags = old.flags /\ ListOf(tbl')[m].fd = old.fd
             /\ Regions!Without(ListOf(tbl'), m) = ListOf(t)
    BY <1>4, <1>5, <1>6, <1>8, <1>9, <2>2, <2>3, InsertRegion
  <2>5. Regions!Remap
    BY <1>11, <2>1, <2>4, RegionLists, Zenon DEF Regions!Remap, Region
  <2> QED BY <2>4, <2>5, Zenon
<1> QED BY <1>5, <1>10, <1>11, Zenon

\* Faults and children's exits leave the list alone.
LEMMA OthersRefine ==
  ASSUME Inv, Regional(tbl),
         ChildExit \/ \E va \in Touches, mem \in MemOutcomes : PageFault(va, mem)
  PROVE  Regional(tbl') /\ UNCHANGED regionList
<1>1. ASSUME NEW va \in Touches, NEW mem \in MemOutcomes, PageFault(va, mem)
      PROVE  Regional(tbl') /\ UNCHANGED regionList
  <2>1. tbl'.arr = tbl.arr /\ tbl'.total_mmaps = tbl.total_mmaps
    BY <1>1, PageFaultTable, Zenon
  <2> QED BY <2>1, SameRegions, RegionLists, Zenon
<1>2. CASE ChildExit
  <2> DEFINE k == exits % MAX_WMMAP_INFO
             arr == [tbl.arr EXCEPT ![k] = [tbl.arr[k] EXCEPT !.ref = @ - 1]]
  <2>1. tbl \in Table /\ Used(tbl) \subseteq Slots
    BY InvTable, TableFields, TableAssumption DEF Used, Slots
  <2>2. ASSUME NEW i \in Slots PROVE RegionOf(arr[i]) = RegionOf(tbl.arr[i])
    <3> DEFINE less == [tbl.arr[i] EXCEPT !.ref = @ - 1]
    <3>1. tbl.arr[i] \in MemBlock /\ tbl.arr \in [Slots -> MemBlock]
      BY <2>1, TableFields, Zenon
    <3>2. RegionOf(less) = RegionOf(tbl.arr[i])
      BY <3>1, Zenon DEF MemBlock, RegionOf
    <3>3. arr[i] = tbl.arr[i] \/ arr[i] = less
      <4> HIDE DEF k
      <4> QED BY <3>1, Zenon
    <3> HIDE DEF less, arr
    <3> QED BY <3>2, <3>3, Zenon
  <2>3. tbl' = [tbl EXCEPT !.arr = arr]
    BY <1>2, Zenon DEF ChildExit
  <2> HIDE DEF arr
  <2>4. tbl'.arr = arr /\ tbl'.total_mmaps = tbl.total_mmaps /\ tbl.total_mmaps \in Nat
    BY <2>1, <2>3, TableFields, Zenon DEF Table
  <2>5. Regional(tbl')
    BY <2>1, <2>2, <2>4, Zenon DEF Regional, Used
  <2>6. ListOf(tbl') = ListOf(tbl)
    <3>1. \A i \in 1 .. tbl.total_mmaps : i - 1 \in Slots
      BY <2>1, <2>4 DEF Used
    <3> QED BY <2>2, <2>4, <3>1, Zenon DEF ListOf
  <2> QED BY <2>5, <2>6, RegionLists, Zenon
<1> QED BY <1>1, <1>2, Zenon

\* wmap, wunmap, wremap, page faults and children's exits implement the sorted
\* list of regions, for every table size, address space and set of calls.
THEOREM WmapImplementsRegions == Spec => RegionsSpec
<1> DEFINE RInv == Inv /\ Regional(tbl)
<1>1. Init => RInv /\ Regions!Init
  <2> SUFFICES ASSUME Init PROVE RInv /\ Regions!Init
    OBVIOUS
  <2>1. tbl.total_mmaps = 0 /\ Used(tbl) = {}
    BY DEF Init, EmptyTable, Used
  <2>2. regionList = <<>>
    BY <2>1 DEF regionList
  <2> QED BY <2>1, <2>2, InitInv, Zenon DEF Regional, Regions!Init
<1>2. RInv /\ [Next]_vars => RInv' /\ [Regions!Next]_regionList
  <2> SUFFICES ASSUME RInv, [Next]_vars PROVE RInv' /\ [Regions!Next]_regionList
    OBVIOUS
  <2>1. Inv'
    BY NextInv, Zenon
  <2>2. /\ Regional(tbl')
        /\ Regions!Map \/ Regions!Unmap \/ Regions!Remap \/ UNCHANGED regionList
    <3>1. CASE \E a \in FixedAddrs, n \in Lengths, fl \in FlagSets : sys_wmap(a, n, fl)
      BY <3>1, WmapRefines, Zenon
    <3>2. CASE \E a \in Starts : sys_wunmap(a)
      BY <3>2, WunmapRefines, Zenon
    <3>3. CASE \E a \in Starts, n \in NewSizes, mv \in BOOLEAN : sys_wremap(a, n, mv)
      BY <3>3, WremapRefines, Zenon
    <3>4. CASE ChildExit \/ \E va \in Touches, mem \in MemOutcomes : PageFault(va, mem)
      BY <3>4, OthersRefine, Zenon
    <3>5. CASE UNCHANGED vars
      BY <3>5, Zenon DEF vars, regionList
    <3> QED BY <3>1, <3>2, <3>3, <3>4, <3>5, Zenon DEF Next
  <2>3. Regions!SortedByStart(regionList')
    <3>1. tbl' \in Table /\ Sorted(tbl')
      BY <2>1, Zenon DEF Inv, TypeOK, SortedStarts, Sorted, Used
    <3>2. ASSUME NEW i \in 1 .. tbl'.total_mmaps, NEW j \in 1 .. tbl'.total_mmaps, i <= j
          PROVE  ListOf(tbl')[i].start <= ListOf(tbl')[j].start
      <4>1. i - 1 \in Used(tbl') /\ j - 1 \in Used(tbl') /\ i - 1 <= j - 1
        BY <3>1, <3>2, TableFields DEF Used
      <4>2. tbl'.arr[i - 1].start <= tbl'.arr[j - 1].start
        BY <3>1, <4>1, Zenon DEF Sorted
      <4>3. /\ ListOf(tbl')[i] = RegionOf(tbl'.arr[i - 1])
            /\ ListOf(tbl')[j] = RegionOf(tbl'.arr[j - 1])
        BY <3>1, ListType, Zenon
      <4> QED BY <4>2, <4>3 DEF RegionOf
    <3>3. DOMAIN ListOf(tbl') = 1 .. tbl'.total_mmaps
      BY <3>1, ListType, Zenon
    <3> QED BY <3>2, <3>3, RegionLists, Zenon DEF Regions!SortedByStart
  <2>4. Regional(tbl)'
    BY <2>2, Zenon DEF Regional, Used
  <2> QED BY <2>1, <2>2, <2>3, <2>4, Zenon DEF Regions!Next
<1> QED BY <1>1, <1>2, PTL DEF Spec, RegionsSpec, Regions!Spec
=============================================================================
