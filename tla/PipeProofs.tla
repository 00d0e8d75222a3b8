----------------------------- MODULE PipeProofs -----------------------------
(***************************************************************************)
(* A pipe keeps the byte stream and its sleepers in order, for any number  *)
(* of readers and writers, any size of the buffer, and counters that wrap  *)
(* around at any multiple of it.                                           *)
(***************************************************************************)
EXTENDS Pipe, ModuloFacts

-----------------------------------------------------------------------------
(* The ring *)

\* nread and nwrite move like unbounded counters.
LEMMA BumpAdd ==
  ASSUME NEW a \in Int, NEW i \in Int, NEW j \in Int
  PROVE  /\ Bump(a, i) \in 0 .. WORD - 1
         /\ Bump(Bump(a, i), j) = Bump(a, i + j)
<1>1. WORD \in Nat \ {0}
  BY PipeAssumption, Zenon
<1>2. PICK x \in Int, y \in Int : x = a + i /\ y = a + (i + j) /\ x + j = y
  OBVIOUS
<1>3. ((x % WORD) + j) % WORD = (x + j) % WORD
  BY <1>1, <1>2, ModAdd, Zenon
<1>4. x % WORD \in 0 .. WORD - 1
  BY <1>1, <1>2, ModDef, Zenon
<1>5. Bump(a, i) = x % WORD /\ Bump(a, i + j) = y % WORD
  BY <1>2, Zenon DEF Bump
<1>6. Bump(x % WORD, j) = ((x % WORD) + j) % WORD
  BY Zenon DEF Bump
<1> QED BY <1>2, <1>3, <1>4, <1>5, <1>6, Zenon

\* The slot i + j bytes on is the slot j bytes after the counter has moved by i.
LEMMA SlotAdd ==
  ASSUME NEW a \in Int, NEW i \in Int, NEW j \in Int
  PROVE  /\ Slot(Bump(a, i), j) = Slot(a, i + j)
         /\ Slot(a, i) \in 0 .. PIPESIZE - 1
<1>1. Slot(Bump(a, i), j) = Slot(a, i + j)
  BY BumpAdd, Zenon DEF Slot
<1>2. Bump(a, i) \in Int /\ PIPESIZE \in Nat \ {0}
  BY BumpAdd, PipeAssumption
<1>3. Bump(a, i) % PIPESIZE \in 0 .. PIPESIZE - 1
  BY <1>2, ModDef, Zenon
<1> QED BY <1>1, <1>3, Zenon DEF Slot

\* Fewer than PIPESIZE bytes apart, bytes have different slots, although the
\* counter wraps around: PIPESIZE divides 2^32.
LEMMA SlotDiffer ==
  ASSUME NEW a \in Int, NEW i \in Int, NEW j \in Int, i < j, j < i + PIPESIZE
  PROVE  Slot(a, i) # Slot(a, j)
<1>1. PIPESIZE \in Nat \ {0} /\ WORD \in Nat \ {0} /\ WORD % PIPESIZE = 0
  BY PipeAssumption, Zenon
<1>2. PICK x \in Int, y \in Int : x = a + i /\ y = a + j /\ x < y /\ y < x + PIPESIZE
  BY <1>1
<1>3. x % PIPESIZE # y % PIPESIZE
  BY <1>1, <1>2, ModWindow, Zenon
<1>4. Slot(a, i) = (x % WORD) % PIPESIZE /\ Slot(a, j) = (y % WORD) % PIPESIZE
  BY <1>2, Zenon DEF Slot, Bump
<1>5. (x % WORD) % PIPESIZE = x % PIPESIZE /\ (y % WORD) % PIPESIZE = y % PIPESIZE
  BY <1>1, <1>2, ModWrap, Zenon
<1> QED BY <1>3, <1>4, <1>5, Zenon

\* The difference of the counters is the number of bytes between them.
LEMMA BumpCount ==
  ASSUME NEW a \in Int, NEW n \in 0 .. WORD - 1
  PROVE  (Bump(a, n) - a) % WORD = n
<1>1. WORD \in Nat \ {0}
  BY PipeAssumption, Zenon
<1>2. PICK x \in Int, b \in Int : x = a + n /\ b = -a /\ x + b = n
  OBVIOUS
<1>3. ((x % WORD) + b) % WORD = n % WORD
  <2>1. ((x % WORD) + b) % WORD = (x + b) % WORD
    BY <1>1, ModAdd, Zenon
  <2> QED BY <1>2, <2>1, Zenon
<1>4. n % WORD = n
  BY <1>1, ModSmall, Zenon
<1>5. PICK y \in Int : y = x % WORD
  BY <1>1, <1>2, ModDef
<1>6. y - a = y + b
  BY <1>2, Zenon
<1>7. Bump(a, n) = y
  BY <1>2, <1>5, Zenon DEF Bump
<1> QED BY <1>3, <1>4, <1>5, <1>6, <1>7, Zenon

\* nwrite is Count bytes ahead of nread.
LEMMA CountBump ==
  ASSUME TypeOK
  PROVE  Count \in 0 .. WORD - 1 /\ nwrite = Bump(nread, Count)
<1>1. WORD \in Nat \ {0} /\ nread \in Int /\ nwrite \in 0 .. WORD - 1
  BY PipeAssumption DEF TypeOK
<1>2. PICK x \in Int : x = nwrite - nread /\ nread + x = nwrite /\ x + nread = nwrite
  BY <1>1
<1>3. Count = x % WORD
  BY <1>2, Zenon DEF Count
<1>4. PICK c \in 0 .. WORD - 1 : c = x % WORD
  BY <1>1, <1>2, ModDef, Zenon
<1>5. (c + nread) % WORD = (x + nread) % WORD
  BY <1>1, <1>2, <1>4, ModAdd, Zenon
<1>6. nwrite % WORD = nwrite
  BY <1>1, ModSmall, Zenon
<1>7. c + nread = nread + c
  BY <1>1
<1>8. Bump(nread, c) = (nread + c) % WORD
  BY Zenon DEF Bump
<1>9. Bump(nread, c) = nwrite
  BY <1>2, <1>5, <1>6, <1>7, <1>8, Zenon
<1> QED BY <1>3, <1>4, <1>9, Zenon

\* Stream positions: a remainder, moved by b.
LEMMA StreamAdd ==
  ASSUME NEW a \in Int, NEW b \in Int
  PROVE  ((a % STREAM) + b) % STREAM = (a + b) % STREAM /\ a % STREAM \in 0 .. STREAM - 1
<1>1. STREAM \in Nat \ {0}
  BY PipeAssumption
<1>2. a % STREAM \in 0 .. STREAM - 1
  BY <1>1, ModDef, Zenon
<1> QED BY <1>1, <1>2, ModAdd, Zenon

\* pipewrite's copy: k bytes that fit go in behind the others.
LEMMA Put ==
  ASSUME TypeOK, InOrder, NEW k \in Nat, k <= Room, PutBytes(k)
  PROVE  /\ data' \in [0 .. PIPESIZE - 1 -> 0 .. STREAM - 1]
         /\ nwrite' \in 0 .. WORD - 1 /\ sent' \in 0 .. STREAM - 1
         /\ UNCHANGED <<nread, received>>
         /\ InOrder' /\ Count' = Count + k
<1>1. /\ PIPESIZE \in Nat /\ WORD \in Nat /\ STREAM \in Nat /\ PIPESIZE < WORD
      /\ nread \in Int /\ sent \in Int /\ received \in Int
  BY PipeAssumption DEF TypeOK
<1>2. PICK c \in Nat : c = Count /\ c <= PIPESIZE /\ nwrite = Bump(nread, c)
  BY <1>1, CountBump DEF InOrder
<1>3. c + k <= PIPESIZE /\ c + k \in 0 .. WORD - 1
  BY <1>1, <1>2 DEF Room
<1>4. /\ nwrite' = Bump(nread, c + k) /\ nwrite' \in 0 .. WORD - 1
      /\ sent' = (sent + k) % STREAM /\ UNCHANGED <<nread, received>>
  <2>1. nwrite' = Bump(nwrite, k) /\ sent' = (sent + k) % STREAM /\ UNCHANGED <<nread, received>>
    BY Zenon DEF PutBytes
  <2>2. c \in Int /\ k \in Int /\ c + k \in Int
    OBVIOUS
  <2>3. Bump(nread, c + k) \in 0 .. WORD - 1 /\ Bump(Bump(nread, c), k) = Bump(nread, c + k)
    BY <1>1, <2>2, BumpAdd, Zenon
  <2> QED BY <1>2, <2>1, <2>3, Zenon
<1>5. Count' = c + k
  <2>1. (Bump(nread, c + k) - nread) % WORD = c + k
    BY <1>1, <1>3, BumpCount, Zenon
  <2>2. Count' = (nwrite' - nread') % WORD
    BY Zenon DEF Count
  <2> QED BY <1>4, <2>1, <2>2, Zenon
<1>6. PICK x \in Int : x = sent - c /\ received = x % STREAM
  <2>1. received = (sent - c) % STREAM /\ sent - c \in Int
    BY <1>1, <1>2 DEF InOrder
  <2> QED BY <2>1, Zenon
<1>7. sent' \in 0 .. STREAM - 1 /\ received = (sent' - (c + k)) % STREAM
  <2>1. PICK y \in Int, b \in Int : y = sent + k /\ b = -(c + k) /\ y + b = x
    BY <1>1, <1>6
  <2>2. ((y % STREAM) + b) % STREAM = (y + b) % STREAM /\ y % STREAM \in 0 .. STREAM - 1
    BY StreamAdd, Zenon
  <2>3. PICK s \in 0 .. STREAM - 1 : s = y % STREAM
    BY <2>2, Zenon
  <2>4. s + b = s - (c + k)
    BY <1>1, <2>1, Zenon
  <2>5. sent' = s
    BY <1>4, <2>1, <2>3, Zenon
  <2>6. (s + b) % STREAM = x % STREAM
    BY <2>1, <2>2, <2>3, Zenon
  <2> QED BY <1>6, <2>4, <2>5, <2>6, Zenon
<1>8. \A i \in Int : Slot(nwrite, i) = Slot(nread, c + i) /\ Slot(nwrite, i) \in 0 .. PIPESIZE - 1
  <2>1. c \in Int /\ nwrite \in Int
    BY DEF TypeOK
  <2>2. ASSUME NEW i \in Int
        PROVE  Slot(nwrite, i) = Slot(nread, c + i) /\ Slot(nwrite, i) \in 0 .. PIPESIZE - 1
    <3>1. Slot(Bump(nread, c), i) = Slot(nread, c + i)
      BY <1>1, <2>1, SlotAdd
    <3>2. Slot(nwrite, i) \in 0 .. PIPESIZE - 1
      BY <2>1, SlotAdd, Zenon
    <3> QED BY <1>2, <3>1, <3>2, Zenon
  <2> QED BY <2>2, Zenon
<1>9. \A i \in 0 .. k - 1 : i \in Int /\ sent + i \in Int /\ (sent + i) % STREAM \in 0 .. STREAM - 1
  <2>1. \A i \in 0 .. k - 1 : i \in Int /\ sent + i \in Int
    BY <1>1
  <2>2. \A a \in Int : a % STREAM \in 0 .. STREAM - 1
    BY StreamAdd, Zenon
  <2> QED BY <2>1, <2>2, Zenon
<1>10. \A s \in 0 .. PIPESIZE - 1 :
         \/ /\ \A i \in 0 .. k - 1 : s # Slot(nwrite, i)
            /\ data'[s] = data[s]
         \/ \E i \in 0 .. k - 1 : s = Slot(nwrite, i) /\ data'[s] = (sent + i) % STREAM
  BY Zenon DEF PutBytes
<1>11. data' \in [0 .. PIPESIZE - 1 -> 0 .. STREAM - 1]
  <2>1. \A s \in 0 .. PIPESIZE - 1 : data[s] \in 0 .. STREAM - 1
    BY Zenon DEF TypeOK
  <2>2. \A s \in 0 .. PIPESIZE - 1 : data'[s] \in 0 .. STREAM - 1
    BY <1>9, <1>10, <2>1, Zenon
  <2>3. data' = [s \in 0 .. PIPESIZE - 1 |-> data'[s]]
    BY Zenon DEF PutBytes
  <2> QED BY <2>2, <2>3, Zenon
<1>12. ASSUME NEW i \in 0 .. c + k - 1
       PROVE  data'[Slot(nread, i)] = (received + i) % STREAM
  <2>1. i \in Int
    OBVIOUS
  <2>2. PICK s \in 0 .. PIPESIZE - 1 : s = Slot(nread, i)
    BY <1>1, <2>1, SlotAdd, Zenon
  <2>3. \A j \in 0 .. k - 1 : s = Slot(nwrite, j) => i = c + j
    <3>1. SUFFICES ASSUME NEW j \in 0 .. k - 1, i # c + j
                   PROVE  Slot(nread, i) # Slot(nread, c + j)
      BY <1>8, <1>9, <2>2, Zenon
    <3>2. c + j \in Int /\ c + j < i + PIPESIZE /\ i < c + j + PIPESIZE
      BY <1>1, <1>3
    <3>3. CASE i < c + j
      BY <1>1, <2>1, <3>2, <3>3, SlotDiffer, Zenon
    <3>4. CASE c + j < i
      BY <1>1, <2>1, <3>2, <3>4, SlotDiffer, Zenon
    <3> QED BY <2>1, <3>1, <3>2, <3>3, <3>4
  <2>4. CASE i < c
    <3>1. i \in 0 .. Count - 1 /\ \A j \in 0 .. k - 1 : i # c + j
      BY <1>2, <2>4
    <3>2. data'[s] = data[s]
      BY <1>10, <2>3, <3>1, Zenon
    <3>3. data[Slot(nread, i)] = (received + i) % STREAM
      BY <3>1, Zenon DEF InOrder
    <3> QED BY <2>2, <3>2, <3>3, Zenon
  <2>5. CASE i >= c
    <3>1. PICK j \in 0 .. k - 1 : i = c + j /\ j = i - c
      BY <2>5
    <3>2. s = Slot(nwrite, j)
      BY <1>8, <1>9, <2>2, <3>1, Zenon
    <3>3. PICK h \in 0 .. k - 1 : s = Slot(nwrite, h) /\ data'[s] = (sent + h) % STREAM
      BY <1>10, <3>2, Zenon
    <3>4. i = c + h
      BY <2>3, <3>3, Zenon
    <3>5. h = j
      BY <3>1, <3>4
    <3>6. x + i = sent + j
      BY <1>1, <1>6, <3>1
    <3>7. ((x % STREAM) + i) % STREAM = (x + i) % STREAM
      BY <2>1, StreamAdd, Zenon
    <3> QED BY <1>6, <2>2, <3>3, <3>5, <3>6, <3>7, Zenon
  <2> QED BY <2>1, <2>4, <2>5
<1>13. InOrder'
  <2>1. Count' <= PIPESIZE
    BY <1>3, <1>5, Zenon
  <2>2. received' = (sent' - Count') % STREAM
    BY <1>4, <1>5, <1>7, Zenon
  <2>3. \A i \in 0 .. Count' - 1 : data'[Slot(nread', i)] = (received' + i) % STREAM
    <3>1. SUFFICES ASSUME NEW i \in 0 .. Count' - 1
                   PROVE  data'[Slot(nread', i)] = (received' + i) % STREAM
      OBVIOUS
    <3>2. i \in 0 .. c + k - 1
      BY <1>5
    <3>3. data'[Slot(nread, i)] = (received + i) % STREAM
      BY <1>12, <3>2, Zenon
    <3> QED BY <1>4, <3>3, Zenon
  <2>4. \A i \in 0 .. Count' - 1 : Slot(nread, i)' = Slot(nread', i)
    BY Zenon DEF Slot, Bump
  <2> QED BY <2>1, <2>2, <2>3, <2>4, Zenon DEF InOrder
<1> QED BY <1>2, <1>4, <1>5, <1>7, <1>11, <1>13, Zenon
\* piperead's copy: the k oldest bytes come out, in order.
LEMMA Get ==
  ASSUME TypeOK, InOrder, NEW k \in Nat, k <= Count, GetBytes(k)
  PROVE  /\ nread' \in 0 .. WORD - 1 /\ received' \in 0 .. STREAM - 1
         /\ UNCHANGED <<data, nwrite, sent>>
         /\ InOrder' /\ Count' = Count - k
<1>1. /\ PIPESIZE \in Nat /\ WORD \in Nat /\ STREAM \in Nat /\ PIPESIZE < WORD
      /\ nread \in Int /\ sent \in Int /\ received \in Int
      /\ received \in 0 .. STREAM - 1
  BY PipeAssumption DEF TypeOK
<1>2. PICK c \in Nat : c = Count /\ c <= PIPESIZE /\ nwrite = Bump(nread, c)
  BY <1>1, CountBump DEF InOrder
<1>3. PICK d \in 0 .. WORD - 1 : d = c - k /\ k + d = c /\ d \in 0 .. PIPESIZE /\ d \in Int
  BY <1>1, <1>2
<1>4. k \in Int
  OBVIOUS
<1>5. /\ nread' = Bump(nread, k) /\ nread' \in 0 .. WORD - 1 /\ nread' \in Int
      /\ nwrite = Bump(nread', d)
      /\ UNCHANGED <<data, nwrite, sent>>
  <2>1. nread' = Bump(nread, k) /\ UNCHANGED <<data, nwrite, sent>>
    BY Zenon DEF GetBytes
  <2>2. Bump(nread, k) \in 0 .. WORD - 1 /\ Bump(Bump(nread, k), d) = Bump(nread, k + d)
    BY <1>1, <1>3, <1>4, BumpAdd, ZenonT(30)
  <2>3. nread' \in Int
    BY <2>1, <2>2
  <2> QED BY <1>2, <1>3, <2>1, <2>2, <2>3, Zenon
<1>6. Count' = d
  <2>1. (Bump(nread', d) - nread') % WORD = d
    BY <1>5, BumpCount, Zenon
  <2>2. Count' = (nwrite' - nread') % WORD
    BY Zenon DEF Count
  <2> QED BY <1>5, <2>1, <2>2, Zenon
<1>7. PICK x \in Int : x = sent - c /\ received = x % STREAM
  <2>1. received = (sent - c) % STREAM /\ sent - c \in Int
    BY <1>1, <1>2 DEF InOrder
  <2> QED BY <2>1, Zenon
<1>8. received' = (x + k) % STREAM
  <2>1. CASE k = 0
    <3>1. received' = received
      BY <2>1, Zenon DEF GetBytes
    <3>2. x + k = x
      BY <2>1
    <3> QED BY <1>7, <3>1, <3>2, Zenon
  <2>2. CASE k # 0
    <3>1. PICK i \in 0 .. Count - 1 : i = k - 1
      BY <1>2, <2>2
    <3>2. data[Slot(nread, i)] = (received + i) % STREAM
      BY <3>1, Zenon DEF InOrder
    <3>3. received' = (data[Slot(nread, k - 1)] + 1) % STREAM
      BY <2>2, Zenon DEF GetBytes
    <3>4. PICK y \in Int, o \in Int : y = x + i /\ o = 1 /\ y + o = x + k /\ i \in Int
      BY <3>1
    <3>5. ((x % STREAM) + i) % STREAM = (x + i) % STREAM
      BY <3>4, StreamAdd, Zenon
    <3>6. ((y % STREAM) + o) % STREAM = (y + o) % STREAM
      BY StreamAdd, Zenon
    <3>7. received' = (((received + i) % STREAM) + o) % STREAM
      BY <3>1, <3>2, <3>3, <3>4, Zenon
    <3> QED BY <1>7, <3>4, <3>5, <3>6, <3>7, Zenon
  <2> QED BY <2>1, <2>2, Zenon
<1>9. x + k \in Int /\ x + k = sent - d
  BY <1>1, <1>3, <1>7
<1>10. received' \in 0 .. STREAM - 1
  BY <1>8, <1>9, StreamAdd, Zenon
<1>11. ASSUME NEW i \in 0 .. d - 1
       PROVE  data'[Slot(nread', i)] = (received' + i) % STREAM
  <2>1. PICK j \in 0 .. Count - 1 : j = k + i /\ i \in Int
    BY <1>2, <1>3
  <2>2. Slot(Bump(nread, k), i) = Slot(nread, k + i)
    BY <1>1, <1>4, <2>1, SlotAdd
  <2>3. data[Slot(nread, j)] = (received + j) % STREAM
    BY <2>1, Zenon DEF InOrder
  <2>4. PICK y \in Int : y = x + k /\ y + i = x + j /\ j \in Int
    BY <2>1
  <2>5. ((x % STREAM) + j) % STREAM = (x + j) % STREAM
    BY <2>4, StreamAdd, Zenon
  <2>6. ((y % STREAM) + i) % STREAM = (y + i) % STREAM
    BY <2>1, StreamAdd, Zenon
  <2>7. data'[Slot(nread', i)] = (received + j) % STREAM
    BY <1>5, <2>1, <2>2, <2>3, Zenon
  <2> QED BY <1>7, <1>8, <2>4, <2>5, <2>6, <2>7, Zenon
<1>12. InOrder'
  <2>1. Count' <= PIPESIZE
    BY <1>1, <1>3, <1>6
  <2>2. received' = (sent' - Count') % STREAM
    BY <1>5, <1>6, <1>8, <1>9, Zenon
  <2>3. \A i \in 0 .. Count' - 1 : data'[Slot(nread', i)] = (received' + i) % STREAM
    <3>1. SUFFICES ASSUME NEW i \in 0 .. Count' - 1
                   PROVE  data'[Slot(nread', i)] = (received' + i) % STREAM
      OBVIOUS
    <3>2. i \in 0 .. d - 1
      BY <1>6, Zenon
    <3> QED BY <1>11, <3>2, Zenon
  <2>4. \A i \in 0 .. Count' - 1 : Slot(nread, i)' = Slot(nread', i)
    BY Zenon DEF Slot, Bump
  <2> QED BY <2>1, <2>2, <2>3, <2>4, Zenon DEF InOrder
<1>13. Count' = Count - k
  BY <1>2, <1>3, <1>6, Zenon
<1> QED BY <1>5, <1>10, <1>12, <1>13, Zenon

-----------------------------------------------------------------------------
(* The inductive invariant *)

Writing == {"pipewrite", "to_sleep_full", "full"}
Reading == {"piperead", "to_sleep_empty", "empty"}

\* Who is inside a call holds its end, and an end that is held is open.
Roles ==
  /\ \A p \in Procs : pc[p] \in Writing => p \in Writers /\ p \in ends
  /\ \A p \in Procs : pc[p] \in Reading => p \in Readers /\ p \in ends
  /\ \A p \in ends : p \in Readers => readopen
  /\ \A p \in ends : p \in Writers => writeopen

\* While nobody is killed, who sleeps, or is about to, has reason to.
Sleepers ==
  killed = {} =>
    /\ \A p \in Procs : pc[p] \in {"empty", "to_sleep_empty"} => Count = 0 /\ writeopen
    /\ \A p \in Procs : pc[p] \in {"full", "to_sleep_full"} => Count = PIPESIZE /\ readopen

Inv == TypeOK /\ InOrder /\ Roles /\ Sleepers

\* A step that leaves the buffer alone leaves the stream alone.
LEMMA BufferStays ==
  ASSUME InOrder, UNCHANGED buffer
  PROVE  InOrder' /\ Count' = Count
<1>1. UNCHANGED <<data, nread, nwrite, sent, received>>
  BY Zenon DEF buffer
<1>2. Count' = Count
  BY <1>1, Zenon DEF Count
<1>3. \A i \in 0 .. Count - 1 : Slot(nread, i)' = Slot(nread, i)
  BY <1>1, Zenon DEF Slot, Bump
<1> QED BY <1>1, <1>2, <1>3, Zenon DEF InOrder

\* pipealloc leaves an empty pipe with both ends open and nobody inside.
LEMMA InitInv == Init => Inv
<1> SUFFICES ASSUME Init PROVE Inv
  OBVIOUS
<1>1. PIPESIZE \in Nat \ {0} /\ WORD \in Nat \ {0} /\ STREAM \in Nat \ {0} /\ MaxBytes \in Nat
  BY PipeAssumption
<1>2. TypeOK
  <2>1. 0 \in 0 .. STREAM - 1 /\ 0 \in 0 .. WORD - 1 /\ 0 \in 0 .. MaxBytes
    BY <1>1
  <2> QED BY <2>1, Zenon DEF Init, TypeOK
<1>3. 0 % WORD = 0 /\ 0 % STREAM = 0
  <2>1. 0 \in 0 .. STREAM - 1 /\ 0 \in 0 .. WORD - 1
    BY <1>1
  <2> QED BY <1>1, <2>1, ModSmall, Zenon
<1>4. Count = 0
  <2>1. Count = (0 - 0) % WORD
    BY Zenon DEF Init, Count
  <2>2. 0 - 0 = 0
    OBVIOUS
  <2> QED BY <1>3, <2>1, <2>2, Zenon
<1>5. InOrder
  <2>1. sent - Count = 0 /\ received = 0
    BY <1>4 DEF Init
  <2>2. received = (sent - Count) % STREAM
    BY <1>3, <2>1, Zenon
  <2>3. \A i \in 0 .. Count - 1 : FALSE
    BY <1>4
  <2>4. Count <= PIPESIZE
    BY <1>1, <1>4
  <2> QED BY <2>2, <2>3, <2>4, Zenon DEF InOrder
<1>6. Roles /\ Sleepers
  BY Zenon DEF Init, Roles, Sleepers, Writing, Reading
<1> QED BY <1>2, <1>5, <1>6, Zenon DEF Inv

\* A call begins.
LEMMA EnterInv ==
  ASSUME Inv, NEW p \in Procs, NEW n \in 0 .. MaxBytes,
         \/ p \in Writers /\ Enter(p, "pipewrite", n)
         \/ p \in Readers /\ Enter(p, "piperead", n)
  PROVE  Inv'
<1>1. PICK l \in {"pipewrite", "piperead"} :
        /\ pc' = [pc EXCEPT ![p] = l] /\ p \in ends
        /\ l = "pipewrite" => p \in Writers
        /\ l = "piperead" => p \in Readers
  BY Zenon DEF Enter
<1>2. left' = [left EXCEPT ![p] = n] /\ UNCHANGED <<buffer, flags>>
  BY Zenon DEF Enter
<1>3. TypeOK'
  BY <1>1, <1>2, Zenon DEF Inv, TypeOK, buffer, flags
<1>4. InOrder' /\ Count' = Count
  BY <1>2, BufferStays, Zenon DEF Inv
<1>5. \A q \in Procs : pc'[q] = IF q = p THEN l ELSE pc[q]
  BY <1>1, Zenon DEF Inv, TypeOK
<1>6. Roles'
  BY <1>1, <1>2, <1>5, Zenon DEF Inv, Roles, Writing, Reading, flags
<1>7. Sleepers'
  BY <1>2, <1>4, <1>5, Zenon DEF Inv, Sleepers, flags
<1> QED BY <1>3, <1>4, <1>6, <1>7, Zenon DEF Inv

\* What pipewrite does in a segment: it fills the buffer unless it is done,
\* and wakes the readers unless nobody reads or it was killed.
LEMMA WriteInv ==
  ASSUME Inv, NEW p \in Writers, pipewrite(p)
  PROVE  Inv'
<1>0. /\ p \in Procs /\ PIPESIZE \in Nat /\ MaxBytes \in Nat
      /\ left[p] \in 0 .. MaxBytes /\ Count \in Nat /\ Count <= PIPESIZE
      /\ Readers \cap Writers = {}
  <2>1. p \in Procs /\ PIPESIZE \in Nat /\ MaxBytes \in Nat /\ WORD \in Nat
        /\ Readers \cap Writers = {}
    BY PipeAssumption, Zenon DEF Procs
  <2>2. Count \in 0 .. WORD - 1
    BY CountBump, Zenon DEF Inv
  <2> QED BY <2>1, <2>2 DEF Inv, TypeOK, InOrder
<1>1. PICK k \in Nat, rest \in 0 .. MaxBytes :
        /\ k = Min2(left[p], Room) /\ rest = left[p] - k
        /\ k <= Room /\ (rest > 0 => k = Room)
  BY <1>0 DEF Min2, Room
<1>2. /\ PutBytes(k) /\ LockFree /\ pc[p] = "pipewrite" /\ UNCHANGED flags
      /\ \/ /\ rest = 0
            /\ pc' = WakeReaders([pc EXCEPT ![p] = "user"])
            /\ left' = [left EXCEPT ![p] = 0]
         \/ /\ rest > 0
            /\ ~ readopen \/ p \in killed
            /\ pc' = [pc EXCEPT ![p] = "user"]
            /\ left' = [left EXCEPT ![p] = 0]
         \/ /\ rest > 0
            /\ readopen /\ p \notin killed
            /\ pc' = WakeReaders([pc EXCEPT ![p] = "to_sleep_full"])
            /\ left' = [left EXCEPT ![p] = rest]
  BY <1>1, Zenon DEF pipewrite
<1>3. /\ data' \in [0 .. PIPESIZE - 1 -> 0 .. STREAM - 1]
      /\ nwrite' \in 0 .. WORD - 1 /\ sent' \in 0 .. STREAM - 1
      /\ UNCHANGED <<nread, received>>
      /\ InOrder' /\ Count' = Count + k
  BY <1>1, <1>2, Put, Zenon DEF Inv
<1>4. PICK l \in {"user", "to_sleep_full"} :
        /\ \A q \in Procs : \/ pc'[q] = IF q = p THEN l ELSE pc[q]
                            \/ q # p /\ pc[q] = "empty" /\ pc'[q] = "piperead"
        /\ pc' \in [Procs -> {"user", "pipewrite", "piperead", "to_sleep_full",
                              "to_sleep_empty", "full", "empty"}]
        /\ l = "to_sleep_full" => rest > 0 /\ readopen
        /\ (\E q \in Procs : pc'[q] = "empty") => ~ readopen \/ p \in killed
  <2>1. pc \in [Procs -> {"user", "pipewrite", "piperead", "to_sleep_full",
                          "to_sleep_empty", "full", "empty"}]
    BY Zenon DEF Inv, TypeOK
  <2>2. CASE /\ rest = 0 /\ pc' = WakeReaders([pc EXCEPT ![p] = "user"])
    BY <1>0, <2>1, <2>2, Zenon DEF WakeReaders
  <2>3. CASE /\ rest > 0 /\ (~ readopen \/ p \in killed) /\ pc' = [pc EXCEPT ![p] = "user"]
    BY <1>0, <2>1, <2>3, Zenon
  <2>4. CASE /\ rest > 0 /\ readopen /\ pc' = WakeReaders([pc EXCEPT ![p] = "to_sleep_full"])
    BY <1>0, <2>1, <2>4, Zenon DEF WakeReaders
  <2> QED BY <1>2, <2>2, <2>3, <2>4, Zenon
<1>5. TypeOK'
  <2>1. left' \in [Procs -> 0 .. MaxBytes]
    <3>1. PICK m \in 0 .. MaxBytes : left' = [left EXCEPT ![p] = m]
      <4>1. 0 \in 0 .. MaxBytes
        BY <1>0
      <4> QED BY <1>2, <4>1, Zenon
    <3>2. left \in [Procs -> 0 .. MaxBytes]
      BY Zenon DEF Inv, TypeOK
    <3> QED BY <3>1, <3>2, Zenon
  <2>2. received' \in 0 .. STREAM - 1 /\ nread' \in 0 .. WORD - 1
    BY <1>3, Zenon DEF Inv, TypeOK
  <2>3. /\ readopen' \in BOOLEAN /\ writeopen' \in BOOLEAN
        /\ ends' \subseteq Procs /\ killed' \subseteq Procs
    BY <1>2, Zenon DEF Inv, TypeOK, flags
  <2> QED BY <1>3, <1>4, <2>1, <2>2, <2>3, Zenon DEF TypeOK
<1>6. Roles'
  BY <1>0, <1>2, <1>4, Zenon DEF Inv, Roles, Writing, Reading, flags
<1>7. Sleepers'
  <2>1. SUFFICES ASSUME killed = {}
                 PROVE  /\ \A q \in Procs : pc'[q] \in {"empty", "to_sleep_empty"} =>
                                            Count' = 0 /\ writeopen
                        /\ \A q \in Procs : pc'[q] \in {"full", "to_sleep_full"} =>
                                            Count' = PIPESIZE /\ readopen
    BY <1>2, Zenon DEF Sleepers, flags
  <2>2. ASSUME NEW q \in Procs, pc'[q] \in {"empty", "to_sleep_empty"} PROVE FALSE
    <3>1. pc'[q] = pc[q] /\ q # p
      BY <1>4, <2>2, Zenon
    <3>2. pc'[q] = "empty"
      BY <1>2, <2>2, <3>1, Zenon DEF LockFree
    <3>3. ~ readopen
      BY <1>4, <2>1, <3>2, Zenon
    <3> QED BY <3>1, <3>2, <3>3, Zenon DEF Inv, Roles, Reading
  <2>3. ASSUME NEW q \in Procs, pc'[q] \in {"full", "to_sleep_full"}
        PROVE  Count' = PIPESIZE /\ readopen
    <3>1. CASE q = p
      <4>1. rest > 0 /\ readopen
        BY <1>4, <2>3, <3>1, Zenon
      <4> QED BY <1>0, <1>1, <1>3, <4>1 DEF Room
    <3>2. CASE q # p
      <4>1. pc[q] = pc'[q]
        BY <1>4, <2>3, <3>2, Zenon
      <4>2. Count = PIPESIZE /\ readopen
        BY <2>1, <2>3, <4>1, Zenon DEF Inv, Sleepers
      <4> QED BY <1>0, <1>1, <1>3, <4>2 DEF Room
    <3> QED BY <3>1, <3>2, Zenon
  <2> QED BY <2>2, <2>3, Zenon
<1> QED BY <1>3, <1>5, <1>6, <1>7, Zenon DEF Inv
\* What piperead does in a segment: it sleeps on an empty pipe that can still
\* be written, and otherwise takes what is there and wakes the writers.
LEMMA ReadInv ==
  ASSUME Inv, NEW p \in Readers, piperead(p)
  PROVE  Inv'
<1>0. /\ p \in Procs /\ PIPESIZE \in Nat /\ MaxBytes \in Nat
      /\ left[p] \in 0 .. MaxBytes /\ Count \in Nat /\ Count <= PIPESIZE
      /\ Readers \cap Writers = {} /\ 0 \in 0 .. MaxBytes
  <2>1. p \in Procs /\ PIPESIZE \in Nat /\ MaxBytes \in Nat /\ WORD \in Nat
        /\ Readers \cap Writers = {} /\ 0 \in 0 .. MaxBytes
    BY PipeAssumption DEF Procs
  <2>2. Count \in 0 .. WORD - 1
    BY CountBump, Zenon DEF Inv
  <2> QED BY <2>1, <2>2 DEF Inv, TypeOK, InOrder
<1>1. pc[p] = "piperead" /\ LockFree /\ UNCHANGED flags
  BY Zenon DEF piperead
<1>2. /\ pc \in [Procs -> {"user", "pipewrite", "piperead", "to_sleep_full",
                           "to_sleep_empty", "full", "empty"}]
      /\ left \in [Procs -> 0 .. MaxBytes]
  BY Zenon DEF Inv, TypeOK
<1>3. /\ readopen' \in BOOLEAN /\ writeopen' \in BOOLEAN
      /\ ends' \subseteq Procs /\ killed' \subseteq Procs
  BY <1>1, Zenon DEF Inv, TypeOK, flags
<1>4. CASE /\ Count # 0 \/ ~ writeopen
           /\ GetBytes(Min2(left[p], Count))
           /\ pc' = WakeWriters([pc EXCEPT ![p] = "user"])
           /\ left' = [left EXCEPT ![p] = 0]
  <2>1. PICK k \in Nat : k = Min2(left[p], Count) /\ k <= Count
    BY <1>0 DEF Min2
  <2>2. /\ nread' \in 0 .. WORD - 1 /\ received' \in 0 .. STREAM - 1
        /\ UNCHANGED <<data, nwrite, sent>>
        /\ InOrder' /\ Count' = Count - k
    BY <1>4, <2>1, Get, Zenon DEF Inv
  <2>3. /\ \A q \in Procs : \/ pc'[q] = IF q = p THEN "user" ELSE pc[q]
                            \/ q # p /\ pc[q] = "full" /\ pc'[q] = "pipewrite"
        /\ \A q \in Procs : pc'[q] # "full"
        /\ pc' \in [Procs -> {"user", "pipewrite", "piperead", "to_sleep_full",
                              "to_sleep_empty", "full", "empty"}]
    BY <1>0, <1>2, <1>4, Zenon DEF WakeWriters
  <2>4. left' \in [Procs -> 0 .. MaxBytes]
    BY <1>0, <1>2, <1>4, Zenon
  <2>5. TypeOK'
    <3>1. /\ data' \in [0 .. PIPESIZE - 1 -> 0 .. STREAM - 1]
          /\ nwrite' \in 0 .. WORD - 1 /\ sent' \in 0 .. STREAM - 1
      BY <2>2, Zenon DEF Inv, TypeOK
    <3> QED BY <1>3, <2>2, <2>3, <2>4, <3>1, Zenon DEF TypeOK
  <2>6. Roles'
    BY <1>0, <1>1, <2>3, Zenon DEF Inv, Roles, Writing, Reading, flags
  <2>7. Sleepers'
    <3>1. SUFFICES ASSUME killed = {}, NEW q \in Procs,
                          pc'[q] \in {"empty", "to_sleep_empty", "full", "to_sleep_full"}
                   PROVE  FALSE
      BY <1>1, Zenon DEF Sleepers, flags
    <3>2. pc'[q] = pc[q] /\ q # p /\ pc'[q] = "empty"
      BY <1>1, <2>3, <3>1, Zenon DEF LockFree
    <3>3. Count = 0 /\ writeopen
      BY <3>1, <3>2, Zenon DEF Inv, Sleepers
    <3> QED BY <1>4, <3>3, Zenon
  <2> QED BY <2>2, <2>5, <2>6, <2>7, Zenon DEF Inv
<1>5. CASE /\ Count = 0 /\ writeopen /\ UNCHANGED buffer
           /\ \/ pc' = [pc EXCEPT ![p] = "to_sleep_empty"] /\ UNCHANGED left
              \/ pc' = [pc EXCEPT ![p] = "user"] /\ left' = [left EXCEPT ![p] = 0]
  <2>1. InOrder' /\ Count' = Count
    BY <1>5, BufferStays, Zenon DEF Inv
  <2>2. PICK l \in {"user", "to_sleep_empty"} : pc' = [pc EXCEPT ![p] = l]
    BY <1>5, Zenon
  <2>3. \A q \in Procs : pc'[q] = IF q = p THEN l ELSE pc[q]
    BY <1>2, <2>2, Zenon
  <2>4. left' \in [Procs -> 0 .. MaxBytes]
    BY <1>0, <1>2, <1>5, Zenon
  <2>5. TypeOK'
    BY <1>2, <1>3, <1>5, <2>2, <2>4, Zenon DEF Inv, TypeOK, buffer
  <2>6. Roles'
    BY <1>0, <1>1, <2>3, Zenon DEF Inv, Roles, Writing, Reading, flags
  <2>7. Sleepers'
    BY <1>1, <1>5, <2>1, <2>3, Zenon DEF Inv, Sleepers, flags
  <2> QED BY <2>1, <2>5, <2>6, <2>7, Zenon DEF Inv
<1> QED BY <1>4, <1>5, <1>1, Zenon DEF piperead

\* sleep only moves a process that has already decided.
LEMMA SleepInv ==
  ASSUME Inv, NEW p \in Procs, sleep(p)
  PROVE  Inv'
<1>1. UNCHANGED <<buffer, flags, left>>
  BY Zenon DEF sleep
<1>2. PICK l \in {"full", "empty"} :
        /\ pc' = [pc EXCEPT ![p] = l]
        /\ pc[p] = IF l = "full" THEN "to_sleep_full" ELSE "to_sleep_empty"
  BY Zenon DEF sleep, Inv, TypeOK
<1>3. \A q \in Procs : pc'[q] = IF q = p THEN l ELSE pc[q]
  BY <1>2, Zenon DEF Inv, TypeOK
<1>4. InOrder' /\ Count' = Count
  BY <1>1, BufferStays, Zenon DEF Inv
<1>5. TypeOK'
  BY <1>1, <1>2, Zenon DEF Inv, TypeOK, buffer, flags
<1>6. Roles'
  BY <1>1, <1>2, <1>3, Zenon DEF Inv, Roles, Writing, Reading, flags
<1>7. Sleepers'
  BY <1>1, <1>2, <1>3, <1>4, Zenon DEF Inv, Sleepers, flags
<1> QED BY <1>4, <1>5, <1>6, <1>7, Zenon DEF Inv

\* Closing an end: another holder keeps it open, and the last one wakes the
\* processes that sleep at the other end.
LEMMA CloseInv ==
  ASSUME Inv, NEW p \in Procs, pipeclose(p)
  PROVE  Inv'
<1>1. /\ pc[p] = "user" /\ p \in ends /\ LockFree /\ ends' = ends \ {p}
      /\ UNCHANGED <<buffer, killed, left>>
  BY Zenon DEF pipeclose
<1>2. /\ writeopen' = (writeopen /\ ~ LastOf(p, Writers))
      /\ readopen' = (readopen /\ ~ LastOf(p, Readers))
      /\ pc' = WakeOnClose(p)
  BY Zenon DEF pipeclose
<1>3. InOrder' /\ Count' = Count
  BY <1>1, BufferStays, Zenon DEF Inv
<1>4. Readers \cap Writers = {} /\ Readers \subseteq Procs /\ Writers \subseteq Procs
  BY PipeAssumption, Zenon DEF Procs
<1>5. /\ \A q \in Procs : \/ pc'[q] = pc[q]
                          \/ pc[q] = "empty" /\ pc'[q] = "piperead"
                          \/ pc[q] = "full" /\ pc'[q] = "pipewrite"
      /\ pc' \in [Procs -> {"user", "pipewrite", "piperead", "to_sleep_full",
                            "to_sleep_empty", "full", "empty"}]
      /\ LastOf(p, Writers) => \A q \in Procs : pc'[q] # "empty"
      /\ LastOf(p, Readers) => \A q \in Procs : pc'[q] # "full"
  BY <1>2, <1>4, Zenon DEF WakeOnClose, WakeReaders, WakeWriters, LastOf, Inv, TypeOK
<1>6. TypeOK'
  <2>1. readopen' \in BOOLEAN /\ writeopen' \in BOOLEAN
    BY <1>2, Zenon
  <2> QED BY <1>1, <1>5, <2>1, Zenon DEF Inv, TypeOK, buffer
<1>7. Roles'
  <2>1. \A q \in Procs : pc'[q] \in Writing => q \in Writers /\ q \in ends'
    BY <1>1, <1>5, Zenon DEF Inv, Roles, Writing
  <2>2. \A q \in Procs : pc'[q] \in Reading => q \in Readers /\ q \in ends'
    BY <1>1, <1>5, Zenon DEF Inv, Roles, Reading
  <2>3. ASSUME NEW q \in ends', q \in Readers PROVE readopen'
    <3>1. q \in ends /\ q # p
      BY <1>1, <2>3, Zenon
    <3>2. ~ LastOf(p, Readers)
      BY <2>3, <3>1, Zenon DEF LastOf
    <3>3. readopen
      BY <2>3, <3>1, Zenon DEF Inv, Roles
    <3> QED BY <1>2, <3>2, <3>3, Zenon
  <2>4. ASSUME NEW q \in ends', q \in Writers PROVE writeopen'
    <3>1. q \in ends /\ q # p
      BY <1>1, <2>4, Zenon
    <3>2. ~ LastOf(p, Writers)
      BY <2>4, <3>1, Zenon DEF LastOf
    <3>3. writeopen
      BY <2>4, <3>1, Zenon DEF Inv, Roles
    <3> QED BY <1>2, <3>2, <3>3, Zenon
  <2> QED BY <2>1, <2>2, <2>3, <2>4, Zenon DEF Roles
<1>8. Sleepers'
  <2>1. SUFFICES ASSUME killed = {}
                 PROVE  /\ \A q \in Procs : pc'[q] \in {"empty", "to_sleep_empty"} =>
                                            Count = 0 /\ writeopen'
                        /\ \A q \in Procs : pc'[q] \in {"full", "to_sleep_full"} =>
                                            Count = PIPESIZE /\ readopen'
    BY <1>1, <1>3, Zenon DEF Sleepers
  <2>2. ASSUME NEW q \in Procs, pc'[q] \in {"empty", "to_sleep_empty"}
        PROVE  Count = 0 /\ writeopen'
    <3>1. pc'[q] = "empty" /\ pc[q] = "empty"
      BY <1>1, <1>5, <2>2, Zenon DEF LockFree
    <3>2. Count = 0 /\ writeopen
      BY <2>1, <3>1, Zenon DEF Inv, Sleepers
    <3>3. ~ LastOf(p, Writers)
      BY <1>5, <3>1, Zenon
    <3> QED BY <1>2, <3>2, <3>3, Zenon
  <2>3. ASSUME NEW q \in Procs, pc'[q] \in {"full", "to_sleep_full"}
        PROVE  Count = PIPESIZE /\ readopen'
    <3>1. pc'[q] = "full" /\ pc[q] = "full"
      BY <1>1, <1>5, <2>3, Zenon DEF LockFree
    <3>2. Count = PIPESIZE /\ readopen
      BY <2>1, <3>1, Zenon DEF Inv, Sleepers
    <3>3. ~ LastOf(p, Readers)
      BY <1>5, <3>1, Zenon
    <3> QED BY <1>2, <3>2, <3>3, Zenon
  <2> QED BY <2>2, <2>3, Zenon
<1> QED BY <1>3, <1>6, <1>7, <1>8, Zenon DEF Inv
\* kill() makes a sleeper runnable at any moment, also between its decision
\* to sleep and its sleep; the ring and the ends are not touched.
LEMMA KillInv ==
  ASSUME Inv, NEW p \in Procs, kill(p)
  PROVE  Inv'
<1>1. /\ p \in ends \ killed /\ killed' = killed \cup {p}
      /\ UNCHANGED <<buffer, readopen, writeopen, ends, left>>
  BY Zenon DEF kill
<1>2. /\ \A q \in Procs : \/ pc'[q] = pc[q]
                          \/ pc[q] = "empty" /\ pc'[q] = "piperead"
                          \/ pc[q] = "full" /\ pc'[q] = "pipewrite"
      /\ pc' \in [Procs -> {"user", "pipewrite", "piperead", "to_sleep_full",
                            "to_sleep_empty", "full", "empty"}]
  BY Zenon DEF kill, Inv, TypeOK
<1>3. InOrder'
  BY <1>1, BufferStays, Zenon DEF Inv
<1>4. TypeOK'
  BY <1>1, <1>2, Zenon DEF Inv, TypeOK, buffer
<1>5. Roles'
  BY <1>1, <1>2, Zenon DEF Inv, Roles, Writing, Reading
<1>6. Sleepers'
  BY <1>1, Zenon DEF Sleepers
<1> QED BY <1>3, <1>4, <1>5, <1>6, Zenon DEF Inv

\* Every step of every reader and writer preserves the invariant.
LEMMA StepInv == Inv /\ [Next]_vars => Inv'
<1> SUFFICES ASSUME Inv, [Next]_vars PROVE Inv'
  OBVIOUS
<1>1. CASE \/ \E p \in Writers, n \in 0 .. MaxBytes : Enter(p, "pipewrite", n)
           \/ \E p \in Readers, n \in 0 .. MaxBytes : Enter(p, "piperead", n)
  BY <1>1, EnterInv, Zenon DEF Procs
<1>2. CASE \E p \in Writers : pipewrite(p)
  BY <1>2, WriteInv, Zenon
<1>3. CASE \E p \in Readers : piperead(p)
  BY <1>3, ReadInv, Zenon
<1>4. CASE \E p \in Procs : sleep(p) \/ pipeclose(p) \/ kill(p)
  BY <1>4, SleepInv, CloseInv, KillInv, Zenon
<1>5. CASE UNCHANGED vars
  <2>1. UNCHANGED buffer /\ UNCHANGED flags /\ UNCHANGED <<pc, left>>
    BY <1>5, Zenon DEF vars
  <2>2. InOrder' /\ Count' = Count
    BY <2>1, BufferStays, Zenon DEF Inv
  <2>3. TypeOK'
    BY <2>1, Zenon DEF Inv, TypeOK, buffer, flags
  <2>4. Roles' /\ Sleepers'
    BY <2>1, <2>2, Zenon DEF Inv, Roles, Sleepers, flags
  <2> QED BY <2>2, <2>3, <2>4, Zenon DEF Inv
<1> QED BY <1>1, <1>2, <1>3, <1>4, <1>5, Zenon DEF Next

\* The invariant holds in every reachable state of a pipe.
LEMMA Invariance == Spec => []Inv
BY InitInv, StepInv, PTL DEF Spec

-----------------------------------------------------------------------------
(* Theorems *)

\* pipewrite and piperead never lose, repeat, reorder or overwrite a byte,
\* for any buffer size that divides the counters' range, any number of
\* readers and writers, and also after nread and nwrite have wrapped around.
THEOREM AlwaysStreamIntact == Spec => []StreamIntact
<1>1. Inv => StreamIntact
  BY Zenon DEF Inv, StreamIntact
<1> QED BY <1>1, Invariance, PTL

\* While nobody is killed, the wakeups of pipewrite, piperead and pipeclose
\* suffice: a reader sleeps only on an empty pipe that can still be written,
\* a writer only on a full one that can still be read.
THEOREM AlwaysNoLostWakeup == Spec => []NoLostWakeup
<1>1. Inv => NoLostWakeup
  BY Zenon DEF Inv, Sleepers, NoLostWakeup
<1> QED BY <1>1, Invariance, PTL

\* When both ends are closed and pipeclose frees the page, no process is
\* inside a call on the pipe.
THEOREM AlwaysFreedUnused == Spec => []FreedUnused
<1>1. Inv => FreedUnused
  <2> SUFFICES ASSUME Inv, ~ readopen, ~ writeopen, NEW p \in Procs
               PROVE  pc[p] = "user"
    BY Zenon DEF FreedUnused
  <2>1. pc[p] \notin Writing /\ pc[p] \notin Reading
    BY Zenon DEF Inv, Roles
  <2> QED BY <2>1, Zenon DEF Inv, TypeOK, Writing, Reading
<1> QED BY <1>1, Invariance, PTL
=============================================================================
