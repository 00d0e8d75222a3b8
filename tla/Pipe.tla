-------------------------------- MODULE Pipe --------------------------------
(***************************************************************************)
(* A pipe (pipe.c) shared by several readers and writers that sleep,       *)
(* are woken, are killed, and close their end.                             *)
(*                                                                         *)
(* p->lock is held from one sleep to the next, so a call is a sequence of  *)
(* segments: each runs from taking the lock to the call's return, or to    *)
(* the point where it has decided to sleep.  Going to sleep is a step of   *)
(* its own, because kill() does not take p->lock and may come in between.  *)
(* A byte is the position in the stream at which it was written.           *)
(***************************************************************************)
EXTENDS Integers, FiniteSets

CONSTANTS
  Readers, Writers,   \* processes that hold an end of the pipe
  PIPESIZE,           \* bytes in the buffer
  WORD,               \* number of values of the counters (2^32)
  STREAM,             \* positions are counted modulo STREAM
  MaxBytes,           \* bound: bytes in one call
  MaxKills            \* bound: processes killed

ASSUME PipeAssumption ==
  /\ Readers \cap Writers = {}
  /\ PIPESIZE \in Nat \ {0} /\ WORD \in Nat \ {0}
  /\ WORD % PIPESIZE = 0 /\ WORD > PIPESIZE
  /\ STREAM \in Nat /\ STREAM > PIPESIZE
  /\ MaxBytes \in Nat /\ MaxKills \in Nat

Procs == Readers \cup Writers

VARIABLES
  data, nread, nwrite,     \* the ring buffer
  readopen, writeopen,
  pc,                      \* where each process is
  left,                    \* bytes its call still has to move
  ends,                    \* processes that hold their end open
  killed,
  sent, received           \* stream positions of the next byte in and out

buffer == <<data, nread, nwrite, sent, received>>
flags == <<readopen, writeopen, ends, killed>>
vars == <<buffer, flags, pc, left>>

Init ==
  /\ data = [i \in 0 .. PIPESIZE - 1 |-> 0]
  /\ nread = 0 /\ nwrite = 0
  /\ readopen = TRUE /\ writeopen = TRUE
  /\ pc = [p \in Procs |-> "user"]
  /\ left = [p \in Procs |-> 0]
  /\ ends = Procs
  /\ killed = {}
  /\ sent = 0 /\ received = 0

-----------------------------------------------------------------------------
(* The ring buffer *)

Count == (nwrite - nread) % WORD

\* Faulty variant: takes a full buffer for one with room.
RoomOver == PIPESIZE - Count + 1

\* pipewrite-full: nwrite = nread + PIPESIZE
Room == PIPESIZE - Count

Bump(c, k) == (c + k) % WORD

\* Slot of the i-th byte after counter value c.
Slot(c, i) == Bump(c, i) % PIPESIZE

\* k bytes go in at nwrite.
PutBytes(k) ==
  /\ data' = [s \in 0 .. PIPESIZE - 1 |->
                IF \E i \in 0 .. k - 1 : s = Slot(nwrite, i)
                THEN (sent + (CHOOSE i \in 0 .. k - 1 : s = Slot(nwrite, i))) % STREAM
                ELSE data[s]]
  /\ nwrite' = Bump(nwrite, k)
  /\ sent' = (sent + k) % STREAM
  /\ UNCHANGED <<nread, received>>

\* k bytes come out at nread; received follows the last one.
GetBytes(k) ==
  /\ nread' = Bump(nread, k)
  /\ received' = IF k = 0 THEN received ELSE (data[Slot(nread, k - 1)] + 1) % STREAM
  /\ UNCHANGED <<data, nwrite, sent>>

-----------------------------------------------------------------------------
(* Calls *)

\* The lock is free unless some process is about to sleep.
LockFree == \A p \in Procs : pc[p] \notin {"to_sleep_full", "to_sleep_empty"}

\* Faulty variant: wakes nobody.
WakeNobody(pcs) == pcs

\* wakeup(&p->nread) and wakeup(&p->nwrite).
WakeReaders(pcs) == [p \in Procs |-> IF pcs[p] = "empty" THEN "piperead" ELSE pcs[p]]

WakeWriters(pcs) == [p \in Procs |-> IF pcs[p] = "full" THEN "pipewrite" ELSE pcs[p]]

\* trap() lets a killed process start no further system call.
Enter(p, call, n) ==
  /\ pc[p] = "user"
  /\ p \in ends
  /\ p \notin killed
  /\ pc' = [pc EXCEPT ![p] = call]
  /\ left' = [left EXCEPT ![p] = n]
  /\ UNCHANGED <<buffer, flags>>

Min2(a, b) == IF a <= b THEN a ELSE b

\* Copy what fits.  With the buffer full and bytes left, give up when nobody
\* can read or the caller was killed; otherwise wake the readers and sleep.
pipewrite(p) ==
  LET k == Min2(left[p], Room)
      rest == left[p] - k
  IN
  /\ pc[p] = "pipewrite"
  /\ LockFree
  /\ PutBytes(k)
  /\ \/ /\ rest = 0
        /\ pc' = WakeReaders([pc EXCEPT ![p] = "user"])
        /\ left' = [left EXCEPT ![p] = 0]
     \/ /\ rest > 0
        /\ ~ readopen \/ p \in killed
        /\ pc' = [pc EXCEPT ![p] = "user"]
        /\ left' = [left EXCEPT ![p] = 0]
     \/ /\ rest > 0
        /\ readopen /\ p \notin killed
        /\ pc' = WakeReaders([pc EXCEPT ![p] = "to_sleep_full"])
        /\ left' = [left EXCEPT ![p] = rest]
  /\ UNCHANGED flags

\* With the pipe empty and a writer left, return when killed or go to sleep;
\* otherwise take what is there and wake the writers.
piperead(p) ==
  /\ pc[p] = "piperead"
  /\ LockFree
  /\ \/ /\ Count = 0 /\ writeopen
        /\ p \notin killed
        /\ pc' = [pc EXCEPT ![p] = "to_sleep_empty"]
        /\ UNCHANGED <<buffer, left>>
     \/ /\ Count = 0 /\ writeopen
        /\ p \in killed
        /\ pc' = [pc EXCEPT ![p] = "user"]
        /\ left' = [left EXCEPT ![p] = 0]
        /\ UNCHANGED buffer
     \/ /\ Count # 0 \/ ~ writeopen
        /\ GetBytes(Min2(left[p], Count))
        /\ pc' = WakeWriters([pc EXCEPT ![p] = "user"])
        /\ left' = [left EXCEPT ![p] = 0]
  /\ UNCHANGED flags

\* sleep(): ptable.lock is taken before p->lock is given up.
sleep(p) ==
  /\ pc[p] \in {"to_sleep_full", "to_sleep_empty"}
  /\ pc' = [pc EXCEPT ![p] = IF @ = "to_sleep_full" THEN "full" ELSE "empty"]
  /\ UNCHANGED <<buffer, flags, left>>

\* Faulty variant: closes the end with references left.
LastOfAny(p, S) == p \in S

\* f->ref reaches zero.
LastOf(p, S) == p \in S /\ ends \cap S = {p}

\* Faulty variant: a killed writer closes without a wakeup.
WakeOnCloseAliveWriter(p) ==
  IF LastOf(p, Writers) /\ p \notin killed THEN WakeReaders(pc)
  ELSE IF LastOf(p, Readers) THEN WakeWriters(pc) ELSE pc

\* Closing an end wakes those who sleep at the other one.
WakeOnClose(p) ==
  IF LastOf(p, Writers) THEN WakeReaders(pc)
  ELSE IF LastOf(p, Readers) THEN WakeWriters(pc) ELSE pc

\* fileclose of this process's reference; the last one closes the end.  A
\* killed process gets here through exit().
pipeclose(p) ==
  /\ pc[p] = "user"
  /\ p \in ends
  /\ LockFree
  /\ ends' = ends \ {p}
  /\ writeopen' = (writeopen /\ ~ LastOf(p, Writers))
  /\ readopen' = (readopen /\ ~ LastOf(p, Readers))
  /\ pc' = WakeOnClose(p)
  /\ UNCHANGED <<buffer, killed, left>>

\* kill() makes a sleeping process runnable.
kill(p) ==
  /\ p \in ends \ killed
  /\ Cardinality(killed) < MaxKills
  /\ killed' = killed \cup {p}
  /\ pc' = [pc EXCEPT ![p] = IF @ = "full" THEN "pipewrite"
                             ELSE IF @ = "empty" THEN "piperead" ELSE @]
  /\ UNCHANGED <<buffer, readopen, writeopen, ends, left>>

Next ==
  \/ \E p \in Writers, n \in 0 .. MaxBytes : Enter(p, "pipewrite", n)
  \/ \E p \in Readers, n \in 0 .. MaxBytes : Enter(p, "piperead", n)
  \/ \E p \in Writers : pipewrite(p)
  \/ \E p \in Readers : piperead(p)
  \/ \E p \in Procs : sleep(p) \/ pipeclose(p) \/ kill(p)

Spec == Init /\ [][Next]_vars

\* A runnable process inside a call runs on.  Readers and writers may compete
\* for the lock, which any of them can lose to the others a number of times.
Fairness ==
  /\ \A p \in Writers : SF_vars(pipewrite(p))
  /\ \A p \in Readers : SF_vars(piperead(p))
  /\ \A p \in Procs : WF_vars(sleep(p))

FairSpec == Spec /\ Fairness
-----------------------------------------------------------------------------
(* Properties *)

TypeOK ==
  /\ data \in [0 .. PIPESIZE - 1 -> 0 .. STREAM - 1]
  /\ nread \in 0 .. WORD - 1 /\ nwrite \in 0 .. WORD - 1
  /\ readopen \in BOOLEAN /\ writeopen \in BOOLEAN
  /\ pc \in [Procs -> {"user", "pipewrite", "piperead", "to_sleep_full",
                      "to_sleep_empty", "full", "empty"}]
  /\ left \in [Procs -> 0 .. MaxBytes]
  /\ ends \subseteq Procs /\ killed \subseteq Procs
  /\ sent \in 0 .. STREAM - 1 /\ received \in 0 .. STREAM - 1

\* The buffer holds the bytes written and not yet read, in order, also after
\* the counters have wrapped around: nothing is lost, repeated or overwritten
\* by several readers and writers.
InOrder ==
  /\ Count <= PIPESIZE
  /\ received = (sent - Count) % STREAM
  /\ \A i \in 0 .. Count - 1 : data[Slot(nread, i)] = (received + i) % STREAM

\* The ring, its counters and its flags are well-formed and hold the stream.
StreamIntact == TypeOK /\ InOrder

\* While nobody is killed, no wakeup is missing: a reader sleeps only on an
\* empty pipe that can still be written, a writer only on a full one that can
\* still be read.
NoLostWakeup ==
  killed = {} => \A p \in Procs :
    /\ pc[p] = "empty" => Count = 0 /\ writeopen
    /\ pc[p] = "full" => Count = PIPESIZE /\ readopen

\* pipeclose frees the pipe when both ends are closed; no call is then inside.
FreedUnused ==
  ~ readopen /\ ~ writeopen => \A p \in Procs : pc[p] = "user"

\* Once the last writer has closed, every read returns, also one that was
\* asleep: pipeclose wakes the readers, and piperead tests writeopen.
ReadEnds == \A p \in Readers : ~ writeopen /\ pc[p] # "user" ~> pc[p] = "user"

\* Once the last reader has closed, every write returns, also one that was
\* asleep on a full pipe.
WriteEnds == \A p \in Writers : ~ readopen /\ pc[p] # "user" ~> pc[p] = "user"

\* Closing one end lets every call at the other end return.
CallsEnd == ReadEnds /\ WriteEnds
=============================================================================
