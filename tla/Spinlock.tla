------------------------------ MODULE Spinlock ------------------------------
(***************************************************************************)
(* Spin locks (spinlock.c) and the interrupt flag of each processor.       *)
(*                                                                         *)
(* Every operator is a part of an action of a module that extends this     *)
(* one.  acquire has two steps: it turns interrupts off and says which     *)
(* lock it wants; then it spins until the xchg finds the lock free.        *)
(***************************************************************************)
EXTENDS Integers, FiniteSets

CONSTANTS
  Cpus, Locks,
  None           \* no processor, no lock

VARIABLES
  lk,            \* the processor that holds a lock (locked and lk->cpu), or None
  want,          \* the lock a processor spins for, or None
  IF_,           \* the interrupt flag FL_IF
  ncli, intena,  \* depth of pushcli, and IF_ before the first one
  panicked

spin == <<lk, want, IF_, ncli, intena, panicked>>

SpinInit ==
  /\ lk = [l \in Locks |-> None]
  /\ want = [c \in Cpus |-> None]
  /\ IF_ = [c \in Cpus |-> FALSE]
  /\ ncli = [c \in Cpus |-> 0]
  /\ intena = [c \in Cpus |-> FALSE]
  /\ panicked = FALSE

SpinTypeOK ==
  /\ lk \in [Locks -> Cpus \cup {None}]
  /\ want \in [Cpus -> Locks \cup {None}]
  /\ IF_ \in [Cpus -> BOOLEAN]
  /\ ncli \in [Cpus -> Int]
  /\ intena \in [Cpus -> BOOLEAN]
  /\ panicked \in BOOLEAN

holding(c, l) == lk[l] = c

pushcli(c) ==
  /\ intena' = [intena EXCEPT ![c] = IF ncli[c] = 0 THEN IF_[c] ELSE @]
  /\ ncli' = [ncli EXCEPT ![c] = @ + 1]
  /\ IF_' = [IF_ EXCEPT ![c] = FALSE]

popcli(c) ==
  /\ ncli' = [ncli EXCEPT ![c] = @ - 1]
  /\ IF_' = [IF_ EXCEPT ![c] = @ \/ (ncli[c] = 1 /\ intena[c])]
  /\ UNCHANGED intena

\* acquire up to the loop: "disable interrupts to avoid deadlock".
acquire(c, l) ==
  /\ want[c] = None
  /\ pushcli(c)
  /\ want' = [want EXCEPT ![c] = l]
  /\ panicked' = holding(c, l)
  /\ UNCHANGED lk

\* Faulty variant: does not look at what the xchg returned.
xchgBlind(c) ==
  \E l \in Locks :
    /\ want[c] = l
    /\ lk' = [lk EXCEPT ![l] = c]
    /\ want' = [want EXCEPT ![c] = None]
    /\ UNCHANGED <<IF_, ncli, intena, panicked>>

\* The xchg that finds the lock free ends the loop.
xchg(c) ==
  \E l \in Locks :
    /\ want[c] = l
    /\ lk[l] = None
    /\ lk' = [lk EXCEPT ![l] = c]
    /\ want' = [want EXCEPT ![c] = None]
    /\ UNCHANGED <<IF_, ncli, intena, panicked>>

release(c, l) ==
  /\ want[c] = None
  /\ lk' = [lk EXCEPT ![l] = None]
  /\ popcli(c)
  /\ panicked' = (~ holding(c, l) \/ IF_[c] \/ ncli[c] < 1)
  /\ UNCHANGED want

\* A set of processors each of which spins for a lock another of them holds.
CircularWait ==
  \E S \in (SUBSET Cpus) \ {{}} :
    \A c \in S : want[c] # None /\ lk[want[c]] \in S
=============================================================================
