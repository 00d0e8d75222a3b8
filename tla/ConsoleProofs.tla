---------------------------- MODULE ConsoleProofs ---------------------------
(***************************************************************************)
(* Locks, interrupt flags and the input ring of the console are right for  *)
(* any number of processors and processes and any size of the ring.        *)
(***************************************************************************)
EXTENDS Console, ModuloFacts

-----------------------------------------------------------------------------
(* The inductive invariant *)

Labels == {"idle", "scan", "user", "trapret", "yield", "yielded", "read", "sleep",
           "sleeping", "slept", "reacquire", "write", "kill", "exit", "exiting",
           "exit print", "zombie"}

\* The locks a thread has at a label, or spins for.
HeldAt(l) ==
  IF l \in {"read", "write"} THEN {"cons"}
  ELSE IF l \in {"sleep", "exit print"} THEN {"cons", "ptable"}
  ELSE IF l \in {"scan", "yield", "yielded", "sleeping", "slept", "kill",
                 "exiting", "zombie"} THEN {"ptable"}
  ELSE {}

\* The lock acquired last on the way to a label, which it may spin for.
SpunAt(l) ==
  IF l \in {"read", "write", "exit print"} THEN {"cons"}
  ELSE IF l \in {"scan", "yield", "sleep", "kill", "exiting"} THEN {"ptable"}
  ELSE {}

\* The same for the handler.
HandlerHeld(l) ==
  IF l \in {"getc", "dumping"} THEN {"cons"}
  ELSE IF l = "wakeup" THEN {"cons", "ptable"} ELSE {}

HandlerSpun(l) ==
  IF l \in {"getc", "dumping"} THEN {"cons"}
  ELSE IF l = "wakeup" THEN {"ptable"} ELSE {}

\* The same for whatever is on processor c.
Places(c) == HeldAt(at[cur[c]]) \cup (IF c = IntrCpu THEN HandlerHeld(intr) ELSE {})
Spun(c) == SpunAt(at[cur[c]]) \cup (IF c = IntrCpu THEN HandlerSpun(intr) ELSE {})

Held ==
  /\ \A c \in Cpus, l \in Locks : lk[l] = c <=> l \in Places(c) /\ want[c] # l
  /\ \A c \in Cpus : want[c] # None => want[c] \in Spun(c)
  /\ \A c \in Cpus : ncli[c] = Cardinality(Places(c))
  /\ \A c \in Cpus : Places(c) # {} => ~ IF_[c]

\* Which thread is where: a processor runs its scheduler or a process, which
\* nobody else runs, and a process that does not run is inside sched().
Threading ==
  /\ cur \in [Cpus -> Threads] /\ at \in [Threads -> Labels]
  /\ state \in [Procs -> {"RUNNING", "RUNNABLE", "SLEEPING", "ZOMBIE"}]
  /\ killed \subseteq {Reader}
  /\ \A c \in Cpus : cur[c] = c \/ cur[c] \in Procs
  /\ \A c, d \in Cpus : cur[c] = cur[d] => c = d
  /\ \A c \in Cpus : at[c] \in {"idle", "scan"}
  /\ \A c \in Cpus : cur[c] \in Procs => state[cur[c]] = "RUNNING" /\ at[c] = "scan"
  /\ \A p \in Procs : state[p] = "RUNNING" => \E c \in Cpus : cur[c] = p
  /\ \A p \in Procs : state[p] = "RUNNABLE" => at[p] \in {"yielded", "slept"}
  /\ \A p \in Procs : state[p] = "SLEEPING" => at[p] = "slept"
  /\ \A p \in Procs : state[p] = "ZOMBIE" => at[p] = "zombie"

\* The handler interrupts only code that holds no lock and is not after one.
Handler ==
  /\ intr \in {"none", "consoleintr", "getc", "wakeup", "procdump", "dumping", "iret"}
  /\ intr # "none" => HeldAt(at[cur[IntrCpu]]) = {}

Busy(c) == c = IntrCpu /\ intr # "none"

\* The interrupt flag, and what pushcli remembers of it.
FlagsKept ==
  /\ saved \in [Procs -> BOOLEAN]
  /\ \A c \in Cpus : ~ Busy(c) /\ at[cur[c]] \in {"user", "reacquire"} => IF_[c]
  /\ \A c \in Cpus : cur[c] = Reader /\ at[Reader] \in {"read", "sleep", "sleeping", "slept"}
                     => intena[c]
  /\ at[Reader] = "slept" => saved[Reader]
  /\ intr # "none" => ~ IF_[IntrCpu]
  /\ intr # "none" /\ ncli[IntrCpu] > 0 => ~ intena[IntrCpu]

\* The reader goes to sleep on an empty ring, unless a line was finished and
\* the handler is about to wake it.
Sleeps ==
  /\ at[Reader] = "sleep" => r = w
  /\ at[Reader] = "sleeping" => r = w \/ intr = "wakeup"
  /\ NoLostWakeup

\* The ring from r on: the lines not read yet, then the line being typed.
Ring ==
  /\ buf \in [0 .. INPUT_BUF - 1 -> Chars] /\ r \in 0 .. WORD - 1
  /\ pending \in Seq(Chars) /\ editing \in Seq(Chars)
  /\ Len(pending) + Len(editing) <= INPUT_BUF
  /\ w = (r + Len(pending)) % WORD
  /\ e = (r + Len(pending) + Len(editing)) % WORD
  /\ \A k \in 1 .. Len(pending) : pending[k] = buf[(r + (k - 1)) % INPUT_BUF]
  /\ \A k \in 1 .. Len(editing) :
       editing[k] = buf[(r + (Len(pending) + k - 1)) % INPUT_BUF]

Inv ==
  /\ SpinTypeOK /\ Held /\ ~ panicked /\ Threading /\ Handler /\ FlagsKept
  /\ Sleeps /\ Ring
-----------------------------------------------------------------------------
(* Counting locks *)

\* f counts the subsets of P the way Cardinality does, one element at a time.
Counts(P, f) == f = [T \in SUBSET P |-> IF T = {} THEN 0 ELSE 1 + f[T \ {CHOOSE x : x \in T}]]

\* There is such a function, so Cardinality is what it gives.
LEMMA CardinalityIs ==
  ASSUME NEW P, NEW n, \E f : Counts(P, f), \A f : Counts(P, f) => f[P] = n
  PROVE  Cardinality(P) = n
  BY Zenon DEF Counts, Cardinality

\* No element.
LEMMA CountNone == Cardinality({}) = 0
<1> DEFINE g == [T \in SUBSET {} |-> 0]
<1>1. Counts({}, g)
  BY Zenon DEF Counts
<1>2. \A f : Counts({}, f) => f[{}] = 0
  BY Zenon DEF Counts
<1> QED BY <1>1, <1>2, CardinalityIs, Zenon

\* One element.
LEMMA CountOne ==
  ASSUME NEW a
  PROVE  Cardinality({a}) = 1
<1> DEFINE g == [T \in SUBSET {a} |-> IF T = {} THEN 0 ELSE 1]
<1>1. \A T \in SUBSET {a} : T # {} => T \ {CHOOSE x : x \in T} = {}
  OBVIOUS
<1>2. Counts({a}, g)
  <2>1. \A T \in SUBSET {a} : T # {} => g[T \ {CHOOSE x : x \in T}] = 0
    BY <1>1, Zenon
  <2> QED BY <2>1 DEF Counts
<1>3. ASSUME NEW f, Counts({a}, f) PROVE f[{a}] = 1
  <2>1. f[{}] = 0
    BY <1>3, Zenon DEF Counts
  <2>2. f[{a}] = 1 + f[{a} \ {CHOOSE x : x \in {a}}]
    BY <1>3, Zenon DEF Counts
  <2> QED BY <1>1, <2>1, <2>2
<1> QED BY <1>2, <1>3, CardinalityIs, Zenon

\* Two elements.
LEMMA CountTwo ==
  ASSUME NEW a, NEW b, a # b
  PROVE  Cardinality({a, b}) = 2
<1> DEFINE P == {a, b}
           g == [T \in SUBSET P |-> IF T = {} THEN 0 ELSE IF T = P THEN 2 ELSE 1]
<1>1. \A T \in SUBSET P : T # {} /\ T # P => T \ {CHOOSE x : x \in T} = {}
  OBVIOUS
<1>2. /\ P \ {CHOOSE x : x \in P} \in SUBSET P
      /\ P \ {CHOOSE x : x \in P} # {} /\ P \ {CHOOSE x : x \in P} # P
  <2>1. PICK y \in P : y = CHOOSE x : x \in P
    OBVIOUS
  <2>2. P \ {y} \in SUBSET P /\ P \ {y} # {} /\ P \ {y} # P
    OBVIOUS
  <2> QED BY <2>1, <2>2, Zenon
<1>3. Counts(P, g)
  <2>1. \A T \in SUBSET P : T # {} /\ T # P => g[T \ {CHOOSE x : x \in T}] = 0
    BY <1>1, Zenon
  <2>2. g[P \ {CHOOSE x : x \in P}] = 1
    BY <1>2, Zenon
  <2> QED BY <2>1, <2>2 DEF Counts
<1>4. ASSUME NEW f, Counts(P, f) PROVE f[P] = 2
  <2>1. f[{}] = 0
    BY <1>4, Zenon DEF Counts
  <2>2. \A T \in SUBSET P : T # {} => f[T] = 1 + f[T \ {CHOOSE x : x \in T}]
    BY <1>4, Zenon DEF Counts
  <2>3. \A T \in SUBSET P : T # {} /\ T # P => f[T] = 1
    BY <1>1, <2>1, <2>2
  <2>4. f[P] = 1 + f[P \ {CHOOSE x : x \in P}]
    BY <2>2, Zenon
  <2> QED BY <1>2, <2>3, <2>4
<1> QED BY <1>3, <1>4, CardinalityIs, Zenon

\* The sets of locks.
LEMMA LockSets ==
  ASSUME NEW P \in SUBSET Locks
  PROVE  P = {} \/ P = {"cons"} \/ P = {"ptable"} \/ P = {"cons", "ptable"}
  BY ConsoleAssumption, Zenon

\* How many locks are in them.
LEMMA LockNumbers ==
  /\ Cardinality({}) = 0 /\ Cardinality({"cons"}) = 1 /\ Cardinality({"ptable"}) = 1
  /\ Cardinality({"cons", "ptable"}) = 2
<1>1. "cons" # "ptable"
  OBVIOUS
<1> QED BY <1>1, CountNone, CountOne, CountTwo, Zenon

\* A number, not zero if there is one.
LEMMA CountLocks ==
  ASSUME NEW P \in SUBSET Locks
  PROVE  Cardinality(P) \in Nat /\ (Cardinality(P) = 0 <=> P = {})
  BY LockSets, LockNumbers

\* One more for a lock that was not there.
LEMMA CountMore ==
  ASSUME NEW P \in SUBSET Locks, NEW l \in Locks, l \notin P
  PROVE  Cardinality(P \cup {l}) = Cardinality(P) + 1
<1>1. l = "cons" \/ l = "ptable"
  BY ConsoleAssumption, Zenon
<1>2. CASE P = {}
  <2>1. P \cup {l} = {l} /\ Cardinality({l}) = 1
    BY <1>2, CountOne, Zenon
  <2> QED BY <1>2, <2>1, CountNone
<1>3. CASE P # {}
  <2>1. P \cup {l} = {"cons", "ptable"} /\ (P = {"cons"} \/ P = {"ptable"})
    BY <1>1, <1>3, LockSets
  <2> QED BY <2>1, LockNumbers
<1> QED BY <1>2, <1>3, Zenon

\* One less for a lock that was there.
LEMMA CountLess ==
  ASSUME NEW P \in SUBSET Locks, NEW l \in Locks, l \in P
  PROVE  Cardinality(P \ {l}) = Cardinality(P) - 1
<1>1. (P \ {l}) \cup {l} = P /\ P \ {l} \in SUBSET Locks /\ l \notin P \ {l}
  OBVIOUS
<1>2. Cardinality((P \ {l}) \cup {l}) = Cardinality(P \ {l}) + 1
  BY <1>1, CountMore, Zenon
<1>3. Cardinality(P \ {l}) \in Nat
  BY <1>1, CountLocks, Zenon
<1>4. Cardinality(P) = Cardinality(P \ {l}) + 1
  BY <1>1, <1>2, Zenon
<1>5. PICK n \in Nat : n = Cardinality(P \ {l})
  BY <1>3, Zenon
<1>6. n = (n + 1) - 1
  BY <1>5
<1> QED BY <1>4, <1>5, <1>6, Zenon

-----------------------------------------------------------------------------
(* Steps of one lock *)

\* Places and the lock spun for are locks.
LEMMA PlacesType ==
  ASSUME NEW c
  PROVE  /\ Places(c) \subseteq Locks /\ Spun(c) \subseteq Places(c)
         /\ Cardinality(Places(c)) \in Nat
         /\ Cardinality(Places(c)) = 0 <=> Places(c) = {}
<1>1. \A l : HeldAt(l) \subseteq Locks /\ SpunAt(l) \subseteq HeldAt(l)
  BY ConsoleAssumption, Zenon DEF HeldAt, SpunAt
<1>2. \A l : HandlerHeld(l) \subseteq Locks /\ HandlerSpun(l) \subseteq HandlerHeld(l)
  BY ConsoleAssumption, Zenon DEF HandlerHeld, HandlerSpun
<1>3. Places(c) \subseteq Locks /\ Spun(c) \subseteq Places(c)
  BY <1>1, <1>2, Zenon DEF Places, Spun
<1> QED BY <1>3, CountLocks, Zenon

\* The depth of pushcli() tells whether the processor is to hold a lock.
LEMMA CliDepth ==
  ASSUME Held, NEW c \in Cpus
  PROVE  /\ ncli[c] = 0 <=> Places(c) = {}
         /\ ncli[c] > 0 <=> Places(c) # {}
         /\ ncli[c] = 0 <=> ~ (ncli[c] > 0)
<1>1. ncli[c] = Cardinality(Places(c)) /\ Places(c) \in SUBSET Locks
  BY PlacesType, Zenon DEF Held
<1>2. ncli[c] \in Nat /\ (ncli[c] = 0 <=> Places(c) = {})
  BY <1>1, CountLocks, Zenon
<1> QED BY <1>2

\* What acquire does before it spins, with what it remembers of the flag.
Spins(c, l, i) ==
  /\ want[c] = None /\ want' = [want EXCEPT ![c] = l]
  /\ ncli' = [ncli EXCEPT ![c] = @ + 1]
  /\ IF_' = [IF_ EXCEPT ![c] = FALSE]
  /\ intena' = [intena EXCEPT ![c] = i]
  /\ lk' = lk /\ panicked' = FALSE

\* Whoever enters a section from outside spins for its lock, with interrupts
\* off, once more nested.
LEMMA AcquireHeld ==
  ASSUME SpinTypeOK, Held, NEW c \in Cpus, NEW l \in Locks, NEW i \in BOOLEAN,
         Spins(c, l, i), l \notin Places(c), Places(c)' = Places(c) \cup {l}, l \in Spun(c)',
         \A d \in Cpus : d # c => Places(d)' = Places(d),
         \A d \in Cpus : d # c => Spun(d)' = Spun(d)
  PROVE  SpinTypeOK' /\ Held' /\ ~ panicked'
<1>0. None \notin Locks
  BY ConsoleAssumption, Zenon
<1>1. /\ want'[c] = l /\ \A d \in Cpus : d # c => want'[d] = want[d]
      /\ want' \in [Cpus -> Locks \cup {None}]
  BY Zenon DEF Spins, SpinTypeOK
<1>2. /\ ncli'[c] = ncli[c] + 1 /\ \A d \in Cpus : d # c => ncli'[d] = ncli[d]
      /\ ncli' \in [Cpus -> Int]
  BY DEF Spins, SpinTypeOK
<1>3. /\ ~ IF_'[c] /\ \A d \in Cpus : d # c => IF_'[d] = IF_[d]
      /\ IF_' \in [Cpus -> BOOLEAN]
  BY Zenon DEF Spins, SpinTypeOK
<1>4. intena' \in [Cpus -> BOOLEAN]
  BY Zenon DEF Spins, SpinTypeOK
<1>5. lk' = lk /\ panicked' = FALSE /\ want[c] = None
  BY Zenon DEF Spins
<1>6. SpinTypeOK'
  BY <1>1, <1>2, <1>3, <1>4, <1>5, Zenon DEF SpinTypeOK
<1>7. \A d \in Cpus, m \in Locks : lk'[m] = d <=> m \in Places(d)' /\ want'[d] # m
  <2>1. \A m \in Locks : lk'[m] = c <=> m \in Places(c)' /\ want'[c] # m
    BY <1>0, <1>1, <1>5 DEF Held
  <2>2. \A d \in Cpus, m \in Locks : d # c =>
          (lk'[m] = d <=> m \in Places(d)' /\ want'[d] # m)
    BY <1>1, <1>5 DEF Held
  <2> QED BY <2>1, <2>2, Zenon
<1>8. \A d \in Cpus : want'[d] # None => want'[d] \in Spun(d)'
  BY <1>1 DEF Held
<1>9. \A d \in Cpus : ncli'[d] = Cardinality(Places(d)')
  <2>1. Cardinality(Places(c) \cup {l}) = Cardinality(Places(c)) + 1
    <3>1. Places(c) \in SUBSET Locks
      BY PlacesType, Zenon
    <3> QED BY <3>1, CountMore, Zenon
  <2>2. ncli'[c] = Cardinality(Places(c)')
    BY <1>2, <2>1, Zenon DEF Held
  <2>3. ASSUME NEW d \in Cpus, d # c PROVE ncli'[d] = Cardinality(Places(d)')
    <3>1. ncli[d] = Cardinality(Places(d))
      BY Zenon DEF Held
    <3>2. Places(d)' = Places(d) /\ ncli'[d] = ncli[d]
      BY <1>2, <2>3, Zenon
    <3> QED BY <3>1, <3>2, Zenon
  <2> QED BY <2>2, <2>3, Zenon
<1>10. \A d \in Cpus : Places(d)' # {} => ~ IF_'[d]
  BY <1>3, Zenon DEF Held
<1> QED BY <1>5, <1>6, <1>7, <1>8, <1>9, <1>10, Zenon DEF Held

\* The xchg that finds the lock free: now the section holds it.
LEMMA XchgHeld ==
  ASSUME SpinTypeOK, Held, ~ panicked, NEW c \in Cpus, xchg(c),
         \A d \in Cpus : Places(d)' = Places(d), \A d \in Cpus : Spun(d)' = Spun(d)
  PROVE  SpinTypeOK' /\ Held' /\ ~ panicked'
<1>0. None \notin Locks /\ \A d \in Cpus : d # None
  BY ConsoleAssumption, Zenon DEF Threads
<1>1. PICK l \in Locks : /\ want[c] = l /\ lk[l] = None
                         /\ lk' = [lk EXCEPT ![l] = c] /\ want' = [want EXCEPT ![c] = None]
                         /\ UNCHANGED <<IF_, ncli, intena, panicked>>
  BY Zenon DEF xchg
<1>2. /\ want'[c] = None /\ \A d \in Cpus : d # c => want'[d] = want[d]
      /\ want' \in [Cpus -> Locks \cup {None}]
  BY <1>1, Zenon DEF SpinTypeOK
<1>3. /\ lk'[l] = c /\ \A m \in Locks : m # l => lk'[m] = lk[m]
      /\ lk' \in [Locks -> Cpus \cup {None}]
  BY <1>1, Zenon DEF SpinTypeOK
<1>4. SpinTypeOK'
  BY <1>1, <1>2, <1>3, Zenon DEF SpinTypeOK
<1>5. l \in Places(c)
  BY <1>0, <1>1, PlacesType, Zenon DEF Held
<1>6. ASSUME NEW d \in Cpus, NEW m \in Locks
      PROVE  lk'[m] = d <=> m \in Places(d)' /\ want'[d] # m
  <2>1. lk[m] = d <=> m \in Places(d) /\ want[d] # m
    BY Zenon DEF Held
  <2>2. CASE d = c
    BY <1>0, <1>1, <1>2, <1>3, <1>5, <2>1, <2>2, Zenon
  <2>3. CASE d # c
    BY <1>0, <1>1, <1>2, <1>3, <2>1, <2>3
  <2> QED BY <2>2, <2>3, Zenon
<1>7. \A d \in Cpus : want'[d] # None => want'[d] \in Spun(d)'
  BY <1>2 DEF Held
<1>8. \A d \in Cpus : ncli'[d] = Cardinality(Places(d)')
  BY <1>1 DEF Held
<1>9. \A d \in Cpus : Places(d)' # {} => ~ IF_'[d]
  BY <1>1, Zenon DEF Held
<1> QED BY <1>1, <1>4, <1>6, <1>7, <1>8, <1>9, Zenon DEF Held

\* A section that ends gives up its lock: the checks of release and popcli
\* pass, and the flag comes back with the last one.
LEMMA ReleaseHeld ==
  ASSUME SpinTypeOK, Held, NEW c \in Cpus, NEW l \in Locks, release(c, l),
         l \in Places(c), Places(c)' = Places(c) \ {l},
         \A d \in Cpus : d # c => Places(d)' = Places(d),
         \A d \in Cpus : d # c => Spun(d)' = Spun(d)
  PROVE  SpinTypeOK' /\ Held' /\ ~ panicked'
<1>0. None \notin Locks /\ \A d \in Cpus : d # None
  BY ConsoleAssumption, Zenon DEF Threads
<1>1. /\ want[c] = None /\ want' = want /\ lk' = [lk EXCEPT ![l] = None]
      /\ ncli' = [ncli EXCEPT ![c] = @ - 1] /\ intena' = intena
      /\ IF_' = [IF_ EXCEPT ![c] = @ \/ (ncli[c] = 1 /\ intena[c])]
      /\ panicked' = (lk[l] # c \/ IF_[c] \/ ncli[c] < 1)
  BY Zenon DEF release, popcli, holding
<1>2. lk[l] = c
  BY <1>0, <1>1, Zenon DEF Held
<1>3. ~ IF_[c]
  BY Zenon DEF Held
<1>4. ncli[c] \in Int /\ ~ (ncli[c] < 1)
  BY PlacesType DEF Held
<1>5. panicked' = FALSE
  <2>1. ~ (lk[l] # c \/ IF_[c] \/ ncli[c] < 1)
    BY <1>2, <1>3, <1>4, Zenon
  <2> QED BY <1>1, <2>1, Zenon
<1>6. /\ lk'[l] = None /\ \A m \in Locks : m # l => lk'[m] = lk[m]
      /\ lk' \in [Locks -> Cpus \cup {None}]
  BY <1>1, Zenon DEF SpinTypeOK
<1>7. /\ ncli'[c] = ncli[c] - 1 /\ \A d \in Cpus : d # c => ncli'[d] = ncli[d]
      /\ ncli' \in [Cpus -> Int]
  BY <1>1 DEF SpinTypeOK
<1>8. /\ IF_'[c] <=> ncli[c] = 1 /\ intena[c]
      /\ \A d \in Cpus : d # c => IF_'[d] = IF_[d]
      /\ IF_' \in [Cpus -> BOOLEAN]
  BY <1>1, <1>3, Zenon DEF SpinTypeOK
<1>9. SpinTypeOK'
  BY <1>1, <1>5, <1>6, <1>7, <1>8, Zenon DEF SpinTypeOK
<1>10. ASSUME NEW d \in Cpus, NEW m \in Locks
       PROVE  lk'[m] = d <=> m \in Places(d)' /\ want'[d] # m
  <2>1. lk[m] = d <=> m \in Places(d) /\ want[d] # m
    BY Zenon DEF Held
  <2>2. CASE d = c
    BY <1>0, <1>1, <1>6, <2>1, <2>2, Zenon
  <2>3. CASE d # c
    BY <1>0, <1>1, <1>2, <1>6, <2>1, <2>3, Zenon
  <2> QED BY <2>2, <2>3, Zenon
<1>11. \A d \in Cpus : want'[d] # None => want'[d] \in Spun(d)'
  BY <1>1 DEF Held
<1>12. \A d \in Cpus : ncli'[d] = Cardinality(Places(d)')
  <2>1. Cardinality(Places(c) \ {l}) = Cardinality(Places(c)) - 1
    <3>1. Places(c) \in SUBSET Locks
      BY PlacesType, Zenon
    <3> QED BY <3>1, CountLess, Zenon
  <2>2. ncli'[c] = Cardinality(Places(c)')
    BY <1>7, <2>1, Zenon DEF Held
  <2>3. ASSUME NEW d \in Cpus, d # c PROVE ncli'[d] = Cardinality(Places(d)')
    <3>1. ncli[d] = Cardinality(Places(d))
      BY Zenon DEF Held
    <3>2. Places(d)' = Places(d) /\ ncli'[d] = ncli[d]
      BY <1>7, <2>3, Zenon
    <3> QED BY <3>1, <3>2, Zenon
  <2> QED BY <2>2, <2>3, Zenon
<1>13. \A d \in Cpus : Places(d)' # {} => ~ IF_'[d]
  <2>1. ASSUME Places(c)' # {} PROVE ncli[c] # 1
    <3>1. Cardinality(Places(c)') \in Nat /\ Cardinality(Places(c)') # 0
      <4>1. Places(c)' \in SUBSET Locks
        BY PlacesType, Zenon
      <4> QED BY <2>1, <4>1, CountLocks, Zenon
    <3>2. ncli[c] - 1 = Cardinality(Places(c)')
      BY <1>7, <1>12, Zenon
    <3> QED BY <1>4, <3>1, <3>2
  <2>2. \A d \in Cpus : d # c /\ Places(d)' # {} => ~ IF_'[d]
    BY <1>8, Zenon DEF Held
  <2> QED BY <1>8, <2>1, <2>2, Zenon
<1> QED BY <1>5, <1>9, <1>10, <1>11, <1>12, <1>13, Zenon DEF Held

\* Nothing happens to locks: who holds them is as before.
LEMMA QuietHeld ==
  ASSUME SpinTypeOK, Held, ~ panicked, panicked' = FALSE, UNCHANGED <<lk, want, ncli>>,
         IF_' \in [Cpus -> BOOLEAN], intena' \in [Cpus -> BOOLEAN],
         \A d \in Cpus : Places(d)' = Places(d),
         \A d \in Cpus : want[d] = None \/ Spun(d)' = Spun(d),
         \A d \in Cpus : Places(d) = {} \/ ~ IF_'[d]
  PROVE  SpinTypeOK' /\ Held' /\ ~ panicked'
<1>1. SpinTypeOK'
  BY Zenon DEF SpinTypeOK
<1>2. \A d \in Cpus, m \in Locks : lk'[m] = d <=> m \in Places(d)' /\ want'[d] # m
  BY DEF Held
<1>3. \A d \in Cpus : want'[d] # None => want'[d] \in Spun(d)'
  BY DEF Held
<1>4. ASSUME NEW d \in Cpus PROVE ncli'[d] = Cardinality(Places(d)')
  <2>1. ncli[d] = Cardinality(Places(d)) /\ Places(d)' = Places(d)
    BY Zenon DEF Held
  <2> QED BY <2>1, Zenon
<1>5. \A d \in Cpus : Places(d)' # {} => ~ IF_'[d]
  OBVIOUS
<1> QED BY <1>1, <1>2, <1>3, <1>4, <1>5, Zenon DEF Held

\* acquire does not find its processor holding the lock.
LEMMA AcquireSpins ==
  ASSUME SpinTypeOK, Held, NEW c \in Cpus, NEW l \in Locks, acquire(c, l), l \notin Places(c)
  PROVE  /\ Spins(c, l, IF ncli[c] = 0 THEN IF_[c] ELSE intena[c])
         /\ (IF ncli[c] = 0 THEN IF_[c] ELSE intena[c]) \in BOOLEAN
<1>1. lk[l] # c
  BY Zenon DEF Held
<1>2. panicked' = FALSE
  BY <1>1, Zenon DEF acquire, holding
<1>3. (IF ncli[c] = 0 THEN IF_[c] ELSE intena[c]) \in BOOLEAN
  BY Zenon DEF SpinTypeOK
<1>4. intena' = [intena EXCEPT ![c] = IF ncli[c] = 0 THEN IF_[c] ELSE intena[c]]
  BY Zenon DEF acquire, pushcli
<1> QED BY <1>2, <1>3, <1>4, Zenon DEF Spins, acquire, pushcli

-----------------------------------------------------------------------------
(* Steps of a thread *)

Core == SpinTypeOK /\ Held /\ ~ panicked /\ Threading /\ Handler /\ FlagsKept

\* Thread t goes from l0 to l1 on c.
Moves(c, t, l0, l1) == Runs(c, t, l0) /\ Goto(t, l1) /\ UNCHANGED <<cur, intr>>

\* The thread is the only one that moves.
LEMMA MoveAt ==
  ASSUME Threading, NEW c \in Cpus, NEW t \in Threads, NEW l0, NEW l1 \in Labels,
         Moves(c, t, l0, l1)
  PROVE  /\ at[t] = l0 /\ at'[t] = l1 /\ \A u \in Threads : u # t => at'[u] = at[u]
         /\ at' \in [Threads -> Labels]
         /\ cur[c] = t /\ \A d \in Cpus : d # c => cur[d] # t
         /\ cur' = cur /\ intr' = intr /\ (c = IntrCpu => intr = "none")
         /\ want[c] = None
  BY DEF Threading, Moves, Runs, Goto

\* Its locks are those of its label, and the other processors keep theirs.
LEMMA MovePlaces ==
  ASSUME Threading, NEW c \in Cpus, NEW t \in Threads, NEW l0, NEW l1 \in Labels,
         Moves(c, t, l0, l1)
  PROVE  /\ Places(c) = HeldAt(l0) /\ Places(c)' = HeldAt(l1) /\ Spun(c)' = SpunAt(l1)
         /\ \A d \in Cpus : d # c => Places(d)' = Places(d)
         /\ \A d \in Cpus : d # c => Spun(d)' = Spun(d)
<1>1. HandlerHeld("none") = {} /\ HandlerSpun("none") = {}
  BY Zenon DEF HandlerHeld, HandlerSpun
<1>2. at[cur[c]] = l0 /\ at'[cur'[c]] = l1
  BY MoveAt
<1>3. \A d \in Cpus : d # c => at'[cur'[d]] = at[cur[d]]
  BY MoveAt DEF Threading
<1>4. intr' = intr /\ (c = IntrCpu => intr = "none")
  BY MoveAt, Zenon
<1>5. Places(c) = HeldAt(l0)
  BY <1>1, <1>2, <1>4, Zenon DEF Places
<1>6. Places(c)' = HeldAt(l1)
  BY <1>1, <1>2, <1>4, Zenon DEF Places
<1>7. Spun(c)' = SpunAt(l1)
  BY <1>1, <1>2, <1>4, Zenon DEF Spun
<1>8. ASSUME NEW d \in Cpus, d # c PROVE Places(d)' = Places(d) /\ Spun(d)' = Spun(d)
  BY <1>3, <1>4, <1>8, Zenon DEF Places, Spun
<1> QED BY <1>5, <1>6, <1>7, <1>8, Zenon

\* wakeup wakes the reader if it sleeps, and no one else.
LEMMA WakeState ==
  ASSUME state \in [Procs -> {"RUNNING", "RUNNABLE", "SLEEPING", "ZOMBIE"}],
         state' = state \/ state' = WakeReader
  PROVE  /\ state' \in [Procs -> {"RUNNING", "RUNNABLE", "SLEEPING", "ZOMBIE"}]
         /\ \A p \in Procs : \/ state'[p] = state[p]
                             \/ state[p] = "SLEEPING" /\ state'[p] = "RUNNABLE"
  BY Zenon DEF WakeReader

\* A thread that moves outside sched() stays where the process table says.
LEMMA MoveThreading ==
  ASSUME Threading, NEW c \in Cpus, NEW t \in Threads, NEW l0, NEW l1 \in Labels,
         Moves(c, t, l0, l1),
         state' = state \/ state' = WakeReader, killed' \subseteq {Reader},
         t \in Cpus => l1 \in {"idle", "scan"}
  PROVE  Threading'
<1>1. /\ state' \in [Procs -> {"RUNNING", "RUNNABLE", "SLEEPING", "ZOMBIE"}]
      /\ \A p \in Procs : \/ state'[p] = state[p]
                          \/ state[p] = "SLEEPING" /\ state'[p] = "RUNNABLE"
  BY WakeState, Zenon DEF Threading
<1>2. /\ at'[t] = l1 /\ \A u \in Threads : u # t => at'[u] = at[u]
      /\ at' \in [Threads -> Labels]
      /\ cur[c] = t /\ \A d \in Cpus : d # c => cur[d] # t
      /\ cur' = cur
  BY MoveAt
<1>3. Cpus \subseteq Threads /\ Procs \subseteq Threads /\ Procs \cap Cpus = {}
  BY ConsoleAssumption, Zenon DEF Threads
<1>4. \A d \in Cpus : at'[d] \in {"idle", "scan"}
  BY <1>2, <1>3, Zenon DEF Threading
<1>5. \A d \in Cpus : cur'[d] \in Procs => state'[cur'[d]] = "RUNNING" /\ at'[d] = "scan"
  BY <1>1, <1>2, <1>3 DEF Threading
<1>6. t \in Procs => state[t] = "RUNNING"
  BY <1>2, Zenon DEF Threading
<1>7. \A p \in Procs : state'[p] = "RUNNING" => \E d \in Cpus : cur'[d] = p
  BY <1>1, <1>2 DEF Threading
<1>8. \A p \in Procs : state'[p] = "RUNNABLE" => at'[p] \in {"yielded", "slept"}
  BY <1>1, <1>2, <1>3, <1>6 DEF Threading
<1>9. \A p \in Procs : state'[p] = "SLEEPING" => at'[p] = "slept"
  BY <1>1, <1>2, <1>3, <1>6 DEF Threading
<1>10. \A p \in Procs : state'[p] = "ZOMBIE" => at'[p] = "zombie"
  BY <1>1, <1>2, <1>3, <1>6 DEF Threading
<1> QED BY <1>1, <1>2, <1>4, <1>5, <1>7, <1>8, <1>9, <1>10 DEF Threading

\* What the handler interrupted stays where it is.
LEMMA MoveHandler ==
  ASSUME Threading, Handler, NEW c \in Cpus, NEW t \in Threads, NEW l0, NEW l1 \in Labels,
         Moves(c, t, l0, l1)
  PROVE  Handler'
<1>1. IntrCpu \in Cpus
  BY ConsoleAssumption, Zenon
<1>2. intr # "none" => at'[cur'[IntrCpu]] = at[cur[IntrCpu]]
  BY <1>1, MoveAt DEF Threading
<1> QED BY <1>2, MoveAt, Zenon DEF Handler

\* The flags, when the thread has them as they should be at its new label.
LEMMA MoveFlags ==
  ASSUME Threading, FlagsKept, NEW c \in Cpus, NEW t \in Threads, NEW l0, NEW l1 \in Labels,
         Moves(c, t, l0, l1), saved' = saved, t = Reader => l1 # "slept",
         \A d \in Cpus : d # c => IF_'[d] = IF_[d],
         \A d \in Cpus : d # c => intena'[d] = intena[d],
         \A d \in Cpus : d # c => ncli'[d] = ncli[d],
         l1 \in {"user", "reacquire"} => IF_'[c],
         t = Reader /\ l1 \in {"read", "sleep", "sleeping"} => intena'[c]
  PROVE  FlagsKept'
<1>0. IntrCpu \in Cpus /\ Reader \in Threads
  BY ConsoleAssumption, Zenon DEF Threads, Procs
<1>1. /\ at'[t] = l1 /\ \A u \in Threads : u # t => at'[u] = at[u]
      /\ cur[c] = t /\ \A d \in Cpus : d # c => cur[d] # t
      /\ cur' = cur /\ intr' = intr /\ (c = IntrCpu => intr = "none")
  BY MoveAt
<1>2. ASSUME NEW d \in Cpus, ~ Busy(d)', at'[cur'[d]] \in {"user", "reacquire"} PROVE IF_'[d]
  <2>1. CASE d = c
    BY <1>1, <1>2, <2>1, Zenon
  <2>2. CASE d # c
    <3>1. at'[cur'[d]] = at[cur[d]] /\ ~ Busy(d)
      BY <1>1, <1>2, <2>2 DEF Threading, Busy
    <3>2. IF_[d]
      BY <1>2, <3>1, Zenon DEF FlagsKept
    <3> QED BY <2>2, <3>2, Zenon
  <2> QED BY <2>1, <2>2, Zenon
<1>3. ASSUME NEW d \in Cpus, cur'[d] = Reader,
             at'[Reader] \in {"read", "sleep", "sleeping", "slept"}
      PROVE  intena'[d]
  <2>1. CASE d = c
    BY <1>1, <1>3, <2>1, Zenon
  <2>2. CASE d # c
    <3>1. cur[d] = Reader /\ at[Reader] = at'[Reader]
      BY <1>0, <1>1, <1>3, <2>2, Zenon
    <3>2. intena[d]
      BY <1>3, <3>1, Zenon DEF FlagsKept
    <3> QED BY <2>2, <3>2, Zenon
  <2> QED BY <2>1, <2>2, Zenon
<1>4. at'[Reader] = "slept" => saved'[Reader]
  BY <1>0, <1>1, Zenon DEF FlagsKept
<1>5. intr' # "none" => ~ IF_'[IntrCpu]
  BY <1>0, <1>1, Zenon DEF FlagsKept
<1>6. intr' # "none" /\ ncli'[IntrCpu] > 0 => ~ intena'[IntrCpu]
  BY <1>0, <1>1, Zenon DEF FlagsKept
<1>7. saved' \in [Procs -> BOOLEAN]
  BY Zenon DEF FlagsKept
<1> QED BY <1>2, <1>3, <1>4, <1>5, <1>6, <1>7, Zenon DEF FlagsKept

\* A thread that enters a section.
LEMMA AcquireCore ==
  ASSUME Core, NEW c \in Cpus, NEW t \in Threads, NEW l0, NEW l1 \in Labels,
         Moves(c, t, l0, l1),
         NEW l \in Locks, NEW i \in BOOLEAN, Spins(c, l, i),
         l \notin HeldAt(l0), HeldAt(l1) = HeldAt(l0) \cup {l}, l \in SpunAt(l1),
         UNCHANGED <<state, saved, killed>>, t \in Cpus => l1 \in {"idle", "scan"},
         t = Reader /\ l1 \in {"read", "sleep"} => i
  PROVE  Core'
<1>1. /\ Places(c) = HeldAt(l0) /\ Places(c)' = HeldAt(l1) /\ Spun(c)' = SpunAt(l1)
      /\ \A d \in Cpus : d # c => Places(d)' = Places(d)
      /\ \A d \in Cpus : d # c => Spun(d)' = Spun(d)
  BY MovePlaces, Zenon DEF Core
<1>2. l \notin Places(c) /\ Places(c)' = Places(c) \cup {l} /\ l \in Spun(c)'
  BY <1>1, Zenon
<1>3. SpinTypeOK' /\ Held' /\ ~ panicked'
  BY <1>1, <1>2, AcquireHeld, Zenon DEF Core
<1>4. Threading'
  BY MoveThreading, Zenon DEF Core, Threading
<1>5. Handler'
  BY MoveHandler, Zenon DEF Core
<1>6. l1 \notin {"user", "reacquire", "sleeping", "slept"}
  BY Zenon DEF SpunAt
<1>7. \A d \in Cpus : d # c => IF_'[d] = IF_[d] /\ intena'[d] = intena[d] /\ ncli'[d] = ncli[d]
  BY Zenon DEF Core, SpinTypeOK, Spins
<1>8. intena'[c] = i
  BY Zenon DEF Core, SpinTypeOK, Spins
<1>9. t = Reader /\ l1 \in {"read", "sleep", "sleeping"} => intena'[c]
  BY <1>6, <1>8, Zenon
<1>10. FlagsKept'
  BY <1>6, <1>7, <1>9, MoveFlags, Zenon DEF Core
<1> QED BY <1>3, <1>4, <1>5, <1>10, Zenon DEF Core

\* A thread that leaves a section.
LEMMA ReleaseCore ==
  ASSUME Core, NEW c \in Cpus, NEW t \in Threads, NEW l0, NEW l1 \in Labels,
         Moves(c, t, l0, l1),
         NEW l \in Locks, release(c, l),
         l \in HeldAt(l0), HeldAt(l1) = HeldAt(l0) \ {l},
         state' = state \/ state' = WakeReader, killed' \subseteq {Reader}, saved' = saved,
         t \in Cpus => l1 \in {"idle", "scan"},
         l1 # "user" /\ l1 # "slept" /\ l1 \notin {"read", "sleep"},
         l1 = "reacquire" => t = Reader /\ l0 = "slept",
         l1 = "sleeping" => l0 = "sleep"
  PROVE  Core'
<1>1. /\ Places(c) = HeldAt(l0) /\ Places(c)' = HeldAt(l1)
      /\ \A d \in Cpus : d # c => Places(d)' = Places(d)
      /\ \A d \in Cpus : d # c => Spun(d)' = Spun(d)
  BY MovePlaces, Zenon DEF Core
<1>2. l \in Places(c) /\ Places(c)' = Places(c) \ {l}
  BY <1>1, Zenon
<1>3. SpinTypeOK' /\ Held' /\ ~ panicked'
  BY <1>1, <1>2, ReleaseHeld, Zenon DEF Core
<1>4. Threading'
  BY MoveThreading, Zenon DEF Core
<1>5. Handler'
  BY MoveHandler, Zenon DEF Core
<1>6. /\ \A d \in Cpus : d # c => IF_'[d] = IF_[d] /\ intena'[d] = intena[d] /\ ncli'[d] = ncli[d]
      /\ intena'[c] = intena[c]
      /\ ncli[c] = 1 /\ intena[c] => IF_'[c]
  BY Zenon DEF Core, SpinTypeOK, release, popcli
<1>7. at[t] = l0 /\ cur[c] = t
  BY MoveAt DEF Core
<1>8. ASSUME l1 \in {"user", "reacquire"} PROVE IF_'[c]
  <2>1. l0 = "slept" /\ t = Reader
    BY <1>8, Zenon
  <2>2. intena[c]
    BY <1>7, <2>1, Zenon DEF Core, FlagsKept
  <2>3. ncli[c] = 1
    <3>1. HeldAt(l0) = {"ptable"}
      BY <2>1, Zenon DEF HeldAt
    <3>2. ncli[c] = Cardinality(Places(c))
      BY Zenon DEF Core, Held
    <3>3. Places(c) = {"ptable"}
      BY <1>1, <3>1, Zenon
    <3> QED BY <3>2, <3>3, LockNumbers, Zenon
  <2> QED BY <1>6, <2>2, <2>3, Zenon
<1>9. ASSUME t = Reader, l1 \in {"read", "sleep", "sleeping"} PROVE intena'[c]
  <2>1. cur[c] = Reader /\ at[Reader] = "sleep"
    BY <1>7, <1>9, Zenon
  <2> QED BY <1>6, <2>1, Zenon DEF Core, FlagsKept
<1>10. FlagsKept'
  BY <1>6, <1>8, <1>9, MoveFlags, Zenon DEF Core
<1> QED BY <1>3, <1>4, <1>5, <1>10, Zenon DEF Core

\* The reader falls asleep on an empty ring.
LEMMA MoveSleeps ==
  ASSUME Threading, Sleeps, NEW c \in Cpus, NEW t \in Threads, NEW l0, NEW l1 \in Labels,
         Moves(c, t, l0, l1), UNCHANGED <<r, w>>, state' = state \/ state' = WakeReader,
         t = Reader /\ l1 = "sleep" => r = w,
         t = Reader /\ l1 = "sleeping" => l0 = "sleep"
  PROVE  Sleeps'
<1>0. Reader \in Procs /\ Procs \subseteq Threads
  BY Zenon DEF Procs, Threads
<1>1. /\ at[t] = l0 /\ at'[t] = l1 /\ \A u \in Threads : u # t => at'[u] = at[u]
      /\ intr' = intr
  BY MoveAt
<1>2. at'[Reader] = "sleep" => r' = w'
  BY <1>0, <1>1, Zenon DEF Sleeps
<1>3. at'[Reader] = "sleeping" => r' = w' \/ intr' = "wakeup"
  BY <1>0, <1>1, Zenon DEF Sleeps
<1>4. state'[Reader] = "SLEEPING" => state[Reader] = "SLEEPING"
  BY <1>0, WakeState, Zenon DEF Threading
<1>5. NoLostWakeup'
  BY <1>1, <1>4, Zenon DEF Sleeps, NoLostWakeup
<1> QED BY <1>2, <1>3, <1>5, Zenon DEF Sleeps

\* The locks of the labels.
LEMMA HeldAtLabels ==
  /\ HeldAt("idle") = {} /\ HeldAt("user") = {} /\ HeldAt("trapret") = {}
  /\ HeldAt("reacquire") = {} /\ HeldAt("exit") = {}
  /\ HeldAt("read") = {"cons"} /\ HeldAt("write") = {"cons"}
  /\ HeldAt("sleep") = {"cons", "ptable"} /\ HeldAt("exit print") = {"cons", "ptable"}
  /\ HeldAt("scan") = {"ptable"} /\ HeldAt("yield") = {"ptable"} /\ HeldAt("yielded") = {"ptable"}
  /\ HeldAt("sleeping") = {"ptable"} /\ HeldAt("slept") = {"ptable"} /\ HeldAt("kill") = {"ptable"}
  /\ HeldAt("exiting") = {"ptable"} /\ HeldAt("zombie") = {"ptable"}
  BY Zenon DEF HeldAt

\* The lock each label may spin for.
LEMMA SpunAtLabels ==
  /\ SpunAt("read") = {"cons"} /\ SpunAt("write") = {"cons"} /\ SpunAt("exit print") = {"cons"}
  /\ SpunAt("scan") = {"ptable"} /\ SpunAt("yield") = {"ptable"} /\ SpunAt("sleep") = {"ptable"}
  /\ SpunAt("kill") = {"ptable"} /\ SpunAt("exiting") = {"ptable"}
  BY Zenon DEF SpunAt

\* The invariant is its core, the reader's sleep and the ring.
LEMMA InvCore == Inv <=> Core /\ Sleeps /\ Ring
  BY Zenon DEF Inv, Core

\* A step that leaves the ring alone keeps what it holds.
LEMMA RingSame ==
  ASSUME Ring, UNCHANGED ring
  PROVE  Ring' /\ UNCHANGED <<r, w>>
  BY Zenon DEF Ring, ring

\* A thread that enters a section, from where the sections of the code are
\* entered.
LEMMA AcquireInv ==
  ASSUME Inv, NEW c \in Cpus, NEW t \in Threads, NEW l0, NEW l1 \in Labels,
         Moves(c, t, l0, l1),
         NEW l \in Locks, acquire(c, l),
         l \notin HeldAt(l0), HeldAt(l1) = HeldAt(l0) \cup {l}, l \in SpunAt(l1),
         UNCHANGED <<state, saved, killed>>, UNCHANGED ring,
         t \in Cpus => l1 \in {"idle", "scan"},
         t = Reader /\ l1 = "read" => l0 \in {"user", "reacquire"},
         t = Reader /\ l1 = "sleep" => l0 = "read" /\ r = w
  PROVE  Inv'
<1> DEFINE i == IF ncli[c] = 0 THEN IF_[c] ELSE intena[c]
<1>1. Core /\ Sleeps /\ Ring
  BY InvCore, Zenon
<1>2. Places(c) = HeldAt(l0)
  BY <1>1, MovePlaces, Zenon DEF Core
<1>3. Spins(c, l, i) /\ i \in BOOLEAN
  BY <1>1, <1>2, AcquireSpins, Zenon DEF Core
<1>4. at[t] = l0 /\ cur[c] = t /\ (c = IntrCpu => intr = "none")
  BY <1>1, MoveAt DEF Core
<1>5. ASSUME t = Reader, l1 = "read" PROVE i
  <2>1. at[cur[c]] \in {"user", "reacquire"} /\ ~ Busy(c)
    BY <1>4, <1>5, Zenon DEF Busy
  <2>2. IF_[c]
    BY <1>1, <2>1, Zenon DEF Core, FlagsKept
  <2>3. Places(c) = {}
    BY <1>2, <1>5, HeldAtLabels, Zenon
  <2>4. ncli[c] = 0
    <3>1. Held
      BY <1>1, Zenon DEF Core
    <3> QED BY <2>3, <3>1, CliDepth, Zenon
  <2> QED BY <2>2, <2>4, Zenon
<1>6. ASSUME t = Reader, l1 = "sleep" PROVE i
  <2>1. cur[c] = Reader /\ at[Reader] = "read"
    BY <1>4, <1>6, Zenon
  <2>2. intena[c]
    BY <1>1, <2>1, Zenon DEF Core, FlagsKept
  <2>3. Places(c) # {}
    <3>1. HeldAt(l0) = {"cons"}
      BY <1>6, HeldAtLabels, Zenon
    <3> QED BY <1>2, <3>1, Zenon
  <2>4. ncli[c] # 0
    <3>1. Held
      BY <1>1, Zenon DEF Core
    <3> QED BY <2>3, <3>1, CliDepth, Zenon
  <2> QED BY <2>2, <2>4, Zenon
<1>7. Core'
  <2> HIDE DEF i
  <2> QED BY <1>1, <1>3, <1>5, <1>6, AcquireCore, Zenon
<1>8. Ring' /\ UNCHANGED <<r, w>>
  BY <1>1, RingSame, Zenon
<1>9. l1 # "sleeping"
  BY Zenon DEF SpunAt
<1>10. Sleeps'
  BY <1>1, <1>8, <1>9, MoveSleeps, Zenon DEF Core
<1> QED BY <1>7, <1>8, <1>10, InvCore, PTL

\* A thread that leaves a section.
LEMMA ReleaseInv ==
  ASSUME Inv, NEW c \in Cpus, NEW t \in Threads, NEW l0, NEW l1 \in Labels,
         Moves(c, t, l0, l1),
         NEW l \in Locks, release(c, l),
         l \in HeldAt(l0), HeldAt(l1) = HeldAt(l0) \ {l},
         state' = state \/ state' = WakeReader, killed' \subseteq {Reader}, saved' = saved,
         UNCHANGED ring,
         t \in Cpus => l1 \in {"idle", "scan"},
         l1 # "user" /\ l1 # "slept" /\ l1 \notin {"read", "sleep"},
         l1 = "reacquire" => t = Reader /\ l0 = "slept",
         l1 = "sleeping" => l0 = "sleep"
  PROVE  Inv'
<1>1. Core /\ Sleeps /\ Ring
  BY InvCore, Zenon
<1>2. Core'
  BY <1>1, ReleaseCore, Zenon
<1>3. Ring' /\ UNCHANGED <<r, w>>
  BY <1>1, RingSame, Zenon
<1>4. Sleeps'
  BY <1>1, <1>3, MoveSleeps, Zenon DEF Core
<1> QED BY <1>2, <1>3, <1>4, InvCore, PTL

\* The threads and the locks of the code.
LEMMA Parts ==
  /\ IntrCpu \in Cpus /\ Reader \in Procs /\ Reader \in Threads /\ Others \subseteq Procs
  /\ \A c \in Cpus : c \in Threads /\ c # Reader
  /\ \A p \in Procs : p \in Threads /\ p \notin Cpus
  /\ "cons" \in Locks /\ "ptable" \in Locks
  BY ConsoleAssumption, Zenon DEF Procs, Threads

\* The labels of the code.
LEMMA LabelNames ==
  /\ {"idle", "scan", "user", "trapret", "yield", "yielded", "read", "sleep"} \subseteq Labels
  /\ {"sleeping", "slept", "reacquire", "write", "kill", "exit", "exiting"} \subseteq Labels
  /\ {"exit print", "zombie"} \subseteq Labels
  BY Zenon DEF Labels

-----------------------------------------------------------------------------
(* Actions of the scheduler, of the reader and of the other processes *)

\* A step that does not schedule keeps states, saved flags and killed.
LEMMA KilledKept ==
  ASSUME Inv, UNCHANGED sched_
  PROVE  /\ UNCHANGED cur /\ UNCHANGED <<state, saved, killed>> /\ killed' \subseteq {Reader}
         /\ saved' = saved /\ state' = state
  BY Zenon DEF Inv, Threading, sched_

\* The scheduler ends its turn.
LEMMA SchedulerRestInv ==
  ASSUME Inv, NEW c \in Cpus, schedulerRest(c)
  PROVE  Inv'
<1>1. Moves(c, c, "scan", "idle") /\ release(c, "ptable") /\ UNCHANGED ring /\ UNCHANGED sched_
  BY Zenon DEF schedulerRest, Moves, sched_
<1>2. "ptable" \in HeldAt("scan") /\ HeldAt("idle") = HeldAt("scan") \ {"ptable"}
  BY HeldAtLabels, Zenon
<1> QED BY <1>1, <1>2, KilledKept, Parts, LabelNames, ReleaseInv

\* A process that yielded and runs again.
LEMMA YieldReleaseInv ==
  ASSUME Inv, NEW c \in Cpus, NEW p \in Procs, yieldRelease(c, p)
  PROVE  Inv'
<1>1. /\ Moves(c, p, "yielded", "trapret") /\ release(c, "ptable")
      /\ UNCHANGED ring /\ UNCHANGED sched_
  BY Zenon DEF yieldRelease, Moves, sched_
<1>2. "ptable" \in HeldAt("yielded") /\ HeldAt("trapret") = HeldAt("yielded") \ {"ptable"}
  BY HeldAtLabels, Zenon
<1> QED BY <1>1, <1>2, KilledKept, Parts, LabelNames, ReleaseInv, Zenon

\* sleep lets go of cons.lock with ptable.lock held.
LEMMA SleepReleaseInv ==
  ASSUME Inv, NEW c \in Cpus, sleepRelease(c)
  PROVE  Inv'
<1>1. /\ Moves(c, Reader, "sleep", "sleeping") /\ release(c, "cons")
      /\ UNCHANGED ring /\ UNCHANGED sched_
  BY Zenon DEF sleepRelease, Moves, sched_
<1>2. "cons" \in HeldAt("sleep") /\ HeldAt("sleeping") = HeldAt("sleep") \ {"cons"}
  BY HeldAtLabels, Zenon
<1> QED BY <1>1, <1>2, KilledKept, Parts, LabelNames, ReleaseInv, Zenon

\* The woken reader lets go of ptable.lock.
LEMMA SleepTidyInv ==
  ASSUME Inv, NEW c \in Cpus, sleepTidy(c)
  PROVE  Inv'
<1>1. /\ Moves(c, Reader, "slept", "reacquire") /\ release(c, "ptable")
      /\ UNCHANGED ring /\ UNCHANGED sched_
  BY Zenon DEF sleepTidy, Moves, sched_
<1>2. "ptable" \in HeldAt("slept") /\ HeldAt("reacquire") = HeldAt("slept") \ {"ptable"}
  BY HeldAtLabels, Zenon
<1>3. state' = state /\ killed' \subseteq {Reader} /\ saved' = saved
  BY <1>1, KilledKept, Zenon
<1>4. Reader \in Threads /\ Reader \notin Cpus /\ "ptable" \in Locks /\ "reacquire" \in Labels
  BY Parts, LabelNames, Zenon
<1> QED BY <1>1, <1>2, <1>3, <1>4, ReleaseInv, Zenon

\* The end of consolewrite.
LEMMA WriteDoneInv ==
  ASSUME Inv, NEW c \in Cpus, NEW p \in Procs, consolewriteDone(c, p)
  PROVE  Inv'
<1>1. Moves(c, p, "write", "trapret") /\ release(c, "cons") /\ UNCHANGED ring /\ UNCHANGED sched_
  BY Zenon DEF consolewriteDone, Moves, sched_
<1>2. "cons" \in HeldAt("write") /\ HeldAt("trapret") = HeldAt("write") \ {"cons"}
  BY HeldAtLabels, Zenon
<1> QED BY <1>1, <1>2, KilledKept, Parts, LabelNames, ReleaseInv, Zenon

\* exit() has printed.
LEMMA ExitPrintedInv ==
  ASSUME Inv, NEW c \in Cpus, NEW p \in Procs, exitPrinted(c, p)
  PROVE  Inv'
<1>1. /\ Moves(c, p, "exit print", "zombie") /\ release(c, "cons")
      /\ UNCHANGED ring /\ UNCHANGED sched_
  BY Zenon DEF exitPrinted, Moves, sched_
<1>2. "cons" \in HeldAt("exit print") /\ HeldAt("zombie") = HeldAt("exit print") \ {"cons"}
  BY HeldAtLabels, Zenon
<1>3. state' = state /\ killed' \subseteq {Reader} /\ saved' = saved
  BY <1>1, KilledKept, Zenon
<1>4. p \in Threads /\ p \notin Cpus /\ "cons" \in Locks /\ "zombie" \in Labels
  BY Parts, LabelNames, Zenon
<1> QED BY <1>1, <1>2, <1>3, <1>4, ReleaseInv, Zenon

\* kill marks the reader, and wakes it.
LEMMA KillDoneInv ==
  ASSUME Inv, NEW c \in Cpus, NEW p \in Procs, killDone(c, p)
  PROVE  Inv'
<1>1. Moves(c, p, "kill", "trapret") /\ release(c, "ptable") /\ UNCHANGED ring
  BY Zenon DEF killDone, Moves
<1>2. "ptable" \in HeldAt("kill") /\ HeldAt("trapret") = HeldAt("kill") \ {"ptable"}
  BY HeldAtLabels, Zenon
<1>3. state' = WakeReader /\ killed' \subseteq {Reader} /\ saved' = saved
  BY Zenon DEF killDone, Inv, Threading
<1>4. p \in Threads /\ p \notin Cpus /\ "ptable" \in Locks /\ "trapret" \in Labels
  BY Parts, LabelNames, Zenon
<1> QED BY <1>1, <1>2, <1>3, <1>4, ReleaseInv, Zenon

\* consoleread takes cons.lock, from user code with interrupts on.
LEMMA ReadInv ==
  ASSUME Inv, NEW c \in Cpus, NEW n, consoleread(c, n)
  PROVE  Inv'
<1>1. Moves(c, Reader, "user", "read") /\ acquire(c, "cons") /\ UNCHANGED ring /\ UNCHANGED sched_
  BY Zenon DEF consoleread, Moves, sched_
<1>2. "cons" \notin HeldAt("user") /\ HeldAt("read") = HeldAt("user") \cup {"cons"}
      /\ "cons" \in SpunAt("read")
  BY HeldAtLabels, SpunAtLabels, Zenon
<1>3. UNCHANGED <<state, saved, killed>>
  BY <1>1, KilledKept, Zenon
<1>4. Reader \in Threads /\ Reader \notin Cpus /\ "cons" \in Locks /\ "read" \in Labels
  BY Parts, LabelNames, Zenon
<1> QED BY <1>1, <1>2, <1>3, <1>4, AcquireInv, Zenon

\* The woken reader takes cons.lock back.
LEMMA SleepReacquireInv ==
  ASSUME Inv, NEW c \in Cpus, sleepReacquire(c)
  PROVE  Inv'
<1>1. /\ Moves(c, Reader, "reacquire", "read") /\ acquire(c, "cons")
      /\ UNCHANGED ring /\ UNCHANGED sched_
  BY Zenon DEF sleepReacquire, Moves, sched_
<1>2. "cons" \notin HeldAt("reacquire") /\ HeldAt("read") = HeldAt("reacquire") \cup {"cons"}
      /\ "cons" \in SpunAt("read")
  BY HeldAtLabels, SpunAtLabels, Zenon
<1>3. UNCHANGED <<state, saved, killed>>
  BY <1>1, KilledKept, Zenon
<1>4. Reader \in Threads /\ Reader \notin Cpus /\ "cons" \in Locks /\ "read" \in Labels
  BY Parts, LabelNames, Zenon
<1> QED BY <1>1, <1>2, <1>3, <1>4, AcquireInv, Zenon

\* consolewrite takes cons.lock.
LEMMA WriteInv ==
  ASSUME Inv, NEW c \in Cpus, NEW p \in Procs, consolewrite(c, p)
  PROVE  Inv'
<1>1. Moves(c, p, "user", "write") /\ acquire(c, "cons") /\ UNCHANGED ring /\ UNCHANGED sched_
  BY Zenon DEF consolewrite, Moves, sched_
<1>2. "cons" \notin HeldAt("user") /\ HeldAt("write") = HeldAt("user") \cup {"cons"}
      /\ "cons" \in SpunAt("write")
  BY HeldAtLabels, SpunAtLabels, Zenon
<1>3. UNCHANGED <<state, saved, killed>>
  BY <1>1, KilledKept, Zenon
<1>4. p \in Threads /\ p \notin Cpus /\ "cons" \in Locks /\ "write" \in Labels
  BY Parts, LabelNames, Zenon
<1> QED BY <1>1, <1>2, <1>3, <1>4, AcquireInv, Zenon

\* kill takes ptable.lock.
LEMMA KillInv ==
  ASSUME Inv, NEW c \in Cpus, NEW p \in Procs, kill(c, p)
  PROVE  Inv'
<1>1. Moves(c, p, "user", "kill") /\ acquire(c, "ptable") /\ UNCHANGED ring /\ UNCHANGED sched_
  BY Zenon DEF kill, Moves, sched_
<1>2. "ptable" \notin HeldAt("user") /\ HeldAt("kill") = HeldAt("user") \cup {"ptable"}
      /\ "ptable" \in SpunAt("kill")
  BY HeldAtLabels, SpunAtLabels, Zenon
<1>3. UNCHANGED <<state, saved, killed>>
  BY <1>1, KilledKept, Zenon
<1>4. p \in Threads /\ p \notin Cpus /\ "ptable" \in Locks /\ "kill" \in Labels
  BY Parts, LabelNames, Zenon
<1> QED BY <1>1, <1>2, <1>3, <1>4, AcquireInv, Zenon

\* exit() takes ptable.lock.
LEMMA ExitInv ==
  ASSUME Inv, NEW c \in Cpus, NEW p \in Procs, exit(c, p)
  PROVE  Inv'
<1>1. PICK l0 \in {"user", "exit"} :
        Moves(c, p, l0, "exiting") /\ acquire(c, "ptable") /\ UNCHANGED ring /\ UNCHANGED sched_
  BY Zenon DEF exit, Moves, sched_
<1>2. "ptable" \notin HeldAt(l0) /\ HeldAt("exiting") = HeldAt(l0) \cup {"ptable"}
      /\ "ptable" \in SpunAt("exiting")
  BY HeldAtLabels, SpunAtLabels, Zenon
<1>3. UNCHANGED <<state, saved, killed>>
  BY <1>1, KilledKept, Zenon
<1>4. p \in Threads /\ p \notin Cpus /\ "ptable" \in Locks /\ "exiting" \in Labels
  BY Parts, LabelNames, Zenon
<1> QED BY <1>1, <1>2, <1>3, <1>4, AcquireInv, Zenon

\* exit() takes cons.lock on top of ptable.lock.
LEMMA ExitPrintInv ==
  ASSUME Inv, NEW c \in Cpus, NEW p \in Procs, exitPrint(c, p)
  PROVE  Inv'
<1>1. /\ Moves(c, p, "exiting", "exit print") /\ acquire(c, "cons")
      /\ UNCHANGED ring /\ UNCHANGED sched_
  BY Zenon DEF exitPrint, Moves, sched_
<1>2. "cons" \notin HeldAt("exiting") /\ HeldAt("exit print") = HeldAt("exiting") \cup {"cons"}
      /\ "cons" \in SpunAt("exit print")
  BY HeldAtLabels, SpunAtLabels, Zenon
<1>3. UNCHANGED <<state, saved, killed>>
  BY <1>1, KilledKept, Zenon
<1>4. p \in Threads /\ p \notin Cpus /\ "cons" \in Locks /\ "exit print" \in Labels
  BY Parts, LabelNames, Zenon
<1> QED BY <1>1, <1>2, <1>3, <1>4, AcquireInv, Zenon

\* The reader that finds the ring empty: it was killed, or it goes to sleep.
LEMMA ReadEmptyInv ==
  ASSUME Inv, NEW c \in Cpus, readEmpty(c)
  PROVE  Inv'
<1>1. UNCHANGED ring /\ UNCHANGED sched_ /\ UNCHANGED <<cur, intr>> /\ r = w
      /\ Runs(c, Reader, "read")
  BY Zenon DEF readEmpty, sched_
<1>2. /\ state' = state /\ killed' \subseteq {Reader}
      /\ saved' = saved /\ UNCHANGED <<state, saved, killed>>
  BY <1>1, KilledKept, Zenon
<1>3. /\ Reader \in Threads /\ Reader \notin Cpus /\ "cons" \in Locks /\ "ptable" \in Locks
      /\ "trapret" \in Labels /\ "sleep" \in Labels
  BY Parts, LabelNames, Zenon
<1>4. CASE Reader \in killed
  <2>1. Moves(c, Reader, "read", "trapret") /\ release(c, "cons")
    BY <1>1, <1>4, Zenon DEF readEmpty, readDone, Moves
  <2>2. "cons" \in HeldAt("read") /\ HeldAt("trapret") = HeldAt("read") \ {"cons"}
    BY HeldAtLabels, Zenon
  <2> QED BY <1>1, <1>2, <1>3, <2>1, <2>2, ReleaseInv, Zenon
<1>5. CASE Reader \notin killed
  <2>1. Moves(c, Reader, "read", "sleep") /\ acquire(c, "ptable")
    BY <1>1, <1>5, Zenon DEF readEmpty, Moves
  <2>2. "ptable" \notin HeldAt("read") /\ HeldAt("sleep") = HeldAt("read") \cup {"ptable"}
        /\ "ptable" \in SpunAt("sleep")
    BY HeldAtLabels, SpunAtLabels, Zenon
  <2> QED BY <1>1, <1>2, <1>3, <2>1, <2>2, AcquireInv, Zenon
<1> QED BY <1>4, <1>5, Zenon

\* A process preempted by the timer holds no lock yet.
LEMMA YieldInv ==
  ASSUME Inv, NEW c \in Cpus, NEW p \in Procs, yield(c, p)
  PROVE  Inv'
<1>1. Moves(c, p, "user", "yield") /\ UNCHANGED ring /\ UNCHANGED sched_
  BY Zenon DEF yield, Moves, sched_
<1>2. UNCHANGED <<state, saved, killed>> /\ state' = state
  BY <1>1, KilledKept, Zenon
<1>3. p \in Threads /\ p \notin Cpus /\ "ptable" \in Locks /\ "yield" \in Labels
  BY Parts, LabelNames, Zenon
<1>4. Core /\ Sleeps /\ Ring
  BY InvCore, Zenon
<1>5. "ptable" \notin HeldAt("user") /\ HeldAt("yield") = HeldAt("user") \cup {"ptable"}
      /\ "ptable" \in SpunAt("yield") /\ HeldAt("user") = {}
  BY HeldAtLabels, SpunAtLabels, Zenon
<1>6. ncli[c] = 0
  <2>1. Places(c) = {}
    BY <1>1, <1>3, <1>4, <1>5, MovePlaces, Zenon DEF Core
  <2> QED BY <1>4, <2>1, CliDepth, Zenon DEF Core
<1>7. Spins(c, "ptable", FALSE)
  <2>1. ncli' = [ncli EXCEPT ![c] = @ + 1]
    BY <1>4, <1>6 DEF yield, Core, SpinTypeOK
  <2>2. panicked' = FALSE
    BY <1>4, Zenon DEF yield, Core, SpinTypeOK
  <2>3. want[c] = None
    BY Zenon DEF yield, Runs
  <2> QED BY <2>1, <2>2, <2>3, Zenon DEF yield, Spins
<1>8. Core'
  BY <1>1, <1>2, <1>3, <1>4, <1>5, <1>7, AcquireCore, Zenon
<1>9. Ring' /\ UNCHANGED <<r, w>>
  BY <1>1, <1>4, RingSame, Zenon
<1>10. Sleeps'
  BY <1>1, <1>2, <1>3, <1>4, <1>9, MoveSleeps, Zenon DEF Core
<1> QED BY <1>8, <1>9, <1>10, InvCore, PTL

\* The return to user space, with interrupts on.
LEMMA TrapretInv ==
  ASSUME Inv, NEW c \in Cpus, NEW p \in Procs, trapret(c, p)
  PROVE  Inv'
<1>0. Core /\ Sleeps /\ Ring
  BY InvCore, Zenon
<1>1. PICK l1 \in {"exit", "user"} :
        /\ Moves(c, p, "trapret", l1)
        /\ IF_' = IF_ \/ IF_' = [IF_ EXCEPT ![c] = TRUE]
        /\ l1 = "user" => IF_' = [IF_ EXCEPT ![c] = TRUE]
  BY Zenon DEF trapret, Moves, sched_
<1>2. UNCHANGED <<lk, want, ncli, intena, panicked>> /\ UNCHANGED ring /\ UNCHANGED sched_
  BY Zenon DEF trapret
<1>3. UNCHANGED <<state, saved, killed>> /\ state' = state /\ killed' \subseteq {Reader}
  BY <1>2, KilledKept, Zenon
<1>4. p \in Threads /\ p \notin Cpus /\ l1 \in Labels
  BY Parts, LabelNames, Zenon
<1>5. /\ Places(c) = HeldAt("trapret") /\ Places(c)' = HeldAt(l1)
      /\ \A d \in Cpus : d # c => Places(d)' = Places(d)
      /\ \A d \in Cpus : d # c => Spun(d)' = Spun(d)
  BY <1>0, <1>1, <1>4, MovePlaces, Zenon DEF Core
<1>6. HeldAt("trapret") = {} /\ HeldAt(l1) = {}
  BY HeldAtLabels, Zenon
<1>7. /\ IF_' \in [Cpus -> BOOLEAN]
      /\ \A d \in Cpus : d # c => IF_'[d] = IF_[d]
      /\ l1 = "user" => IF_'[c]
  BY <1>0, <1>1, Zenon DEF Core, SpinTypeOK
<1>8. want[c] = None
  BY Zenon DEF trapret, Runs
<1>9. panicked' = FALSE /\ intena' \in [Cpus -> BOOLEAN]
  BY <1>0, <1>2, Zenon DEF Core, SpinTypeOK
<1>10. /\ \A d \in Cpus : Places(d)' = Places(d)
       /\ \A d \in Cpus : want[d] = None \/ Spun(d)' = Spun(d)
  BY <1>5, <1>6, <1>8, Zenon
<1>11. \A d \in Cpus : Places(d) = {} \/ ~ IF_'[d]
  BY <1>0, <1>5, <1>6, <1>7, Zenon DEF Core, Held
<1>12. SpinTypeOK' /\ Held' /\ ~ panicked'
  BY <1>0, <1>2, <1>7, <1>9, <1>10, <1>11, QuietHeld, Zenon DEF Core
<1>13. Threading' /\ Handler'
  BY <1>0, <1>1, <1>3, <1>4, MoveThreading, MoveHandler, Zenon DEF Core
<1>14. FlagsKept'
  BY <1>0, <1>1, <1>2, <1>3, <1>4, <1>7, MoveFlags, Zenon DEF Core
<1>15. Core'
  BY <1>12, <1>13, <1>14, Zenon DEF Core
<1>16. Ring' /\ UNCHANGED <<r, w>>
  BY <1>0, <1>2, RingSame, Zenon
<1>17. Sleeps'
  BY <1>0, <1>1, <1>3, <1>4, <1>16, MoveSleeps, Zenon DEF Core
<1> QED BY <1>15, <1>16, <1>17, InvCore, PTL

\* The xchg of a spinning processor.
LEMMA SpinInv ==
  ASSUME Inv, NEW c \in Cpus, Spin(c)
  PROVE  Inv'
<1>1. UNCHANGED ring /\ UNCHANGED sched_ /\ UNCHANGED at /\ UNCHANGED intr /\ xchg(c)
  BY Zenon DEF Spin
<1>2. UNCHANGED <<cur, state, saved, killed>>
  BY <1>1, Zenon DEF sched_
<1>3. \A d \in Cpus : Places(d)' = Places(d)
  BY <1>1, <1>2, Zenon DEF Places
<1>4. \A d \in Cpus : Spun(d)' = Spun(d)
  BY <1>1, <1>2, Zenon DEF Spun
<1>5. SpinTypeOK' /\ Held' /\ ~ panicked'
  BY <1>1, <1>3, <1>4, XchgHeld, Zenon DEF Inv
<1>6. Threading'
  BY <1>1, <1>2 DEF Inv, Threading
<1>7. Handler'
  BY <1>1, <1>2, Zenon DEF Inv, Handler
<1>8. IF_' = IF_ /\ ncli' = ncli /\ intena' = intena
  BY <1>1, Zenon DEF xchg
<1>9. FlagsKept'
  BY <1>1, <1>2, <1>8, Zenon DEF Inv, FlagsKept, Busy
<1>10. Ring' /\ UNCHANGED <<r, w>>
  BY <1>1, RingSame, Zenon DEF Inv
<1>11. Sleeps'
  BY <1>1, <1>2, <1>10, Zenon DEF Inv, Sleeps, NoLostWakeup
<1> QED BY <1>5, <1>6, <1>7, <1>9, <1>10, <1>11, Zenon DEF Inv

\* The scheduler turns interrupts on, then looks for a process.
LEMMA SchedulerTurnInv ==
  ASSUME Inv, NEW c \in Cpus, schedulerTurn(c)
  PROVE  Inv'
<1>0. Core /\ Sleeps /\ Ring
  BY InvCore, Zenon
<1>1. UNCHANGED ring /\ UNCHANGED sched_ /\ UNCHANGED <<cur, intr>> /\ Runs(c, c, "idle")
  BY Zenon DEF schedulerTurn, sched_
<1>2. UNCHANGED <<state, saved, killed>> /\ state' = state
  BY <1>1, KilledKept, Zenon
<1>3. c \in Threads /\ c # Reader /\ "ptable" \in Locks /\ "scan" \in Labels /\ IntrCpu \in Cpus
  BY Parts, LabelNames, Zenon
<1>4. CASE IF_[c]
  <2>1. Moves(c, c, "idle", "scan") /\ acquire(c, "ptable")
    BY <1>1, <1>4, Zenon DEF schedulerTurn, Moves
  <2>2. "ptable" \notin HeldAt("idle") /\ HeldAt("scan") = HeldAt("idle") \cup {"ptable"}
        /\ "ptable" \in SpunAt("scan")
    BY HeldAtLabels, SpunAtLabels, Zenon
  <2> QED BY <1>1, <1>2, <1>3, <2>1, <2>2, AcquireInv, Zenon
<1>5. CASE ~ IF_[c]
  <2>1. IF_' = [IF_ EXCEPT ![c] = TRUE] /\ UNCHANGED <<lk, want, ncli, intena, panicked, at>>
    BY <1>5, Zenon DEF schedulerTurn
  <2>2. /\ IF_' \in [Cpus -> BOOLEAN] /\ IF_'[c]
        /\ \A d \in Cpus : d # c => IF_'[d] = IF_[d]
    BY <1>0, <2>1, Zenon DEF Core, SpinTypeOK
  <2>3. \A d \in Cpus : Places(d)' = Places(d)
    BY <1>1, <2>1, Zenon DEF Places
  <2>4. \A d \in Cpus : Spun(d)' = Spun(d)
    BY <1>1, <2>1, Zenon DEF Spun
  <2>5. Places(c) = {}
    <3>1. HandlerHeld("none") = {}
      BY Zenon DEF HandlerHeld
    <3>2. at[cur[c]] = "idle" /\ (c = IntrCpu => intr = "none")
      BY <1>1, Zenon DEF Runs
    <3> QED BY <3>1, <3>2, HeldAtLabels, Zenon DEF Places
  <2>6. \A d \in Cpus : Places(d) = {} \/ ~ IF_'[d]
    BY <1>0, <2>2, <2>5, Zenon DEF Core, Held
  <2>7. panicked' = FALSE /\ intena' \in [Cpus -> BOOLEAN]
    BY <1>0, <2>1, Zenon DEF Core, SpinTypeOK
  <2>8. SpinTypeOK' /\ Held' /\ ~ panicked'
    BY <1>0, <2>1, <2>2, <2>3, <2>4, <2>6, <2>7, QuietHeld, Zenon DEF Core
  <2>9. Threading' /\ Handler'
    BY <1>0, <1>1, <1>2, <2>1 DEF Core, Threading, Handler
  <2>10. FlagsKept'
    <3>1. ASSUME NEW d \in Cpus, ~ Busy(d)', at'[cur'[d]] \in {"user", "reacquire"} PROVE IF_'[d]
      <4>1. ~ Busy(d) /\ at[cur[d]] \in {"user", "reacquire"}
        BY <1>1, <2>1, <3>1, Zenon DEF Busy
      <4>2. IF_[d]
        BY <1>0, <4>1, Zenon DEF Core, FlagsKept
      <4> QED BY <2>2, <4>2, Zenon
    <3>2. intr' # "none" => ~ IF_'[IntrCpu]
      <4>1. intr # "none" => c # IntrCpu
        BY <1>1, Zenon DEF Runs
      <4> QED BY <1>0, <1>1, <1>3, <2>2, <4>1, Zenon DEF Core, FlagsKept
    <3> QED BY <1>0, <1>1, <1>2, <2>1, <3>1, <3>2, Zenon DEF Core, FlagsKept
  <2>11. Ring' /\ UNCHANGED <<r, w>>
    BY <1>0, <1>1, RingSame, Zenon
  <2>12. Sleeps'
    BY <1>0, <1>1, <1>2, <2>1, <2>11, Zenon DEF Sleeps, NoLostWakeup
  <2>13. Core'
    BY <2>8, <2>9, <2>10, Zenon DEF Core
  <2> QED BY <2>11, <2>12, <2>13, InvCore, PTL
<1> QED BY <1>4, <1>5, Zenon

\* swtch to a process that runs nowhere, inside sched(): it takes over
\* ptable.lock, and its own interrupt flag.
LEMMA DispatchInv ==
  ASSUME Inv, NEW c \in Cpus, NEW p \in Procs, dispatch(c, p)
  PROVE  Inv'
<1>0. Core /\ Sleeps /\ Ring
  BY InvCore, Zenon
<1>1. /\ UNCHANGED <<lk, want, IF_, ncli, panicked, at, intr, saved, killed>> /\ UNCHANGED ring
      /\ Runs(c, c, "scan") /\ state[p] = "RUNNABLE"
      /\ state' = [state EXCEPT ![p] = "RUNNING"] /\ cur' = [cur EXCEPT ![c] = p]
      /\ intena' = [intena EXCEPT ![c] = saved[p]]
  BY Zenon DEF dispatch, Restored
<1>2. /\ c \in Threads /\ c # Reader /\ p \in Threads /\ p \notin Cpus
      /\ IntrCpu \in Cpus /\ Reader \in Procs
  BY Parts, Zenon
<1>3. /\ cur[c] = c /\ at[c] = "scan" /\ (c = IntrCpu => intr = "none") /\ want[c] = None
      /\ at[p] \in {"yielded", "slept"} /\ \A d \in Cpus : cur[d] # p
  BY <1>0, <1>1 DEF Runs, Core, Threading
<1>4. cur'[c] = p /\ \A d \in Cpus : d # c => cur'[d] = cur[d]
  BY <1>0, <1>1 DEF Core, Threading
<1>5. /\ intena' \in [Cpus -> BOOLEAN] /\ intena'[c] = saved[p]
      /\ \A d \in Cpus : d # c => intena'[d] = intena[d]
  BY <1>0, <1>1, Zenon DEF Core, SpinTypeOK, FlagsKept
<1>6. Places(c) = {"ptable"} /\ Places(c)' = {"ptable"}
  <2>1. HandlerHeld("none") = {}
    BY Zenon DEF HandlerHeld
  <2>2. HeldAt(at[cur[c]]) = {"ptable"} /\ HeldAt(at'[cur'[c]]) = {"ptable"}
    BY <1>1, <1>3, <1>4, HeldAtLabels, Zenon
  <2> QED BY <1>1, <1>3, <2>1, <2>2, Zenon DEF Places
<1>7. \A d \in Cpus : d # c => Places(d)' = Places(d)
  BY <1>1, <1>4, Zenon DEF Places
<1>8. \A d \in Cpus : d # c => Spun(d)' = Spun(d)
  BY <1>1, <1>4, Zenon DEF Spun
<1>9. /\ \A d \in Cpus : Places(d)' = Places(d)
      /\ \A d \in Cpus : want[d] = None \/ Spun(d)' = Spun(d)
  BY <1>3, <1>6, <1>7, <1>8, Zenon
<1>10. panicked' = FALSE /\ IF_' \in [Cpus -> BOOLEAN]
  BY <1>0, <1>1, Zenon DEF Core, SpinTypeOK
<1>11. \A d \in Cpus : Places(d) = {} \/ ~ IF_'[d]
  BY <1>0, <1>1, Zenon DEF Core, Held
<1>12. SpinTypeOK' /\ Held' /\ ~ panicked'
  BY <1>0, <1>1, <1>5, <1>9, <1>10, <1>11, QuietHeld, Zenon DEF Core
<1>13. Threading'
  <2>1. /\ state'[p] = "RUNNING" /\ \A q \in Procs : q # p => state'[q] = state[q]
        /\ state' \in [Procs -> {"RUNNING", "RUNNABLE", "SLEEPING", "ZOMBIE"}]
    BY <1>0, <1>1 DEF Core, Threading
  <2>2. cur' \in [Cpus -> Threads]
    BY <1>0, <1>1, <1>2, Zenon DEF Core, Threading
  <2>3. \A d, f \in Cpus : cur'[d] = cur'[f] => d = f
    BY <1>0, <1>3, <1>4 DEF Core, Threading
  <2>4. \A d \in Cpus : cur'[d] = d \/ cur'[d] \in Procs
    BY <1>0, <1>4, Zenon DEF Core, Threading
  <2>5. ASSUME NEW d \in Cpus, cur'[d] \in Procs
        PROVE  state'[cur'[d]] = "RUNNING" /\ at'[d] = "scan"
    <3>1. at' = at
      BY <1>1, Zenon
    <3>2. CASE d = c
      BY <1>3, <1>4, <2>1, <3>1, <3>2, Zenon
    <3>3. CASE d # c
      <4>1. cur'[d] = cur[d] /\ cur[d] # p
        BY <1>3, <1>4, <3>3, Zenon
      <4>2. state[cur[d]] = "RUNNING" /\ at[d] = "scan"
        BY <1>0, <2>5, <4>1, Zenon DEF Core, Threading
      <4> QED BY <2>1, <2>5, <3>1, <4>1, <4>2, Zenon
    <3> QED BY <3>2, <3>3, Zenon
  <2>6. ASSUME NEW q \in Procs, state'[q] = "RUNNING" PROVE \E d \in Cpus : cur'[d] = q
    <3>1. CASE q = p
      BY <1>4, <3>1, Zenon
    <3>2. CASE q # p
      <4>1. PICK d \in Cpus : cur[d] = q
        BY <1>0, <2>1, <2>6, <3>2 DEF Core, Threading
      <4>2. d # c
        BY <1>2, <1>3, <4>1, Parts, Zenon
      <4> QED BY <1>4, <4>1, <4>2, Zenon
    <3> QED BY <3>1, <3>2, Zenon
  <2>7. /\ \A q \in Procs : state'[q] = "RUNNABLE" => at'[q] \in {"yielded", "slept"}
        /\ \A q \in Procs : state'[q] = "SLEEPING" => at'[q] = "slept"
        /\ \A q \in Procs : state'[q] = "ZOMBIE" => at'[q] = "zombie"
    BY <1>0, <1>1, <2>1 DEF Core, Threading
  <2>8. /\ at' \in [Threads -> Labels]
        /\ killed' \subseteq {Reader} /\ \A d \in Cpus : at'[d] \in {"idle", "scan"}
    BY <1>0, <1>1, Zenon DEF Core, Threading
  <2> QED BY <2>1, <2>2, <2>3, <2>4, <2>5, <2>6, <2>7, <2>8, Zenon DEF Threading
<1>14. Handler'
  <2>1. intr # "none" => cur'[IntrCpu] = cur[IntrCpu]
    BY <1>2, <1>3, <1>4, Zenon
  <2> QED BY <1>0, <1>1, <2>1, Zenon DEF Core, Handler
<1>15. FlagsKept'
  <2>1. ASSUME NEW d \in Cpus, ~ Busy(d)', at'[cur'[d]] \in {"user", "reacquire"} PROVE IF_'[d]
    <3>1. d # c
      BY <1>1, <1>3, <1>4, <2>1, Zenon
    <3>2. ~ Busy(d) /\ at[cur[d]] \in {"user", "reacquire"}
      BY <1>1, <1>4, <2>1, <3>1, Zenon DEF Busy
    <3> QED BY <1>0, <1>1, <3>2, Zenon DEF Core, FlagsKept
  <2>2. ASSUME NEW d \in Cpus, cur'[d] = Reader,
               at'[Reader] \in {"read", "sleep", "sleeping", "slept"}
        PROVE  intena'[d]
    <3>1. CASE d = c
      <4>1. p = Reader /\ at[Reader] = "slept"
        BY <1>1, <1>3, <1>4, <2>2, <3>1, Zenon
      <4>2. saved[p]
        BY <1>0, <4>1, Zenon DEF Core, FlagsKept
      <4> QED BY <1>5, <3>1, <4>2, Zenon
    <3>2. CASE d # c
      <4>1. cur[d] = Reader /\ at[Reader] \in {"read", "sleep", "sleeping", "slept"}
        BY <1>1, <1>4, <2>2, <3>2, Zenon
      <4>2. intena[d]
        BY <1>0, <4>1, Zenon DEF Core, FlagsKept
      <4> QED BY <1>5, <3>2, <4>2, Zenon
    <3> QED BY <3>1, <3>2, Zenon
  <2>3. intr' # "none" /\ ncli'[IntrCpu] > 0 => ~ intena'[IntrCpu]
    <3>1. intr' = intr /\ ncli' = ncli /\ (intr # "none" => intena'[IntrCpu] = intena[IntrCpu])
      BY <1>1, <1>2, <1>3, <1>5, Zenon
    <3> QED BY <1>0, <3>1, Zenon DEF Core, FlagsKept
  <2> QED BY <1>0, <1>1, <2>1, <2>2, <2>3, Zenon DEF Core, FlagsKept
<1>16. Ring' /\ UNCHANGED <<r, w>>
  BY <1>0, <1>1, RingSame, Zenon
<1>17. Sleeps'
  <2>1. state'[Reader] = "SLEEPING" => state[Reader] = "SLEEPING"
    BY <1>0, <1>1, <1>2 DEF Core, Threading
  <2> QED BY <1>0, <1>1, <1>16, <2>1, Zenon DEF Sleeps, NoLostWakeup
<1>18. Core'
  BY <1>12, <1>13, <1>14, <1>15, Zenon DEF Core
<1> QED BY <1>16, <1>17, <1>18, InvCore, PTL
\* A process that gives up its processor c: its label says with which state.
GivesUp(c, p, s, l0, l1) ==
  /\ Runs(c, p, l0) /\ sched(c, p, s) /\ Goto(p, l1)
  /\ UNCHANGED intr /\ UNCHANGED ring
  /\ \/ s = "RUNNABLE" /\ l1 = "yielded"
     \/ s = "SLEEPING" /\ l0 = "sleeping" /\ l1 = "slept" /\ p = Reader
     \/ s = "ZOMBIE" /\ l1 = "zombie"

\* sched(): its checks pass, and the scheduler takes over ptable.lock.
LEMMA SchedInv ==
  ASSUME Inv, NEW c \in Cpus, NEW p \in Procs, NEW s, NEW l0, NEW l1, GivesUp(c, p, s, l0, l1),
         HeldAt(l0) = {"ptable"}
  PROVE  Inv'
<1>0. Core /\ Sleeps /\ Ring
  BY InvCore, Zenon
<1>1. /\ UNCHANGED <<lk, want, IF_, ncli, intena, intr, killed>> /\ UNCHANGED ring
      /\ Runs(c, p, l0) /\ at' = [at EXCEPT ![p] = l1]
      /\ state' = [state EXCEPT ![p] = s] /\ cur' = [cur EXCEPT ![c] = c]
      /\ saved' = [saved EXCEPT ![p] = intena[c]]
      /\ panicked' = (lk["ptable"] # c \/ ncli[c] # 1 \/ IF_[c])
  BY Zenon DEF GivesUp, sched, Goto, holding
<1>2. c \in Threads /\ c # Reader /\ p \in Threads /\ p \notin Cpus /\ IntrCpu \in Cpus
      /\ Reader \in Procs /\ Reader \in Threads /\ Cpus \subseteq Threads /\ Procs \subseteq Threads
      /\ "ptable" \in Locks /\ None \notin Locks
  BY Parts, ConsoleAssumption, Zenon
<1>3. /\ cur[c] = p /\ at[p] = l0 /\ at[c] = "scan"
      /\ (c = IntrCpu => intr = "none") /\ want[c] = None
      /\ \A d \in Cpus : d # c => cur[d] # p
  BY <1>0, <1>1 DEF Runs, Core, Threading
<1>4. cur'[c] = c /\ \A d \in Cpus : d # c => cur'[d] = cur[d] /\ cur[d] # c
  <2>1. \A d \in Cpus : d # c => cur[d] # c
    BY <1>0, Parts DEF Core, Threading
  <2> QED BY <1>0, <1>1, <2>1 DEF Core, Threading
<1>5. l1 \in Labels /\ s \in {"RUNNING", "RUNNABLE", "SLEEPING", "ZOMBIE"}
  BY LabelNames, Zenon DEF GivesUp
<1>6. at'[p] = l1 /\ (\A u \in Threads : u # p => at'[u] = at[u]) /\ at' \in [Threads -> Labels]
  <2>1. at \in [Threads -> Labels]
    BY <1>0, Zenon DEF Core, Threading
  <2>2. at' = [at EXCEPT ![p] = l1] /\ p \in Threads /\ l1 \in Labels
    BY <1>1, <1>2, <1>5, Zenon
  <2> QED BY <2>1, <2>2, Zenon
<1>7. Places(c) = {"ptable"} /\ Places(c)' = {"ptable"}
  <2>1. HandlerHeld("none") = {}
    BY Zenon DEF HandlerHeld
  <2>2. at[cur[c]] = l0 /\ at'[cur'[c]] = "scan"
    BY <1>2, <1>3, <1>4, <1>6, Zenon
  <2>3. HeldAt(at[cur[c]]) = {"ptable"} /\ HeldAt(at'[cur'[c]]) = {"ptable"}
    BY <2>2, HeldAtLabels, Zenon
  <2> QED BY <1>1, <1>3, <2>1, <2>3, Zenon DEF Places
<1>8. \A d \in Cpus : d # c => at'[cur'[d]] = at[cur[d]]
  BY <1>0, <1>3, <1>4, <1>6 DEF Core, Threading
<1>9. \A d \in Cpus : d # c => Places(d)' = Places(d)
  BY <1>1, <1>8, Zenon DEF Places
<1>10. \A d \in Cpus : d # c => Spun(d)' = Spun(d)
  BY <1>1, <1>8, Zenon DEF Spun
<1>11. /\ \A d \in Cpus : Places(d)' = Places(d)
       /\ \A d \in Cpus : want[d] = None \/ Spun(d)' = Spun(d)
  BY <1>3, <1>7, <1>9, <1>10, Zenon
<1>12. panicked' = FALSE
  <2>1. lk["ptable"] = c
    BY <1>0, <1>2, <1>3, <1>7 DEF Core, Held
  <2>2. ncli[c] = Cardinality(Places(c))
    BY <1>0, Zenon DEF Core, Held
  <2>3. ncli[c] = 1
    BY <1>7, <2>2, LockNumbers, Zenon
  <2>4. ~ IF_[c]
    BY <1>0, <1>7, Zenon DEF Core, Held
  <2> QED BY <1>1, <2>1, <2>3, <2>4, Zenon
<1>13. \A d \in Cpus : Places(d) = {} \/ ~ IF_'[d]
  BY <1>0, <1>1, Zenon DEF Core, Held
<1>14. IF_' \in [Cpus -> BOOLEAN] /\ intena' \in [Cpus -> BOOLEAN]
  BY <1>0, <1>1, Zenon DEF Core, SpinTypeOK
<1>15. SpinTypeOK' /\ Held' /\ ~ panicked'
  BY <1>0, <1>1, <1>11, <1>12, <1>13, <1>14, QuietHeld, Zenon DEF Core
<1>16. /\ state'[p] = s /\ \A q \in Procs : q # p => state'[q] = state[q]
       /\ state' \in [Procs -> {"RUNNING", "RUNNABLE", "SLEEPING", "ZOMBIE"}]
  BY <1>0, <1>1, <1>5 DEF Core, Threading
<1>17. s # "RUNNING" /\ (s = "RUNNABLE" => l1 = "yielded") /\ (s = "SLEEPING" => l1 = "slept")
       /\ (s = "ZOMBIE" => l1 = "zombie")
  BY Zenon DEF GivesUp
<1>18. Threading'
  <2>1. cur' \in [Cpus -> Threads]
    BY <1>0, <1>1, <1>2, Zenon DEF Core, Threading
  <2>2. \A d, f \in Cpus : cur'[d] = cur'[f] => d = f
    BY <1>0, <1>4 DEF Core, Threading
  <2>3. \A d \in Cpus : cur'[d] = d \/ cur'[d] \in Procs
    BY <1>0, <1>4, Zenon DEF Core, Threading
  <2>4. \A d \in Cpus : at'[d] = at[d]
    BY <1>2, <1>6, Zenon
  <2>5. \A d \in Cpus : cur'[d] \in Procs => state'[cur'[d]] = "RUNNING" /\ at'[d] = "scan"
    BY <1>0, <1>3, <1>4, <1>16, <2>4, Parts DEF Core, Threading
  <2>6. ASSUME NEW q \in Procs, state'[q] = "RUNNING" PROVE \E d \in Cpus : cur'[d] = q
    <3>1. q # p /\ state[q] = "RUNNING"
      BY <1>16, <1>17, <2>6, Zenon
    <3>2. PICK d \in Cpus : cur[d] = q
      BY <1>0, <3>1, Zenon DEF Core, Threading
    <3>3. d # c
      BY <1>3, <3>1, <3>2, Zenon
    <3> QED BY <1>4, <3>2, <3>3, Zenon
  <2>7. /\ \A q \in Procs : state'[q] = "RUNNABLE" => at'[q] \in {"yielded", "slept"}
        /\ \A q \in Procs : state'[q] = "SLEEPING" => at'[q] = "slept"
        /\ \A q \in Procs : state'[q] = "ZOMBIE" => at'[q] = "zombie"
    BY <1>0, <1>2, <1>6, <1>16, <1>17 DEF Core, Threading
  <2>8. killed' \subseteq {Reader} /\ \A d \in Cpus : at'[d] \in {"idle", "scan"}
    BY <1>0, <1>1, <2>4, Zenon DEF Core, Threading
  <2> QED BY <1>6, <1>16, <2>1, <2>2, <2>3, <2>5, <2>6, <2>7, <2>8, Zenon DEF Threading
<1>19. Handler'
  <2>1. intr # "none" => at'[cur'[IntrCpu]] = at[cur[IntrCpu]]
    BY <1>2, <1>3, <1>8, Zenon
  <2> QED BY <1>0, <1>1, <2>1, Zenon DEF Core, Handler
<1>20. FlagsKept'
  <2>1. ASSUME NEW d \in Cpus, ~ Busy(d)', at'[cur'[d]] \in {"user", "reacquire"} PROVE IF_'[d]
    <3>1. d # c
      BY <1>2, <1>3, <1>4, <1>6, <2>1, Zenon
    <3>2. ~ Busy(d) /\ at[cur[d]] \in {"user", "reacquire"}
      BY <1>1, <1>8, <2>1, <3>1, Zenon DEF Busy
    <3> QED BY <1>0, <1>1, <3>2, Zenon DEF Core, FlagsKept
  <2>2. ASSUME NEW d \in Cpus, cur'[d] = Reader,
               at'[Reader] \in {"read", "sleep", "sleeping", "slept"}
        PROVE  intena'[d]
    <3>1. d # c
      BY <1>2, <1>4, <2>2, Zenon
    <3>2. cur[d] = Reader /\ at'[Reader] = at[Reader]
      BY <1>2, <1>3, <1>4, <1>6, <2>2, <3>1, Zenon
    <3>3. cur[d] = Reader /\ at[Reader] \in {"read", "sleep", "sleeping", "slept"}
      BY <2>2, <3>2, Zenon
    <3> QED BY <1>0, <1>1, <3>3, Zenon DEF Core, FlagsKept
  <2>3. /\ saved' \in [Procs -> BOOLEAN] /\ saved'[p] = intena[c]
        /\ \A q \in Procs : q # p => saved'[q] = saved[q]
    BY <1>0, <1>1, Zenon DEF Core, FlagsKept, SpinTypeOK
  <2>4. ASSUME at'[Reader] = "slept" PROVE saved'[Reader]
    <3>1. CASE p = Reader
      <4>1. l0 = "sleeping"
        BY <1>6, <2>4, <3>1, Zenon DEF GivesUp
      <4>2. cur[c] = Reader /\ at[Reader] = "sleeping"
        BY <1>3, <3>1, <4>1, Zenon
      <4>3. intena[c]
        BY <1>0, <4>2, Zenon DEF Core, FlagsKept
      <4> QED BY <2>3, <3>1, <4>3, Zenon
    <3>2. CASE p # Reader
      <4>1. at[Reader] = "slept"
        BY <1>2, <1>6, <2>4, <3>2, Zenon
      <4>2. saved[Reader]
        BY <1>0, <4>1, Zenon DEF Core, FlagsKept
      <4> QED BY <1>2, <2>3, <3>2, <4>2, Zenon
    <3> QED BY <3>1, <3>2, Zenon
  <2> QED BY <1>0, <1>1, <2>1, <2>2, <2>3, <2>4, Zenon DEF Core, FlagsKept
<1>21. Ring' /\ UNCHANGED <<r, w>>
  BY <1>0, <1>1, RingSame, Zenon
<1>22. Sleeps'
  <2>1. l1 # "sleep" /\ l1 # "sleeping" /\ (s = "SLEEPING" => l0 = "sleeping" /\ p = Reader)
    BY Zenon DEF GivesUp
  <2>2. at'[Reader] = "sleep" => at[Reader] = "sleep"
    BY <1>2, <1>6, <2>1, Zenon
  <2>3. at'[Reader] = "sleeping" => at[Reader] = "sleeping"
    BY <1>2, <1>6, <2>1, Zenon
  <2>4. state'[Reader] = "SLEEPING" => state[Reader] = "SLEEPING" \/ at[Reader] = "sleeping"
    BY <1>2, <1>3, <1>16, <2>1, Zenon
  <2> QED BY <1>0, <1>1, <1>21, <2>2, <2>3, <2>4, Zenon DEF Sleeps, NoLostWakeup
<1>23. Core'
  BY <1>15, <1>18, <1>19, <1>20, Zenon DEF Core
<1> QED BY <1>21, <1>22, <1>23, InvCore, PTL

\* yield switches to the scheduler.
LEMMA YieldSchedInv ==
  ASSUME Inv, NEW c \in Cpus, NEW p \in Procs, yieldSched(c, p)
  PROVE  Inv'
<1>1. GivesUp(c, p, "RUNNABLE", "yield", "yielded")
  BY Zenon DEF yieldSched, GivesUp
<1> QED BY <1>1, HeldAtLabels, SchedInv, Zenon

\* sleep switches to the scheduler.
LEMMA SleepSchedInv ==
  ASSUME Inv, NEW c \in Cpus, sleepSched(c)
  PROVE  Inv'
<1>1. GivesUp(c, Reader, "SLEEPING", "sleeping", "slept")
  BY Zenon DEF sleepSched, GivesUp
<1> QED BY <1>1, Parts, HeldAtLabels, SchedInv, Zenon

\* exit() switches to the scheduler for good.
LEMMA ExitSchedInv ==
  ASSUME Inv, NEW c \in Cpus, NEW p \in Procs, exitSched(c, p)
  PROVE  Inv'
<1>1. at' = [at EXCEPT ![p] = "zombie"]
  <2>1. at \in [Threads -> Labels] /\ at' = at /\ at[p] = "zombie"
    BY Zenon DEF Inv, Threading, exitSched, Runs
  <2> QED BY <2>1, Zenon
<1>2. GivesUp(c, p, "ZOMBIE", "zombie", "zombie")
  BY <1>1, Zenon DEF exitSched, GivesUp, Goto
<1> QED BY <1>2, HeldAtLabels, SchedInv, Zenon
-----------------------------------------------------------------------------
(* Steps of the handler *)

\* A step that leaves locks, threads and flags alone.
LEMMA CoreSame ==
  ASSUME Core, UNCHANGED spin, UNCHANGED <<cur, state, saved, killed, at, intr>>
  PROVE  Core'
<1>1. UNCHANGED <<lk, want, IF_, ncli, intena, panicked>>
  BY Zenon DEF spin
<1>2. \A d \in Cpus : Places(d)' = Places(d)
  BY Zenon DEF Places
<1>3. \A d \in Cpus : Spun(d)' = Spun(d)
  BY Zenon DEF Spun
<1>4. panicked' = FALSE /\ IF_' \in [Cpus -> BOOLEAN] /\ intena' \in [Cpus -> BOOLEAN]
  BY <1>1, Zenon DEF Core, SpinTypeOK
<1>5. \A d \in Cpus : Places(d) = {} \/ ~ IF_'[d]
  BY <1>1, Zenon DEF Core, Held
<1>6. SpinTypeOK' /\ Held' /\ ~ panicked'
  BY <1>1, <1>2, <1>3, <1>4, <1>5, QuietHeld, Zenon DEF Core
<1>7. Threading'
  BY DEF Core, Threading
<1>8. Handler'
  BY Zenon DEF Core, Handler
<1>9. FlagsKept'
  BY <1>1, Zenon DEF Core, FlagsKept, Busy
<1> QED BY <1>6, <1>7, <1>8, <1>9, Zenon DEF Core

\* The processor of the handler has the handler's locks: what it interrupted
\* has none.
LEMMA HandlerPlaces ==
  ASSUME Handler, intr # "none", UNCHANGED <<cur, at>>
  PROVE  /\ Places(IntrCpu) = HandlerHeld(intr) /\ Places(IntrCpu)' = HandlerHeld(intr')
         /\ HandlerSpun(intr') \subseteq Spun(IntrCpu)'
         /\ \A d \in Cpus : d # IntrCpu => Places(d)' = Places(d)
         /\ \A d \in Cpus : d # IntrCpu => Spun(d)' = Spun(d)
<1>1. HeldAt(at[cur[IntrCpu]]) = {}
  BY Zenon DEF Handler
<1>2. HeldAt(at'[cur'[IntrCpu]]) = {}
  BY <1>1, Zenon
<1>3. Places(IntrCpu) = HandlerHeld(intr)
  BY <1>1, Zenon DEF Places
<1>4. Places(IntrCpu)' = HandlerHeld(intr')
  BY <1>2, Zenon DEF Places
<1>5. HandlerSpun(intr') \subseteq Spun(IntrCpu)'
  BY Zenon DEF Spun
<1>6. \A d \in Cpus : d # IntrCpu => Places(d)' = Places(d)
  BY Zenon DEF Places
<1>7. \A d \in Cpus : d # IntrCpu => Spun(d)' = Spun(d)
  BY Zenon DEF Spun
<1> QED BY <1>3, <1>4, <1>5, <1>6, <1>7, Zenon

\* The handler moves no thread; it may wake the reader.
LEMMA HandlerThreading ==
  ASSUME Threading, UNCHANGED <<cur, at, killed>>, state' = state \/ state' = WakeReader
  PROVE  Threading'
<1>1. /\ state' \in [Procs -> {"RUNNING", "RUNNABLE", "SLEEPING", "ZOMBIE"}]
      /\ \A p \in Procs : \/ state'[p] = state[p]
                          \/ state[p] = "SLEEPING" /\ state'[p] = "RUNNABLE"
  BY WakeState, Zenon DEF Threading
<1>2. \A c \in Cpus : cur'[c] \in Procs => state'[cur'[c]] = "RUNNING" /\ at'[c] = "scan"
  BY <1>1 DEF Threading
<1>3. /\ \A p \in Procs : state'[p] = "RUNNING" => \E c \in Cpus : cur'[c] = p
      /\ \A p \in Procs : state'[p] = "RUNNABLE" => at'[p] \in {"yielded", "slept"}
      /\ \A p \in Procs : state'[p] = "SLEEPING" => at'[p] = "slept"
      /\ \A p \in Procs : state'[p] = "ZOMBIE" => at'[p] = "zombie"
  BY <1>1 DEF Threading
<1> QED BY <1>1, <1>2, <1>3 DEF Threading

\* While the handler runs interrupts are off, and pushcli remembers that; the
\* reader it may have interrupted is in none of its sections.
LEMMA HandlerFlags ==
  ASSUME FlagsKept, Handler, UNCHANGED <<cur, at, saved>>,
         \A d \in Cpus : d # IntrCpu => IF_'[d] = IF_[d],
         \A d \in Cpus : d # IntrCpu => intena'[d] = intena[d],
         intr # "none" \/ intena' = intena,
         intr' # "none" => ~ IF_'[IntrCpu],
         intr' # "none" /\ ncli'[IntrCpu] > 0 => ~ intena'[IntrCpu],
         intr' = "none" => IF_'[IntrCpu]
  PROVE  FlagsKept'
<1>1. ASSUME NEW d \in Cpus, ~ Busy(d)', at'[cur'[d]] \in {"user", "reacquire"} PROVE IF_'[d]
  <2>1. CASE d = IntrCpu
    BY <1>1, <2>1, Zenon DEF Busy
  <2>2. CASE d # IntrCpu
    <3>1. ~ Busy(d) /\ at[cur[d]] \in {"user", "reacquire"}
      BY <1>1, <2>2, Zenon DEF Busy
    <3>2. IF_[d]
      BY <3>1, Zenon DEF FlagsKept
    <3> QED BY <2>2, <3>2, Zenon
  <2> QED BY <2>1, <2>2, Zenon
<1>2. ASSUME NEW d \in Cpus, cur'[d] = Reader,
             at'[Reader] \in {"read", "sleep", "sleeping", "slept"}
      PROVE  intena'[d]
  <2>1. cur[d] = Reader /\ at[Reader] \in {"read", "sleep", "sleeping", "slept"}
    BY <1>2, Zenon
  <2>2. intena[d]
    BY <2>1, Zenon DEF FlagsKept
  <2>3. intr # "none" => d # IntrCpu
    <3>1. HeldAt(at[Reader]) # {}
      BY <2>1, HeldAtLabels, Zenon
    <3> QED BY <2>1, <3>1, Zenon DEF Handler
  <2>4. CASE intr # "none"
    BY <2>2, <2>3, <2>4, Zenon
  <2>5. CASE intr = "none"
    BY <2>2, <2>5, Zenon
  <2> QED BY <2>4, <2>5, Zenon
<1> QED BY <1>1, <1>2, Zenon DEF FlagsKept
\* The handler goes from one place to another.
HandlerMoves(l0, l1) ==
  /\ intr = l0 /\ intr' = l1 /\ want[IntrCpu] = None
  /\ l0 \in {"consoleintr", "getc", "wakeup", "procdump", "dumping", "iret"}
  /\ l1 \in {"consoleintr", "getc", "wakeup", "procdump", "dumping", "iret"}
  /\ UNCHANGED <<cur, at, saved, killed>>

\* What the handler interrupted does not move, wherever the handler goes.
LEMMA HandlerStays ==
  ASSUME Core, NEW l0, NEW l1, HandlerMoves(l0, l1)
  PROVE  /\ Handler' /\ IntrCpu \in Cpus /\ intr # "none" /\ intr' # "none"
         /\ UNCHANGED <<cur, at>> /\ saved' = saved /\ killed' = killed
         /\ ~ IF_[IntrCpu] /\ (ncli[IntrCpu] > 0 => ~ intena[IntrCpu])
<1>1. /\ intr # "none" /\ intr' # "none" /\ UNCHANGED <<cur, at>> /\ IntrCpu \in Cpus
      /\ saved' = saved /\ killed' = killed
  BY Parts, Zenon DEF HandlerMoves
<1>2. Handler'
  BY <1>1, Zenon DEF Core, Handler, HandlerMoves
<1>3. ~ IF_[IntrCpu] /\ (ncli[IntrCpu] > 0 => ~ intena[IntrCpu])
  BY <1>1, Zenon DEF Core, FlagsKept
<1> QED BY <1>1, <1>2, <1>3, Zenon

\* The handler takes a lock, ...
LEMMA HandlerAcquireCore ==
  ASSUME Core, NEW l0, NEW l1, HandlerMoves(l0, l1), NEW l \in Locks, acquire(IntrCpu, l),
         l \notin HandlerHeld(l0), HandlerHeld(l1) = HandlerHeld(l0) \cup {l},
         l \in HandlerSpun(l1),
         state' = state
  PROVE  Core'
<1> DEFINE i == IF ncli[IntrCpu] = 0 THEN IF_[IntrCpu] ELSE intena[IntrCpu]
<1>0. intr = l0 /\ intr' = l1
  BY Zenon DEF HandlerMoves
<1>1. /\ Handler' /\ IntrCpu \in Cpus /\ intr # "none" /\ intr' # "none"
      /\ UNCHANGED <<cur, at>> /\ saved' = saved /\ killed' = killed
      /\ ~ IF_[IntrCpu] /\ (ncli[IntrCpu] > 0 => ~ intena[IntrCpu])
  BY HandlerStays, Zenon
<1>2. /\ Places(IntrCpu) = HandlerHeld(l0) /\ Places(IntrCpu)' = HandlerHeld(l1)
      /\ HandlerSpun(l1) \subseteq Spun(IntrCpu)'
      /\ \A d \in Cpus : d # IntrCpu => Places(d)' = Places(d)
      /\ \A d \in Cpus : d # IntrCpu => Spun(d)' = Spun(d)
  BY <1>0, <1>1, HandlerPlaces, Zenon DEF Core
<1>3. /\ l \notin Places(IntrCpu) /\ Places(IntrCpu)' = Places(IntrCpu) \cup {l}
      /\ l \in Spun(IntrCpu)'
  BY <1>2, Zenon
<1>4. Spins(IntrCpu, l, i) /\ i \in BOOLEAN
  BY <1>1, <1>3, AcquireSpins, Zenon DEF Core
<1>5. ~ i
  <2>1. ncli[IntrCpu] # 0 => ncli[IntrCpu] > 0
    BY <1>1, CliDepth, Zenon DEF Core
  <2> QED BY <1>1, <2>1, Zenon
<1> HIDE DEF i
<1>6. SpinTypeOK' /\ Held' /\ ~ panicked'
  BY <1>1, <1>2, <1>3, <1>4, AcquireHeld, Zenon DEF Core
<1>7. Threading'
  BY <1>1, HandlerThreading, Zenon DEF Core
<1>8. /\ \A d \in Cpus : d # IntrCpu => IF_'[d] = IF_[d]
      /\ \A d \in Cpus : d # IntrCpu => intena'[d] = intena[d]
      /\ ~ IF_'[IntrCpu] /\ intena'[IntrCpu] = i
  BY <1>1, <1>4, Zenon DEF Core, SpinTypeOK, Spins
<1>9. ~ intena'[IntrCpu]
  BY <1>5, <1>8, Zenon
<1>10. FlagsKept'
  BY <1>1, <1>8, <1>9, HandlerFlags, Zenon DEF Core
<1> QED BY <1>1, <1>6, <1>7, <1>10, Zenon DEF Core

\* ... and gives it back, with interrupts still off.
LEMMA HandlerReleaseCore ==
  ASSUME Core, NEW l0, NEW l1, HandlerMoves(l0, l1), NEW l \in Locks, release(IntrCpu, l),
         l \in HandlerHeld(l0), HandlerHeld(l1) = HandlerHeld(l0) \ {l},
         state' = state \/ state' = WakeReader
  PROVE  Core'
<1>0. intr = l0 /\ intr' = l1
  BY Zenon DEF HandlerMoves
<1>1. /\ Handler' /\ IntrCpu \in Cpus /\ intr # "none" /\ intr' # "none"
      /\ UNCHANGED <<cur, at>> /\ saved' = saved /\ killed' = killed
      /\ ~ IF_[IntrCpu] /\ (ncli[IntrCpu] > 0 => ~ intena[IntrCpu])
  BY HandlerStays, Zenon
<1>2. /\ Places(IntrCpu) = HandlerHeld(l0) /\ Places(IntrCpu)' = HandlerHeld(l1)
      /\ \A d \in Cpus : d # IntrCpu => Places(d)' = Places(d)
      /\ \A d \in Cpus : d # IntrCpu => Spun(d)' = Spun(d)
  BY <1>0, <1>1, HandlerPlaces, Zenon DEF Core
<1>3. l \in Places(IntrCpu) /\ Places(IntrCpu)' = Places(IntrCpu) \ {l}
  BY <1>2, Zenon
<1>4. SpinTypeOK' /\ Held' /\ ~ panicked'
  BY <1>1, <1>2, <1>3, ReleaseHeld, Zenon DEF Core
<1>5. Threading'
  BY <1>1, HandlerThreading, Zenon DEF Core
<1>6. ncli[IntrCpu] > 0
  BY <1>1, <1>3, CliDepth, Zenon DEF Core
<1>7. /\ \A d \in Cpus : d # IntrCpu => IF_'[d] = IF_[d]
      /\ IF_'[IntrCpu] <=> IF_[IntrCpu] \/ (ncli[IntrCpu] = 1 /\ intena[IntrCpu])
      /\ intena' = intena
  BY <1>1, Zenon DEF Core, SpinTypeOK, release, popcli
<1>8. ~ IF_'[IntrCpu] /\ ~ intena'[IntrCpu]
  BY <1>1, <1>6, <1>7, Zenon
<1>9. FlagsKept'
  BY <1>1, <1>7, <1>8, HandlerFlags, Zenon DEF Core
<1> QED BY <1>1, <1>4, <1>5, <1>9, Zenon DEF Core

\* Nobody else is in a section of a lock the handler has.
LEMMA HandlerExcludes ==
  ASSUME Core, NEW l \in Locks, want[IntrCpu] = None, l \in HandlerHeld(intr), intr # "none",
         l \in HeldAt(at[Reader]), l \notin SpunAt(at[Reader]),
         at[Reader] \in {"sleep", "sleeping"}
  PROVE  FALSE
<1>0. None \notin Locks /\ IntrCpu \in Cpus /\ Reader \in Procs
  BY Parts, ConsoleAssumption, Zenon
<1>1. PICK c \in Cpus : cur[c] = Reader
  BY <1>0 DEF Core, Threading
<1>2. c # IntrCpu
  BY <1>1, Zenon DEF Core, Handler
<1>3. Places(c) = HeldAt(at[Reader]) /\ Spun(c) = SpunAt(at[Reader])
  BY <1>1, <1>2, Zenon DEF Places, Spun
<1>4. lk[l] = c
  BY <1>0, <1>3 DEF Core, Held
<1>5. l \in Places(IntrCpu)
  BY Zenon DEF Places
<1>6. lk[l] = IntrCpu
  BY <1>0, <1>5, Zenon DEF Core, Held
<1> QED BY <1>2, <1>4, <1>6, Zenon

\* The reader still sleeps only on an empty ring, or with the handler about to
\* wake it.
LEMMA HandlerSleeps ==
  ASSUME Threading, Sleeps, UNCHANGED <<at, r>>, state' = state \/ state' = WakeReader,
         at[Reader] = "sleep" => w' = w, w' = w \/ intr' = "wakeup",
         intr = "wakeup" => \/ intr' = "wakeup"
                            \/ state'[Reader] # "SLEEPING" /\ at[Reader] # "sleeping"
  PROVE  Sleeps'
<1>1. state'[Reader] = "SLEEPING" => state[Reader] = "SLEEPING"
  BY WakeState, Parts, Zenon DEF Threading
<1>2. at'[Reader] = "sleep" => r' = w'
  BY Zenon DEF Sleeps
<1>3. at'[Reader] = "sleeping" => r' = w' \/ intr' = "wakeup"
  BY Zenon DEF Sleeps
<1>4. NoLostWakeup'
  BY <1>1, Zenon DEF Sleeps, NoLostWakeup
<1> QED BY <1>2, <1>3, <1>4, Zenon DEF Sleeps
-----------------------------------------------------------------------------
(* The ring *)

\* The ring is smaller than a word, which is a multiple of it.
LEMMA Sizes ==
  /\ INPUT_BUF \in Nat \ {0} /\ WORD \in Nat \ {0} /\ INPUT_BUF < WORD
  /\ WORD % INPUT_BUF = 0
  BY ConsoleAssumption

\* An index of a word, reduced to a place in the ring, goes on where the
\* index does: WORD is a multiple of INPUT_BUF.
LEMMA Wrapped ==
  ASSUME NEW x \in Int, NEW b \in Int
  PROVE  ((x % WORD) + b) % INPUT_BUF = (x + b) % INPUT_BUF
<1>1. x % WORD \in Int
  BY Sizes
<1>2. (((x % WORD) % INPUT_BUF) + b) % INPUT_BUF = ((x % WORD) + b) % INPUT_BUF
  BY <1>1, Sizes, ModAdd, Zenon
<1>3. (x % WORD) % INPUT_BUF = x % INPUT_BUF
  BY Sizes, ModWrap, Zenon
<1>4. ((x % INPUT_BUF) + b) % INPUT_BUF = (x + b) % INPUT_BUF
  BY Sizes, ModAdd, Zenon
<1> QED BY <1>2, <1>3, <1>4, Zenon

\* The difference of two indices is their distance.
LEMMA Distance ==
  ASSUME NEW a \in Int, NEW n \in 0 .. WORD - 1
  PROVE  (((a + n) % WORD) - a) % WORD = n
<1>1. a + n \in Int /\ -a \in Int
  OBVIOUS
<1>2. (((a + n) % WORD) + (-a)) % WORD = ((a + n) + (-a)) % WORD
  BY <1>1, Sizes, ModAdd, Zenon
<1>3. (a + n) % WORD \in Int
  BY <1>1, Sizes
<1>4. ((a + n) % WORD) + (-a) = ((a + n) % WORD) - a
  <2>1. PICK x \in Int : x = (a + n) % WORD
    BY <1>3, Zenon
  <2>2. x + (-a) = x - a
    OBVIOUS
  <2> QED BY <2>1, <2>2, Zenon
<1>5. (a + n) + (-a) = n
  OBVIOUS
<1>6. n % WORD = n
  BY Sizes, ModSmall, Zenon
<1> QED BY <1>2, <1>4, <1>5, <1>6, Zenon

\* The indices are as far apart as the lines are long.
LEMMA Lengths ==
  ASSUME Ring
  PROVE  /\ Len(pending) \in Nat /\ Len(editing) \in Nat
         /\ Len(pending) + Len(editing) \in 0 .. INPUT_BUF
         /\ r \in Nat /\ {r, w, e} \subseteq 0 .. WORD - 1
         /\ (w - r) % WORD = Len(pending)
         /\ (e - r) % WORD = Len(pending) + Len(editing)
         /\ (e - w) % WORD = Len(editing)
<1> DEFINE n == Len(pending)
           m == Len(editing)
<1>1. /\ n \in Nat /\ m \in Nat /\ n + m <= INPUT_BUF /\ r \in 0 .. WORD - 1
      /\ w = (r + n) % WORD /\ e = (r + n + m) % WORD
  BY DEF Ring
<1> HIDE DEF n, m
<1>2. /\ n \in 0 .. WORD - 1 /\ m \in 0 .. WORD - 1 /\ n + m \in 0 .. WORD - 1
      /\ n + m \in 0 .. INPUT_BUF /\ r \in Nat /\ r \in Int
  BY <1>1, Sizes
<1>3. w \in 0 .. WORD - 1 /\ e \in 0 .. WORD - 1
  <2>1. \A x \in Int : x % WORD \in 0 .. WORD - 1
    BY Sizes
  <2>2. r + n \in Int /\ r + n + m \in Int
    BY <1>1, <1>2
  <2> QED BY <1>1, <2>1, <2>2, Zenon
<1>4. (w - r) % WORD = n
  BY <1>1, <1>2, Distance, Zenon
<1>5. (e - r) % WORD = n + m
  <2>1. r + n + m = r + (n + m)
    BY <1>1, <1>2
  <2> QED BY <1>1, <1>2, <2>1, Distance, Zenon
<1>6. (e - w) % WORD = m
  <2>1. r + n \in Int /\ m \in Int
    BY <1>1, <1>2
  <2>2. (w + m) % WORD = (r + n + m) % WORD
    BY <1>1, <2>1, Sizes, ModAdd, Zenon
  <2>3. e = (w + m) % WORD
    BY <1>1, <2>2, Zenon
  <2>4. w \in Int
    BY <1>3
  <2> QED BY <1>2, <2>3, <2>4, Distance, Zenon
<1>7. {r, w, e} \subseteq 0 .. WORD - 1
  BY <1>1, <1>3, Zenon
<1> QED BY <1>1, <1>2, <1>4, <1>5, <1>6, <1>7, Zenon DEF n, m

\* What Append, \o and SubSeq do to the elements of a line.
LEMMA SeqAppend ==
  ASSUME NEW S, NEW s \in Seq(S), NEW x \in S
  PROVE  /\ Append(s, x) \in Seq(S) /\ Len(Append(s, x)) = Len(s) + 1
         /\ \A k \in 1 .. Len(s) : Append(s, x)[k] = s[k]
         /\ Append(s, x)[Len(s) + 1] = x
  OBVIOUS

\* The second sequence goes behind the first.
LEMMA SeqConcat ==
  ASSUME NEW S, NEW s \in Seq(S), NEW t \in Seq(S)
  PROVE  /\ s \o t \in Seq(S) /\ Len(s \o t) = Len(s) + Len(t)
         /\ \A k \in 1 .. Len(s) : (s \o t)[k] = s[k]
         /\ \A k \in 1 .. Len(t) : (s \o t)[Len(s) + k] = t[k]
  OBVIOUS

\* A sequence cut off behind its first k elements.
LEMMA SeqPrefix ==
  ASSUME NEW S, NEW s \in Seq(S), NEW k \in 0 .. Len(s)
  PROVE  /\ SubSeq(s, 1, k) \in Seq(S) /\ Len(SubSeq(s, 1, k)) = k
         /\ \A j \in 1 .. k : SubSeq(s, 1, k)[j] = s[j]
  OBVIOUS

\* consoleread takes the first byte of the first line.
LEMMA TakeByteRing ==
  ASSUME Ring, r # w, TakeByte
  PROVE  Ring'
<1> DEFINE n == Len(pending)
           m == Len(editing)
<1>1. /\ n \in Nat /\ m \in Nat /\ n + m <= INPUT_BUF /\ r \in Nat /\ r \in 0 .. WORD - 1
      /\ w = (r + n) % WORD /\ e = (r + n + m) % WORD
  BY Lengths, Zenon DEF Ring
<1>2. /\ r' = (r + 1) % WORD /\ pending' = Tail(pending)
      /\ buf' = buf /\ w' = w /\ e' = e /\ editing' = editing
  BY Zenon DEF TakeByte, Next1
<1>3. n > 0
  <2>1. SUFFICES ASSUME n = 0 PROVE FALSE
    BY <1>1
  <2>2. w = r % WORD
    BY <1>1, <2>1
  <2>3. r % WORD = r
    BY <1>1, Sizes, ModSmall, Zenon
  <2> QED BY <2>2, <2>3, Zenon
<1>0. /\ \A k \in 1 .. n : pending[k] = buf[(r + (k - 1)) % INPUT_BUF]
      /\ \A k \in 1 .. m : editing[k] = buf[(r + (n + k - 1)) % INPUT_BUF]
  BY Zenon DEF Ring
<1>4. /\ pending' \in Seq(Chars) /\ Len(pending') = n - 1
      /\ \A k \in 1 .. n - 1 : pending'[k] = pending[k + 1]
  BY <1>2, <1>3 DEF Ring
<1>13. buf' \in [0 .. INPUT_BUF - 1 -> Chars] /\ editing' \in Seq(Chars) /\ Len(editing') = m
  BY <1>2, Zenon DEF Ring
<1> HIDE DEF n, m
<1>5. r' \in 0 .. WORD - 1
  BY <1>1, <1>2, Sizes
<1>6. /\ r + 1 \in Int /\ n - 1 \in Int /\ n - 1 + m \in Int
      /\ r + 1 + (n - 1) = r + n /\ r + 1 + (n - 1 + m) = r + n + m
  BY <1>1
<1>7. w' = (r' + (n - 1)) % WORD
  <2>1. (((r + 1) % WORD) + (n - 1)) % WORD = (r + 1 + (n - 1)) % WORD
    BY <1>6, Sizes, ModAdd, Zenon
  <2> QED BY <1>1, <1>2, <1>6, <2>1, Zenon
<1>8. e' = (r' + (n - 1) + m) % WORD
  <2>1. (((r + 1) % WORD) + (n - 1 + m)) % WORD = (r + 1 + (n - 1 + m)) % WORD
    BY <1>6, Sizes, ModAdd, Zenon
  <2>2. r' + (n - 1) + m = r' + (n - 1 + m)
    BY <1>1, <1>5
  <2> QED BY <1>1, <1>2, <1>6, <2>1, <2>2, Zenon
<1>9. ASSUME NEW j \in Int
      PROVE  (r' + (j - 1)) % INPUT_BUF = (r + j) % INPUT_BUF
  <2>1. (((r + 1) % WORD) + (j - 1)) % INPUT_BUF = (r + 1 + (j - 1)) % INPUT_BUF
    <3>1. j - 1 \in Int
      OBVIOUS
    <3> QED BY <1>6, <3>1, Wrapped, Zenon
  <2>2. r + 1 + (j - 1) = r + j
    BY <1>1
  <2> QED BY <1>2, <2>1, <2>2, Zenon
<1>10. ASSUME NEW k \in 1 .. n - 1
       PROVE  pending'[k] = buf'[(r' + (k - 1)) % INPUT_BUF]
  <2>1. PICK j \in 1 .. n : k \in Int /\ j = k + 1 /\ j - 1 = k
    BY <1>1
  <2>2. pending[k + 1] = buf[(r + k) % INPUT_BUF]
    BY <1>0, <2>1, Zenon
  <2>3. (r' + (k - 1)) % INPUT_BUF = (r + k) % INPUT_BUF
    BY <1>9, <2>1, Zenon
  <2> QED BY <1>2, <1>4, <2>1, <2>2, <2>3, Zenon
<1>11. ASSUME NEW k \in 1 .. m
       PROVE  editing'[k] = buf'[(r' + (n - 1 + k - 1)) % INPUT_BUF]
  <2>1. PICK j \in Int : j = n + k - 1 /\ n - 1 + k - 1 = j - 1
    BY <1>1
  <2>2. editing[k] = buf[(r + j) % INPUT_BUF]
    BY <1>0, <2>1, Zenon
  <2>3. (r' + (j - 1)) % INPUT_BUF = (r + j) % INPUT_BUF
    BY <1>9, Zenon
  <2> QED BY <1>2, <2>1, <2>2, <2>3, Zenon
<1>12. n - 1 + m <= INPUT_BUF
  BY <1>1, Sizes
<1> QED BY <1>4, <1>5, <1>7, <1>8, <1>10, <1>11, <1>12, <1>13, Zenon DEF Ring

\* The next byte goes behind the last one, and over none of them.
LEMMA StoredByte ==
  ASSUME Ring, ~ RingFull, NEW ch \in Chars, buf' = [buf EXCEPT ![e % INPUT_BUF] = ch]
  PROVE  /\ Len(pending) + Len(editing) < INPUT_BUF
         /\ buf' \in [0 .. INPUT_BUF - 1 -> Chars]
         /\ buf'[(r + (Len(pending) + Len(editing))) % INPUT_BUF] = ch
         /\ \A j \in Int : 0 <= j /\ j < Len(pending) + Len(editing) =>
              buf'[(r + j) % INPUT_BUF] = buf[(r + j) % INPUT_BUF]
         /\ Next1(e) = (r + (Len(pending) + Len(editing) + 1)) % WORD
<1> DEFINE n == Len(pending) + Len(editing)
<1>1. n \in 0 .. INPUT_BUF /\ r \in Nat /\ (e - r) % WORD = n
  BY Lengths, Zenon
<1>2. e = (r + n) % WORD
  <2>1. e = (r + Len(pending) + Len(editing)) % WORD
    BY Zenon DEF Ring
  <2>2. r + Len(pending) + Len(editing) = r + (Len(pending) + Len(editing))
    BY Lengths
  <2> QED BY <2>1, <2>2, Zenon
<1>3. buf \in [0 .. INPUT_BUF - 1 -> Chars]
  BY Zenon DEF Ring
<1> HIDE DEF n
<1>4. n < INPUT_BUF /\ r + n \in Int
  <2>1. n # INPUT_BUF
    BY <1>1, Zenon DEF RingFull
  <2> QED BY <1>1, <2>1, Sizes
<1>5. e % INPUT_BUF = (r + n) % INPUT_BUF
  BY <1>2, <1>4, Sizes, ModWrap, Zenon
<1>6. \A x \in Int : x % INPUT_BUF \in 0 .. INPUT_BUF - 1
  BY Sizes
<1>7. e % INPUT_BUF \in 0 .. INPUT_BUF - 1
  BY <1>4, <1>5, <1>6, Zenon
<1>8. buf' \in [0 .. INPUT_BUF - 1 -> Chars]
  <2>1. PICK i \in 0 .. INPUT_BUF - 1 : i = e % INPUT_BUF
    BY <1>7, Zenon
  <2>2. buf' = [buf EXCEPT ![i] = ch]
    BY <2>1, Zenon
  <2> QED BY <1>3, <2>2, Zenon
<1>9. buf'[e % INPUT_BUF] = ch
  BY <1>3, <1>7, Zenon
<1>10. ASSUME NEW j \in Int, 0 <= j, j < n
       PROVE  buf'[(r + j) % INPUT_BUF] = buf[(r + j) % INPUT_BUF]
  <2>1. r + j \in Int /\ r + j < r + n /\ r + n < r + j + INPUT_BUF
    BY <1>1, <1>4, <1>10, Sizes
  <2>2. (r + j) % INPUT_BUF # (r + n) % INPUT_BUF
    BY <1>4, <2>1, Sizes, ModWindow, Zenon
  <2>3. (r + j) % INPUT_BUF \in 0 .. INPUT_BUF - 1
    BY <1>6, <2>1, Zenon
  <2> QED BY <1>3, <1>5, <2>2, <2>3, Zenon
<1>11. Next1(e) = (r + (n + 1)) % WORD
  <2>1. (((r + n) % WORD) + 1) % WORD = (r + n + 1) % WORD
    <3>1. 1 \in Int
      OBVIOUS
    <3> QED BY <1>4, <3>1, Sizes, ModAdd, Zenon
  <2>2. r + n + 1 = r + (n + 1)
    BY <1>1
  <2> QED BY <1>2, <2>1, <2>2, Zenon DEF Next1
<1> QED BY <1>4, <1>5, <1>8, <1>9, <1>10, <1>11, Zenon DEF n

\* A byte in the middle of a line.
LEMMA EditRing ==
  ASSUME Ring, ~ RingFull, NEW ch \in Chars, buf' = [buf EXCEPT ![e % INPUT_BUF] = ch],
         e' = Next1(e), UNCHANGED <<r, w, pending>>, editing' = Append(editing, ch)
  PROVE  Ring'
<1> DEFINE n == Len(pending)
           m == Len(editing)
<1>1. /\ n + m < INPUT_BUF
      /\ buf' \in [0 .. INPUT_BUF - 1 -> Chars]
      /\ buf'[(r + (n + m)) % INPUT_BUF] = ch
      /\ \A j \in Int : 0 <= j /\ j < n + m =>
           buf'[(r + j) % INPUT_BUF] = buf[(r + j) % INPUT_BUF]
      /\ e' = (r + (n + m + 1)) % WORD
  BY StoredByte, Zenon
<1>2. n \in Nat /\ m \in Nat /\ r \in Nat /\ r \in 0 .. WORD - 1 /\ w = (r + n) % WORD
  BY Lengths, Zenon DEF Ring
<1>3. /\ editing' \in Seq(Chars) /\ Len(editing') = m + 1 /\ editing'[m + 1] = ch
      /\ \A k \in 1 .. m : editing'[k] = editing[k]
  BY DEF Ring
<1>4. /\ \A k \in 1 .. n : pending[k] = buf[(r + (k - 1)) % INPUT_BUF]
      /\ \A k \in 1 .. m : editing[k] = buf[(r + (n + k - 1)) % INPUT_BUF]
      /\ pending \in Seq(Chars)
  BY Zenon DEF Ring
<1> HIDE DEF n, m
<1>5. e' = (r + n + (m + 1)) % WORD
  <2>1. r + (n + m + 1) = r + n + (m + 1)
    BY <1>2
  <2> QED BY <1>1, <2>1, Zenon
<1>6. n + (m + 1) <= INPUT_BUF
  BY <1>1, <1>2, Sizes
<1>7. ASSUME NEW k \in 1 .. n PROVE pending[k] = buf'[(r + (k - 1)) % INPUT_BUF]
  <2>1. k - 1 \in Int /\ 0 <= k - 1 /\ k - 1 < n + m
    BY <1>2
  <2> QED BY <1>1, <1>4, <2>1, Zenon
<1>8. ASSUME NEW k \in 1 .. m + 1 PROVE editing'[k] = buf'[(r + (n + k - 1)) % INPUT_BUF]
  <2>1. CASE k = m + 1
    <3>1. n + k - 1 = n + m
      BY <1>2, <2>1
    <3> QED BY <1>1, <1>3, <2>1, <3>1, Zenon
  <2>2. CASE k # m + 1
    <3>1. k \in 1 .. m /\ n + k - 1 \in Int /\ 0 <= n + k - 1 /\ n + k - 1 < n + m
      BY <1>2, <2>2
    <3> QED BY <1>1, <1>3, <1>4, <3>1, Zenon
  <2> QED BY <2>1, <2>2, Zenon
<1> QED BY <1>1, <1>2, <1>3, <1>4, <1>5, <1>6, <1>7, <1>8, Zenon DEF Ring, n, m

\* The byte that ends a line.
LEMMA CommitRing ==
  ASSUME Ring, ~ RingFull, NEW ch \in Chars, buf' = [buf EXCEPT ![e % INPUT_BUF] = ch],
         e' = Next1(e), w' = Next1(e), r' = r,
         pending' = pending \o Append(editing, ch), editing' = <<>>
  PROVE  Ring'
<1> DEFINE n == Len(pending)
           m == Len(editing)
<1>1. /\ n + m < INPUT_BUF
      /\ buf' \in [0 .. INPUT_BUF - 1 -> Chars]
      /\ buf'[(r + (n + m)) % INPUT_BUF] = ch
      /\ \A j \in Int : 0 <= j /\ j < n + m =>
           buf'[(r + j) % INPUT_BUF] = buf[(r + j) % INPUT_BUF]
      /\ e' = (r + (n + m + 1)) % WORD
  BY StoredByte, Zenon
<1>2. n \in Nat /\ m \in Nat /\ r \in Nat /\ r \in 0 .. WORD - 1
  BY Lengths, Zenon DEF Ring
<1>3. pending \in Seq(Chars) /\ editing \in Seq(Chars)
  BY Zenon DEF Ring
<1>4. /\ Append(editing, ch) \in Seq(Chars) /\ Len(Append(editing, ch)) = m + 1
      /\ Append(editing, ch)[m + 1] = ch
      /\ \A k \in 1 .. m : Append(editing, ch)[k] = editing[k]
  BY <1>3, SeqAppend
<1>5. /\ pending' \in Seq(Chars) /\ Len(pending') = n + (m + 1)
      /\ \A k \in 1 .. n : pending'[k] = pending[k]
      /\ \A k \in 1 .. m + 1 : pending'[n + k] = Append(editing, ch)[k]
  <2>1. PICK t \in Seq(Chars) : t = Append(editing, ch) /\ Len(t) = m + 1
    BY <1>4, Zenon
  <2>2. /\ pending \o t \in Seq(Chars) /\ Len(pending \o t) = Len(pending) + Len(t)
        /\ \A k \in 1 .. Len(pending) : (pending \o t)[k] = pending[k]
        /\ \A k \in 1 .. Len(t) : (pending \o t)[Len(pending) + k] = t[k]
    BY <1>3, SeqConcat
  <2>3. pending' = pending \o t
    BY <2>1, Zenon
  <2> QED BY <2>1, <2>2, <2>3, Zenon
<1>6. /\ \A k \in 1 .. n : pending[k] = buf[(r + (k - 1)) % INPUT_BUF]
      /\ \A k \in 1 .. m : editing[k] = buf[(r + (n + k - 1)) % INPUT_BUF]
  BY Zenon DEF Ring
<1>7. editing' \in Seq(Chars) /\ Len(editing') = 0
  OBVIOUS
<1> HIDE DEF n, m
<1>8. ASSUME NEW k \in 1 .. n + (m + 1) PROVE pending'[k] = buf'[(r + (k - 1)) % INPUT_BUF]
  <2>1. CASE k \in 1 .. n
    <3>1. k - 1 \in Int /\ 0 <= k - 1 /\ k - 1 < n + m
      BY <1>2, <2>1
    <3> QED BY <1>1, <1>5, <1>6, <2>1, <3>1, Zenon
  <2>2. CASE \E j \in 1 .. m : k = n + j
    <3>1. PICK j \in 1 .. m : k = n + j
      BY <2>2, Zenon
    <3>2. j \in 1 .. m + 1 /\ k - 1 \in Int /\ 0 <= k - 1 /\ k - 1 < n + m /\ n + j - 1 = k - 1
      BY <1>2, <3>1
    <3>3. pending'[k] = editing[j]
      BY <1>4, <1>5, <3>1, <3>2, Zenon
    <3>4. editing[j] = buf[(r + (k - 1)) % INPUT_BUF]
      BY <1>6, <3>2, Zenon
    <3> QED BY <1>1, <3>2, <3>3, <3>4, Zenon
  <2>3. CASE k = n + (m + 1)
    <3>1. m + 1 \in 1 .. m + 1 /\ k - 1 = n + m
      BY <1>2, <2>3
    <3> QED BY <1>1, <1>4, <1>5, <2>3, <3>1, Zenon
  <2>4. k \in 1 .. n \/ k = n + (m + 1) \/ (k - n \in 1 .. m /\ k = n + (k - n))
    BY <1>2
  <2> QED BY <2>1, <2>2, <2>3, <2>4, Zenon
<1>9. /\ n + (m + 1) + 0 <= INPUT_BUF /\ n + m + 1 = n + (m + 1)
      /\ r + (n + (m + 1)) + 0 = r + (n + (m + 1))
  BY <1>1, <1>2, Sizes
<1>10. w' = (r' + Len(pending')) % WORD
  BY <1>1, <1>5, <1>9, Zenon
<1>11. e' = (r' + Len(pending') + Len(editing')) % WORD
  BY <1>1, <1>5, <1>7, <1>9, Zenon
<1>12. Len(pending') + Len(editing') <= INPUT_BUF
  BY <1>5, <1>7, <1>9, Zenon
<1>13. \A k \in 1 .. Len(pending') : pending'[k] = buf'[(r' + (k - 1)) % INPUT_BUF]
  BY <1>5, <1>8, Zenon
<1>14. 1 .. Len(editing') = {}
  BY <1>7
<1> QED BY <1>1, <1>2, <1>5, <1>7, <1>10, <1>11, <1>12, <1>13, <1>14, Zenon DEF Ring

\* Erasing shortens the line being typed, and no line before it.
LEMMA EraseRing ==
  ASSUME Ring, NEW ch, Erase(ch)
  PROVE  Ring'
<1> DEFINE n == Len(pending)
           m == Len(editing)
           k == IF ch = "^U" THEN (e - w) % WORD ELSE IF e = w THEN 0 ELSE 1
<1>1. /\ n \in Nat /\ m \in Nat /\ n + m \in 0 .. INPUT_BUF /\ r \in Nat /\ r \in 0 .. WORD - 1
      /\ (e - w) % WORD = m /\ w = (r + n) % WORD /\ e = (r + n + m) % WORD
      /\ e \in Int /\ w \in Int
  <2>1. {r, w, e} \subseteq 0 .. WORD - 1 /\ WORD \in Nat
    BY Lengths, Sizes, Zenon
  <2> QED BY <2>1, Lengths DEF Ring
<1>2. /\ e' = (e - k) % WORD /\ editing' = SubSeq(editing, 1, m - k)
      /\ buf' = buf /\ r' = r /\ w' = w /\ pending' = pending
  BY Zenon DEF Erase
<1>3. k \in 0 .. m
  <2>1. CASE ch = "^U"
    BY <1>1, <2>1
  <2>2. CASE ch # "^U" /\ e = w
    BY <1>1, <2>2
  <2>3. CASE ch # "^U" /\ e # w
    <3>1. m # 0
      <4>1. SUFFICES ASSUME m = 0 PROVE e = w
        BY <2>3, Zenon
      <4>2. r + n + m = r + n
        BY <1>1, <4>1
      <4> QED BY <1>1, <4>2, Zenon
    <3>2. k = 1
      BY <2>3, Zenon
    <3> QED BY <1>1, <3>1, <3>2
  <2> QED BY <2>1, <2>2, <2>3, Zenon
<1> HIDE DEF k
<1>4. /\ editing' \in Seq(Chars)
      /\ Len(editing') = m - k /\ \A j \in 1 .. m - k : editing'[j] = editing[j]
  <2>1. editing \in Seq(Chars) /\ m - k \in 0 .. Len(editing)
    BY <1>1, <1>3 DEF Ring
  <2> QED BY <1>2, <2>1, SeqPrefix, Zenon
<1>5. e' = (r + n + (m - k)) % WORD
  <2>1. r + n + m \in Int /\ -k \in Int /\ r + n + m + (-k) = r + n + (m - k)
    BY <1>1, <1>3
  <2>2. (((r + n + m) % WORD) + (-k)) % WORD = (r + n + m + (-k)) % WORD
    BY <2>1, Sizes, ModAdd, Zenon
  <2>3. e + (-k) = e - k
    BY <1>1, <1>3, Zenon
  <2> QED BY <1>1, <1>2, <2>1, <2>2, <2>3, Zenon
<1>6. /\ \A j \in 1 .. n : pending[j] = buf[(r + (j - 1)) % INPUT_BUF]
      /\ \A j \in 1 .. m : editing[j] = buf[(r + (n + j - 1)) % INPUT_BUF]
      /\ pending \in Seq(Chars) /\ buf \in [0 .. INPUT_BUF - 1 -> Chars]
  BY Zenon DEF Ring
<1>7. n + (m - k) <= INPUT_BUF /\ 1 .. m - k \subseteq 1 .. m
  BY <1>1, <1>3, Sizes
<1>8. \A j \in 1 .. m - k : editing'[j] = buf[(r + (n + j - 1)) % INPUT_BUF]
  BY <1>4, <1>6, <1>7, Zenon
<1> HIDE DEF m
<1> QED BY <1>1, <1>2, <1>4, <1>5, <1>6, <1>7, <1>8, Zenon DEF Ring, n
-----------------------------------------------------------------------------
(* consoleread's loop, and the actions of the handler *)

\* One turn of the loop over the bytes of the ring.
LEMMA ReadByteInv ==
  ASSUME Inv, NEW c \in Cpus, readByte(c)
  PROVE  Inv'
<1>0. Core /\ Sleeps /\ Ring
  BY InvCore, Zenon
<1>1. /\ Runs(c, Reader, "read") /\ r # w /\ UNCHANGED sched_ /\ intr' = intr
      /\ UNCHANGED ring \/ TakeByte
      /\ readDone(c) \/ UNCHANGED <<spin, at>>
  BY Zenon DEF readByte
<1>2. /\ UNCHANGED cur /\ UNCHANGED <<state, saved, killed>> /\ killed' \subseteq {Reader}
      /\ saved' = saved /\ state' = state
  BY <1>1, KilledKept, Zenon
<1>3. Ring'
  BY <1>0, <1>1, RingSame, TakeByteRing, Zenon
<1>4. Reader \in Threads /\ Reader \notin Cpus /\ "cons" \in Locks /\ "trapret" \in Labels
      /\ Reader \in Procs
  BY Parts, LabelNames, Zenon
<1>5. state'[Reader] = "RUNNING"
  BY <1>0, <1>1, <1>2, <1>4, Zenon DEF Runs, Core, Threading
<1>6. CASE readDone(c)
  <2>1. Moves(c, Reader, "read", "trapret") /\ release(c, "cons")
    BY <1>1, <1>2, <1>6, Zenon DEF readDone, Moves
  <2>2. "cons" \in HeldAt("read") /\ HeldAt("trapret") = HeldAt("read") \ {"cons"}
    BY HeldAtLabels, Zenon
  <2>3. Core'
    BY <1>0, <1>2, <1>4, <2>1, <2>2, ReleaseCore, Zenon
  <2>4. at'[Reader] = "trapret"
    <3>1. at \in [Threads -> Labels]
      BY <1>0, Zenon DEF Core, Threading
    <3>2. at' = [at EXCEPT ![Reader] = "trapret"]
      BY <2>1, Zenon DEF Moves, Goto
    <3> QED BY <1>4, <3>1, <3>2, Zenon
  <2>5. Sleeps'
    BY <1>5, <2>4, Zenon DEF Sleeps, NoLostWakeup
  <2> QED BY <1>3, <2>3, <2>5, InvCore, PTL
<1>7. CASE UNCHANGED <<spin, at>>
  <2>1. UNCHANGED spin /\ UNCHANGED <<cur, state, saved, killed, at, intr>>
    BY <1>1, <1>2, <1>7, Zenon
  <2>2. Core'
    BY <1>0, <2>1, CoreSame, Zenon
  <2>3. at'[Reader] = "read"
    BY <1>1, <1>7, Zenon DEF Runs
  <2>4. Sleeps'
    BY <1>5, <2>3, Zenon DEF Sleeps, NoLostWakeup
  <2> QED BY <1>3, <2>2, <2>4, InvCore, PTL
<1> QED BY <1>1, <1>6, <1>7, Zenon

\* The keyboard interrupts only a processor that holds no lock.
LEMMA InterruptInv ==
  ASSUME Inv, interrupt
  PROVE  Inv'
<1>0. Core /\ Sleeps /\ Ring
  BY InvCore, Zenon
<1>1. /\ intr = "none" /\ intr' = "consoleintr" /\ IF_[IntrCpu]
      /\ IF_' = [IF_ EXCEPT ![IntrCpu] = FALSE]
      /\ UNCHANGED <<lk, want, ncli, intena, panicked>> /\ UNCHANGED ring /\ UNCHANGED sched_
      /\ at' = at
  BY Zenon DEF interrupt
<1>2. UNCHANGED <<cur, state, saved, killed>> /\ IntrCpu \in Cpus
  BY <1>1, Parts, Zenon DEF sched_
<1>3. Places(IntrCpu) = {}
  BY <1>0, <1>1, <1>2, Zenon DEF Core, Held
<1>4. /\ HandlerHeld("none") = {} /\ HandlerHeld("consoleintr") = {}
      /\ HandlerSpun("none") = {} /\ HandlerSpun("consoleintr") = {}
  BY Zenon DEF HandlerHeld, HandlerSpun
<1>5. HeldAt(at[cur[IntrCpu]]) = {}
  BY <1>3, Zenon DEF Places
<1>6. \A d \in Cpus : Places(d)' = Places(d)
  BY <1>1, <1>2, <1>4, Zenon DEF Places
<1>7. \A d \in Cpus : Spun(d)' = Spun(d)
  BY <1>1, <1>2, <1>4, Zenon DEF Spun
<1>8. /\ IF_' \in [Cpus -> BOOLEAN] /\ ~ IF_'[IntrCpu]
      /\ \A d \in Cpus : d # IntrCpu => IF_'[d] = IF_[d]
  BY <1>0, <1>1, <1>2, Zenon DEF Core, SpinTypeOK
<1>9. \A d \in Cpus : Places(d) = {} \/ ~ IF_'[d]
  BY <1>0, <1>3, <1>8, Zenon DEF Core, Held
<1>10. panicked' = FALSE /\ intena' \in [Cpus -> BOOLEAN]
  BY <1>0, <1>1, Zenon DEF Core, SpinTypeOK
<1>11. SpinTypeOK' /\ Held' /\ ~ panicked'
  BY <1>0, <1>1, <1>6, <1>7, <1>8, <1>9, <1>10, QuietHeld, Zenon DEF Core
<1>12. Threading'
  BY <1>0, <1>1, <1>2, HandlerThreading, Zenon DEF Core
<1>13. Handler'
  BY <1>1, <1>2, <1>5, Zenon DEF Handler
<1>14. ~ (ncli'[IntrCpu] > 0)
  <2>1. ~ (ncli[IntrCpu] > 0)
    BY <1>0, <1>2, <1>3, CliDepth, Zenon DEF Core
  <2> QED BY <1>1, <2>1, Zenon
<1>15. FlagsKept'
  BY <1>0, <1>1, <1>2, <1>8, <1>14, HandlerFlags, Zenon DEF Core
<1>16. Core'
  BY <1>11, <1>12, <1>13, <1>15, Zenon DEF Core
<1>17. Ring' /\ UNCHANGED <<r, w>>
  BY <1>0, <1>1, RingSame, Zenon
<1>18. Sleeps'
  BY <1>0, <1>1, <1>2, <1>17, HandlerSleeps, Zenon DEF Core
<1> QED BY <1>16, <1>17, <1>18, InvCore, PTL

\* The return from the interrupt turns them on again.
LEMMA IretInv ==
  ASSUME Inv, iret
  PROVE  Inv'
<1>0. Core /\ Sleeps /\ Ring
  BY InvCore, Zenon
<1>1. /\ intr = "iret" /\ intr' = "none" /\ want[IntrCpu] = None
      /\ IF_' = [IF_ EXCEPT ![IntrCpu] = TRUE]
      /\ UNCHANGED <<lk, want, ncli, intena, panicked>> /\ UNCHANGED ring /\ UNCHANGED sched_
      /\ at' = at
  BY Zenon DEF iret, Handles
<1>2. UNCHANGED <<cur, state, saved, killed>> /\ IntrCpu \in Cpus
  BY <1>1, Parts, Zenon DEF sched_
<1>3. HandlerHeld("iret") = {} /\ HandlerHeld("none") = {}
  BY Zenon DEF HandlerHeld
<1>4. /\ Places(IntrCpu) = {} /\ Places(IntrCpu)' = {}
      /\ \A d \in Cpus : d # IntrCpu => Places(d)' = Places(d)
      /\ \A d \in Cpus : d # IntrCpu => Spun(d)' = Spun(d)
  BY <1>0, <1>1, <1>2, <1>3, HandlerPlaces, Zenon DEF Core
<1>5. /\ \A d \in Cpus : Places(d)' = Places(d)
      /\ \A d \in Cpus : want[d] = None \/ Spun(d)' = Spun(d)
  BY <1>1, <1>4, Zenon
<1>6. /\ IF_' \in [Cpus -> BOOLEAN] /\ IF_'[IntrCpu]
      /\ \A d \in Cpus : d # IntrCpu => IF_'[d] = IF_[d]
  BY <1>0, <1>1, <1>2, Zenon DEF Core, SpinTypeOK
<1>7. \A d \in Cpus : Places(d) = {} \/ ~ IF_'[d]
  BY <1>0, <1>4, <1>6, Zenon DEF Core, Held
<1>8. panicked' = FALSE /\ intena' \in [Cpus -> BOOLEAN]
  BY <1>0, <1>1, Zenon DEF Core, SpinTypeOK
<1>9. SpinTypeOK' /\ Held' /\ ~ panicked'
  BY <1>0, <1>1, <1>5, <1>6, <1>7, <1>8, QuietHeld, Zenon DEF Core
<1>10. Threading'
  BY <1>0, <1>1, <1>2, HandlerThreading, Zenon DEF Core
<1>11. Handler'
  BY <1>1, Zenon DEF Handler
<1>12. FlagsKept'
  BY <1>0, <1>1, <1>2, <1>6, HandlerFlags, Zenon DEF Core
<1>13. Core'
  BY <1>9, <1>10, <1>11, <1>12, Zenon DEF Core
<1>14. Ring' /\ UNCHANGED <<r, w>>
  BY <1>0, <1>1, RingSame, Zenon
<1>15. Sleeps'
  BY <1>0, <1>1, <1>2, <1>14, HandlerSleeps, Zenon DEF Core
<1> QED BY <1>13, <1>14, <1>15, InvCore, PTL

\* The locks of the handler's places.
LEMMA HandlerLabels ==
  /\ HandlerHeld("consoleintr") = {} /\ HandlerHeld("procdump") = {} /\ HandlerHeld("iret") = {}
  /\ HandlerHeld("getc") = {"cons"} /\ HandlerHeld("dumping") = {"cons"}
  /\ HandlerHeld("wakeup") = {"cons", "ptable"}
  /\ HandlerSpun("getc") = {"cons"} /\ HandlerSpun("dumping") = {"cons"}
  /\ HandlerSpun("wakeup") = {"ptable"}
  BY Zenon DEF HandlerHeld, HandlerSpun

\* consoleintr and procdump take cons.lock, holding none.
LEMMA HandlerEntersInv ==
  ASSUME Inv, intrAcquire \/ procdump
  PROVE  Inv'
<1>0. Core /\ Sleeps /\ Ring
  BY InvCore, Zenon
<1>1. PICK l0 \in {"consoleintr", "procdump"}, l1 \in {"getc", "dumping"} :
        /\ intr = l0 /\ want[IntrCpu] = None /\ intr' = l1 /\ acquire(IntrCpu, "cons")
        /\ UNCHANGED ring /\ UNCHANGED sched_ /\ at' = at
  BY Zenon DEF intrAcquire, procdump, Handles
<1>2. HandlerMoves(l0, l1) /\ state' = state
  BY <1>1, Zenon DEF HandlerMoves, sched_
<1>3. /\ "cons" \notin HandlerHeld(l0) /\ HandlerHeld(l1) = HandlerHeld(l0) \cup {"cons"}
      /\ "cons" \in HandlerSpun(l1) /\ "cons" \in Locks
  BY HandlerLabels, Parts, Zenon
<1>4. Core'
  BY <1>0, <1>1, <1>2, <1>3, HandlerAcquireCore, Zenon
<1>5. Ring' /\ UNCHANGED <<r, w>>
  BY <1>0, <1>1, RingSame, Zenon
<1>6. Sleeps'
  BY <1>0, <1>1, <1>2, <1>5, HandlerSleeps, Zenon DEF Core
<1> QED BY <1>4, <1>5, <1>6, InvCore, PTL

\* They give it back.
LEMMA HandlerLeavesInv ==
  ASSUME Inv, intrRelease \/ procdumpDone
  PROVE  Inv'
<1>0. Core /\ Sleeps /\ Ring
  BY InvCore, Zenon
<1>1. PICK l0 \in {"getc", "dumping"}, l1 \in {"procdump", "iret"} :
        /\ intr = l0 /\ want[IntrCpu] = None /\ intr' = l1 /\ release(IntrCpu, "cons")
        /\ UNCHANGED ring /\ UNCHANGED sched_ /\ at' = at
  BY Zenon DEF intrRelease, procdumpDone, Handles
<1>2. HandlerMoves(l0, l1) /\ state' = state
  BY <1>1, Zenon DEF HandlerMoves, sched_
<1>3. /\ "cons" \in HandlerHeld(l0) /\ HandlerHeld(l1) = HandlerHeld(l0) \ {"cons"}
      /\ "cons" \in Locks
  BY HandlerLabels, Parts, Zenon
<1>4. Core'
  BY <1>0, <1>1, <1>2, <1>3, HandlerReleaseCore, Zenon
<1>5. Ring' /\ UNCHANGED <<r, w>>
  BY <1>0, <1>1, RingSame, Zenon
<1>6. Sleeps'
  BY <1>0, <1>1, <1>2, <1>5, HandlerSleeps, Zenon DEF Core
<1> QED BY <1>4, <1>5, <1>6, InvCore, PTL

\* wakeup, with ptable.lock: the reader is not on its way to sleep.
LEMMA IntrWakeupInv ==
  ASSUME Inv, intrWakeup
  PROVE  Inv'
<1>0. Core /\ Sleeps /\ Ring
  BY InvCore, Zenon
<1>1. /\ intr = "wakeup" /\ want[IntrCpu] = None /\ intr' = "getc" /\ release(IntrCpu, "ptable")
      /\ UNCHANGED ring /\ UNCHANGED <<cur, saved, killed, at>> /\ state' = WakeReader
  BY Zenon DEF intrWakeup, Handles
<1>2. HandlerMoves("wakeup", "getc")
  BY <1>1, Zenon DEF HandlerMoves
<1>3. /\ "ptable" \in HandlerHeld("wakeup")
      /\ HandlerHeld("getc") = HandlerHeld("wakeup") \ {"ptable"}
      /\ "ptable" \in Locks
  BY HandlerLabels, Parts, Zenon
<1>4. Core'
  BY <1>0, <1>1, <1>2, <1>3, HandlerReleaseCore, Zenon
<1>5. Ring' /\ UNCHANGED <<r, w>>
  BY <1>0, <1>1, RingSame, Zenon
<1>6. at[Reader] # "sleeping"
  <2>1. SUFFICES ASSUME at[Reader] = "sleeping" PROVE FALSE
    OBVIOUS
  <2>2. "ptable" \in HeldAt(at[Reader]) /\ "ptable" \notin SpunAt(at[Reader])
    BY <2>1, Zenon DEF HeldAt, SpunAt
  <2>3. "ptable" \in HandlerHeld(intr) /\ intr # "none"
    BY <1>1, <1>3, Zenon
  <2> QED BY <1>0, <1>1, <1>3, <2>1, <2>2, <2>3, HandlerExcludes, Zenon
<1>7. state'[Reader] # "SLEEPING"
  BY <1>0, <1>1, Parts, Zenon DEF Core, Threading, WakeReader
<1>8. Sleeps'
  BY <1>0, <1>1, <1>5, <1>6, <1>7, HandlerSleeps, Zenon DEF Core
<1> QED BY <1>4, <1>5, <1>8, InvCore, PTL

\* A byte of the keyboard.
LEMMA GetcInv ==
  ASSUME Inv, NEW ch \in Chars, getc(ch)
  PROVE  Inv'
<1>0. Core /\ Sleeps /\ Ring
  BY InvCore, Zenon
<1>1. intr = "getc" /\ want[IntrCpu] = None /\ UNCHANGED sched_ /\ at' = at
  BY Zenon DEF getc, Handles
<1>2. UNCHANGED <<cur, state, saved, killed>> /\ state' = state
  BY <1>1, Zenon DEF sched_
<1>3. ASSUME UNCHANGED spin, intr' = intr, UNCHANGED <<r, w>>, Ring'
      PROVE  Inv'
  <2>1. Core'
    BY <1>0, <1>1, <1>2, <1>3, CoreSame, Zenon
  <2>2. Sleeps'
    BY <1>0, <1>1, <1>2, <1>3, HandlerSleeps, Zenon DEF Core
  <2> QED BY <1>3, <2>1, <2>2, InvCore, PTL
<1>4. CASE Erase(ch)
  <2>1. UNCHANGED spin /\ intr' = intr /\ UNCHANGED <<r, w>>
    BY <1>4, Zenon DEF Erase
  <2>2. Ring'
    BY <1>0, <1>4, EraseRing, Zenon
  <2> QED BY <1>3, <2>1, <2>2, Zenon
<1>5. CASE ListProcs(ch)
  <2>1. UNCHANGED spin /\ intr' = intr /\ UNCHANGED ring
    BY <1>5, Zenon DEF ListProcs
  <2>2. Ring' /\ UNCHANGED <<r, w>>
    BY <1>0, <2>1, RingSame, Zenon
  <2> QED BY <1>3, <2>1, <2>2, Zenon
<1>6. CASE StoreByte(ch)
  <2>1. ~ RingFull /\ buf' = [buf EXCEPT ![e % INPUT_BUF] = ch] /\ e' = Next1(e) /\ r' = r
    BY <1>6, Zenon DEF StoreByte
  <2>2. CASE EndsLine(ch, Next1(e))
    <3>1. /\ w' = Next1(e) /\ pending' = pending \o Append(editing, ch) /\ editing' = <<>>
          /\ acquire(IntrCpu, "ptable") /\ intr' = "wakeup"
      BY <1>6, <2>2, Zenon DEF StoreByte
    <3>2. Ring'
      BY <1>0, <2>1, <3>1, CommitRing, Zenon
    <3>3. HandlerMoves("getc", "wakeup")
      BY <1>1, <1>2, <3>1, Zenon DEF HandlerMoves
    <3>4. /\ "ptable" \notin HandlerHeld("getc")
          /\ HandlerHeld("wakeup") = HandlerHeld("getc") \cup {"ptable"}
          /\ "ptable" \in HandlerSpun("wakeup") /\ "ptable" \in Locks /\ "cons" \in Locks
      BY HandlerLabels, Parts, Zenon
    <3>5. Core'
      BY <1>0, <1>2, <3>1, <3>3, <3>4, HandlerAcquireCore, Zenon
    <3>6. at[Reader] # "sleep"
      <4>1. SUFFICES ASSUME at[Reader] = "sleep" PROVE FALSE
        OBVIOUS
      <4>2. "cons" \in HeldAt(at[Reader]) /\ "cons" \notin SpunAt(at[Reader])
        BY <4>1, Zenon DEF HeldAt, SpunAt
      <4>3. "cons" \in HandlerHeld(intr) /\ intr # "none"
        BY <1>1, HandlerLabels, Zenon
      <4> QED BY <1>0, <1>1, <3>4, <4>1, <4>2, <4>3, HandlerExcludes, Zenon
    <3>7. Sleeps'
      BY <1>0, <1>1, <1>2, <2>1, <3>1, <3>6, HandlerSleeps, Zenon DEF Core
    <3> QED BY <3>2, <3>5, <3>7, InvCore, PTL
  <2>3. CASE ~ EndsLine(ch, Next1(e))
    <3>1. editing' = Append(editing, ch) /\ UNCHANGED <<w, pending, spin, intr>>
      BY <1>6, <2>3, Zenon DEF StoreByte
    <3>2. UNCHANGED <<r, w, pending>> /\ UNCHANGED spin /\ intr' = intr /\ UNCHANGED <<r, w>>
      BY <2>1, <3>1, Zenon
    <3>3. Ring'
      BY <1>0, <2>1, <3>1, <3>2, EditRing, Zenon
    <3> QED BY <1>3, <3>2, <3>3, Zenon
  <2> QED BY <2>2, <2>3, Zenon
<1> QED BY <1>4, <1>5, <1>6, Zenon DEF getc
-----------------------------------------------------------------------------
(* The invariants *)

\* The schedulers are idle, the processes inside sched(), the ring empty.
LEMMA InitInv ==
  ASSUME Init
  PROVE  Inv
<1>0. /\ buf = [i \in 0 .. INPUT_BUF - 1 |-> "nl"] /\ r = 0 /\ w = 0 /\ e = 0
      /\ pending = <<>> /\ editing = <<>> /\ intr = "none" /\ killed = {}
      /\ cur = [c \in Cpus |-> c] /\ state = [p \in Procs |-> "RUNNABLE"]
      /\ at = [t \in Threads |-> IF t \in Cpus THEN "idle" ELSE "yielded"]
      /\ saved = [p \in Procs |-> FALSE]
  BY Zenon DEF Init
<1>1. /\ lk = [l \in Locks |-> None] /\ want = [c \in Cpus |-> None]
      /\ IF_ = [c \in Cpus |-> FALSE] /\ ncli = [c \in Cpus |-> 0]
      /\ intena = [c \in Cpus |-> FALSE] /\ panicked = FALSE
  BY Zenon DEF Init, SpinInit
<1>2. /\ \A c \in Cpus : cur[c] = c /\ at[c] = "idle"
      /\ \A p \in Procs : at[p] = "yielded" /\ state[p] = "RUNNABLE"
      /\ at \in [Threads -> Labels] /\ cur \in [Cpus -> Threads]
  BY <1>0, Parts, LabelNames, Zenon
<1>3. SpinTypeOK
  <2>1. lk \in [Locks -> Cpus \cup {None}] /\ want \in [Cpus -> Locks \cup {None}]
    BY <1>1, Zenon
  <2>2. IF_ \in [Cpus -> BOOLEAN] /\ intena \in [Cpus -> BOOLEAN] /\ panicked \in BOOLEAN
    BY <1>1, Zenon
  <2>3. ncli \in [Cpus -> Int]
    BY <1>1
  <2> QED BY <2>1, <2>2, <2>3, Zenon DEF SpinTypeOK
<1>4. \A c \in Cpus : Places(c) = {}
  <2>1. HandlerHeld(intr) = {}
    BY <1>0, Zenon DEF HandlerHeld
  <2>2. \A c \in Cpus : HeldAt(at[cur[c]]) = {}
    BY <1>2, HeldAtLabels
  <2> QED BY <2>1, <2>2, Zenon DEF Places
<1>5. Held
  <2>1. \A c \in Cpus : c # None
    BY ConsoleAssumption, Zenon DEF Threads
  <2>2. \A c \in Cpus, l \in Locks : lk[l] # c
    BY <1>1, <2>1, Zenon
  <2>3. \A c \in Cpus : want[c] = None /\ ~ IF_[c] /\ ncli[c] = 0
    BY <1>1, Zenon
  <2>4. \A c \in Cpus : ncli[c] = Cardinality(Places(c))
    BY <1>4, <2>3, LockNumbers, Zenon
  <2> QED BY <1>4, <2>2, <2>3, <2>4, Zenon DEF Held
<1>6. Threading
  <2>1. /\ state \in [Procs -> {"RUNNING", "RUNNABLE", "SLEEPING", "ZOMBIE"}]
        /\ killed \subseteq {Reader}
    BY <1>0, Zenon
  <2>2. \A c \in Cpus : cur[c] \notin Procs
    BY <1>2, Parts, Zenon
  <2> QED BY <1>2, <2>1, <2>2, Zenon DEF Threading
<1>7. Handler
  BY <1>0, Zenon DEF Handler
<1>8. FlagsKept
  <2>1. saved \in [Procs -> BOOLEAN]
    BY <1>0, Zenon
  <2>2. \A c \in Cpus : at[cur[c]] = "idle" /\ cur[c] # Reader
    BY <1>2, Parts, Zenon
  <2>3. at[Reader] = "yielded"
    BY <1>2, Parts, Zenon
  <2> QED BY <1>0, <2>1, <2>2, <2>3, Zenon DEF FlagsKept
<1>9. Sleeps
  BY <1>0, <1>2, Parts, Zenon DEF Sleeps, NoLostWakeup
<1>10. Ring
  <2>1. buf \in [0 .. INPUT_BUF - 1 -> Chars]
    BY <1>0, ConsoleAssumption, Zenon
  <2>2. /\ pending \in Seq(Chars) /\ editing \in Seq(Chars)
        /\ Len(pending) = 0 /\ Len(editing) = 0
    BY <1>0
  <2>3. 0 \in 0 .. WORD - 1 /\ 0 + 0 = 0 /\ 0 <= INPUT_BUF /\ 1 .. 0 = {}
    BY Sizes
  <2>4. 0 % WORD = 0
    BY <2>3, Sizes, ModSmall, Zenon
  <2> QED BY <1>0, <2>1, <2>2, <2>3, <2>4, Zenon DEF Ring
<1> QED BY <1>1, <1>3, <1>5, <1>6, <1>7, <1>8, <1>9, <1>10, Zenon DEF Inv

\* Every step of every thread and of the handler keeps the invariant.
LEMMA StepInv ==
  ASSUME Inv, [Next]_vars
  PROVE  Inv'
<1>1. CASE UNCHANGED vars
  <2>1. UNCHANGED spin /\ UNCHANGED ring /\ UNCHANGED sched_ /\ UNCHANGED <<at, intr>>
    BY <1>1, Zenon DEF vars
  <2>2. UNCHANGED <<cur, state, saved, killed, at, intr>>
    BY <2>1, Zenon DEF sched_
  <2>3. Core /\ Sleeps /\ Ring
    BY InvCore, Zenon
  <2>4. Core'
    BY <2>1, <2>2, <2>3, CoreSame, Zenon
  <2>5. Ring' /\ UNCHANGED <<r, w>>
    BY <2>1, <2>3, RingSame, Zenon
  <2>6. Sleeps'
    BY <2>2, <2>3, <2>5, Zenon DEF Sleeps, NoLostWakeup
  <2> QED BY <2>4, <2>5, <2>6, InvCore, PTL
<1>2. ASSUME NEW c \in Cpus, Spin(c) \/ SchedulerStep(c) PROVE Inv'
  BY <1>2, SpinInv, SchedulerTurnInv, SchedulerRestInv, DispatchInv, Zenon DEF SchedulerStep
<1>3. ASSUME NEW c \in Cpus, ReaderStep(c) PROVE Inv'
  BY <1>3, ReadByteInv, ReadEmptyInv, SleepReleaseInv, SleepSchedInv, SleepTidyInv,
     SleepReacquireInv, Zenon DEF ReaderStep
<1>4. ASSUME NEW c \in Cpus, NEW n, consoleread(c, n) PROVE Inv'
  BY <1>4, ReadInv, Zenon
<1>5. ASSUME NEW c \in Cpus, NEW p \in Procs, ProcStep(c, p) PROVE Inv'
  BY <1>5, YieldSchedInv, YieldReleaseInv, TrapretInv, ExitPrintInv, ExitPrintedInv,
     ExitSchedInv DEF ProcStep
<1>6. ASSUME NEW c \in Cpus, NEW p \in Procs, yield(c, p) \/ exit(c, p) PROVE Inv'
  BY <1>6, YieldInv, ExitInv, Zenon
<1>7. ASSUME NEW c \in Cpus, NEW p \in Others,
             OtherStep(c, p) \/ consolewrite(c, p) \/ kill(c, p)
      PROVE  Inv'
  <2>1. p \in Procs
    BY Parts, Zenon
  <2> QED BY <1>7, <2>1, WriteDoneInv, KillDoneInv, WriteInv, KillInv, Zenon DEF OtherStep
<1>8. CASE interrupt \/ HandlerStep
  BY <1>8, InterruptInv, HandlerEntersInv, HandlerLeavesInv, IntrWakeupInv, IretInv, Zenon
     DEF HandlerStep
<1>9. ASSUME NEW ch \in Chars, getc(ch) PROVE Inv'
  BY <1>9, GetcInv, Zenon
<1>10. CASE Next
  <2>1. \/ \E c \in Cpus : Spin(c) \/ SchedulerStep(c) \/ ReaderStep(c)
        \/ \E c \in Cpus, n \in 1 .. MaxRead : consoleread(c, n)
        \/ \E c \in Cpus, p \in Procs : ProcStep(c, p) \/ yield(c, p) \/ exit(c, p)
        \/ \E c \in Cpus, p \in Others :
             OtherStep(c, p) \/ consolewrite(c, p) \/ kill(c, p)
        \/ interrupt \/ HandlerStep
        \/ \E ch \in Chars : getc(ch)
    BY <1>10, Zenon DEF Next
  <2> QED BY <2>1, <1>2, <1>3, <1>4, <1>5, <1>6, <1>7, <1>8, <1>9, Zenon
<1> QED BY <1>1, <1>10, Zenon

\* The invariant holds in every state of the console.
THEOREM Invariance == Spec => []Inv
  BY InitInv, StepInv, PTL DEF Spec

\* Held, in the words of LockedInside and CliMatched.
LEMMA InvLocksHeld ==
  ASSUME Inv
  PROVE  LocksHeld
<1>0. None \notin Locks /\ Locks = {"cons", "ptable"}
  BY ConsoleAssumption
<1>1. TypeOK
  <2>1. {r, w, e} \subseteq 0 .. WORD - 1
    BY Lengths, Zenon DEF Inv
  <2> QED BY <2>1, Zenon DEF Inv, TypeOK, Threading, FlagsKept, Ring
<1>2. ASSUME NEW c \in Cpus
      PROVE  /\ holding(c, "cons") <=> Inside(c, "cons")
             /\ holding(c, "ptable") <=> Inside(c, "ptable")
  <2>1. /\ "cons" \in HeldAt(at[cur[c]]) <=>
             at[cur[c]] \in {"read", "sleep", "write", "exit print"}
        /\ "ptable" \in HeldAt(at[cur[c]]) <=>
             at[cur[c]] \in {"scan", "yield", "yielded", "sleep", "sleeping", "slept", "kill",
                             "exiting", "exit print", "zombie"}
    BY Zenon DEF HeldAt
  <2>2. /\ "cons" \in HandlerHeld(intr) <=> intr \in {"getc", "wakeup", "dumping"}
        /\ "ptable" \in HandlerHeld(intr) <=> intr \in {"wakeup"}
    BY Zenon DEF HandlerHeld
  <2>3. /\ lk["cons"] = c <=> "cons" \in Places(c) /\ want[c] # "cons"
        /\ lk["ptable"] = c <=> "ptable" \in Places(c) /\ want[c] # "ptable"
    BY <1>0, Zenon DEF Inv, Held
  <2>4. \A l : l \in Places(c) <=>
          l \in HeldAt(at[cur[c]]) \/ (c = IntrCpu /\ l \in HandlerHeld(intr))
    BY Zenon DEF Places
  <2>5. Inside(c, "cons") <=> want[c] # "cons" /\ "cons" \in Places(c)
    BY <2>1, <2>2, <2>4, Zenon DEF Inside
  <2>6. Inside(c, "ptable") <=> want[c] # "ptable" /\ "ptable" \in Places(c)
    BY <2>1, <2>2, <2>4, Zenon DEF Inside
  <2> QED BY <2>3, <2>5, <2>6, Zenon DEF holding
<1>3. LockedInside
  BY <1>0, <1>2, Zenon DEF LockedInside
<1>4. ASSUME NEW c \in Cpus
      PROVE  LET depth == Cardinality({l \in Locks : holding(c, l) \/ want[c] = l}) IN
             ncli[c] = depth /\ (depth > 0 => ~ IF_[c])
  <2>1. {l \in Locks : holding(c, l) \/ want[c] = l} = Places(c)
    <3>1. Places(c) \subseteq Locks /\ Spun(c) \subseteq Places(c)
      BY PlacesType, Zenon
    <3>2. \A l \in Locks : holding(c, l) <=> l \in Places(c) /\ want[c] # l
      BY Zenon DEF Inv, Held, holding
    <3>3. \A l \in Locks : want[c] = l => l \in Places(c)
      BY <1>0, <3>1 DEF Inv, Held
    <3> QED BY <3>1, <3>2, <3>3, Zenon
  <2>2. ncli[c] = Cardinality(Places(c)) /\ (Places(c) # {} => ~ IF_[c])
    BY Zenon DEF Inv, Held
  <2>3. Cardinality(Places(c)) > 0 => Places(c) # {}
    BY PlacesType
  <2> QED BY <2>1, <2>2, <2>3, Zenon
<1>5. CliMatched
  BY <1>4, Zenon DEF CliMatched
<1>6. NoPanic
  BY Zenon DEF Inv, NoPanic
<1> QED BY <1>1, <1>3, <1>5, <1>6, Zenon DEF LocksHeld

\* Ring, in the words of RingHoldsLines.
LEMMA InvReaderServed ==
  ASSUME Inv
  PROVE  ReaderServed
<1> DEFINE n == Len(pending)
           m == Len(editing)
<1>0. Ring
  BY Zenon DEF Inv
<1>1. /\ n \in Nat /\ m \in Nat /\ r \in Nat /\ w = (r + n) % WORD
      /\ (w - r) % WORD = n /\ (e - w) % WORD = m
  BY <1>0, Lengths, Zenon DEF Ring
<1>2. /\ pending \in [1 .. n -> Chars] /\ editing \in [1 .. m -> Chars]
  BY <1>0 DEF Ring
<1>3. ASSUME NEW k \in 1 .. n PROVE buf[(r + k - 1) % INPUT_BUF] = pending[k]
  <2>1. r + k - 1 = r + (k - 1)
    BY <1>1, Zenon
  <2> QED BY <1>0, <2>1, Zenon DEF Ring
<1>4. ASSUME NEW k \in 1 .. m PROVE buf[(w + k - 1) % INPUT_BUF] = editing[k]
  <2>1. r + n \in Int /\ k - 1 \in Int /\ r + n + (k - 1) = r + (n + k - 1)
    BY <1>1
  <2>2. (w + (k - 1)) % INPUT_BUF = (r + n + (k - 1)) % INPUT_BUF
    BY <1>1, <2>1, Wrapped, Zenon
  <2>3. w + (k - 1) = w + k - 1
    BY <1>0, Lengths, Zenon
  <2>4. editing[k] = buf[(r + (n + k - 1)) % INPUT_BUF]
    BY <1>0, Zenon DEF Ring
  <2> QED BY <2>1, <2>2, <2>3, <2>4, Zenon
<1> HIDE DEF n, m
<1>5. [k \in 1 .. (w - r) % WORD |-> buf[(r + k - 1) % INPUT_BUF]] = pending
  <2>1. [k \in 1 .. (w - r) % WORD |-> buf[(r + k - 1) % INPUT_BUF]] = [k \in 1 .. n |-> pending[k]]
    BY <1>1, <1>3, Zenon
  <2> QED BY <1>2, <2>1, Zenon
<1>6. [k \in 1 .. (e - w) % WORD |-> buf[(w + k - 1) % INPUT_BUF]] = editing
  <2>1. [k \in 1 .. (e - w) % WORD |-> buf[(w + k - 1) % INPUT_BUF]] = [k \in 1 .. m |-> editing[k]]
    BY <1>1, <1>4, Zenon
  <2> QED BY <1>2, <2>1, Zenon
<1>7. RingHoldsLines
  BY <1>5, <1>6, Zenon DEF RingHoldsLines
<1> QED BY <1>7, Zenon DEF Inv, Sleeps, ReaderServed

\* Whoever spins for one lock and holds the other is exit(), which prints.
LEMMA InvOnlyExitDeadlocks ==
  ASSUME Inv
  PROVE  OnlyExitDeadlocks
<1>0. None \notin Locks /\ Locks = {"cons", "ptable"}
  BY ConsoleAssumption, Zenon
<1>1. SUFFICES ASSUME NEW S \in SUBSET Cpus, S # {},
                      \A c \in S : want[c] # None /\ lk[want[c]] \in S
               PROVE  \E c \in Cpus : at[cur[c]] = "exit print"
  <2>1. CircularWait => \E S \in SUBSET Cpus :
          S # {} /\ \A c \in S : want[c] # None /\ lk[want[c]] \in S
    BY Zenon DEF CircularWait
  <2> QED BY <2>1, Zenon DEF OnlyExitDeadlocks
<1>2. \A c \in S : want[c] \in {"cons", "ptable"} /\ want[c] \in Spun(c)
  <2>1. \A c \in Cpus : want[c] \in Locks \cup {None}
    BY Zenon DEF Inv, SpinTypeOK
  <2> QED BY <1>0, <1>1, <2>1 DEF Inv, Held
<1>3. \A c \in S, l \in Locks : lk[l] = c => l \in Places(c) /\ want[c] # l
  BY <1>1 DEF Inv, Held
<1>4. PICK c \in S : want[c] = "ptable"
  <2>1. PICK d \in S : TRUE
    BY <1>1, Zenon
  <2>2. CASE want[d] = "cons"
    <3>1. lk["cons"] \in S
      BY <1>1, <2>2, Zenon
    <3>2. want[lk["cons"]] = "ptable"
      BY <1>0, <1>2, <1>3, <3>1, Zenon
    <3> QED BY <3>1, <3>2, Zenon
  <2> QED BY <1>2, <2>1, <2>2, Zenon
<1>5. PICK d \in S : lk["ptable"] = d
  BY <1>1, <1>4, Zenon
<1>6. "ptable" \in Places(d) /\ want[d] = "cons" /\ "cons" \in Spun(d)
  BY <1>0, <1>2, <1>3, <1>5, Zenon
<1>7. at[cur[d]] = "exit print"
  <2>1. /\ "cons" \in SpunAt(at[cur[d]]) \/ (d = IntrCpu /\ "cons" \in HandlerSpun(intr))
        /\ "ptable" \in HeldAt(at[cur[d]]) \/ (d = IntrCpu /\ "ptable" \in HandlerHeld(intr))
    BY <1>6, Zenon DEF Places, Spun
  <2>2. d = IntrCpu /\ intr # "none" => HeldAt(at[cur[d]]) = {}
    BY Zenon DEF Inv, Handler
  <2>3. /\ "cons" \in HandlerSpun(intr) => "ptable" \notin HandlerHeld(intr) /\ intr # "none"
        /\ "ptable" \in HandlerHeld(intr) => intr # "none"
    BY Zenon DEF HandlerSpun, HandlerHeld
  <2>4. /\ "cons" \in SpunAt(at[cur[d]]) => "cons" \in HeldAt(at[cur[d]])
        /\ "cons" \in SpunAt(at[cur[d]]) /\ "ptable" \in HeldAt(at[cur[d]])
             => at[cur[d]] = "exit print"
    BY Zenon DEF SpunAt, HeldAt
  <2> QED BY <2>1, <2>2, <2>3, <2>4, Zenon
<1> QED BY <1>1, <1>7, Zenon

\* A section of the console and of the process table holds its lock and is
\* the only one inside, and no check of spinlock.c and sched fails.
THEOREM AlwaysLocksHeld == Spec => []LocksHeld
  BY Invariance, InvLocksHeld, PTL

\* A process that slept in consoleread goes on with interrupts on.
THEOREM AlwaysKeepsInterruptFlag == Spec => []KeepsInterruptFlag
<1>1. ASSUME Inv PROVE KeepsInterruptFlag
  <2>1. SUFFICES ASSUME NEW c \in Cpus, Runs(c, Reader, "reacquire") PROVE IF_[c]
    BY Zenon DEF KeepsInterruptFlag
  <2>2. ~ Busy(c) /\ at[cur[c]] \in {"user", "reacquire"}
    BY <2>1, Zenon DEF Runs, Busy
  <2> QED BY <1>1, <2>2, Zenon DEF Inv, FlagsKept
<1> QED BY <1>1, Invariance, PTL

\* The ring holds what was typed, and the reader sleeps only when it has
\* nothing to read.
THEOREM AlwaysReaderServed == Spec => []ReaderServed
  BY Invariance, InvReaderServed, PTL

\* The lock order of cons.lock and ptable.lock is broken by exit() alone.
THEOREM AlwaysOnlyExitDeadlocks == Spec => []OnlyExitDeadlocks
  BY Invariance, InvOnlyExitDeadlocks, PTL
=============================================================================
