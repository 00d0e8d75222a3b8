------------------------------- MODULE Console ------------------------------
(***************************************************************************)
(* The console (console.c) on a machine with several processors: the       *)
(* keyboard handler fills the input ring that consoleread empties, both    *)
(* under cons.lock, while processes print, are preempted, kill and exit.   *)
(* sleep, sched, wakeup and the scheduler (proc.c) are modelled at the     *)
(* level of their locks, which the lock of the process table shows: the    *)
(* scheduler takes it and the process it switches to releases it.          *)
(*                                                                         *)
(* A step is a segment of a thread up to its next operation on a lock.     *)
(* The handler runs on top of the thread it interrupted.                   *)
(***************************************************************************)
EXTENDS Spinlock, Sequences

CONSTANTS
  IntrCpu,        \* the processor ioapicenable sends the keyboard to
  Reader,         \* the process that reads the console
  Others,         \* processes that print, kill and exit
  INPUT_BUF,      \* bytes in the ring
  WORD,           \* number of values of an index (2^32)
  Chars,          \* what is typed
  MaxRead         \* bound: bytes asked for in one call

Procs == {Reader} \cup Others
Threads == Procs \cup Cpus       \* a processor also names its scheduler thread

ASSUME ConsoleAssumption ==
  /\ IntrCpu \in Cpus
  /\ Locks = {"cons", "ptable"}
  /\ Procs \cap Cpus = {} /\ None \notin Threads \cup Locks
  /\ INPUT_BUF \in Nat \ {0} /\ WORD \in Nat
  /\ WORD > INPUT_BUF /\ WORD % INPUT_BUF = 0
  /\ "nl" \in Chars
  /\ MaxRead \in Nat \ {0}

VARIABLES
  buf, r, w, e,       \* the input ring
  cur,                \* the thread on each processor
  at,                 \* where each thread is
  intr,               \* where the handler on IntrCpu is
  dump,               \* the handler's doprocdump
  state,              \* p->state
  saved,              \* intena, kept by sched() on the stack of its process
  killed,
  left, target,       \* n and target of consoleread
  pending, editing    \* lines not read yet, and the line being typed

ring == <<buf, r, w, e, pending, editing>>
call == <<left, target>>
sched_ == <<cur, state, saved, killed>>
vars == <<spin, ring, sched_, at, intr, dump, call>>

Init ==
  /\ SpinInit
  /\ buf = [i \in 0 .. INPUT_BUF - 1 |-> "nl"]
  /\ r = 0 /\ w = 0 /\ e = 0
  /\ pending = <<>> /\ editing = <<>>
  /\ cur = [c \in Cpus |-> c]
  /\ at = [t \in Threads |-> IF t \in Cpus THEN "idle" ELSE "yielded"]
  /\ intr = "none"
  /\ dump = FALSE
  /\ state = [p \in Procs |-> "RUNNABLE"]
  /\ saved = [p \in Procs |-> FALSE]
  /\ killed = {}
  /\ left = 0 /\ target = 0

Goto(t, l) == at' = [at EXCEPT ![t] = l]

\* Thread t is the one that runs on c: no handler on top of it, not spinning.
Runs(c, t, l) ==
  /\ cur[c] = t
  /\ at[t] = l
  /\ ~ (c = IntrCpu /\ intr # "none")
  /\ want[c] = None

Spin(c) == xchg(c) /\ UNCHANGED <<ring, sched_, at, intr, dump, call>>

-----------------------------------------------------------------------------
(* Scheduling *)

\* The scheduler of c: sti, then acquire(&ptable.lock).
schedulerTurn(c) ==
  /\ Runs(c, c, "idle")
  /\ IF ~ IF_[c]
     THEN /\ IF_' = [IF_ EXCEPT ![c] = TRUE]
          /\ UNCHANGED <<lk, want, ncli, intena, panicked, at>>
     ELSE acquire(c, "ptable") /\ Goto(c, "scan")
  /\ UNCHANGED <<ring, sched_, intr, dump, call>>

\* Faulty variant: the flag of the processor's last thread stays.
RestoredNot(c, p) == intena[c]

\* What sched() puts back into mycpu()->intena.
Restored(c, p) == saved[p]

\* swtch to a process, which goes on behind its own call of swtch in sched().
dispatch(c, p) ==
  /\ Runs(c, c, "scan")
  /\ state[p] = "RUNNABLE"
  /\ state' = [state EXCEPT ![p] = "RUNNING"]
  /\ cur' = [cur EXCEPT ![c] = p]
  /\ intena' = [intena EXCEPT ![c] = Restored(c, p)]
  /\ UNCHANGED <<lk, want, IF_, ncli, panicked, ring, at, intr, dump, call, saved, killed>>

schedulerRest(c) ==
  /\ Runs(c, c, "scan")
  /\ release(c, "ptable")
  /\ Goto(c, "idle")
  /\ UNCHANGED <<ring, sched_, intr, dump, call>>

\* sched(): its four checks, and swtch to the scheduler of c.
sched(c, p, s) ==
  /\ panicked' = (~ holding(c, "ptable") \/ ncli[c] # 1 \/ IF_[c])
  /\ state' = [state EXCEPT ![p] = s]
  /\ saved' = [saved EXCEPT ![p] = intena[c]]
  /\ cur' = [cur EXCEPT ![c] = c]
  /\ UNCHANGED <<lk, want, IF_, ncli, intena, killed>>

\* The timer interrupts a process: the gate turns interrupts off, and yield
\* acquires ptable.lock.
yield(c, p) ==
  /\ Runs(c, p, "user")
  /\ want' = [want EXCEPT ![c] = "ptable"]
  /\ IF_' = [IF_ EXCEPT ![c] = FALSE]
  /\ intena' = [intena EXCEPT ![c] = FALSE]
  /\ ncli' = [ncli EXCEPT ![c] = 1]
  /\ Goto(p, "yield")
  /\ UNCHANGED <<lk, panicked, ring, sched_, intr, dump, call>>

yieldSched(c, p) ==
  /\ Runs(c, p, "yield")
  /\ sched(c, p, "RUNNABLE")
  /\ Goto(p, "yielded")
  /\ UNCHANGED <<ring, intr, dump, call>>

yieldRelease(c, p) ==
  /\ Runs(c, p, "yielded")
  /\ release(c, "ptable")
  /\ Goto(p, "trapret")
  /\ UNCHANGED <<ring, sched_, intr, dump, call>>

\* Return to user space; a process that was killed exits instead.
trapret(c, p) ==
  /\ Runs(c, p, "trapret")
  /\ \/ p \in killed /\ Goto(p, "exit") /\ UNCHANGED IF_
     \/ p \notin killed /\ Goto(p, "user") /\ IF_' = [IF_ EXCEPT ![c] = TRUE]
  /\ UNCHANGED <<lk, want, ncli, intena, panicked, ring, sched_, intr, dump, call>>

-----------------------------------------------------------------------------
(* consoleread *)

Next1(i) == (i + 1) % WORD

consoleread(c, n) ==
  /\ Runs(c, Reader, "user")
  /\ acquire(c, "cons")
  /\ left' = n /\ target' = n
  /\ Goto(Reader, "read")
  /\ UNCHANGED <<ring, sched_, intr, dump>>

readDone(c) == release(c, "cons") /\ Goto(Reader, "trapret")

TakeByte == /\ r' = Next1(r)
            /\ pending' = Tail(pending)
            /\ UNCHANGED <<buf, w, e, editing>>

\* One turn of the loop over the bytes of the ring.
readByte(c) ==
  LET ch == buf[r % INPUT_BUF] IN
  /\ Runs(c, Reader, "read")
  /\ r # w
  /\ \/ /\ ch = "^D"
        /\ IF left < target THEN UNCHANGED ring ELSE TakeByte
        /\ readDone(c)
        /\ left' = 0 /\ target' = 0
     \/ /\ ch # "^D"
        /\ TakeByte
        /\ IF ch = "nl" \/ left = 1
           THEN readDone(c) /\ left' = 0 /\ target' = 0
           ELSE left' = left - 1 /\ UNCHANGED <<target, spin, at>>
  /\ UNCHANGED <<sched_, intr, dump>>

readEmpty(c) ==
  /\ Runs(c, Reader, "read")
  /\ r = w
  /\ IF Reader \in killed
     THEN readDone(c) /\ left' = 0 /\ target' = 0
     ELSE acquire(c, "ptable") /\ Goto(Reader, "sleep") /\ UNCHANGED call
  /\ UNCHANGED <<ring, sched_, intr, dump>>

\* sleep(&input.r, &cons.lock): with ptable.lock held, let go of cons.lock.
sleepRelease(c) ==
  /\ Runs(c, Reader, "sleep")
  /\ release(c, "cons")
  /\ Goto(Reader, "sleeping")
  /\ UNCHANGED <<ring, sched_, intr, dump, call>>

sleepSched(c) ==
  /\ Runs(c, Reader, "sleeping")
  /\ sched(c, Reader, "SLEEPING")
  /\ Goto(Reader, "slept")
  /\ UNCHANGED <<ring, intr, dump, call>>

\* Faulty variant: takes cons.lock back before it lets go of ptable.lock.
sleepTidyLate(c) ==
  /\ Runs(c, Reader, "slept")
  /\ acquire(c, "cons")
  /\ Goto(Reader, "sleep")
  /\ UNCHANGED <<ring, sched_, intr, dump, call>>

\* Woken and switched to: release ptable.lock, then take cons.lock again.
sleepTidy(c) ==
  /\ Runs(c, Reader, "slept")
  /\ release(c, "ptable")
  /\ Goto(Reader, "reacquire")
  /\ UNCHANGED <<ring, sched_, intr, dump, call>>

sleepReacquire(c) ==
  /\ Runs(c, Reader, "reacquire")
  /\ acquire(c, "cons")
  /\ Goto(Reader, "read")
  /\ UNCHANGED <<ring, sched_, intr, dump, call>>

-----------------------------------------------------------------------------
(* consoleintr *)

\* The keyboard interrupts whatever runs with interrupts on.
interrupt ==
  /\ intr = "none"
  /\ IF_[IntrCpu]
  /\ IF_' = [IF_ EXCEPT ![IntrCpu] = FALSE]
  /\ intr' = "consoleintr"
  /\ UNCHANGED <<lk, want, ncli, intena, panicked, ring, sched_, at, dump, call>>

Handles(l) == intr = l /\ want[IntrCpu] = None

intrAcquire ==
  /\ Handles("consoleintr")
  /\ acquire(IntrCpu, "cons")
  /\ intr' = "getc"
  /\ UNCHANGED <<ring, sched_, at, dump, call>>

\* ^U takes back the line being typed, ^H its last byte.
Erase(ch) ==
  LET k == IF ch = "^U" THEN (e - w) % WORD ELSE IF e = w THEN 0 ELSE 1 IN
  /\ ch \in {"^U", "^H"}
  /\ e' = (e - k) % WORD
  /\ editing' = SubSeq(editing, 1, Len(editing) - k)
  /\ UNCHANGED <<buf, r, w, pending, spin, intr, dump>>

\* ^P: the listing is printed later, without cons.lock.
ListProcs(ch) ==
  /\ ch = "^P"
  /\ dump' = TRUE
  /\ UNCHANGED <<ring, spin, intr>>

\* Faulty variant: counts the space from the lines already committed.
RingFullFromW == (e - w) % WORD = INPUT_BUF

RingFull == (e - r) % WORD = INPUT_BUF

\* A line ends with a newline or ^D, or when the ring is full.
EndsLine(ch, e1) == ch \in {"nl", "^D"} \/ (e1 - r) % WORD = INPUT_BUF

\* Any other byte is stored if there is room; the end of a line commits it and
\* calls wakeup, which acquires ptable.lock.
StoreByte(ch) ==
  /\ ch \notin {"^U", "^H", "^P"}
  /\ ~ RingFull
  /\ buf' = [buf EXCEPT ![e % INPUT_BUF] = ch]
  /\ e' = Next1(e)
  /\ IF EndsLine(ch, Next1(e))
     THEN /\ w' = Next1(e)
          /\ pending' = pending \o Append(editing, ch)
          /\ editing' = <<>>
          /\ acquire(IntrCpu, "ptable")
          /\ intr' = "wakeup"
     ELSE /\ editing' = Append(editing, ch)
          /\ UNCHANGED <<w, pending, spin, intr>>
  /\ UNCHANGED <<r, dump>>

getc(ch) ==
  /\ Handles("getc")
  /\ Erase(ch) \/ ListProcs(ch) \/ StoreByte(ch)
  /\ UNCHANGED <<sched_, at, call>>

WakeReader == [state EXCEPT ![Reader] = IF @ = "SLEEPING" THEN "RUNNABLE" ELSE @]

intrWakeup ==
  /\ Handles("wakeup")
  /\ state' = WakeReader
  /\ release(IntrCpu, "ptable")
  /\ intr' = "getc"
  /\ UNCHANGED <<ring, cur, saved, killed, at, dump, call>>

\* No byte left.
intrRelease ==
  /\ Handles("getc")
  /\ release(IntrCpu, "cons")
  /\ intr' = IF dump THEN "procdump" ELSE "iret"
  /\ dump' = FALSE
  /\ UNCHANGED <<ring, sched_, at, call>>

\* procdump prints, and cprintf takes cons.lock.
procdump ==
  /\ Handles("procdump")
  /\ acquire(IntrCpu, "cons")
  /\ intr' = "dumping"
  /\ UNCHANGED <<ring, sched_, at, dump, call>>

procdumpDone ==
  /\ Handles("dumping")
  /\ release(IntrCpu, "cons")
  /\ intr' = "iret"
  /\ UNCHANGED <<ring, sched_, at, dump, call>>

iret ==
  /\ Handles("iret")
  /\ IF_' = [IF_ EXCEPT ![IntrCpu] = TRUE]
  /\ intr' = "none"
  /\ UNCHANGED <<lk, want, ncli, intena, panicked, ring, sched_, at, dump, call>>

-----------------------------------------------------------------------------
(* Other processes *)

\* consolewrite, and cprintf in a system call.
consolewrite(c, p) ==
  /\ Runs(c, p, "user")
  /\ acquire(c, "cons")
  /\ Goto(p, "write")
  /\ UNCHANGED <<ring, sched_, intr, dump, call>>

consolewriteDone(c, p) ==
  /\ Runs(c, p, "write")
  /\ release(c, "cons")
  /\ Goto(p, "trapret")
  /\ UNCHANGED <<ring, sched_, intr, dump, call>>

kill(c, p) ==
  /\ Runs(c, p, "user")
  /\ Reader \notin killed
  /\ acquire(c, "ptable")
  /\ Goto(p, "kill")
  /\ UNCHANGED <<ring, sched_, intr, dump, call>>

killDone(c, p) ==
  /\ Runs(c, p, "kill")
  /\ killed' = killed \cup {Reader}
  /\ state' = WakeReader
  /\ release(c, "ptable")
  /\ Goto(p, "trapret")
  /\ UNCHANGED <<ring, cur, saved, intr, dump, call>>

\* exit acquires ptable.lock, ...
exit(c, p) ==
  /\ Runs(c, p, "exit") \/ (Runs(c, p, "user") /\ p # Reader)
  /\ acquire(c, "ptable")
  /\ Goto(p, "exiting")
  /\ UNCHANGED <<ring, sched_, intr, dump, call>>

\* ... prints "deallocing uvm..." with it held, so cprintf acquires cons.lock, ...
exitPrint(c, p) ==
  /\ Runs(c, p, "exiting")
  /\ acquire(c, "cons")
  /\ Goto(p, "exit print")
  /\ UNCHANGED <<ring, sched_, intr, dump, call>>

exitPrinted(c, p) ==
  /\ Runs(c, p, "exit print")
  /\ release(c, "cons")
  /\ Goto(p, "zombie")
  /\ UNCHANGED <<ring, sched_, intr, dump, call>>

\* ... and never comes back from sched().
exitSched(c, p) ==
  /\ Runs(c, p, "zombie")
  /\ sched(c, p, "ZOMBIE")
  /\ UNCHANGED <<ring, at, intr, dump, call>>

-----------------------------------------------------------------------------
ReaderStep(c) ==
  \/ readByte(c) \/ readEmpty(c) \/ sleepRelease(c) \/ sleepSched(c)
  \/ sleepTidy(c) \/ sleepReacquire(c)

ProcStep(c, p) ==
  \/ yieldSched(c, p) \/ yieldRelease(c, p) \/ trapret(c, p)
  \/ exitPrint(c, p) \/ exitPrinted(c, p) \/ exitSched(c, p)

OtherStep(c, p) == consolewriteDone(c, p) \/ killDone(c, p)

SchedulerStep(c) ==
  schedulerTurn(c) \/ schedulerRest(c) \/ \E p \in Procs : dispatch(c, p)

HandlerStep ==
  \/ intrAcquire \/ intrWakeup \/ intrRelease \/ procdump \/ procdumpDone \/ iret

Next ==
  /\ ~ panicked
  /\ \/ \E c \in Cpus : Spin(c) \/ SchedulerStep(c) \/ ReaderStep(c)
     \/ \E c \in Cpus, n \in 1 .. MaxRead : consoleread(c, n)
     \/ \E c \in Cpus, p \in Procs : ProcStep(c, p) \/ yield(c, p) \/ exit(c, p)
     \/ \E c \in Cpus, p \in Others :
          OtherStep(c, p) \/ consolewrite(c, p) \/ kill(c, p)
     \/ interrupt \/ HandlerStep
     \/ \E ch \in Chars : getc(ch)

Spec == Init /\ [][Next]_vars

-----------------------------------------------------------------------------
(* Properties *)

TypeOK ==
  /\ SpinTypeOK
  /\ buf \in [0 .. INPUT_BUF - 1 -> Chars]
  /\ {r, w, e} \subseteq 0 .. WORD - 1
  /\ cur \in [Cpus -> Threads]
  /\ state \in [Procs -> {"RUNNING", "RUNNABLE", "SLEEPING", "ZOMBIE"}]
  /\ saved \in [Procs -> BOOLEAN]
  /\ killed \subseteq {Reader}

\* The code that runs on c, thread or handler, is inside a section that l
\* protects.
Inside(c, l) ==
  LET holders == [cons |-> {"read", "sleep", "write", "exit print"},
                  ptable |-> {"scan", "yield", "yielded", "sleep", "sleeping",
                              "slept", "kill", "exiting", "exit print", "zombie"}]
      handlers == [cons |-> {"getc", "wakeup", "dumping"}, ptable |-> {"wakeup"}]
  IN  /\ want[c] # l
      /\ \/ at[cur[c]] \in holders[l]
         \/ c = IntrCpu /\ intr \in handlers[l]

\* Whoever runs inside a protected section holds its lock, and the lock is not
\* held for anyone else: also across swtch, where the scheduler acquires
\* ptable.lock and the process releases it, and the other way round.
LockedInside == \A c \in Cpus, l \in Locks : holding(c, l) <=> Inside(c, l)

\* spinlock.c:100 "Pushcli/popcli are like cli/sti except that they are
\* matched": the depth of a processor is the number of locks it holds or spins
\* for, and while it is not zero no interrupt can come in.
CliMatched ==
  \A c \in Cpus :
    LET depth == Cardinality({l \in Locks : holding(c, l) \/ want[c] = l}) IN
    ncli[c] = depth /\ (depth > 0 => ~ IF_[c])

\* None of the checks in acquire, release, popcli and sched fails.
NoPanic == ~ panicked

\* proc.c:636 "intena is a property of this kernel thread, not this CPU": a
\* process that slept in a system call goes on with interrupts on, whichever
\* processor it wakes up on and whoever ran there before.
KeepsInterruptFlag ==
  \A c \in Cpus : Runs(c, Reader, "reacquire") => IF_[c]

\* The bytes between r and w are those of the lines not read yet, and those
\* between w and e the line being typed: editing, commits and reads never
\* overwrite, lose or repeat a byte, also when the indices wrap around.
RingHoldsLines ==
  LET bytes(i, j) == [n \in 1 .. (j - i) % WORD |-> buf[(i + n - 1) % INPUT_BUF]] IN
  bytes(r, w) = pending /\ bytes(w, e) = editing

\* The reader never sleeps while there is a line to read, except while the
\* handler is on its way to wake it.
NoLostWakeup == state[Reader] = "SLEEPING" => r = w \/ intr = "wakeup"

\* Processors wait for each other in a circle only when exit() prints with
\* ptable.lock held: everyone else takes cons.lock first.
OnlyExitDeadlocks ==
  CircularWait => \E c \in Cpus : at[cur[c]] = "exit print"

\* Locks and interrupts are where every thread expects them, on whichever
\* processor it runs, so that no check in spinlock.c or sched fails.
LocksHeld == TypeOK /\ LockedInside /\ CliMatched /\ NoPanic

\* What is typed reaches the reader: unharmed in the ring, and not while the
\* reader sleeps on.
ReaderServed == RingHoldsLines /\ NoLostWakeup
=============================================================================
