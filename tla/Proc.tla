-------------------------------- MODULE Proc --------------------------------
(***************************************************************************)
(* The process table (proc.c): fork, exit, wait, kill, sleep, wakeup and   *)
(* the scheduler of each processor, with the clock interrupt (trap.c) and  *)
(* sys_sleep (sysproc.c).                                                  *)
(*                                                                         *)
(* A section under ptable.lock is one step, from the lock's acquisition to *)
(* its release or to the switch into the scheduler.  What a process does   *)
(* without the lock is a step of its own, so that processes on other       *)
(* processors, interrupts and kill come in between.                        *)
(***************************************************************************)
EXTENDS Integers

CONSTANTS
  NPROC,         \* slots of the process table
  Cpus,          \* processors; 0 is the one that counts ticks
  WORD,          \* number of values of ticks (2^32)
  Durations,     \* arguments of sleep
  Targets,       \* arguments of kill
  MaxPid         \* bound: last pid given out

ASSUME ProcAssumption ==
  /\ NPROC \in Nat \ {0}
  /\ Cpus \subseteq Nat /\ 0 \in Cpus
  /\ WORD \in Nat \ {0}
  /\ Durations \subseteq Nat
  /\ Targets \subseteq Int
  /\ MaxPid \in Nat \ {0}

Procs == 0 .. NPROC - 1
initproc == 0
NoProc == -1

\* Channels: a process sleeps on itself in wait, and on &ticks.
NoChan == -1
TicksChan == -2

VARIABLES
  state, pid, parent, killed, chan,   \* the fields of struct proc
  nextpid,
  cpu,        \* the process each processor runs
  pc,         \* where each process is
  child,      \* the slot a fork is filling
  nap,        \* ticks0 and n of a call of sleep
  ticks

table == <<state, pid, parent, killed, chan, nextpid>>
vars == <<table, cpu, pc, child, nap, ticks>>

\* userinit: the first process is runnable.
Init ==
  /\ state = [p \in Procs |-> IF p = initproc THEN "RUNNABLE" ELSE "UNUSED"]
  /\ pid = [p \in Procs |-> IF p = initproc THEN 1 ELSE 0]
  /\ parent = [p \in Procs |-> NoProc]
  /\ killed = [p \in Procs |-> FALSE]
  /\ chan = [p \in Procs |-> NoChan]
  /\ nextpid = 2
  /\ cpu = [c \in Cpus |-> NoProc]
  /\ pc = [p \in Procs |-> "user"]
  /\ child = [p \in Procs |-> NoProc]
  /\ nap = [p \in Procs |-> [ticks0 |-> 0, n |-> 0]]
  /\ ticks = 0

\* The first slot in table order.
First(S) == CHOOSE p \in S : \A q \in S : p <= q

\* p runs on some processor.
Running(p) == \E c \in Cpus : cpu[c] = p

\* The processor of p returns to its scheduler.
sched(p) == cpu' = [c \in Cpus |-> IF cpu[c] = p THEN NoProc ELSE cpu[c]]

Goto(p, l) == pc' = [pc EXCEPT ![p] = l]

\* wakeup(chan), under ptable.lock.
wakeup1(st, c) ==
  [p \in Procs |-> IF st[p] = "SLEEPING" /\ chan[p] = c THEN "RUNNABLE" ELSE st[p]]

-----------------------------------------------------------------------------
(* Scheduler and clock *)

scheduler(p) ==
  /\ state[p] = "RUNNABLE"
  /\ \E c \in Cpus :
       /\ cpu[c] = NoProc
       /\ cpu' = [cpu EXCEPT ![c] = p]
  /\ state' = [state EXCEPT ![p] = "RUNNING"]
  /\ UNCHANGED <<pid, parent, killed, chan, nextpid, pc, child, nap, ticks>>

\* tickslock is held from the test in sys_sleep to the sleep.
TickslockFree == \A p \in Procs : pc[p] # "to_sleep"

Tick(t) == (t + 1) % WORD

\* Interrupts are off while a process holds tickslock or spins for it.
InterruptsOff(p) ==
  \/ pc[p] = "to_sleep"
  \/ pc[p] \in {"sys_sleep", "woken"} /\ ~ TickslockFree

\* The clock interrupt on processor c.  Processor 0 counts.  The interrupted
\* process exits if it was killed in user space, and yields otherwise.
timer(c) ==
  LET p == cpu[c]
      woken == IF c = 0 THEN wakeup1(state, TicksChan) ELSE state
  IN
  /\ p # NoProc => ~ InterruptsOff(p)
  /\ c = 0 => TickslockFree
  /\ ticks' = IF c = 0 THEN Tick(ticks) ELSE ticks
  /\ \/ /\ p = NoProc
        /\ state' = woken
        /\ UNCHANGED <<cpu, pc>>
     \/ /\ p # NoProc
        /\ killed[p] /\ pc[p] = "user"
        /\ state' = woken
        /\ Goto(p, "exit")
        /\ UNCHANGED cpu
     \/ /\ p # NoProc
        /\ ~ (killed[p] /\ pc[p] = "user")
        /\ state' = [woken EXCEPT ![p] = "RUNNABLE"]
        /\ sched(p)
        /\ UNCHANGED pc
  /\ UNCHANGED <<pid, parent, killed, chan, nextpid, child, nap>>

-----------------------------------------------------------------------------
(* System calls *)

\* trap() sends a killed process to exit before and after a system call, and
\* after a clock interrupt.
trap_exit(p) ==
  /\ Running(p)
  /\ pc[p] = "user"
  /\ killed[p]
  /\ Goto(p, "exit")
  /\ UNCHANGED <<table, cpu, child, nap, ticks>>

\* Any other trap from user space kills the process.
misbehave(p) ==
  /\ Running(p)
  /\ p # initproc
  /\ pc[p] = "user"
  /\ killed' = [killed EXCEPT ![p] = TRUE]
  /\ Goto(p, "exit")
  /\ UNCHANGED <<state, pid, parent, chan, nextpid, cpu, child, nap, ticks>>

\* init never calls exit or sleep (init.c).
syscall(p, call) ==
  /\ Running(p)
  /\ pc[p] = "user"
  /\ ~ killed[p]
  /\ p = initproc => call = "wait"
  /\ Goto(p, call)
  /\ UNCHANGED <<table, cpu, child, nap, ticks>>

Free == {q \in Procs : state[q] = "UNUSED"}

\* fork, first part: allocproc takes the first free slot under ptable.lock.
\* With no free slot fork returns -1 and changes nothing.
allocproc(p) ==
  LET np == First(Free) IN
  /\ Running(p)
  /\ pc[p] = "user"
  /\ ~ killed[p]
  /\ Free # {}
  /\ nextpid <= MaxPid
  /\ state' = [state EXCEPT ![np] = "EMBRYO"]
  /\ pid' = [pid EXCEPT ![np] = nextpid]
  /\ nextpid' = nextpid + 1
  /\ child' = [child EXCEPT ![p] = np]
  /\ Goto(p, "fork")
  /\ UNCHANGED <<parent, killed, chan, cpu, nap, ticks>>

\* kalloc of the stack or copyuvm fails: the slot is given back with its pid,
\* without the lock.
fork_fail(p) ==
  /\ Running(p)
  /\ pc[p] = "fork"
  /\ state' = [state EXCEPT ![child[p]] = "UNUSED"]
  /\ child' = [child EXCEPT ![p] = NoProc]
  /\ Goto(p, "user")
  /\ UNCHANGED <<pid, parent, killed, chan, nextpid, cpu, nap, ticks>>

fork_copy(p) ==
  /\ Running(p)
  /\ pc[p] = "fork"
  /\ parent' = [parent EXCEPT ![child[p]] = p]
  /\ Goto(p, "forked")
  /\ UNCHANGED <<state, pid, killed, chan, nextpid, cpu, child, nap, ticks>>

\* The child starts in user space.
fork_run(p) ==
  /\ Running(p)
  /\ pc[p] = "forked"
  /\ state' = [state EXCEPT ![child[p]] = "RUNNABLE"]
  /\ pc' = [pc EXCEPT ![p] = "user", ![child[p]] = "user"]
  /\ child' = [child EXCEPT ![p] = NoProc]
  /\ UNCHANGED <<pid, parent, killed, chan, nextpid, cpu, nap, ticks>>

\* init is woken for the zombies it inherits.
WakeInit(st, p) ==
  IF \E q \in Procs : parent[q] = p /\ st[q] = "ZOMBIE"
  THEN wakeup1(st, initproc) ELSE st

\* Faulty variant: children that still run keep their parent.
AdoptedZombies(p) ==
  [q \in Procs |-> IF parent[q] = p /\ state[q] = "ZOMBIE" THEN initproc ELSE parent[q]]

Adopted(p) == [q \in Procs |-> IF parent[q] = p THEN initproc ELSE parent[q]]

\* exit: wake the parent, pass the children to init, become a zombie.
exit(p) ==
  /\ Running(p)
  /\ pc[p] = "exit"
  /\ state' = [WakeInit(wakeup1(state, parent[p]), p) EXCEPT ![p] = "ZOMBIE"]
  /\ parent' = Adopted(p)
  /\ sched(p)
  /\ UNCHANGED <<pid, killed, chan, nextpid, pc, child, nap, ticks>>

Children(p) == {q \in Procs : parent[q] = p}

\* Faulty variant: the scan stops before the last slot.
ZombiesShort(p) ==
  {q \in Children(p) : state[q] = "ZOMBIE" /\ q < NPROC - 1}

Zombies(p) == {q \in Children(p) : state[q] = "ZOMBIE"}

\* wait, one round of its loop: reap the first zombie, give up, or sleep.
wait(p) ==
  /\ Running(p)
  /\ pc[p] = "wait"
  /\ \/ /\ Zombies(p) # {}
        /\ LET z == First(Zombies(p)) IN
           /\ state' = [state EXCEPT ![z] = "UNUSED"]
           /\ pid' = [pid EXCEPT ![z] = 0]
           /\ parent' = [parent EXCEPT ![z] = NoProc]
           /\ killed' = [killed EXCEPT ![z] = FALSE]
        /\ chan' = [chan EXCEPT ![p] = NoChan]
        /\ Goto(p, "user")
        /\ UNCHANGED cpu
     \/ /\ Zombies(p) = {}
        /\ Children(p) = {} \/ killed[p]
        /\ chan' = [chan EXCEPT ![p] = NoChan]
        /\ Goto(p, "user")
        /\ UNCHANGED <<state, pid, parent, killed, cpu>>
     \/ /\ Zombies(p) = {}
        /\ Children(p) # {} /\ ~ killed[p]
        /\ chan' = [chan EXCEPT ![p] = p]
        /\ state' = [state EXCEPT ![p] = "SLEEPING"]
        /\ sched(p)
        /\ UNCHANGED <<pid, parent, killed, pc>>
  /\ UNCHANGED <<nextpid, child, nap, ticks>>

\* The loop test of sys_sleep, holding tickslock.
SleepTest(p, ticks0, n) ==
  /\ TickslockFree
  /\ \/ /\ (ticks - ticks0) % WORD < n /\ ~ killed[p]
        /\ nap' = [nap EXCEPT ![p] = [ticks0 |-> ticks0, n |-> n]]
        /\ Goto(p, "to_sleep")
     \/ /\ (ticks - ticks0) % WORD >= n \/ killed[p]
        /\ nap' = [nap EXCEPT ![p] = [ticks0 |-> 0, n |-> 0]]
        /\ Goto(p, "user")
  /\ chan' = [chan EXCEPT ![p] = NoChan]
  /\ UNCHANGED <<state, pid, parent, killed, nextpid, cpu, child, ticks>>

sys_sleep(p) ==
  /\ Running(p)
  /\ \/ pc[p] = "sys_sleep" /\ \E n \in Durations : SleepTest(p, ticks, n)
     \/ pc[p] = "woken" /\ SleepTest(p, nap[p].ticks0, nap[p].n)

\* Faulty variant: sleeps without a channel.
sleep_nochan(p) ==
  /\ Running(p)
  /\ pc[p] = "to_sleep"
  /\ state' = [state EXCEPT ![p] = "SLEEPING"]
  /\ Goto(p, "woken")
  /\ sched(p)
  /\ UNCHANGED <<pid, parent, killed, chan, nextpid, child, nap, ticks>>

\* sleep(&ticks, &tickslock): ptable.lock is taken before tickslock is given up.
sleep(p) ==
  /\ Running(p)
  /\ pc[p] = "to_sleep"
  /\ chan' = [chan EXCEPT ![p] = TicksChan]
  /\ state' = [state EXCEPT ![p] = "SLEEPING"]
  /\ Goto(p, "woken")
  /\ sched(p)
  /\ UNCHANGED <<pid, parent, killed, nextpid, child, nap, ticks>>

\* Faulty variant: makes a running target runnable as well.
KillStateAny(q) ==
  [state EXCEPT ![q] = IF state[q] \in {"SLEEPING", "RUNNING"} THEN "RUNNABLE" ELSE state[q]]

\* Faulty variant: makes a slot runnable that fork is still filling.
KillStateEmbryo(q) ==
  [state EXCEPT ![q] = IF state[q] \in {"SLEEPING", "EMBRYO"} THEN "RUNNABLE" ELSE state[q]]

KillState(q) ==
  [state EXCEPT ![q] = IF state[q] = "SLEEPING" THEN "RUNNABLE" ELSE state[q]]

\* kill marks the first slot that holds the pid.  init does not call it and is
\* not a target: its exit is a panic.
kill(p, target) ==
  LET hit == {q \in Procs : pid[q] = target}
      q == First(hit)
  IN
  /\ Running(p)
  /\ p # initproc
  /\ pc[p] = "user"
  /\ ~ killed[p]
  /\ hit # {}
  /\ q # initproc
  /\ killed' = [killed EXCEPT ![q] = TRUE]
  /\ state' = KillState(q)
  /\ UNCHANGED <<pid, parent, chan, nextpid, cpu, pc, child, nap, ticks>>

-----------------------------------------------------------------------------
\* What a process does in the kernel once it has entered.
Kernel(p) ==
  \/ trap_exit(p) \/ fork_fail(p) \/ fork_copy(p) \/ fork_run(p)
  \/ exit(p) \/ wait(p) \/ sys_sleep(p) \/ sleep(p)

User(p) ==
  \/ misbehave(p) \/ allocproc(p)
  \/ \E call \in {"wait", "sys_sleep", "exit"} : syscall(p, call)
  \/ \E target \in Targets : kill(p, target)

Next ==
  \/ \E p \in Procs : scheduler(p) \/ Kernel(p) \/ User(p)
  \/ \E c \in Cpus : timer(c)

Spec == Init /\ [][Next]_vars

\* The scheduler's loop reaches every runnable process, a running process gets
\* somewhere before it is interrupted for ever, the clock runs, and init calls
\* wait again and again.
Fairness ==
  /\ \A p \in Procs : SF_vars(scheduler(p)) /\ SF_vars(Kernel(p))
  /\ \A c \in Cpus : WF_vars(timer(c))
  /\ SF_vars(syscall(initproc, "wait"))

FairSpec == Spec /\ Fairness

-----------------------------------------------------------------------------
(* Properties *)

Alive == {"RUNNABLE", "RUNNING", "SLEEPING"}

TypeOK ==
  /\ state \in [Procs -> Alive \cup {"UNUSED", "EMBRYO", "ZOMBIE"}]
  /\ pid \in [Procs -> 0 .. MaxPid]
  /\ parent \in [Procs -> Procs \cup {NoProc}]
  /\ killed \in [Procs -> BOOLEAN]
  /\ chan \in [Procs -> Procs \cup {NoChan, TicksChan}]
  /\ nextpid \in 2 .. MaxPid + 1
  /\ cpu \in [Cpus -> Procs \cup {NoProc}]
  /\ pc \in [Procs -> {"user", "fork", "forked", "wait", "exit",
                       "sys_sleep", "to_sleep", "woken"}]
  /\ child \in [Procs -> Procs \cup {NoProc}]
  /\ nap \in [Procs -> [ticks0 : 0 .. WORD - 1, n : Nat]]
  /\ ticks \in 0 .. WORD - 1

\* A process is RUNNING exactly when one processor runs it, so two processors
\* never run on one kernel stack: wakeups, kills, yields and switches only make
\* a process runnable once its processor has left it.
OneProcessor ==
  /\ \A p \in Procs : state[p] = "RUNNING" <=> Running(p)
  /\ \A c, d \in Cpus : cpu[c] = cpu[d] /\ cpu[c] # NoProc => c = d

\* A slot that a fork is filling belongs to that fork alone and does not run
\* before it is complete, although only the claim is made under ptable.lock and
\* other processors fork, kill and exit meanwhile.
Forking(p) == pc[p] \in {"fork", "forked"}

EmbryoOwned ==
  \A p \in Procs : Forking(p) =>
    /\ child[p] \in Procs
    /\ state[child[p]] = "EMBRYO"
    /\ \A q \in Procs : Forking(q) /\ child[q] = child[p] => q = p

\* A parent asleep in wait has a child to wait for, no zombie it could reap,
\* and has not been killed: exit wakes the parent, and init when it inherits a
\* zombie, and wait tests killed under the lock that kill takes.
WaitNotMissed ==
  \A p \in Procs : state[p] = "SLEEPING" /\ chan[p] = p =>
    Children(p) # {} /\ Zombies(p) = {} /\ ~ killed[p]

\* Every process has a parent that is alive and can reap it, also after any
\* number of exits in any order; exit follows this pointer.
ParentAlive ==
  \A p \in Procs \ {initproc} : state[p] \in Alive \cup {"ZOMBIE"} =>
    parent[p] \in Procs /\ state[parent[p]] \in Alive

\* Every child has a parent that will find it: alive, and not asleep in wait
\* while there is a zombie.
ChildrenAwaited == ParentAlive /\ WaitNotMissed

\* A killed process dies, wherever it was: asleep in wait, asleep for a number
\* of ticks, between its test of killed and its sleep, or in user space.
KilledDies ==
  \A p \in Procs :
    killed[p] /\ state[p] \in Alive ~> state[p] \notin Alive

\* A zombie whose parent is gone is reaped by init.
OrphansReaped ==
  \A p \in Procs :
    state[p] = "ZOMBIE" /\ parent[p] = initproc ~> state[p] = "UNUSED"
=============================================================================
