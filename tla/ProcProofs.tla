----------------------------- MODULE ProcProofs -----------------------------
(***************************************************************************)
(* No process runs on two processors, for any number of processes and      *)
(* processors.  The inductive invariant needs EmbryoOwned: the last step   *)
(* of fork makes its slot runnable, which is only right when no other fork,*)
(* kill or exit has started what is in it.                                 *)
(*                                                                         *)
(* On top of it, every child has a live parent that is not asleep beside a *)
(* zombie.  That needs to know whose child each slot is while fork fills   *)
(* it, and that init stays: exit hands the orphans to it.                  *)
(***************************************************************************)
EXTENDS Proc, NaturalFacts

Inv == TypeOK /\ OneProcessor /\ EmbryoOwned

States == Alive \cup {"UNUSED", "EMBRYO", "ZOMBIE"}

\* The first slot of a nonempty set belongs to it.
LEMMA FirstSlot ==
  ASSUME NEW S \in SUBSET Procs, S # {}
  PROVE  First(S) \in S
<1>1. S \in SUBSET Nat
  BY ProcAssumption DEF Procs
<1> QED BY <1>1, NatMin, Zenon DEF First

\* The first process, runnable on no processor, satisfies the invariant.
LEMMA InitInv == Init => Inv
<1> SUFFICES ASSUME Init PROVE Inv
  OBVIOUS
<1>1. TypeOK
  BY ProcAssumption DEF Init, TypeOK, Procs, initproc, NoProc, NoChan, TicksChan, Alive
<1>2. OneProcessor
  BY DEF Init, OneProcessor, Running, NoProc, Procs
<1>3. EmbryoOwned
  BY Zenon DEF Init, EmbryoOwned, Forking
<1> QED BY <1>1, <1>2, <1>3, Zenon DEF Inv

\* The processors keep their processes, and no process starts or stops.
LEMMA ProcessorsStay ==
  ASSUME OneProcessor, UNCHANGED cpu,
         \A q \in Procs : state'[q] = "RUNNING" <=> state[q] = "RUNNING"
  PROVE  OneProcessor'
BY Zenon DEF OneProcessor, Running

\* The processor of p returns to its scheduler, and p alone stops.
LEMMA ProcessorLeft ==
  ASSUME OneProcessor, NEW p \in Procs, sched(p),
         state'[p] # "RUNNING",
         \A q \in Procs \ {p} : state'[q] = "RUNNING" <=> state[q] = "RUNNING"
  PROVE  OneProcessor'
<1>1. \A c \in Cpus : cpu'[c] = IF cpu[c] = p THEN NoProc ELSE cpu[c]
  BY Zenon DEF sched
<1>2. p # NoProc
  BY ProcAssumption DEF Procs, NoProc
<1>3. ASSUME NEW q \in Procs PROVE state'[q] = "RUNNING" <=> Running(q)'
  <2>1. q # NoProc
    BY ProcAssumption DEF Procs, NoProc
  <2>2. Running(q)' <=> q # p /\ Running(q)
    BY <1>1, <2>1, Zenon DEF Running
  <2> QED BY <2>2, Zenon DEF OneProcessor
<1>4. \A c, d \in Cpus : cpu'[c] = cpu'[d] /\ cpu'[c] # NoProc => c = d
  BY <1>1, Zenon DEF OneProcessor
<1> QED BY <1>3, <1>4, Zenon DEF OneProcessor

\* No fork starts or ends, and no embryo changes.
LEMMA EmbryosStay ==
  ASSUME EmbryoOwned, UNCHANGED child,
         \A q \in Procs : Forking(q)' => Forking(q),
         \A q \in Procs : state[q] = "EMBRYO" => state'[q] = "EMBRYO"
  PROVE  EmbryoOwned'
BY Zenon DEF EmbryoOwned

\* wakeup1 changes sleeping processes only.
LEMMA WakeupSleepers ==
  ASSUME NEW st \in [Procs -> States], NEW c
  PROVE  /\ wakeup1(st, c) \in [Procs -> States]
         /\ \A q \in Procs : /\ wakeup1(st, c)[q] = "RUNNING" <=> st[q] = "RUNNING"
                             /\ wakeup1(st, c)[q] = "EMBRYO" <=> st[q] = "EMBRYO"
BY Zenon DEF wakeup1, States, Alive

\* A processor picks a runnable process, which no processor runs.
LEMMA SchedulerInv ==
  ASSUME Inv, NEW p \in Procs, scheduler(p)
  PROVE  Inv'
<1> USE DEF Inv
<1>1. PICK c \in Cpus : cpu[c] = NoProc /\ cpu' = [cpu EXCEPT ![c] = p]
  BY Zenon DEF scheduler
<1>2. TypeOK'
  BY <1>1, Zenon DEF scheduler, TypeOK, Alive
<1>3. p # NoProc /\ \A d \in Cpus : cpu[d] # p
  BY ProcAssumption, Zenon DEF scheduler, OneProcessor, Running, Procs, NoProc
<1>4. /\ cpu'[c] = p /\ \A d \in Cpus \ {c} : cpu'[d] = cpu[d]
      /\ \A q \in Procs : state'[q] = IF q = p THEN "RUNNING" ELSE state[q]
  BY <1>1, Zenon DEF scheduler, TypeOK
<1>5. ASSUME NEW q \in Procs PROVE state'[q] = "RUNNING" <=> Running(q)'
  <2>1. CASE q = p
    BY <2>1, <1>4, Zenon DEF Running
  <2>2. CASE q # p
    <3>1. Running(q) <=> Running(q)'
      BY <2>2, <1>1, <1>4 DEF Running, Procs, NoProc
    <3> QED BY <2>2, <3>1, <1>4, Zenon DEF OneProcessor
  <2> QED BY <2>1, <2>2, Zenon
<1>6. \A d, e \in Cpus : cpu'[d] = cpu'[e] /\ cpu'[d] # NoProc => d = e
  BY <1>3, <1>4 DEF OneProcessor
<1>7. OneProcessor'
  BY <1>5, <1>6, Zenon DEF OneProcessor
<1>8. EmbryoOwned'
  BY <1>4 DEF scheduler, EmbryoOwned, Forking
<1> QED BY <1>2, <1>7, <1>8, Zenon

\* The clock interrupt wakes sleepers; the interrupted process yields or exits.
LEMMA TimerInv ==
  ASSUME Inv, NEW c \in Cpus, timer(c)
  PROVE  Inv'
<1> DEFINE woken == IF c = 0 THEN wakeup1(state, TicksChan) ELSE state
<1> USE DEF Inv
<1>1. /\ woken \in [Procs -> States]
      /\ \A q \in Procs : /\ woken[q] = "RUNNING" <=> state[q] = "RUNNING"
                          /\ woken[q] = "EMBRYO" <=> state[q] = "EMBRYO"
  BY WakeupSleepers DEF TypeOK, States
<1>2. /\ UNCHANGED <<pid, parent, killed, chan, nextpid, child, nap>>
      /\ ticks' \in 0 .. WORD - 1
  BY ProcAssumption DEF timer, Tick, TypeOK
<1>3. CASE cpu[c] = NoProc
  <2>1. state' = woken /\ UNCHANGED <<cpu, pc>>
    BY <1>3, Zenon DEF timer
  <2> HIDE DEF woken
  <2>2. TypeOK'
    BY <2>1, <1>1, <1>2, Zenon DEF TypeOK, States
  <2>3. OneProcessor'
    BY <2>1, <1>1, ProcessorsStay, Zenon
  <2>4. EmbryoOwned'
    BY <2>1, <1>1, <1>2, EmbryosStay, Zenon DEF Forking
  <2> QED BY <2>2, <2>3, <2>4, Zenon
<1>4. CASE cpu[c] # NoProc /\ killed[cpu[c]] /\ pc[cpu[c]] = "user"
  <2>1. state' = woken /\ UNCHANGED cpu /\ pc' = [pc EXCEPT ![cpu[c]] = "exit"]
    BY <1>4, Zenon DEF timer, Goto
  <2> HIDE DEF woken
  <2>2. TypeOK'
    BY <2>1, <1>1, <1>2, Zenon DEF TypeOK, States
  <2>3. OneProcessor'
    BY <2>1, <1>1, ProcessorsStay, Zenon
  <2>4. \A q \in Procs : Forking(q)' => Forking(q)
    BY <2>1, Zenon DEF Forking, TypeOK
  <2>5. EmbryoOwned'
    BY <2>1, <2>4, <1>1, <1>2, EmbryosStay, Zenon
  <2> QED BY <2>2, <2>3, <2>5, Zenon
<1>5. CASE cpu[c] # NoProc /\ ~ (killed[cpu[c]] /\ pc[cpu[c]] = "user")
  <2> DEFINE p == cpu[c]
  <2>1. p \in Procs /\ state[p] = "RUNNING"
    BY <1>5 DEF TypeOK, OneProcessor, Running
  <2>2. state' = [woken EXCEPT ![p] = "RUNNABLE"] /\ sched(p) /\ UNCHANGED pc
    BY <1>5, Zenon DEF timer
  <2> HIDE DEF woken, p
  <2>3. TypeOK'
    BY <2>1, <2>2, <1>1, <1>2, Zenon DEF TypeOK, States, sched, Alive
  <2>4. /\ state'[p] # "RUNNING"
        /\ \A q \in Procs \ {p} : state'[q] = "RUNNING" <=> state[q] = "RUNNING"
        /\ \A q \in Procs : state[q] = "EMBRYO" => state'[q] = "EMBRYO"
    BY <2>1, <2>2, <1>1, Zenon
  <2>5. OneProcessor'
    BY <2>1, <2>2, <2>4, ProcessorLeft, Zenon
  <2>6. EmbryoOwned'
    BY <2>2, <2>4, <1>2, EmbryosStay, Zenon DEF Forking
  <2> QED BY <2>3, <2>5, <2>6, Zenon
<1> QED BY <1>3, <1>4, <1>5, Zenon

\* Steps that move one process and leave the states alone.
LEMMA GotoInv ==
  ASSUME Inv, NEW p \in Procs, trap_exit(p) \/ misbehave(p)
              \/ \E call \in {"wait", "sys_sleep", "exit"} : syscall(p, call)
  PROVE  Inv'
<1> USE DEF Inv
<1>1. PICK l \in {"wait", "sys_sleep", "exit"} : pc' = [pc EXCEPT ![p] = l]
  BY Zenon DEF trap_exit, misbehave, syscall, Goto
<1>2. UNCHANGED <<state, pid, parent, chan, nextpid, cpu, child, nap, ticks>>
  BY Zenon DEF trap_exit, misbehave, syscall, table
<1>3. killed' \in [Procs -> BOOLEAN]
  <2>1. killed' = killed \/ killed' = [killed EXCEPT ![p] = TRUE]
    BY Zenon DEF trap_exit, misbehave, syscall, table
  <2>2. killed \in [Procs -> BOOLEAN]
    BY Zenon DEF TypeOK
  <2> QED BY <2>1, <2>2, Zenon
<1>4. TypeOK'
  BY <1>1, <1>2, <1>3, Zenon DEF TypeOK
<1>5. OneProcessor'
  BY <1>2, ProcessorsStay, Zenon
<1>6. \A q \in Procs : Forking(q)' => Forking(q)
  BY <1>1, Zenon DEF Forking, TypeOK
<1>7. EmbryoOwned'
  BY <1>2, <1>6, EmbryosStay, Zenon
<1> QED BY <1>4, <1>5, <1>7, Zenon

\* allocproc claims a free slot, which no other fork holds.
LEMMA AllocprocInv ==
  ASSUME Inv, NEW p \in Procs, allocproc(p)
  PROVE  Inv'
<1> USE DEF Inv
<1> DEFINE np == First(Free)
<1>1. np \in Procs /\ state[np] = "UNUSED"
  <2>1. Free \in SUBSET Procs /\ Free # {}
    BY Zenon DEF allocproc, Free
  <2> QED BY <2>1, FirstSlot, Zenon DEF Free
<1>2. /\ state' = [state EXCEPT ![np] = "EMBRYO"]
      /\ pid' = [pid EXCEPT ![np] = nextpid]
      /\ nextpid' = nextpid + 1 /\ nextpid <= MaxPid
      /\ child' = [child EXCEPT ![p] = np]
      /\ pc' = [pc EXCEPT ![p] = "fork"]
      /\ UNCHANGED <<parent, killed, chan, cpu, nap, ticks>>
  BY Zenon DEF allocproc, Goto
<1> HIDE DEF np
<1>3. TypeOK'
  <2>1. nextpid \in 0 .. MaxPid /\ nextpid' \in 2 .. MaxPid + 1
    BY <1>2, ProcAssumption DEF TypeOK
  <2> QED BY <1>1, <1>2, <2>1, Zenon DEF TypeOK
<1>4. \A q \in Procs : /\ state'[q] = IF q = np THEN "EMBRYO" ELSE state[q]
                      /\ child'[q] = IF q = p THEN np ELSE child[q]
  BY <1>2, Zenon DEF TypeOK
<1>5. \A q \in Procs : q # p => pc'[q] = pc[q]
  BY <1>2, Zenon DEF TypeOK
<1>6. OneProcessor'
  BY <1>1, <1>2, <1>4, ProcessorsStay
<1>7. ASSUME NEW q \in Procs, Forking(q)'
      PROVE  /\ child'[q] \in Procs
             /\ state'[child'[q]] = "EMBRYO"
             /\ \A r \in Procs : Forking(r)' /\ child'[r] = child'[q] => r = q
  BY <1>1, <1>4, <1>5, <1>7 DEF EmbryoOwned, Forking
<1>8. EmbryoOwned'
  BY <1>7, Zenon DEF EmbryoOwned
<1> QED BY <1>3, <1>6, <1>8, Zenon

\* The end of a fork, in failure or success, concerns its own slot only.
LEMMA ForkEndInv ==
  ASSUME Inv, NEW p \in Procs, fork_fail(p) \/ fork_run(p)
  PROVE  Inv'
<1> USE DEF Inv
<1> DEFINE np == child[p]
<1>1. np \in Procs /\ state[np] = "EMBRYO" /\ Forking(p)
  BY Zenon DEF fork_fail, fork_run, EmbryoOwned, Forking
<1>2. PICK st \in {"UNUSED", "RUNNABLE"} : state' = [state EXCEPT ![np] = st]
  BY Zenon DEF fork_fail, fork_run
<1>3. /\ child' = [child EXCEPT ![p] = NoProc]
      /\ UNCHANGED <<pid, parent, killed, chan, nextpid, cpu, nap, ticks>>
  BY Zenon DEF fork_fail, fork_run
<1>4. \/ pc' = [pc EXCEPT ![p] = "user"]
      \/ pc' = [pc EXCEPT ![p] = "user", ![np] = "user"]
  BY Zenon DEF fork_fail, fork_run, Goto
<1> HIDE DEF np
<1>5. TypeOK'
  BY <1>1, <1>2, <1>3, <1>4, Zenon DEF TypeOK, Alive
<1>6. /\ \A q \in Procs : q # np => state'[q] = state[q]
      /\ \A q \in Procs : q # p => child'[q] = child[q]
      /\ state'[np] # "RUNNING"
  BY <1>1, <1>2, <1>3, Zenon DEF TypeOK
<1>7. \A q \in Procs : pc'[q] = pc[q] \/ pc'[q] = "user"
  BY <1>1, <1>4, Zenon DEF TypeOK
<1>8. pc'[p] = "user"
  BY <1>1, <1>4, Zenon DEF TypeOK
<1>9. OneProcessor'
  BY <1>1, <1>2, <1>3, <1>6, ProcessorsStay, Zenon
<1>10. ASSUME NEW q \in Procs, Forking(q)'
       PROVE  Forking(q) /\ q # p /\ child'[q] = child[q]
  BY <1>6, <1>7, <1>8, <1>10, Zenon DEF Forking
<1>11. ASSUME NEW q \in Procs, Forking(q)'
       PROVE  /\ child'[q] \in Procs
              /\ state'[child'[q]] = "EMBRYO"
              /\ \A r \in Procs : Forking(r)' /\ child'[r] = child'[q] => r = q
  <2>1. child[q] \in Procs /\ state[child[q]] = "EMBRYO" /\ child[q] # np
    BY <1>1, <1>10, <1>11, Zenon DEF EmbryoOwned, np
  <2>2. \A r \in Procs : Forking(r)' /\ child'[r] = child'[q] => r = q
    BY <1>10, <1>11, Zenon DEF EmbryoOwned
  <2> QED BY <2>1, <2>2, <1>6, <1>10, <1>11, Zenon
<1>12. EmbryoOwned'
  BY <1>11, Zenon DEF EmbryoOwned
<1> QED BY <1>5, <1>9, <1>12, Zenon

\* The middle of a fork sets the child's parent.
LEMMA ForkCopyInv ==
  ASSUME Inv, NEW p \in Procs, fork_copy(p)
  PROVE  Inv'
<1> USE DEF Inv
<1>1. /\ parent' = [parent EXCEPT ![child[p]] = p]
      /\ pc' = [pc EXCEPT ![p] = "forked"] /\ Forking(p)
      /\ UNCHANGED <<state, pid, killed, chan, nextpid, cpu, child, nap, ticks>>
  BY Zenon DEF fork_copy, Goto, Forking
<1>2. TypeOK'
  BY <1>1, Zenon DEF TypeOK
<1>3. OneProcessor'
  BY <1>1, ProcessorsStay, Zenon
<1>4. \A q \in Procs : Forking(q)' => Forking(q)
  BY <1>1, Zenon DEF Forking, TypeOK
<1>5. EmbryoOwned'
  BY <1>1, <1>4, EmbryosStay, Zenon
<1> QED BY <1>2, <1>3, <1>5, Zenon

\* exit wakes sleepers, hands the children to init and leaves the processor.
LEMMA ExitInv ==
  ASSUME Inv, NEW p \in Procs, exit(p)
  PROVE  Inv'
<1> USE DEF Inv
<1> DEFINE st == WakeInit(wakeup1(state, parent[p]), p)
<1>1. /\ st \in [Procs -> States]
      /\ \A q \in Procs : /\ st[q] = "RUNNING" <=> state[q] = "RUNNING"
                          /\ st[q] = "EMBRYO" <=> state[q] = "EMBRYO"
  <2> DEFINE w == wakeup1(state, parent[p])
  <2>1. /\ w \in [Procs -> States]
        /\ \A q \in Procs : /\ w[q] = "RUNNING" <=> state[q] = "RUNNING"
                            /\ w[q] = "EMBRYO" <=> state[q] = "EMBRYO"
    BY WakeupSleepers, Zenon DEF TypeOK, States
  <2>2. st = w \/ st = wakeup1(w, initproc)
    BY Zenon DEF WakeInit
  <2> HIDE DEF w, st
  <2>3. CASE st = w
    BY <2>1, <2>3, Zenon
  <2>4. CASE st = wakeup1(w, initproc)
    BY <2>1, <2>4, WakeupSleepers
  <2> QED BY <2>2, <2>3, <2>4, Zenon
<1>2. /\ state' = [st EXCEPT ![p] = "ZOMBIE"] /\ parent' = Adopted(p) /\ sched(p)
      /\ UNCHANGED <<pid, killed, chan, nextpid, pc, child, nap, ticks>>
  BY Zenon DEF exit
<1>3. state[p] = "RUNNING"
  BY Zenon DEF exit, OneProcessor
<1> HIDE DEF st
<1>4. parent' \in [Procs -> Procs \cup {NoProc}]
  BY <1>2, ProcAssumption DEF Adopted, TypeOK, Procs, initproc
<1>5. TypeOK'
  BY <1>1, <1>2, <1>4, Zenon DEF TypeOK, States, sched
<1>6. /\ state'[p] # "RUNNING"
      /\ \A q \in Procs \ {p} : state'[q] = "RUNNING" <=> state[q] = "RUNNING"
      /\ \A q \in Procs : state[q] = "EMBRYO" => state'[q] = "EMBRYO"
  BY <1>1, <1>2, <1>3, Zenon
<1>7. OneProcessor'
  BY <1>2, <1>6, ProcessorLeft, Zenon
<1>8. EmbryoOwned'
  BY <1>2, <1>6, EmbryosStay, Zenon DEF Forking
<1> QED BY <1>5, <1>7, <1>8, Zenon

\* A running process goes to sleep: in wait, or in sleep for the clock.
LEMMA ToSleepInv ==
  ASSUME Inv, NEW p \in Procs, Running(p), sched(p),
         state' = [state EXCEPT ![p] = "SLEEPING"],
         chan' \in [Procs -> Procs \cup {NoChan, TicksChan}],
         UNCHANGED pc \/ Goto(p, "woken"),
         UNCHANGED <<pid, parent, killed, nextpid, child, nap, ticks>>
  PROVE  Inv'
<1> USE DEF Inv
<1>1. state[p] = "RUNNING"
  BY Zenon DEF OneProcessor
<1>2. TypeOK'
  BY Zenon DEF TypeOK, sched, Goto, Alive
<1>3. /\ state'[p] # "RUNNING"
      /\ \A q \in Procs \ {p} : state'[q] = "RUNNING" <=> state[q] = "RUNNING"
      /\ \A q \in Procs : state[q] = "EMBRYO" => state'[q] = "EMBRYO"
  BY <1>1, Zenon DEF TypeOK
<1>4. OneProcessor'
  BY <1>3, ProcessorLeft, Zenon
<1>5. \A q \in Procs : Forking(q)' => Forking(q)
  BY Zenon DEF Forking, TypeOK, Goto
<1>6. EmbryoOwned'
  BY <1>3, <1>5, EmbryosStay, Zenon
<1> QED BY <1>2, <1>4, <1>6, Zenon

\* wait frees a zombie, which no processor runs and no fork fills, gives up, or
\* sleeps.
LEMMA WaitInv ==
  ASSUME Inv, NEW p \in Procs, wait(p)
  PROVE  Inv'
<1> USE DEF Inv
<1>1. UNCHANGED <<nextpid, child, nap, ticks>> /\ Running(p)
  BY Zenon DEF wait
<1>2. CASE Zombies(p) # {}
  <2> DEFINE z == First(Zombies(p))
  <2>1. z \in Procs /\ state[z] = "ZOMBIE"
    <3>1. Zombies(p) \in SUBSET Procs
      BY Zenon DEF Zombies, Children
    <3> QED BY <1>2, <3>1, FirstSlot, Zenon DEF Zombies
  <2>2. /\ state' = [state EXCEPT ![z] = "UNUSED"]
        /\ pid' = [pid EXCEPT ![z] = 0]
        /\ parent' = [parent EXCEPT ![z] = NoProc]
        /\ killed' = [killed EXCEPT ![z] = FALSE]
        /\ chan' = [chan EXCEPT ![p] = NoChan]
        /\ pc' = [pc EXCEPT ![p] = "user"]
        /\ UNCHANGED cpu
    BY <1>2, Zenon DEF wait, Goto
  <2> HIDE DEF z
  <2>3. 0 \in 0 .. MaxPid
    BY ProcAssumption
  <2>4. TypeOK'
    BY <1>1, <2>1, <2>2, <2>3, Zenon DEF TypeOK
  <2>5. /\ \A q \in Procs : state'[q] = "RUNNING" <=> state[q] = "RUNNING"
        /\ \A q \in Procs : state[q] = "EMBRYO" => state'[q] = "EMBRYO"
    BY <2>1, <2>2, Zenon DEF TypeOK
  <2>6. OneProcessor'
    BY <2>2, <2>5, ProcessorsStay, Zenon
  <2>7. \A q \in Procs : Forking(q)' => Forking(q)
    BY <2>2, Zenon DEF Forking, TypeOK
  <2>8. EmbryoOwned'
    BY <1>1, <2>5, <2>7, EmbryosStay, Zenon
  <2> QED BY <2>4, <2>6, <2>8, Zenon
<1>3. CASE Zombies(p) = {} /\ (Children(p) = {} \/ killed[p])
  <2>1. /\ chan' = [chan EXCEPT ![p] = NoChan]
        /\ pc' = [pc EXCEPT ![p] = "user"]
        /\ UNCHANGED <<state, pid, parent, killed, cpu>>
    BY <1>3, Zenon DEF wait, Goto
  <2>2. TypeOK'
    BY <1>1, <2>1, Zenon DEF TypeOK
  <2>3. OneProcessor'
    BY <2>1, ProcessorsStay, Zenon
  <2>4. \A q \in Procs : Forking(q)' => Forking(q)
    BY <2>1, Zenon DEF Forking, TypeOK
  <2>5. EmbryoOwned'
    BY <1>1, <2>1, <2>4, EmbryosStay, Zenon
  <2> QED BY <2>2, <2>3, <2>5, Zenon
<1>4. CASE Zombies(p) = {} /\ Children(p) # {} /\ ~ killed[p]
  <2>1. /\ chan' = [chan EXCEPT ![p] = p]
        /\ state' = [state EXCEPT ![p] = "SLEEPING"] /\ sched(p)
        /\ UNCHANGED <<pid, parent, killed, pc>>
    BY <1>4, Zenon DEF wait
  <2>2. chan' \in [Procs -> Procs \cup {NoChan, TicksChan}]
    BY <2>1, Zenon DEF TypeOK
  <2> QED BY <1>1, <2>1, <2>2, ToSleepInv, Zenon
<1> QED BY <1>2, <1>3, <1>4, Zenon

\* The loop test of sys_sleep.
LEMMA SysSleepInv ==
  ASSUME Inv, NEW p \in Procs, sys_sleep(p)
  PROVE  Inv'
<1> USE DEF Inv
<1>1. PICK t \in 0 .. WORD - 1, n \in Nat : SleepTest(p, t, n)
  <2>1. CASE \E n \in Durations : SleepTest(p, ticks, n)
    BY <2>1, ProcAssumption, Zenon DEF TypeOK
  <2>2. CASE SleepTest(p, nap[p].ticks0, nap[p].n)
    <3>1. nap[p].ticks0 \in 0 .. WORD - 1 /\ nap[p].n \in Nat
      BY Zenon DEF TypeOK
    <3> QED BY <2>2, <3>1, Zenon
  <2> QED BY <2>1, <2>2, Zenon DEF sys_sleep
<1>2. /\ UNCHANGED <<state, pid, parent, killed, nextpid, cpu, child, ticks>>
      /\ chan' = [chan EXCEPT ![p] = NoChan]
      /\ pc' = [pc EXCEPT ![p] = "to_sleep"] \/ pc' = [pc EXCEPT ![p] = "user"]
  BY <1>1, Zenon DEF SleepTest, Goto
<1>3. nap' \in [Procs -> [ticks0 : 0 .. WORD - 1, n : Nat]]
  <2>1. 0 \in 0 .. WORD - 1
    BY ProcAssumption
  <2>2. PICK r \in [ticks0 : 0 .. WORD - 1, n : Nat] : nap' = [nap EXCEPT ![p] = r]
    BY <1>1, <2>1, Zenon DEF SleepTest
  <2> QED BY <2>2, Zenon DEF TypeOK
<1>4. TypeOK'
  BY <1>2, <1>3, Zenon DEF TypeOK
<1>5. OneProcessor'
  BY <1>2, ProcessorsStay, Zenon
<1>6. \A q \in Procs : Forking(q)' => Forking(q)
  BY <1>2, Zenon DEF Forking, TypeOK
<1>7. EmbryoOwned'
  BY <1>2, <1>6, EmbryosStay, Zenon
<1> QED BY <1>4, <1>5, <1>7, Zenon

\* sleep(&ticks, &tickslock).
LEMMA SleepInv ==
  ASSUME Inv, NEW p \in Procs, sleep(p)
  PROVE  Inv'
<1>1. chan' \in [Procs -> Procs \cup {NoChan, TicksChan}]
  BY Zenon DEF sleep, Inv, TypeOK
<1>2. /\ Running(p) /\ sched(p) /\ state' = [state EXCEPT ![p] = "SLEEPING"]
      /\ Goto(p, "woken")
      /\ UNCHANGED <<pid, parent, killed, nextpid, child, nap, ticks>>
  BY Zenon DEF sleep
<1> QED BY <1>1, <1>2, ToSleepInv, Zenon

\* kill makes a sleeping process runnable and no other.
LEMMA KillInv ==
  ASSUME Inv, NEW p \in Procs, NEW target \in Targets, kill(p, target)
  PROVE  Inv'
<1> USE DEF Inv
<1> DEFINE hit == {r \in Procs : pid[r] = target}
           q == First(hit)
<1>1. q \in Procs
  <2>1. hit \in SUBSET Procs /\ hit # {}
    BY Zenon DEF kill
  <2> QED BY <2>1, FirstSlot, Zenon
<1>2. /\ killed' = [killed EXCEPT ![q] = TRUE]
      /\ state' = KillState(q)
      /\ UNCHANGED <<pid, parent, chan, nextpid, cpu, pc, child, nap, ticks>>
  BY Zenon DEF kill
<1> HIDE DEF q, hit
<1>3. state' \in [Procs -> States]
  BY <1>1, <1>2, Zenon DEF TypeOK, KillState, States, Alive
<1>4. killed' \in [Procs -> BOOLEAN]
  BY <1>2, Zenon DEF TypeOK
<1>5. TypeOK'
  BY <1>2, <1>3, <1>4, Zenon DEF TypeOK, States
<1>6. /\ \A r \in Procs : state'[r] = "RUNNING" <=> state[r] = "RUNNING"
      /\ \A r \in Procs : state[r] = "EMBRYO" => state'[r] = "EMBRYO"
  BY <1>1, <1>2, Zenon DEF TypeOK, KillState
<1>7. OneProcessor'
  BY <1>2, <1>6, ProcessorsStay, Zenon
<1>8. EmbryoOwned'
  BY <1>2, <1>6, EmbryosStay, Zenon DEF Forking
<1> QED BY <1>5, <1>7, <1>8, Zenon

\* Every step of the process table keeps the invariant.
LEMMA NextInv == Inv /\ [Next]_vars => Inv'
<1> SUFFICES ASSUME Inv, [Next]_vars PROVE Inv'
  OBVIOUS
<1>1. ASSUME NEW p \in Procs, scheduler(p) \/ Kernel(p) \/ User(p) PROVE Inv'
  <2>1. CASE scheduler(p)
    BY <2>1, SchedulerInv, Zenon
  <2>2. CASE Kernel(p)
    BY <2>2, GotoInv, ForkEndInv, ForkCopyInv, ExitInv, WaitInv, SysSleepInv, SleepInv, Zenon
       DEF Kernel
  <2>3. CASE User(p)
    BY <2>3, GotoInv, AllocprocInv, KillInv, Zenon DEF User
  <2> QED BY <1>1, <2>1, <2>2, <2>3, Zenon
<1>2. CASE UNCHANGED vars
  <2>1. /\ UNCHANGED <<state, pid, parent, killed, chan, nextpid>>
        /\ UNCHANGED <<cpu, pc, child, nap, ticks>>
    BY <1>2, Zenon DEF vars, table
  <2> QED BY <2>1 DEF Inv, TypeOK, OneProcessor, Running, EmbryoOwned, Forking
<1> QED BY <1>1, <1>2, TimerInv, Zenon DEF Next

-----------------------------------------------------------------------------
(* Parents and children *)

\* init neither dies nor becomes a child.
InitLives ==
  /\ state[initproc] \in Alive /\ ~ killed[initproc]
  /\ pc[initproc] # "exit" /\ parent[initproc] = NoProc

\* Whose child a slot is, from allocproc to wait.
Lineage ==
  /\ \A q \in Procs : parent[q] # q
  /\ \A q \in Procs : state[q] = "UNUSED" => parent[q] = NoProc
  /\ \A q \in Procs : pc[q] = "fork" => parent[child[q]] = NoProc
  /\ \A q \in Procs : pc[q] = "forked" => parent[child[q]] = q

Family == InitLives /\ Lineage /\ ParentAlive /\ WaitNotMissed

\* q is asleep in wait.
Waits(q) == state[q] = "SLEEPING" /\ chan[q] = q

\* userinit starts one process, which has no children.
LEMMA InitFamily == Init => Family
<1> SUFFICES ASSUME Init PROVE Family
  OBVIOUS
<1>1. initproc \in Procs /\ NoProc \notin Procs
  BY ProcAssumption DEF Procs, initproc, NoProc
<1> QED BY <1>1, Zenon
     DEF Init, Family, InitLives, Lineage, ParentAlive, WaitNotMissed, Alive

\* A step that makes nobody a child, a zombie or a sleeper in wait.
LEMMA FamilyStays ==
  ASSUME Family, UNCHANGED <<parent, child>>,
         \A q \in Procs : state'[q] \in Alive <=> state[q] \in Alive,
         \A q \in Procs : state'[q] = "UNUSED" => state[q] = "UNUSED",
         \A q \in Procs : state'[q] = "ZOMBIE" => state[q] = "ZOMBIE",
         \A q \in Procs : Waits(q)' => Waits(q) /\ ~ killed'[q],
         ~ killed'[initproc], pc'[initproc] # "exit",
         \A q \in Procs : pc'[q] = "fork" => pc[q] = "fork",
         \A q \in Procs : pc'[q] = "forked" => pc[q] = "forked"
  PROVE  Family'
<1> USE DEF Family
<1>1. initproc \in Procs
  BY ProcAssumption DEF Procs, initproc
<1>2. InitLives'
  BY <1>1, Zenon DEF InitLives
<1>3. Lineage'
  BY Zenon DEF Lineage
<1>4. ParentAlive'
  BY Zenon DEF ParentAlive
<1>5. WaitNotMissed'
  <2>1. \A q \in Procs : Children(q)' = Children(q) /\ Zombies(q)' \subseteq Zombies(q)
    BY Zenon DEF Children, Zombies
  <2> QED BY <2>1 DEF WaitNotMissed, Waits
<1> QED BY <1>2, <1>3, <1>4, <1>5, Zenon

\* The scheduler changes no parent and makes no zombie.
LEMMA SchedulerFamily ==
  ASSUME Inv, Family, NEW p \in Procs, scheduler(p)
  PROVE  Family'
<1>1. /\ state[p] = "RUNNABLE" /\ state' = [state EXCEPT ![p] = "RUNNING"]
      /\ UNCHANGED <<parent, killed, chan, pc, child>>
  BY Zenon DEF scheduler
<1>2. \A q \in Procs : state'[q] = IF q = p THEN "RUNNING" ELSE state[q]
  BY <1>1, Zenon DEF Inv, TypeOK
<1>3. \A q \in Procs : Waits(q)' => Waits(q) /\ ~ killed'[q]
  BY <1>1, <1>2 DEF Waits, Family, WaitNotMissed
<1>4. /\ \A q \in Procs : state'[q] \in Alive <=> state[q] \in Alive
      /\ \A q \in Procs : state'[q] = "UNUSED" => state[q] = "UNUSED"
      /\ \A q \in Procs : state'[q] = "ZOMBIE" => state[q] = "ZOMBIE"
  BY <1>1, <1>2 DEF Alive
<1>5. ~ killed'[initproc] /\ pc'[initproc] # "exit"
  BY <1>1, Zenon DEF Family, InitLives
<1> QED BY <1>1, <1>3, <1>4, <1>5, FamilyStays, Zenon

\* wakeup1 keeps everybody alive and puts nobody to sleep.
LEMMA WakeupFamily ==
  ASSUME NEW st \in [Procs -> States], NEW c
  PROVE  /\ \A q \in Procs : wakeup1(st, c)[q] \in Alive <=> st[q] \in Alive
         /\ \A q \in Procs : wakeup1(st, c)[q] = "UNUSED" <=> st[q] = "UNUSED"
         /\ \A q \in Procs : wakeup1(st, c)[q] = "ZOMBIE" <=> st[q] = "ZOMBIE"
         /\ \A q \in Procs : wakeup1(st, c)[q] = "SLEEPING" <=>
                             st[q] = "SLEEPING" /\ chan[q] # c
BY Zenon DEF wakeup1, States, Alive

\* The clock wakes sleepers on ticks only, never a parent in wait.
LEMMA TimerFamily ==
  ASSUME Inv, Family, NEW c \in Cpus, timer(c)
  PROVE  Family'
<1> DEFINE woken == IF c = 0 THEN wakeup1(state, TicksChan) ELSE state
           p == cpu[c]
<1>1. /\ woken \in [Procs -> States]
      /\ \A q \in Procs : woken[q] \in Alive <=> state[q] \in Alive
      /\ \A q \in Procs : woken[q] = "UNUSED" => state[q] = "UNUSED"
      /\ \A q \in Procs : woken[q] = "ZOMBIE" => state[q] = "ZOMBIE"
      /\ \A q \in Procs : woken[q] = "SLEEPING" => state[q] = "SLEEPING"
  <2>1. state \in [Procs -> States]
    BY Zenon DEF Inv, TypeOK, States
  <2> QED BY <2>1, WakeupFamily, WakeupSleepers
<1>2. p \in Procs \cup {NoProc} /\ (p \in Procs => state[p] = "RUNNING")
  BY Zenon DEF Inv, TypeOK, OneProcessor, Running
<1>3. UNCHANGED <<parent, killed, chan, child>>
  BY Zenon DEF timer
<1>4. \/ state' = woken
      \/ p \in Procs /\ state' = [woken EXCEPT ![p] = "RUNNABLE"]
  BY <1>2, Zenon DEF timer
<1>5. \/ UNCHANGED pc
      \/ p \in Procs /\ killed[p] /\ pc' = [pc EXCEPT ![p] = "exit"]
  BY <1>2, Zenon DEF timer, Goto
<1> HIDE DEF woken, p
<1>6. ~ killed'[initproc] /\ pc'[initproc] # "exit"
  <2>1. ~ killed[initproc] /\ pc[initproc] # "exit"
    BY Zenon DEF Family, InitLives
  <2>2. CASE UNCHANGED pc
    BY <1>3, <2>1, <2>2, Zenon
  <2>3. CASE p \in Procs /\ killed[p] /\ pc' = [pc EXCEPT ![p] = "exit"]
    <3>1. p # initproc
      BY <2>1, <2>3, Zenon
    <3> QED BY <1>3, <2>1, <2>3, <3>1
  <2> QED BY <1>5, <2>2, <2>3, Zenon
<1>7. /\ \A q \in Procs : pc'[q] = "fork" => pc[q] = "fork"
      /\ \A q \in Procs : pc'[q] = "forked" => pc[q] = "forked"
  BY <1>5, Zenon DEF Inv, TypeOK
<1>8. /\ \A q \in Procs : state'[q] \in Alive <=> state[q] \in Alive
      /\ \A q \in Procs : state'[q] = "UNUSED" => state[q] = "UNUSED"
      /\ \A q \in Procs : state'[q] = "ZOMBIE" => state[q] = "ZOMBIE"
      /\ \A q \in Procs : state'[q] = "SLEEPING" => state[q] = "SLEEPING"
  BY <1>1, <1>2, <1>4, Zenon DEF Alive
<1>9. \A q \in Procs : Waits(q)' => Waits(q) /\ ~ killed'[q]
  BY <1>3, <1>8, Zenon DEF Waits, Family, WaitNotMissed
<1> QED BY <1>3, <1>6, <1>7, <1>8, <1>9, FamilyStays, Zenon

\* Steps that move one process; misbehave marks it killed, while it runs.
LEMMA GotoFamily ==
  ASSUME Inv, Family, NEW p \in Procs, trap_exit(p) \/ misbehave(p)
              \/ \E call \in {"wait", "sys_sleep", "exit"} : syscall(p, call)
  PROVE  Family'
<1>1. PICK l \in {"wait", "sys_sleep", "exit"} : pc' = [pc EXCEPT ![p] = l]
  BY Zenon DEF trap_exit, misbehave, syscall, Goto
<1>2. UNCHANGED <<state, parent, chan, child>> /\ state[p] = "RUNNING"
  BY Zenon DEF trap_exit, misbehave, syscall, table, Inv, OneProcessor
<1>3. p = initproc => UNCHANGED killed /\ pc' = [pc EXCEPT ![p] = "wait"]
  BY Zenon DEF trap_exit, misbehave, syscall, table, Goto, Family, InitLives
<1>4. UNCHANGED killed \/ killed' = [killed EXCEPT ![p] = TRUE]
  BY Zenon DEF trap_exit, misbehave, syscall, table
<1>5. \A q \in Procs : q # p => killed'[q] = killed[q]
  <2>1. killed \in [Procs -> BOOLEAN]
    BY Zenon DEF Inv, TypeOK
  <2> QED BY <1>4, <2>1, Zenon
<1>6. ~ killed'[initproc] /\ pc'[initproc] # "exit"
  <2>1. ~ killed[initproc] /\ pc[initproc] # "exit" /\ initproc \in Procs
    BY ProcAssumption DEF Family, InitLives, Procs, initproc
  <2>2. pc'[initproc] # "exit"
    BY <1>1, <1>3, <2>1, Zenon DEF Inv, TypeOK
  <2>3. ~ killed'[initproc]
    BY <1>3, <1>5, <2>1, Zenon
  <2> QED BY <2>2, <2>3, Zenon
<1>7. /\ \A q \in Procs : pc'[q] = "fork" => pc[q] = "fork"
      /\ \A q \in Procs : pc'[q] = "forked" => pc[q] = "forked"
  BY <1>1, Zenon DEF Inv, TypeOK
<1>8. \A q \in Procs : Waits(q)' => Waits(q) /\ ~ killed'[q]
  BY <1>2, <1>5, Zenon DEF Waits, Family, WaitNotMissed
<1> QED BY <1>2, <1>6, <1>7, <1>8, FamilyStays, Zenon

\* allocproc claims a slot that is nobody's child.
LEMMA AllocprocFamily ==
  ASSUME Inv, Family, NEW p \in Procs, allocproc(p)
  PROVE  Family'
<1> DEFINE np == First(Free)
<1>1. np \in Procs /\ state[np] = "UNUSED"
  <2>1. Free \in SUBSET Procs /\ Free # {}
    BY Zenon DEF allocproc, Free
  <2> QED BY <2>1, FirstSlot, Zenon DEF Free
<1>2. /\ state' = [state EXCEPT ![np] = "EMBRYO"]
      /\ child' = [child EXCEPT ![p] = np]
      /\ pc' = [pc EXCEPT ![p] = "fork"]
      /\ UNCHANGED <<parent, killed, chan>>
  BY Zenon DEF allocproc, Goto
<1> HIDE DEF np
<1>3. /\ \A q \in Procs : state'[q] = IF q = np THEN "EMBRYO" ELSE state[q]
      /\ \A q \in Procs : child'[q] = IF q = p THEN np ELSE child[q]
      /\ \A q \in Procs : pc'[q] = IF q = p THEN "fork" ELSE pc[q]
  BY <1>2, Zenon DEF Inv, TypeOK
<1>4. initproc \in Procs /\ np # initproc
  BY <1>1, ProcAssumption DEF Procs, initproc, Family, InitLives, Alive
<1>5. InitLives'
  BY <1>2, <1>3, <1>4 DEF Family, InitLives
<1>6. Lineage'
  <2>1. \A q \in Procs : pc'[q] = "fork" => parent'[child'[q]] = NoProc
    BY <1>1, <1>2, <1>3 DEF Family, Lineage
  <2>2. \A q \in Procs : pc'[q] = "forked" => parent'[child'[q]] = q
    BY <1>2, <1>3 DEF Family, Lineage
  <2> QED BY <1>2, <1>3, <2>1, <2>2 DEF Family, Lineage
<1>7. ParentAlive'
  BY <1>1, <1>2, <1>3 DEF Family, ParentAlive, Alive
<1>8. WaitNotMissed'
  <2>1. \A q \in Procs : Children(q)' = Children(q) /\ Zombies(q)' \subseteq Zombies(q)
    BY <1>2, <1>3 DEF Children, Zombies
  <2> QED BY <1>2, <1>3, <2>1 DEF Family, WaitNotMissed
<1> QED BY <1>5, <1>6, <1>7, <1>8, Zenon DEF Family

\* A fork that fails leaves a slot that is nobody's child; one that succeeds
\* leaves a child of the process that called it, which is running.
LEMMA ForkEndFamily ==
  ASSUME Inv, Family, NEW p \in Procs, fork_fail(p) \/ fork_run(p)
  PROVE  Family'
<1> DEFINE np == child[p]
<1>1. np \in Procs /\ state[np] = "EMBRYO" /\ Forking(p) /\ state[p] = "RUNNING"
  BY Zenon DEF fork_fail, fork_run, Inv, EmbryoOwned, OneProcessor, Forking
<1>2. PICK st \in {"UNUSED", "RUNNABLE"} :
        /\ state' = [state EXCEPT ![np] = st]
        /\ st = "UNUSED" => parent[np] = NoProc
        /\ st = "RUNNABLE" => parent[np] = p
  BY Zenon DEF fork_fail, fork_run, Family, Lineage
<1>3. /\ child' = [child EXCEPT ![p] = NoProc]
      /\ UNCHANGED <<parent, killed, chan>>
  BY Zenon DEF fork_fail, fork_run
<1>4. \/ pc' = [pc EXCEPT ![p] = "user"]
      \/ pc' = [pc EXCEPT ![p] = "user", ![np] = "user"]
  BY Zenon DEF fork_fail, fork_run, Goto
<1> HIDE DEF np
<1>5. /\ \A q \in Procs : state'[q] = IF q = np THEN st ELSE state[q]
      /\ \A q \in Procs : q # p => child'[q] = child[q]
  BY <1>2, <1>3, Zenon DEF Inv, TypeOK
<1>6. pc'[p] = "user" /\ \A q \in Procs : pc'[q] = pc[q] \/ pc'[q] = "user"
  BY <1>1, <1>4, Zenon DEF Inv, TypeOK
<1>7. initproc \in Procs /\ np # initproc /\ np # p
  BY <1>1, ProcAssumption DEF Procs, initproc, Family, InitLives, Alive
<1>8. InitLives'
  BY <1>3, <1>5, <1>6, <1>7, Zenon DEF Family, InitLives
<1>9. Lineage'
  <2>1. \A q \in Procs : pc'[q] = "fork" => parent'[child'[q]] = NoProc
    BY <1>3, <1>5, <1>6, Zenon DEF Family, Lineage
  <2>2. \A q \in Procs : pc'[q] = "forked" => parent'[child'[q]] = q
    BY <1>3, <1>5, <1>6, Zenon DEF Family, Lineage
  <2>3. \A q \in Procs : state'[q] = "UNUSED" => parent'[q] = NoProc
    BY <1>2, <1>3, <1>5 DEF Family, Lineage
  <2> QED BY <1>3, <2>1, <2>2, <2>3, Zenon DEF Family, Lineage
<1>10. ParentAlive'
  BY <1>1, <1>2, <1>3, <1>5, <1>7 DEF Family, ParentAlive, Alive
<1>11. WaitNotMissed'
  <2>1. \A q \in Procs : Children(q)' = Children(q) /\ Zombies(q)' \subseteq Zombies(q)
    BY <1>3, <1>5, Zenon DEF Children, Zombies
  <2> QED BY <1>3, <1>5, <2>1, Zenon DEF Family, WaitNotMissed
<1> QED BY <1>8, <1>9, <1>10, <1>11, Zenon DEF Family

\* The slot becomes a child of the process that forks, and of nobody's before.
LEMMA ForkCopyFamily ==
  ASSUME Inv, Family, NEW p \in Procs, fork_copy(p)
  PROVE  Family'
<1> DEFINE np == child[p]
<1>1. /\ np \in Procs /\ state[np] = "EMBRYO" /\ state[p] = "RUNNING" /\ pc[p] = "fork"
      /\ parent[np] = NoProc
      /\ \A q \in Procs : Forking(q) /\ child[q] = np => q = p
  BY Zenon DEF fork_copy, Inv, EmbryoOwned, OneProcessor, Forking, Family, Lineage
<1>2. /\ parent' = [parent EXCEPT ![np] = p] /\ pc' = [pc EXCEPT ![p] = "forked"]
      /\ UNCHANGED <<state, killed, chan, child>>
  BY Zenon DEF fork_copy, Goto
<1> HIDE DEF np
<1>3. /\ \A q \in Procs : parent'[q] = IF q = np THEN p ELSE parent[q]
      /\ \A q \in Procs : pc'[q] = IF q = p THEN "forked" ELSE pc[q]
  BY <1>2, Zenon DEF Inv, TypeOK
<1>4. initproc \in Procs /\ np # initproc /\ np # p /\ NoProc \notin Procs
  BY <1>1, ProcAssumption DEF Procs, initproc, NoProc, Family, InitLives, Alive
<1>5. InitLives'
  BY <1>2, <1>3, <1>4 DEF Family, InitLives
<1>6. Lineage'
  <2>1. \A q \in Procs : pc'[q] \in {"fork", "forked"} =>
          child'[q] = child[q] /\ child[q] \in Procs /\ (q # p => child[q] # np)
    BY <1>1, <1>2, <1>3, Zenon DEF Inv, EmbryoOwned, Forking
  <2>2. \A q \in Procs : pc'[q] = "fork" => parent'[child'[q]] = NoProc
    BY <1>3, <2>1 DEF Family, Lineage
  <2>3. \A q \in Procs : pc'[q] = "forked" => parent'[child'[q]] = q
    <3>1. parent'[child'[p]] = p
      BY <1>1, <1>2, <1>3, Zenon DEF np
    <3>2. \A q \in Procs \ {p} : pc'[q] = "forked" => parent'[child'[q]] = q
      BY <1>3, <2>1, Zenon DEF Family, Lineage
    <3> QED BY <3>1, <3>2, Zenon
  <2>4. \A q \in Procs : state'[q] = "UNUSED" => parent'[q] = NoProc
    BY <1>1, <1>2, <1>3, Zenon DEF Family, Lineage
  <2>5. \A q \in Procs : parent'[q] # q
    BY <1>3, <1>4, Zenon DEF Family, Lineage
  <2> QED BY <2>2, <2>3, <2>4, <2>5, Zenon DEF Lineage
<1>7. ParentAlive'
  BY <1>1, <1>2, <1>3, Zenon DEF Family, ParentAlive, Alive
<1>8. WaitNotMissed'
  <2>1. \A q \in Procs : Children(q) \subseteq Children(q)' /\ Zombies(q)' \subseteq Zombies(q)
    BY <1>1, <1>2, <1>3, <1>4, Zenon DEF Children, Zombies
  <2> QED BY <1>2, <2>1, Zenon DEF Family, WaitNotMissed
<1> QED BY <1>5, <1>6, <1>7, <1>8, Zenon DEF Family

\* exit makes a zombie, and whoever is to reap it, or inherits a zombie from
\* it, is awake afterwards.
LEMMA ExitFamily ==
  ASSUME Inv, Family, NEW p \in Procs, exit(p)
  PROVE  Family'
<1> DEFINE w == wakeup1(state, parent[p])
           st == WakeInit(w, p)
<1>1. /\ state' = [st EXCEPT ![p] = "ZOMBIE"] /\ parent' = Adopted(p)
      /\ UNCHANGED <<killed, chan, pc, child>>
      /\ pc[p] = "exit" /\ state[p] = "RUNNING"
  BY Zenon DEF exit, Inv, OneProcessor
<1>2. /\ w \in [Procs -> States]
      /\ \A q \in Procs : w[q] \in Alive <=> state[q] \in Alive
      /\ \A q \in Procs : w[q] = "UNUSED" <=> state[q] = "UNUSED"
      /\ \A q \in Procs : w[q] = "ZOMBIE" <=> state[q] = "ZOMBIE"
      /\ \A q \in Procs : w[q] = "SLEEPING" <=> state[q] = "SLEEPING" /\ chan[q] # parent[p]
  <2>1. state \in [Procs -> States]
    BY Zenon DEF Inv, TypeOK, States
  <2> QED BY <2>1, WakeupFamily, WakeupSleepers
<1>3. /\ st \in [Procs -> States]
      /\ \A q \in Procs : st[q] \in Alive <=> state[q] \in Alive
      /\ \A q \in Procs : st[q] = "UNUSED" <=> state[q] = "UNUSED"
      /\ \A q \in Procs : st[q] = "ZOMBIE" <=> state[q] = "ZOMBIE"
      /\ \A q \in Procs : st[q] = "SLEEPING" => state[q] = "SLEEPING" /\ chan[q] # parent[p]
      /\ (\E r \in Procs : parent[r] = p /\ state[r] = "ZOMBIE") =>
           \A q \in Procs : st[q] = "SLEEPING" => chan[q] # initproc
  <2> HIDE DEF w
  <2>1. CASE \E r \in Procs : parent[r] = p /\ w[r] = "ZOMBIE"
    <3>1. st = wakeup1(w, initproc)
      BY <2>1, Zenon DEF WakeInit
    <3> HIDE DEF st
    <3> QED BY <1>2, <3>1, WakeupFamily, WakeupSleepers
  <2>2. CASE ~ \E r \in Procs : parent[r] = p /\ w[r] = "ZOMBIE"
    <3>1. st = w
      BY <2>2, Zenon DEF WakeInit
    <3> QED BY <1>2, <2>2, <3>1, Zenon
  <2> QED BY <2>1, <2>2, Zenon
<1> HIDE DEF w, st
<1>4. /\ \A q \in Procs : state'[q] = IF q = p THEN "ZOMBIE" ELSE st[q]
      /\ \A q \in Procs : parent'[q] = IF parent[q] = p THEN initproc ELSE parent[q]
  BY <1>1, <1>3, Zenon DEF Adopted
<1>5. /\ initproc \in Procs /\ NoProc \notin Procs /\ p # initproc
      /\ parent[initproc] = NoProc /\ state[initproc] \in Alive
      /\ \A q \in Procs : parent[q] # q
  BY <1>1, ProcAssumption DEF Procs, initproc, NoProc, Family, InitLives, Lineage
<1>6. InitLives'
  BY <1>1, <1>3, <1>4, <1>5 DEF Family, InitLives
<1>7. Lineage'
  <2>1. \A q \in Procs : pc[q] \in {"fork", "forked"} => child[q] \in Procs
    BY Zenon DEF Inv, EmbryoOwned, Forking
  <2>2. \A q \in Procs : pc'[q] = "fork" => parent'[child'[q]] = NoProc
    BY <1>1, <1>4, <1>5, <2>1 DEF Family, Lineage
  <2>3. \A q \in Procs : pc'[q] = "forked" => parent'[child'[q]] = q
    BY <1>1, <1>4, <2>1, Zenon DEF Family, Lineage
  <2>4. \A q \in Procs : state'[q] = "UNUSED" => parent'[q] = NoProc
    BY <1>3, <1>4, <1>5 DEF Family, Lineage
  <2>5. \A q \in Procs : parent'[q] # q
    BY <1>4, <1>5, Zenon
  <2> QED BY <2>2, <2>3, <2>4, <2>5, Zenon DEF Lineage
<1>8. ParentAlive'
  <2>1. SUFFICES ASSUME NEW q \in Procs \ {initproc}, state'[q] \in Alive \cup {"ZOMBIE"}
                 PROVE  parent'[q] \in Procs /\ state'[parent'[q]] \in Alive
    BY Zenon DEF ParentAlive
  <2>2. state[q] \in Alive \cup {"ZOMBIE"}
    BY <1>1, <1>3, <1>4, <2>1, Zenon DEF Alive
  <2>3. parent[q] \in Procs /\ state[parent[q]] \in Alive
    BY <2>2, Zenon DEF Family, ParentAlive
  <2> QED BY <1>3, <1>4, <1>5, <2>3
<1>9. WaitNotMissed'
  <2>1. SUFFICES ASSUME NEW q \in Procs, state'[q] = "SLEEPING", chan'[q] = q
                 PROVE  Children(q)' # {} /\ Zombies(q)' = {} /\ ~ killed'[q]
    BY Zenon DEF WaitNotMissed
  <2>2. q # p /\ state[q] = "SLEEPING" /\ chan[q] = q /\ q # parent[p] /\ st[q] = "SLEEPING"
    BY <1>1, <1>3, <1>4, <2>1, Zenon
  <2>3. Children(q) # {} /\ Zombies(q) = {} /\ ~ killed[q]
    BY <2>2, Zenon DEF Family, WaitNotMissed
  <2>4. Children(q) \subseteq Children(q)'
    BY <1>4, <2>2, Zenon DEF Children
  <2>5. ASSUME NEW r \in Procs, parent'[r] = q, state'[r] = "ZOMBIE" PROVE FALSE
    <3>1. r # p
      BY <1>4, <1>5, <2>2, <2>5, Zenon
    <3>2. state[r] = "ZOMBIE" /\ parent[r] # q
      BY <1>3, <1>4, <2>3, <2>5, <3>1, Zenon DEF Zombies, Children
    <3>3. parent[r] = p /\ q = initproc
      BY <1>4, <2>5, <3>2, Zenon
    <3> QED BY <1>3, <2>2, <3>2, <3>3, Zenon
  <2>6. Zombies(q)' = {}
    BY <2>5, Zenon DEF Zombies, Children
  <2> QED BY <1>1, <2>3, <2>4, <2>6, Zenon
<1> QED BY <1>6, <1>7, <1>8, <1>9, Zenon DEF Family

\* wait reaps a child, gives up, or sleeps when it has children and none of
\* them is a zombie.
LEMMA WaitFamily ==
  ASSUME Inv, Family, NEW p \in Procs, wait(p)
  PROVE  Family'
<1>1. child' = child /\ state[p] = "RUNNING" /\ pc[p] = "wait"
  BY Zenon DEF wait, Inv, OneProcessor
<1>0. initproc \in Procs /\ NoProc \notin Procs /\ NoChan \notin Procs
  BY ProcAssumption DEF Procs, initproc, NoProc, NoChan
<1>2. CASE Zombies(p) # {}
  <2> DEFINE z == First(Zombies(p))
  <2>1. z \in Procs /\ state[z] = "ZOMBIE" /\ parent[z] = p
    <3>1. Zombies(p) \in SUBSET Procs
      BY Zenon DEF Zombies, Children
    <3> QED BY <1>2, <3>1, FirstSlot, Zenon DEF Zombies, Children
  <2>2. /\ state' = [state EXCEPT ![z] = "UNUSED"]
        /\ parent' = [parent EXCEPT ![z] = NoProc]
        /\ killed' = [killed EXCEPT ![z] = FALSE]
        /\ chan' = [chan EXCEPT ![p] = NoChan]
        /\ pc' = [pc EXCEPT ![p] = "user"]
    BY <1>2, Zenon DEF wait, Goto
  <2> HIDE DEF z
  <2>3. /\ \A q \in Procs : state'[q] = IF q = z THEN "UNUSED" ELSE state[q]
        /\ \A q \in Procs : parent'[q] = IF q = z THEN NoProc ELSE parent[q]
        /\ \A q \in Procs : chan'[q] = IF q = p THEN NoChan ELSE chan[q]
        /\ \A q \in Procs : pc'[q] = IF q = p THEN "user" ELSE pc[q]
    BY <2>2, Zenon DEF Inv, TypeOK
  <2>4. \A q \in Procs : ~ killed[q] => ~ killed'[q]
    <3>1. killed \in [Procs -> BOOLEAN]
      BY Zenon DEF Inv, TypeOK
    <3> QED BY <2>2, <3>1, Zenon
  <2>5. z # initproc
    BY <2>1, Zenon DEF Family, InitLives, Alive
  <2>6. InitLives'
    <3>1. ~ killed'[initproc]
      BY <1>0, <2>4, Zenon DEF Family, InitLives
    <3> QED BY <1>0, <2>3, <2>5, <3>1, Zenon DEF Family, InitLives
  <2>7. Lineage'
    <3>1. \A q \in Procs : pc'[q] \in {"fork", "forked"} =>
            pc'[q] = pc[q] /\ child[q] \in Procs /\ child[q] # z
      BY <2>1, <2>3, Zenon DEF Inv, EmbryoOwned, Forking
    <3>2. \A q \in Procs : pc'[q] = "fork" => parent'[child'[q]] = NoProc
      BY <1>1, <2>3, <3>1, Zenon DEF Family, Lineage
    <3>3. \A q \in Procs : pc'[q] = "forked" => parent'[child'[q]] = q
      BY <1>1, <2>3, <3>1, Zenon DEF Family, Lineage
    <3>4. \A q \in Procs : state'[q] = "UNUSED" => parent'[q] = NoProc
      BY <2>3, Zenon DEF Family, Lineage
    <3>5. \A q \in Procs : parent'[q] # q
      BY <1>0, <2>3 DEF Family, Lineage
    <3> QED BY <3>2, <3>3, <3>4, <3>5, Zenon DEF Lineage
  <2>8. ParentAlive'
    BY <2>1, <2>3 DEF Family, ParentAlive, Alive
  <2>9. WaitNotMissed'
    <3>1. SUFFICES ASSUME NEW q \in Procs, state'[q] = "SLEEPING", chan'[q] = q
                   PROVE  Children(q)' # {} /\ Zombies(q)' = {} /\ ~ killed'[q]
      BY Zenon DEF WaitNotMissed
    <3>2. q # p /\ state[q] = "SLEEPING" /\ chan[q] = q
      BY <1>0, <2>3, <3>1, Zenon
    <3>3. Children(q) # {} /\ Zombies(q) = {} /\ ~ killed[q]
      BY <3>2, Zenon DEF Family, WaitNotMissed
    <3>4. Children(q)' = Children(q) /\ Zombies(q)' \subseteq Zombies(q)
      BY <1>0, <2>1, <2>3, <3>2 DEF Children, Zombies
    <3> QED BY <2>4, <3>3, <3>4, Zenon
  <2> QED BY <2>6, <2>7, <2>8, <2>9, Zenon DEF Family
<1>3. CASE Zombies(p) = {} /\ (Children(p) = {} \/ killed[p])
  <2>1. /\ chan' = [chan EXCEPT ![p] = NoChan]
        /\ pc' = [pc EXCEPT ![p] = "user"]
        /\ UNCHANGED <<state, parent, killed>>
    BY <1>3, Zenon DEF wait, Goto
  <2>2. /\ \A q \in Procs : chan'[q] = IF q = p THEN NoChan ELSE chan[q]
        /\ \A q \in Procs : pc'[q] = IF q = p THEN "user" ELSE pc[q]
    BY <2>1, Zenon DEF Inv, TypeOK
  <2>3. \A q \in Procs : Waits(q)' => Waits(q) /\ ~ killed'[q]
    <3>1. \A q \in Procs : Waits(q) => ~ killed[q]
      BY Zenon DEF Waits, Family, WaitNotMissed
    <3>2. \A q \in Procs : Waits(q)' => Waits(q)
      BY <1>0, <2>1, <2>2, Zenon DEF Waits
    <3> QED BY <2>1, <3>1, <3>2, Zenon
  <2>4. ~ killed'[initproc] /\ pc'[initproc] # "exit"
    BY <1>0, <2>1, <2>2 DEF Family, InitLives
  <2> QED BY <1>1, <2>1, <2>2, <2>3, <2>4, FamilyStays
<1>4. CASE Zombies(p) = {} /\ Children(p) # {} /\ ~ killed[p]
  <2>1. /\ chan' = [chan EXCEPT ![p] = p]
        /\ state' = [state EXCEPT ![p] = "SLEEPING"]
        /\ UNCHANGED <<parent, killed, pc>>
    BY <1>4, Zenon DEF wait
  <2>2. /\ \A q \in Procs : state'[q] = IF q = p THEN "SLEEPING" ELSE state[q]
        /\ \A q \in Procs : chan'[q] = IF q = p THEN p ELSE chan[q]
    BY <2>1, Zenon DEF Inv, TypeOK
  <2>3. InitLives' /\ Lineage' /\ ParentAlive'
    <3>1. \A q \in Procs : state'[q] \in Alive <=> state[q] \in Alive
      BY <1>1, <2>2, Zenon DEF Alive
    <3>2. \A q \in Procs : state'[q] = state[q] \/ state'[q] = "SLEEPING"
      BY <2>2, Zenon
    <3>3. InitLives'
      BY <1>0, <2>1, <3>1, Zenon DEF Family, InitLives
    <3>4. Lineage'
      BY <1>1, <2>1, <3>2, Zenon DEF Family, Lineage
    <3>5. ParentAlive'
      <4>1. \A q \in Procs : state'[q] \in Alive \cup {"ZOMBIE"} => state[q] \in Alive \cup {"ZOMBIE"}
        BY <3>1, <3>2, Zenon
      <4> QED BY <2>1, <3>1, <4>1, Zenon DEF Family, ParentAlive
    <3> QED BY <3>3, <3>4, <3>5, Zenon
  <2>4. WaitNotMissed'
    <3>1. \A q \in Procs : Children(q)' = Children(q) /\ Zombies(q)' \subseteq Zombies(q)
      BY <2>1, <2>2 DEF Children, Zombies
    <3>2. \A q \in Procs \ {p} : state'[q] = "SLEEPING" /\ chan'[q] = q =>
            Children(q)' # {} /\ Zombies(q)' = {} /\ ~ killed'[q]
      BY <2>1, <2>2, <3>1, Zenon DEF Family, WaitNotMissed
    <3>3. Children(p)' # {} /\ Zombies(p)' = {} /\ ~ killed'[p]
      BY <1>4, <2>1, <3>1, Zenon
    <3> QED BY <3>2, <3>3, Zenon DEF WaitNotMissed
  <2> QED BY <2>3, <2>4, Zenon DEF Family
<1> QED BY <1>2, <1>3, <1>4, Zenon

\* sys_sleep and sleep(&ticks) put nobody to sleep in wait.
LEMMA SleepFamily ==
  ASSUME Inv, Family, NEW p \in Procs, sys_sleep(p) \/ sleep(p)
  PROVE  Family'
<1>1. /\ UNCHANGED <<parent, killed, child>>
      /\ state[p] = "RUNNING" /\ (state' = state \/ state' = [state EXCEPT ![p] = "SLEEPING"])
      /\ \E c \in {NoChan, TicksChan} : chan' = [chan EXCEPT ![p] = c]
      /\ \E l \in {"to_sleep", "user", "woken"} : pc' = [pc EXCEPT ![p] = l]
  BY Zenon DEF sys_sleep, SleepTest, sleep, Goto, Inv, OneProcessor
<1>2. initproc \in Procs /\ p \notin {NoChan, TicksChan}
  BY ProcAssumption DEF Procs, initproc, NoChan, TicksChan
<1>3. /\ \A q \in Procs : q # p => state'[q] = state[q] /\ chan'[q] = chan[q]
      /\ chan'[p] # p /\ state'[p] \in {"RUNNING", "SLEEPING"}
      /\ \A q \in Procs : pc'[q] = pc[q] \/ pc'[q] \in {"to_sleep", "user", "woken"}
  BY <1>1, <1>2, Zenon DEF Inv, TypeOK
<1>4. \A q \in Procs : Waits(q)' => Waits(q) /\ ~ killed'[q]
  BY <1>1, <1>3, Zenon DEF Waits, Family, WaitNotMissed
<1>5. /\ \A q \in Procs : state'[q] \in Alive <=> state[q] \in Alive
      /\ \A q \in Procs : state'[q] = "UNUSED" => state[q] = "UNUSED"
      /\ \A q \in Procs : state'[q] = "ZOMBIE" => state[q] = "ZOMBIE"
  BY <1>1, <1>3, Zenon DEF Alive
<1>6. ~ killed'[initproc] /\ pc'[initproc] # "exit"
  BY <1>1, <1>2, <1>3, Zenon DEF Family, InitLives
<1>7. /\ \A q \in Procs : pc'[q] = "fork" => pc[q] = "fork"
      /\ \A q \in Procs : pc'[q] = "forked" => pc[q] = "forked"
  BY <1>3, Zenon
<1> QED BY <1>1, <1>4, <1>5, <1>6, <1>7, FamilyStays, Zenon

\* kill wakes what it marks.
LEMMA KillFamily ==
  ASSUME Inv, Family, NEW p \in Procs, NEW target \in Targets, kill(p, target)
  PROVE  Family'
<1> DEFINE hit == {r \in Procs : pid[r] = target}
           q == First(hit)
<1>1. q \in Procs
  <2>1. hit \in SUBSET Procs /\ hit # {}
    BY Zenon DEF kill
  <2> QED BY <2>1, FirstSlot, Zenon
<1>2. /\ killed' = [killed EXCEPT ![q] = TRUE]
      /\ state' = KillState(q) /\ q # initproc
      /\ UNCHANGED <<parent, chan, pc, child>>
  BY Zenon DEF kill
<1> HIDE DEF q, hit
<1>3. \A r \in Procs : state'[r] = IF r = q /\ state[q] = "SLEEPING" THEN "RUNNABLE" ELSE state[r]
  BY <1>1, <1>2, Zenon DEF Inv, TypeOK, KillState
<1>4. \A r \in Procs : r # q => killed'[r] = killed[r]
  <2>1. killed \in [Procs -> BOOLEAN]
    BY Zenon DEF Inv, TypeOK
  <2> QED BY <1>2, <2>1, Zenon
<1>5. \A r \in Procs : Waits(r)' => r # q /\ Waits(r)
  BY <1>2, <1>3, Zenon DEF Waits
<1>6. \A r \in Procs : Waits(r)' => Waits(r) /\ ~ killed'[r]
  BY <1>4, <1>5, Zenon DEF Waits, Family, WaitNotMissed
<1>7. /\ \A r \in Procs : state'[r] \in Alive <=> state[r] \in Alive
      /\ \A r \in Procs : state'[r] = "UNUSED" => state[r] = "UNUSED"
      /\ \A r \in Procs : state'[r] = "ZOMBIE" => state[r] = "ZOMBIE"
  BY <1>3, Zenon DEF Alive
<1>8. initproc \in Procs
  BY ProcAssumption DEF Procs, initproc
<1>9. ~ killed'[initproc] /\ pc'[initproc] # "exit"
  BY <1>2, <1>4, <1>8, Zenon DEF Family, InitLives
<1> QED BY <1>2, <1>6, <1>7, <1>9, FamilyStays, Zenon

\* Every step keeps parents alive and no zombie unnoticed.
LEMMA NextFamily == Inv /\ Family /\ [Next]_vars => Family'
<1> SUFFICES ASSUME Inv, Family, [Next]_vars PROVE Family'
  OBVIOUS
<1>1. ASSUME NEW p \in Procs, scheduler(p) \/ Kernel(p) \/ User(p) PROVE Family'
  <2>1. CASE scheduler(p)
    BY <2>1, SchedulerFamily, Zenon
  <2>2. CASE Kernel(p)
    BY <2>2, GotoFamily, ForkEndFamily, ForkCopyFamily, ExitFamily, WaitFamily, SleepFamily, Zenon
       DEF Kernel
  <2>3. CASE User(p)
    BY <2>3, GotoFamily, AllocprocFamily, KillFamily, Zenon DEF User
  <2> QED BY <1>1, <2>1, <2>2, <2>3, Zenon
<1>2. CASE UNCHANGED vars
  <2>1. UNCHANGED <<state, parent, killed, chan, pc, child>>
    BY <1>2, Zenon DEF vars, table
  <2> QED BY <2>1, Zenon
       DEF Family, InitLives, Lineage, ParentAlive, WaitNotMissed, Children, Zombies
<1> QED BY <1>1, <1>2, TimerFamily, Zenon DEF Next

-----------------------------------------------------------------------------
(* Theorems *)

\* The inductive invariant holds in every reachable state of the process table.
THEOREM Invariance == Spec => []Inv
BY InitInv, NextInv, PTL DEF Spec

\* proc.c keeps every field of the table in its type.
THEOREM TypeCorrect == Spec => []TypeOK
<1>1. Inv => TypeOK
  BY Zenon DEF Inv
<1> QED BY <1>1, Invariance, PTL

\* A process is RUNNING exactly when one processor runs it (scheduler, yield,
\* sleep, exit, wakeup1 and kill), for any number of slots and processors.
THEOREM AlwaysOneProcessor == Spec => []OneProcessor
<1>1. Inv => OneProcessor
  BY Zenon DEF Inv
<1> QED BY <1>1, Invariance, PTL

\* The slot that a fork fills is its own until the fork ends (allocproc, fork),
\* for any number of slots and processors.
THEOREM AlwaysEmbryoOwned == Spec => []EmbryoOwned
<1>1. Inv => EmbryoOwned
  BY Zenon DEF Inv
<1> QED BY <1>1, Invariance, PTL

\* Every process and every zombie has a parent that is alive, and no parent
\* sleeps in wait beside a zombie it could reap (exit, wait, fork, kill), for
\* any number of slots and processors.
THEOREM AlwaysChildrenAwaited == Spec => []ChildrenAwaited
<1>1. Init => Family
  BY InitFamily, Zenon
<1>2. Inv /\ Family /\ [Next]_vars => Family'
  BY NextFamily, Zenon
<1>3. Family => ChildrenAwaited
  BY Zenon DEF Family, ChildrenAwaited
<1> QED BY <1>1, <1>2, <1>3, Invariance, PTL DEF Spec
=============================================================================
