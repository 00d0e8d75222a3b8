-------------------------------- MODULE Log --------------------------------
(***************************************************************************)
(* The write-ahead log of log.c: begin_op, log_write and end_op of several *)
(* processes, commit() block by block, crashes between any two disk        *)
(* writes, and recovery, which may itself be cut short by a crash.         *)
(*                                                                         *)
(* What runs under log.lock is one step; log_write tests for space before  *)
(* it takes the lock, so it is two; commit() runs without the lock, one    *)
(* disk write per step.  The disk writes a block atomically.               *)
(***************************************************************************)
EXTENDS Integers, Sequences, FiniteSets

CONSTANTS
  Procs,         \* processes that make file-system calls
  Blocks,        \* home blocks
  Vals,          \* contents of a block
  None,          \* no block, or no buffer
  LOGSIZE,       \* entries of the header, and what begin_op reckons with
  MAXOPBLOCKS,   \* blocks begin_op reserves for one operation
  LogBlocks,     \* data blocks of the log on disk: log.size - 1
  OpBlocks       \* blocks one operation really writes

ASSUME LogAssumption ==
  /\ IsFiniteSet(Procs)
  /\ None \notin Vals \cup Blocks
  /\ LOGSIZE \in Nat /\ MAXOPBLOCKS \in 1 .. LOGSIZE
  /\ LogBlocks \in Nat /\ OpBlocks \in 0 .. MAXOPBLOCKS

VARIABLES
  pc,            \* where each process is
  holding,       \* the buffer a process has modified and not yet logged
  wrote,         \* the blocks the current operation of a process has written
  outstanding,   \* log.outstanding
  committing,    \* log.committing
  lh,            \* log.lh, as the sequence of its n block numbers
  stage,         \* what commit or recovery does next
  tail,          \* its loop counter
  header,        \* header block on disk
  logdata,       \* data blocks of the log on disk
  home,          \* home blocks on disk
  cache,         \* the buffer cache: contents, or None
  dirty,         \* buffers with B_DIRTY
  panicked

procVars == <<pc, holding, wrote>>
logVars == <<outstanding, committing, lh, stage, tail>>
diskVars == <<header, logdata, home>>
cacheVars == <<cache, dirty>>
vars == <<procVars, logVars, diskVars, cacheVars, panicked>>

Recovering == stage \in {"read_head", "recover", "clear_recovered"}

\* A machine that has just started, with any file system and an empty log.
Init ==
  /\ pc = [p \in Procs |-> "idle"]
  /\ holding = [p \in Procs |-> None]
  /\ wrote = [p \in Procs |-> {}]
  /\ outstanding = 0
  /\ committing = FALSE
  /\ lh = <<>>
  /\ stage = "read_head"
  /\ tail = 0
  /\ cache = [b \in Blocks |-> None]
  /\ dirty = {}
  /\ panicked = FALSE
  /\ header = <<>>
  /\ logdata \in [1 .. LogBlocks -> Vals]
  /\ home \in [Blocks -> Vals]

-----------------------------------------------------------------------------
(* begin_op *)

\* Faulty variant: wakes one sleeper.
WakeupOne(pcs) ==
  LET asleep == {p \in Procs : pcs[p] = "asleep"} IN
  IF asleep = {} THEN pcs
  ELSE [pcs EXCEPT ![CHOOSE p \in asleep : TRUE] = "begin"]

\* wakeup(&log)
Wakeup(pcs) == [p \in Procs |-> IF pcs[p] = "asleep" THEN "begin" ELSE pcs[p]]

\* Faulty variant: forgets the operation that wants to begin.
NoSpaceLate == Len(lh) + outstanding * MAXOPBLOCKS > LOGSIZE

NoSpace == Len(lh) + (outstanding + 1) * MAXOPBLOCKS > LOGSIZE

MustWait == committing \/ NoSpace

\* One round of the loop: go to sleep on the log, or enter.
begin_op(p) ==
  /\ ~ Recovering
  /\ pc[p] \in {"idle", "begin"}
  /\ IF MustWait
     THEN /\ pc' = [pc EXCEPT ![p] = "asleep"]
          /\ UNCHANGED <<wrote, outstanding>>
     ELSE /\ pc' = [pc EXCEPT ![p] = "in_op"]
          /\ wrote' = [wrote EXCEPT ![p] = {}]
          /\ outstanding' = outstanding + 1
  /\ UNCHANGED <<holding, committing, lh, stage, tail, diskVars, cacheVars, panicked>>
-----------------------------------------------------------------------------
(* log_write *)

Held(b) == \E p \in Procs : holding[p] = b

\* The caller reads block b (bread: locked buffer), modifies it, and log_write
\* makes its two tests, without the lock.
modify_and_test(p, b, v) ==
  /\ pc[p] = "in_op"
  /\ ~ Held(b)
  /\ Cardinality(wrote[p] \cup {b}) <= OpBlocks
  /\ cache' = [cache EXCEPT ![b] = v]
  /\ IF Len(lh) >= LOGSIZE \/ Len(lh) >= LogBlocks \/ outstanding < 1
     THEN panicked' = TRUE /\ UNCHANGED procVars
     ELSE /\ pc' = [pc EXCEPT ![p] = "log_write"]
          /\ holding' = [holding EXCEPT ![p] = b]
          /\ wrote' = [wrote EXCEPT ![p] = @ \cup {b}]
          /\ UNCHANGED panicked
  /\ UNCHANGED <<logVars, diskVars, dirty>>

Logged(b) == \E i \in 1 .. Len(lh) : lh[i] = b

\* Under the lock: a block that is logged already is absorbed.  The caller
\* then releases the buffer.
log_write(p) ==
  /\ pc[p] = "log_write"
  /\ lh' = IF Logged(holding[p]) THEN lh ELSE Append(lh, holding[p])
  /\ dirty' = dirty \cup {holding[p]}
  /\ pc' = [pc EXCEPT ![p] = "in_op"]
  /\ holding' = [holding EXCEPT ![p] = None]
  /\ UNCHANGED <<wrote, outstanding, committing, stage, tail, diskVars, cache, panicked>>

-----------------------------------------------------------------------------
(* end_op and commit *)

\* Faulty variant: takes a transaction of one block for an empty one.
FirstStageShort == IF Len(lh) <= 1 THEN "end" ELSE "write_log"

\* commit() has nothing to do when no block was logged.
FirstStage == IF lh = <<>> THEN "end" ELSE "write_log"

end_op(p) ==
  /\ pc[p] = "in_op"
  /\ outstanding' = outstanding - 1
  /\ wrote' = [wrote EXCEPT ![p] = {}]
  /\ \/ /\ committing
        /\ panicked' = TRUE
        /\ UNCHANGED <<pc, committing, stage>>
     \/ /\ ~ committing
        /\ outstanding' = 0
        /\ committing' = TRUE
        /\ pc' = [pc EXCEPT ![p] = "commit"]
        /\ stage' = FirstStage
        /\ UNCHANGED panicked
     \/ /\ ~ committing
        /\ outstanding' # 0
        /\ pc' = Wakeup([pc EXCEPT ![p] = "idle"])
        /\ UNCHANGED <<committing, stage, panicked>>
  /\ UNCHANGED <<holding, lh, tail, diskVars, cacheVars>>

\* bread: the buffer of b, or b from disk.
Contents(b) == IF cache[b] = None THEN home[b] ELSE cache[b]

\* Faulty variant: the loop counter stands still.
AdvanceStuck(next) ==
  IF tail + 1 < Len(lh) THEN UNCHANGED <<tail, stage>>
                        ELSE tail' = 0 /\ stage' = next

\* The loop over the logged blocks goes on, or the next stage follows.
Advance(next) ==
  IF tail + 1 < Len(lh) THEN tail' = tail + 1 /\ UNCHANGED stage
                        ELSE tail' = 0 /\ stage' = next

write_log ==
  /\ stage = "write_log"
  /\ logdata' = [logdata EXCEPT ![tail + 1] = Contents(lh[tail + 1])]
  /\ Advance("write_head")
  /\ UNCHANGED <<procVars, outstanding, committing, lh, header, home, cacheVars, panicked>>

\* The commit point.
write_head ==
  /\ stage = "write_head"
  /\ header' = lh
  /\ stage' = "install"
  /\ UNCHANGED <<procVars, outstanding, committing, lh, tail, logdata, home, cacheVars, panicked>>

\* bwrite clears B_DIRTY.
install_trans ==
  LET b == lh[tail + 1] IN
  /\ stage \in {"install", "recover"}
  /\ home' = [home EXCEPT ![b] = logdata[tail + 1]]
  /\ cache' = [cache EXCEPT ![b] = logdata[tail + 1]]
  /\ dirty' = dirty \ {b}
  /\ Advance(IF stage = "install" THEN "clear" ELSE "clear_recovered")
  /\ UNCHANGED <<procVars, outstanding, committing, lh, header, logdata, panicked>>

\* log.lh.n = 0; write_head()
clear_head ==
  /\ stage \in {"clear", "clear_recovered"}
  /\ lh' = <<>>
  /\ header' = <<>>
  /\ stage' = IF stage = "clear" THEN "end" ELSE "none"
  /\ UNCHANGED <<procVars, outstanding, committing, tail, logdata, home, cacheVars, panicked>>

\* What end_op does after commit().
end_commit(p) ==
  /\ pc[p] = "commit"
  /\ stage = "end"
  /\ committing' = FALSE
  /\ stage' = "none"
  /\ pc' = Wakeup([pc EXCEPT ![p] = "idle"])
  /\ UNCHANGED <<holding, wrote, outstanding, lh, tail, diskVars, cacheVars, panicked>>

-----------------------------------------------------------------------------
(* Recovery, the buffer cache, and crashes *)

read_head ==
  /\ stage = "read_head"
  /\ lh' = header
  /\ stage' = IF header = <<>> THEN "clear_recovered" ELSE "recover"
  /\ UNCHANGED <<procVars, outstanding, committing, tail, diskVars, cacheVars, panicked>>

\* Faulty variant: recycles a dirty buffer.
evict_dirty(b) ==
  /\ cache[b] # None
  /\ ~ Held(b)
  /\ cache' = [cache EXCEPT ![b] = None]
  /\ UNCHANGED <<procVars, logVars, diskVars, dirty, panicked>>

\* bget recycles an unused buffer that is not dirty.
evict(b) ==
  /\ cache[b] # None
  /\ b \notin dirty
  /\ ~ Held(b)
  /\ cache' = [cache EXCEPT ![b] = None]
  /\ UNCHANGED <<procVars, logVars, diskVars, dirty, panicked>>

\* The machine stops at any point, a panic included, and starts again.
Crash ==
  /\ stage # "read_head"
  /\ pc' = [p \in Procs |-> "idle"]
  /\ holding' = [p \in Procs |-> None]
  /\ wrote' = [p \in Procs |-> {}]
  /\ outstanding' = 0
  /\ committing' = FALSE
  /\ lh' = <<>>
  /\ stage' = "read_head"
  /\ tail' = 0
  /\ cache' = [b \in Blocks |-> None]
  /\ dirty' = {}
  /\ panicked' = FALSE
  /\ UNCHANGED diskVars

-----------------------------------------------------------------------------
Commit == write_log \/ write_head \/ install_trans \/ clear_head \/ read_head

Next ==
  \/ /\ ~ panicked
     /\ \/ \E p \in Procs : begin_op(p) \/ log_write(p) \/ end_op(p) \/ end_commit(p)
        \/ \E p \in Procs, b \in Blocks, v \in Vals : modify_and_test(p, b, v)
        \/ Commit
        \/ \E b \in Blocks : evict(b)
  \/ Crash

Spec == Init /\ [][Next]_vars

\* A process that has been woken, or holds a buffer, runs on; commit and
\* recovery run on; an operation makes finitely many writes and ends.
Fairness ==
  /\ \A p \in Procs :
       /\ WF_vars(pc[p] = "begin" /\ begin_op(p))
       /\ WF_vars(log_write(p))
       /\ WF_vars(end_commit(p))
       /\ SF_vars(end_op(p))
  /\ WF_vars(Commit)

FairSpec == Spec /\ Fairness

-----------------------------------------------------------------------------
(* Properties *)

\* The count of operations stays within the number of processes, the rest in
\* its type.
TypeOK ==
  /\ pc \in [Procs -> {"idle", "begin", "asleep", "in_op", "log_write", "commit"}]
  /\ holding \in [Procs -> Blocks \cup {None}]
  /\ wrote \in [Procs -> SUBSET Blocks]
  /\ outstanding \in 0 .. Cardinality(Procs)
  /\ committing \in BOOLEAN
  /\ lh \in Seq(Blocks) /\ header \in Seq(Blocks)
  /\ stage \in {"none", "write_log", "write_head", "install", "clear", "end",
                "read_head", "recover", "clear_recovered"}
  /\ tail \in Nat
  /\ logdata \in [1 .. LogBlocks -> Vals]
  /\ home \in [Blocks -> Vals]
  /\ cache \in [Blocks -> Vals \cup {None}]
  /\ dirty \subseteq Blocks
  /\ panicked \in BOOLEAN

\* "The logging system only commits when there are no FS system calls active":
\* while committing, no process is between begin_op and end_op, and one that
\* still holds a modified buffer is never overtaken by a commit.
CommitExcludesOps ==
  committing => \A p \in Procs : pc[p] \notin {"in_op", "log_write"}

\* The reservation of begin_op is enough: operations that stay below
\* MAXOPBLOCKS never panic in log_write, although it tests for space without
\* the lock, and the header on disk never lists a block the log cannot hold.
NoPanic == ~ panicked /\ Len(lh) <= LogBlocks /\ Len(header) <= LogBlocks

\* A process asleep on the log has someone to wake it: an operation that will
\* end, or a commit.
SleeperHasWaker ==
  (\E p \in Procs : pc[p] = "asleep") => outstanding > 0 \/ committing

\* The blocks as recovery will leave them.
Recovered ==
  [b \in Blocks |->
     LET at == {i \in 1 .. Len(header) : header[i] = b} IN
     IF at = {} THEN home[b]
     ELSE logdata[CHOOSE i \in at : \A j \in at : j <= i]]

\* When no operation is in progress and no commit is running, every write is
\* durable: end_op of the last operation returns only after the commit.
DurableWhenQuiet ==
  stage = "none" /\ outstanding = 0 =>
    Recovered = [b \in Blocks |-> Contents(b)]

\* Commits and operations keep out of each other's way: a commit runs alone,
\* whoever waits for it is woken by someone, and what it leaves is durable.
LogConsistent == TypeOK /\ CommitExcludesOps /\ SleeperHasWaker /\ DurableWhenQuiet

\* The log implements an atomic disk, with crashes anywhere, during recovery
\* too: a transaction becomes durable whole, at the write of the header.
Disk == INSTANCE AtomicDisk WITH
  durable <- Recovered,
  volatile <- IF Recovering THEN Recovered ELSE [b \in Blocks |-> Contents(b)],
  active <- {p \in Procs : pc[p] \in {"in_op", "log_write"}}

AtomicDiskSpec == Disk!Spec

\* No wakeup is lost: whoever sleeps on the log is woken.
Woken == \A p \in Procs : pc[p] = "asleep" ~> pc[p] # "asleep"

\* A machine that stops crashing finishes recovery and every commit.
Settles == <>[][~ Crash]_vars => (stage # "none" ~> stage = "none")
=============================================================================
