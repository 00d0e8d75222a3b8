------------------------------ MODULE LogProofs -----------------------------
(***************************************************************************)
(* The log commits transactions whole and never runs out of space, for any *)
(* number of processes, blocks and values and any size of the log, and     *)
(* implements AtomicDisk.                                                  *)
(***************************************************************************)
EXTENDS Log, TLAPS, FiniteSetTheorems

\* Operations write fewer blocks than begin_op reserves for them, and the log
\* on disk has at most one block less than begin_op reckons with (the header).
Reserved ==
  /\ OpBlocks < MAXOPBLOCKS
  /\ MAXOPBLOCKS < LOGSIZE
  /\ LogBlocks >= LOGSIZE - 1

Active == {p \in Procs : pc[p] \in {"in_op", "log_write"}}

CommitStages == {"write_log", "write_head", "install", "clear", "end"}

\* Who may be where: operations, one commit, and recovery keep apart.
Control ==
  /\ outstanding = Cardinality(Active)
  /\ committing <=> stage \in CommitStages
  /\ committing \/ Recovering => Active = {}
  /\ \A p \in Procs : pc[p] = "commit" => committing
  /\ \A p, q \in Procs : pc[p] = "commit" /\ pc[q] = "commit" => p = q
  /\ Recovering => \A p \in Procs : pc[p] = "idle"
  /\ \A p \in Procs : pc[p] = "log_write" <=> holding[p] # None
  /\ stage = "none" /\ Active = {} => lh = <<>>
  /\ SleeperHasWaker

Distinct(s) == \A i, j \in 1 .. Len(s) : s[i] = s[j] => i = j

\* The loops of commit and recovery, and what is in the header on disk.
Loops ==
  /\ Distinct(lh) /\ Distinct(header)
  /\ stage \in {"write_log", "write_head", "install", "recover"} => tail < Len(lh)
  /\ stage \notin {"write_log", "install", "recover"} => tail = 0
  /\ stage \in {"none", "write_log", "write_head", "end"} => header = <<>>
  /\ stage \in {"install", "clear", "recover", "clear_recovered"} => header = lh
  /\ stage \in {"read_head", "end"} => lh = <<>>

\* What memory, the log and the home blocks hold.  The cache differs from the
\* disk only in blocks that are logged or about to be; the log has what the
\* loop has copied to it; the home blocks have what it has installed.
Contained ==
  /\ \A b \in Blocks :
       \/ cache[b] \in {None, home[b]}
       \/ ~ Recovering /\ (Logged(b) \/ Held(b))
  /\ stage \in {"none", "write_log", "write_head"} =>
       \A i \in 1 .. Len(lh) : lh[i] \in dirty
  /\ stage = "install" => \A i \in tail + 1 .. Len(lh) : lh[i] \in dirty
  /\ stage = "write_log" => \A i \in 1 .. tail : logdata[i] = Contents(lh[i])
  /\ stage \in {"write_head", "install", "clear"} =>
       \A i \in 1 .. Len(lh) : logdata[i] = Contents(lh[i])
  /\ stage \in {"install", "recover"} =>
       \A i \in 1 .. tail : home[lh[i]] = logdata[i]
  /\ stage \in {"clear", "clear_recovered"} =>
       \A i \in 1 .. Len(lh) : home[lh[i]] = logdata[i]

\* What operations in progress have written and logged, as pairs of process
\* and block.
Logs == {x \in Procs \X Blocks : x[2] \in wrote[x[1]] /\ Logged(x[2])}

\* The space argument: what is in the log, with what operations in progress
\* have reserved and not used yet, fits.  One operation alone was either
\* alone from the start, or another one has left it its reservation.
Space ==
  /\ ~ panicked
  /\ Len(lh) <= LogBlocks /\ Len(header) <= LogBlocks
  /\ \A p \in Procs : /\ IsFiniteSet(wrote[p])
                      /\ Cardinality(wrote[p]) <= OpBlocks
                      /\ p \notin Active => wrote[p] = {}
                      /\ holding[p] # None => holding[p] \in wrote[p]
  /\ outstanding >= 2 =>
       Len(lh) + outstanding * MAXOPBLOCKS <= LOGSIZE + Cardinality(Logs)
  /\ outstanding = 1 =>
       \/ Len(lh) + 2 * MAXOPBLOCKS <= LOGSIZE + OpBlocks + Cardinality(Logs)
       \/ Len(lh) <= Cardinality(Logs)

Inv == TypeOK /\ Control /\ Loops /\ Contained /\ Space

-----------------------------------------------------------------------------
(* Sequences *)

\* A sequence is a function on its positions.
LEMMA SeqLength ==
  ASSUME NEW S, NEW s \in Seq(S)
  PROVE  Len(s) \in Nat /\ s \in [1 .. Len(s) -> S]
  OBVIOUS

\* Its elements are of its type.
LEMMA SeqElement ==
  ASSUME NEW S, NEW s \in Seq(S), NEW i \in 1 .. Len(s)
  PROVE  s[i] \in S
  OBVIOUS

\* The empty sequence.
LEMMA SeqEmpty ==
  ASSUME NEW S
  PROVE  <<>> \in Seq(S) /\ Len(<<>>) = 0
  OBVIOUS

\* Appending keeps the elements and adds the new one at the end.
LEMMA SeqAppend ==
  ASSUME NEW S, NEW s \in Seq(S), NEW x \in S
  PROVE  /\ Append(s, x) \in Seq(S) /\ Len(Append(s, x)) = Len(s) + 1
         /\ \A i \in 1 .. Len(s) : Append(s, x)[i] = s[i]
         /\ Append(s, x)[Len(s) + 1] = x
  OBVIOUS

-----------------------------------------------------------------------------
(* Counting *)

\* A finite set of at most n elements can be numbered from 1 .. n.
LEMMA Numbering ==
  ASSUME NEW S, IsFiniteSet(S), NEW n \in Nat, Cardinality(S) <= n
  PROVE  \E g \in [S -> 1 .. n] : \A x, y \in S : g[x] = g[y] => x = y
<1>1. Cardinality(S) \in Nat /\ ExistsBijection(1 .. Cardinality(S), S)
  BY FS_CardinalityType, Zenon
<1>2. PICK f \in Bijection(1 .. Cardinality(S), S) : TRUE
  BY <1>1, Zenon DEF ExistsBijection
<1>3. /\ f \in [1 .. Cardinality(S) -> S]
      /\ \A x \in S : \E i \in 1 .. Cardinality(S) : f[i] = x
  BY <1>2, Zenon DEF Bijection, Injection, Surjection
<1> DEFINE g == [x \in S |-> CHOOSE i \in 1 .. Cardinality(S) : f[i] = x]
<1>4. \A x \in S : g[x] \in 1 .. Cardinality(S) /\ f[g[x]] = x
  BY <1>3, Zenon
<1>5. g \in [S -> 1 .. n]
  BY <1>1, <1>4, SMTT(20)
<1> HIDE DEF g
<1> QED BY <1>4, <1>5, Zenon

\* Pairs of a member of A and one of at most n elements that belong to it are
\* at most n times as many as A has members.
LEMMA PairsBound ==
  ASSUME NEW A, IsFiniteSet(A), NEW B, NEW W, NEW n \in Nat,
         \A p \in A : IsFiniteSet(W[p]) /\ Cardinality(W[p]) <= n,
         NEW S, \A x \in S : x \in A \X B /\ x[2] \in W[x[1]]
  PROVE  IsFiniteSet(S) /\ Cardinality(S) <= Cardinality(A) * n
<1> DEFINE Num(p, g) == /\ g \in [W[p] -> 1 .. n]
                        /\ \A x, y \in W[p] : g[x] = g[y] => x = y
           G == [p \in A |-> CHOOSE g : Num(p, g)]
<1>1. \A p \in A : \E g : Num(p, g)
  BY Numbering, SMTT(20)
<1>2. \A p \in A : Num(p, G[p])
  <2> SUFFICES ASSUME NEW p \in A PROVE Num(p, G[p])
    OBVIOUS
  <2>1. \E g : Num(p, g)
    BY <1>1, Zenon
  <2>2. G[p] = CHOOSE g : Num(p, g)
    OBVIOUS
  <2> HIDE DEF Num, G
  <2> QED BY <2>1, <2>2, Zenon
<1> HIDE DEF G
<1> DEFINE T == A \X (1 .. n)
           f == [x \in S |-> <<x[1], G[x[1]][x[2]]>>]
<1>3. f \in [S -> T]
  BY <1>2, SMTT(20)
<1>4. ASSUME NEW x \in S, NEW y \in S, f[x] = f[y] PROVE x = y
  <2>1. x = <<x[1], x[2]>> /\ y = <<y[1], y[2]>> /\ x[1] \in A /\ y[1] \in A
    OBVIOUS
  <2>2. x[1] = y[1] /\ G[x[1]][x[2]] = G[y[1]][y[2]]
    BY <1>4, Zenon
  <2>3. x[2] \in W[x[1]] /\ y[2] \in W[x[1]]
    BY <2>2, Zenon
  <2>4. x[2] = y[2]
    BY <1>2, <2>1, <2>2, <2>3, SMTT(20)
  <2> QED BY <2>1, <2>2, <2>4, Zenon
<1> HIDE DEF f, T
<1>5. f \in Injection(S, T)
  BY <1>3, <1>4, Zenon DEF Injection, IsInjective
<1>6. IsFiniteSet(1 .. n) /\ Cardinality(1 .. n) = n
  BY FS_Interval, SMTT(20)
<1>7. IsFiniteSet(T) /\ Cardinality(T) = Cardinality(A) * n
  BY <1>6, FS_Product, Zenon DEF T
<1> QED BY <1>5, <1>7, FS_Injection, SMTT(20)

\* log.outstanding counts the operations in progress.
LEMMA ActiveCount ==
  ASSUME Inv
  PROVE  /\ IsFiniteSet(Active) /\ outstanding \in Nat
         /\ outstanding = 0 <=> Active = {}
         /\ \A p \in Procs : /\ Cardinality(Active \ {p}) =
                                  IF p \in Active THEN outstanding - 1 ELSE outstanding
                             /\ Cardinality(Active \cup {p}) =
                                  IF p \in Active THEN outstanding ELSE outstanding + 1
                             /\ Cardinality(Active \cup {p}) <= Cardinality(Procs)
<1>1. IsFiniteSet(Procs) /\ Cardinality(Procs) \in Nat
  BY LogAssumption, FS_CardinalityType, Zenon
<1>2. Active \in SUBSET Procs
  BY Zenon DEF Active
<1>3. IsFiniteSet(Active) /\ outstanding = Cardinality(Active)
  BY <1>1, <1>2, FS_Subset, Zenon DEF Inv, Control
<1>4. outstanding \in Nat
  BY <1>3, FS_CardinalityType, Zenon
<1>5. outstanding = 0 <=> Active = {}
  BY <1>3, FS_EmptySet, Zenon
<1>6. ASSUME NEW p \in Procs
      PROVE  /\ Cardinality(Active \ {p}) =
                  IF p \in Active THEN outstanding - 1 ELSE outstanding
             /\ Cardinality(Active \cup {p}) =
                  IF p \in Active THEN outstanding ELSE outstanding + 1
             /\ Cardinality(Active \cup {p}) <= Cardinality(Procs)
  <2>1. Active \cup {p} \in SUBSET Procs
    BY <1>2, Zenon
  <2>2. Cardinality(Active \cup {p}) <= Cardinality(Procs)
    BY <2>1, <1>1, FS_Subset, Zenon
  <2>3. Cardinality(Active \ {p}) =
          IF p \in Active THEN outstanding - 1 ELSE outstanding
    BY <1>3, FS_RemoveElement, Zenon
  <2>4. Cardinality(Active \cup {p}) =
          IF p \in Active THEN outstanding ELSE outstanding + 1
    BY <1>3, FS_AddElement, Zenon
  <2> QED BY <2>2, <2>3, <2>4, Zenon
<1> QED BY <1>3, <1>4, <1>5, <1>6, Zenon

\* Operations in progress have logged at most what they may write.
LEMMA LogsCount ==
  ASSUME Inv
  PROVE  /\ IsFiniteSet(Logs) /\ Cardinality(Logs) \in Nat
         /\ Cardinality(Logs) <= outstanding * OpBlocks
<1>1. IsFiniteSet(Active) /\ outstanding = Cardinality(Active)
  BY ActiveCount, Zenon DEF Inv, Control
<1>2. \A p \in Active : IsFiniteSet(wrote[p]) /\ Cardinality(wrote[p]) <= OpBlocks
  BY Zenon DEF Inv, Space, Active
<1>3. \A x \in Logs : x \in Active \X Blocks /\ x[2] \in wrote[x[1]]
  BY Zenon DEF Logs, Inv, Space
<1>4. OpBlocks \in Nat
  BY LogAssumption, SMTT(20)
<1>5. IsFiniteSet(Logs) /\ Cardinality(Logs) <= outstanding * OpBlocks
  BY <1>1, <1>2, <1>3, <1>4, PairsBound, Zenon
<1> QED BY <1>5, FS_CardinalityType, Zenon

\* While an operation is in progress the log has room for one more block.
LEMMA LogFits ==
  ASSUME Inv, Reserved, outstanding >= 1
  PROVE  Len(lh) + 1 <= LogBlocks /\ Len(lh) + 1 < LOGSIZE
<1> DEFINE n == Len(lh)
           k == outstanding
           c == Cardinality(Logs)
<1>1. n \in Nat /\ k \in Nat /\ c \in Nat /\ k >= 1 /\ c <= k * OpBlocks
  BY LogsCount, ActiveCount, SeqLength, Zenon DEF Inv, TypeOK
<1>2. /\ LOGSIZE \in Nat /\ MAXOPBLOCKS \in Nat /\ LogBlocks \in Nat /\ OpBlocks \in Nat
      /\ OpBlocks + 1 <= MAXOPBLOCKS /\ MAXOPBLOCKS + 1 <= LOGSIZE
      /\ LogBlocks + 1 >= LOGSIZE
  BY LogAssumption, SMTT(20) DEF Reserved
<1>3. CASE k >= 2
  <2>1. n + k * MAXOPBLOCKS <= LOGSIZE + c
    BY <1>3, Zenon DEF Inv, Space
  <2> HIDE DEF n, k, c
  <2>2. k * (OpBlocks + 1) <= k * MAXOPBLOCKS /\ k * (OpBlocks + 1) = k * OpBlocks + k
    BY <1>1, <1>2, SMTT(20)
  <2>3. n + k <= LOGSIZE
    BY <1>1, <1>2, <2>1, <2>2, SMTT(20)
  <2> QED BY <1>1, <1>2, <1>3, <2>3, SMTT(20) DEF n, k
<1>4. CASE k = 1
  <2>1. \/ n + 2 * MAXOPBLOCKS <= LOGSIZE + OpBlocks + c
        \/ n <= c
    BY <1>4, Zenon DEF Inv, Space
  <2> HIDE DEF n, k, c
  <2>2. c <= OpBlocks
    BY <1>1, <1>2, <1>4, SMTT(20)
  <2> QED BY <1>1, <1>2, <2>1, <2>2, SMTT(20) DEF n
<1> QED BY <1>1, <1>3, <1>4, SMTT(20)

-----------------------------------------------------------------------------
(* What the steps of commit and recovery have in common *)

\* While nobody is in an operation, the space argument is about the log only.
LEMMA SpaceStays ==
  ASSUME Inv, Active = {}, UNCHANGED <<procVars, outstanding, panicked>>,
         Len(lh') <= LogBlocks, Len(header') <= LogBlocks
  PROVE  Space'
<1>1. outstanding = 0
  BY ActiveCount, Zenon
<1> QED BY <1>1, SMTT(20) DEF Inv, Space, procVars, Active

\* A step that moves no process and leaves commit or recovery only with an
\* empty log.
LEMMA ControlStays ==
  ASSUME Inv, UNCHANGED <<procVars, outstanding, committing>>,
         stage' \in CommitStages <=> stage \in CommitStages,
         Recovering' => Recovering,
         stage' = "none" => lh' = <<>>
  PROVE  Control'
BY Zenon DEF Inv, Control, procVars, Active, SleeperHasWaker, Recovering

\* Commit and recovery run while nobody is in an operation.
LEMMA Alone ==
  ASSUME Inv, stage # "none"
  PROVE  Active = {} /\ outstanding = 0 /\ \A b \in Blocks : ~ Held(b)
<1>1. Active = {}
  BY Zenon DEF Inv, Control, TypeOK, CommitStages, Recovering
<1>2. \A p \in Procs : holding[p] = None
  BY <1>1, Zenon DEF Inv, Control, Active, TypeOK
<1>3. None \notin Blocks
  BY LogAssumption, Zenon
<1> QED BY <1>1, <1>2, <1>3, ActiveCount, Zenon DEF Held
-----------------------------------------------------------------------------
(* Operations *)

\* initlog starts with an empty log and nobody in an operation.
LEMMA InitInv ==
  Init => Inv
<1> SUFFICES ASSUME Init PROVE Inv
  OBVIOUS
<1> USE LogAssumption DEF Init
<1>1. Active = {}
  BY Zenon DEF Active
<1>2. Cardinality({}) = 0 /\ IsFiniteSet({}) /\ Cardinality(Procs) \in Nat
  BY FS_EmptySet, FS_CardinalityType, Zenon
<1>3. <<>> \in Seq(Blocks) /\ Len(<<>>) = 0
  OBVIOUS
<1>4. TypeOK
  <2>1. 0 \in 0 .. Cardinality(Procs)
    BY <1>2, SMTT(20)
  <2> QED BY <1>3, <2>1, Zenon DEF TypeOK
<1>5. Control
  BY <1>1, <1>2, Zenon DEF Control, CommitStages, Recovering, SleeperHasWaker
<1>6. Loops
  BY <1>3, SMTT(20) DEF Loops, Distinct
<1>7. Contained
  BY Zenon DEF Contained
<1>8. Space
  BY <1>1, <1>2, <1>3, SMTT(20) DEF Space
<1> QED BY <1>4, <1>5, <1>6, <1>7, <1>8, Zenon DEF Inv

\* begin_op that goes to sleep: someone is there to wake the process, since a
\* log without operations and without a commit is empty and has space for one.
LEMMA SleepInv ==
  ASSUME Inv, NEW p \in Procs, begin_op(p), MustWait
  PROVE  Inv'
<1>1. /\ pc' = [pc EXCEPT ![p] = "asleep"] /\ pc[p] \in {"idle", "begin"}
      /\ UNCHANGED <<wrote, outstanding, holding, logVars, diskVars, cacheVars, panicked>>
      /\ ~ Recovering
  BY Zenon DEF begin_op, logVars
<1>2. Active' = Active
  BY <1>1, Zenon DEF Active, Inv, TypeOK
<1>3. TypeOK'
  BY <1>1, Zenon DEF Inv, TypeOK, logVars, diskVars, cacheVars
<1>4. outstanding > 0 \/ committing
  <2>1. SUFFICES ASSUME ~ committing, Active = {}
                 PROVE  FALSE
    BY ActiveCount, SMTT(20)
  <2>2. stage = "none"
    BY <1>1, <2>1, Zenon DEF Inv, TypeOK, Control, CommitStages, Recovering
  <2>3. lh = <<>> /\ outstanding = 0
    BY <2>1, <2>2, ActiveCount, Zenon DEF Inv, Control
  <2>4. Len(lh) = 0
    BY <2>3, Zenon
  <2>5. 0 + (0 + 1) * MAXOPBLOCKS > LOGSIZE
    BY <2>1, <2>3, <2>4, Zenon DEF MustWait, NoSpace
  <2> QED BY <2>5, LogAssumption, SMTT(20)
<1>5. Control'
  <2>1. SleeperHasWaker'
    BY <1>1, <1>4, Zenon DEF SleeperHasWaker, logVars
  <2> QED BY <1>1, <1>2, <2>1, Zenon DEF Inv, Control, TypeOK, logVars, Recovering
<1>6. Loops' /\ Contained'
  BY <1>1, SMTT(20) DEF Inv, Loops, Distinct, Contained, Recovering, Logged, Held, Contents,
              logVars, diskVars, cacheVars
<1>7. Space'
  BY <1>1, <1>2, Zenon DEF Inv, Space, Logs, Logged, logVars, diskVars
<1> QED BY <1>3, <1>5, <1>6, <1>7, Zenon DEF Inv

\* begin_op that enters: alone, with an empty log, or with its reservation
\* within LOGSIZE.
LEMMA EnterInv ==
  ASSUME Inv, NEW p \in Procs, begin_op(p), ~ MustWait
  PROVE  Inv'
<1>1. /\ pc' = [pc EXCEPT ![p] = "in_op"] /\ pc[p] \in {"idle", "begin"}
      /\ wrote' = [wrote EXCEPT ![p] = {}] /\ outstanding' = outstanding + 1
      /\ UNCHANGED <<holding, committing, lh, stage, tail, diskVars, cacheVars, panicked>>
      /\ ~ Recovering
  BY Zenon DEF begin_op
<1>2. ~ committing /\ stage = "none"
  BY <1>1, Zenon DEF MustWait, Inv, TypeOK, Control, CommitStages, Recovering
<1>3. p \notin Active /\ Active' = Active \cup {p}
  BY <1>1, Zenon DEF Active, Inv, TypeOK
<1>4. /\ outstanding \in Nat /\ outstanding' = Cardinality(Active')
      /\ outstanding' <= Cardinality(Procs)
  BY <1>1, <1>3, ActiveCount, Zenon
<1>5. wrote' = wrote
  BY <1>1, <1>3, Zenon DEF Inv, TypeOK, Space
<1>6. TypeOK'
  <2>1. Cardinality(Procs) \in Nat
    BY LogAssumption, FS_CardinalityType, Zenon
  <2>2. outstanding' \in 0 .. Cardinality(Procs)
    BY <1>1, <1>4, <2>1, SMTT(20)
  <2> QED BY <1>1, <1>5, <2>2, Zenon DEF Inv, TypeOK, diskVars, cacheVars
<1>7. Control'
  <2>1. SleeperHasWaker'
    BY <1>1, <1>4, SMTT(20) DEF SleeperHasWaker
  <2> QED BY <1>1, <1>2, <1>3, <1>4, <2>1, Zenon
          DEF Inv, Control, TypeOK, Recovering, CommitStages
<1>8. Loops' /\ Contained'
  BY <1>1, SMTT(20) DEF Inv, Loops, Distinct, Contained, Recovering, Logged, Held, Contents,
              diskVars, cacheVars
<1>9. Space'
  <2>1. Logs' = Logs /\ Cardinality(Logs) \in Nat /\ Len(lh) \in Nat
    BY <1>1, <1>5, LogsCount, SeqLength, Zenon DEF Logs, Logged, Inv, TypeOK
  <2>2. outstanding' >= 2 =>
          Len(lh') + outstanding' * MAXOPBLOCKS <= LOGSIZE + Cardinality(Logs')
    <3>1. ~ (Len(lh) + (outstanding + 1) * MAXOPBLOCKS > LOGSIZE)
      BY Zenon DEF MustWait, NoSpace
    <3> QED BY <1>1, <1>4, <2>1, <3>1, LogAssumption, SMTT(20)
  <2>3. outstanding' = 1 => Len(lh') <= Cardinality(Logs')
    <3>1. SUFFICES ASSUME outstanding = 0
                   PROVE  Len(lh') <= Cardinality(Logs')
      BY <1>1, <1>4, SMTT(20)
    <3>2. lh = <<>>
      BY <1>2, <3>1, ActiveCount, Zenon DEF Inv, Control
    <3>3. Len(lh') = 0
      BY <1>1, <3>2, Zenon
    <3> QED BY <2>1, <3>3, SMTT(20)
  <2>4. \A q \in Procs : /\ IsFiniteSet(wrote'[q])
                         /\ Cardinality(wrote'[q]) <= OpBlocks
                         /\ q \notin Active' => wrote'[q] = {}
                         /\ holding'[q] # None => holding'[q] \in wrote'[q]
    BY <1>1, <1>3, <1>5, Zenon DEF Inv, Space
  <2> QED BY <1>1, <2>2, <2>3, <2>4, Zenon DEF Inv, Space, diskVars
<1> QED BY <1>6, <1>7, <1>8, <1>9, Zenon DEF Inv

\* A process modifies a buffer that nobody holds; log_write, testing without
\* the lock, finds space.
LEMMA ModifyInv ==
  ASSUME Inv, Reserved, NEW p \in Procs, NEW b \in Blocks, NEW v \in Vals,
         modify_and_test(p, b, v)
  PROVE  Inv' /\ holding[p] = None /\ holding' = [holding EXCEPT ![p] = b]
         /\ pc' = [pc EXCEPT ![p] = "log_write"]
<1>1. p \in Active /\ Active # {} /\ pc[p] = "in_op"
  BY Zenon DEF Active, modify_and_test
<1>2. outstanding \in Nat /\ outstanding >= 1
  BY <1>1, ActiveCount, SMTT(20)
<1>3. ~ (Len(lh) >= LOGSIZE \/ Len(lh) >= LogBlocks \/ outstanding < 1)
  <2>1. Len(lh) \in Nat
    BY SeqLength, Zenon DEF Inv, TypeOK
  <2> QED BY <1>2, <2>1, LogFits, LogAssumption, SMTT(20)
<1>4. /\ pc' = [pc EXCEPT ![p] = "log_write"]
      /\ holding' = [holding EXCEPT ![p] = b]
      /\ wrote' = [wrote EXCEPT ![p] = @ \cup {b}]
      /\ cache' = [cache EXCEPT ![b] = v]
      /\ UNCHANGED <<logVars, diskVars, dirty, panicked>>
      /\ ~ Held(b) /\ Cardinality(wrote[p] \cup {b}) <= OpBlocks
  BY <1>3, Zenon DEF modify_and_test
<1>5. Active' = Active /\ b # None /\ holding[p] = None
  BY <1>1, <1>4, LogAssumption, Zenon DEF Active, Inv, TypeOK, Control
<1>6. TypeOK'
  BY <1>4, Zenon DEF Inv, TypeOK, logVars, diskVars
<1>7. Control'
  BY <1>1, <1>4, <1>5, Zenon DEF Inv, Control, TypeOK, logVars, Recovering, SleeperHasWaker
<1>8. Loops'
  BY <1>4, SMTT(20) DEF Inv, Loops, Distinct, logVars, diskVars
<1>9. stage = "none"
  BY <1>1, Zenon DEF Inv, Control, TypeOK, CommitStages, Recovering
<1>10. Contained'
  <2>1. Held(b)'
    BY <1>4, Zenon DEF Held, Inv, TypeOK
  <2>2. \A c \in Blocks : Held(c) => Held(c)'
    BY <1>4, <1>5, LogAssumption, Zenon DEF Held, Inv, TypeOK
  <2>3. ~ Recovering /\ ~ Recovering' /\ stage' = "none"
    BY <1>4, <1>9, Zenon DEF Recovering, logVars
  <2>4. \A c \in Blocks : \/ cache'[c] \in {None, home'[c]}
                          \/ ~ Recovering' /\ (Logged(c)' \/ Held(c)')
    BY <1>4, <2>1, <2>2, <2>3, Zenon DEF Inv, TypeOK, Contained, Logged, logVars, diskVars
  <2> QED BY <1>4, <2>3, <2>4, Zenon DEF Inv, Contained, logVars, diskVars
<1>11. Space'
  <2>1. IsFiniteSet(wrote[p] \cup {b})
    BY FS_AddElement, Zenon DEF Inv, Space
  <2>2. \A q \in Procs : /\ IsFiniteSet(wrote'[q])
                         /\ Cardinality(wrote'[q]) <= OpBlocks
                         /\ q \notin Active' => wrote'[q] = {}
                         /\ holding'[q] # None => holding'[q] \in wrote'[q]
    BY <1>1, <1>4, <1>5, <2>1, Zenon DEF Inv, Space, TypeOK
  <2>3. Len(lh) \in Nat /\ Cardinality(Logs) \in Nat /\ Cardinality(Logs') \in Nat
        /\ Cardinality(Logs) <= Cardinality(Logs')
    <3>1. IsFiniteSet(Active') /\ Cardinality(Active') \in Nat
      BY <1>5, ActiveCount, FS_CardinalityType, Zenon
    <3>2. \A q \in Active' : IsFiniteSet(wrote'[q]) /\ Cardinality(wrote'[q]) <= OpBlocks
      BY <2>2, Zenon DEF Active
    <3>3. \A x \in Logs' : x \in Active' \X Blocks /\ x[2] \in wrote'[x[1]]
      BY <2>2, Zenon DEF Logs
    <3>4. IsFiniteSet(Logs')
      <4>1. OpBlocks \in Nat
        BY LogAssumption, SMTT(20)
      <4> QED BY <3>1, <3>2, <3>3, <4>1, PairsBound, Zenon
    <3>5. Logs \in SUBSET Logs'
      BY <1>4, Zenon DEF Logs, Logged, logVars, Inv, TypeOK
    <3> QED BY <3>4, <3>5, FS_Subset, FS_CardinalityType, SeqLength, Zenon DEF Inv, TypeOK
  <2>4. UNCHANGED <<lh, outstanding, header, panicked>>
    BY <1>4, Zenon DEF logVars, diskVars
  <2>5. /\ outstanding' >= 2 =>
             Len(lh') + outstanding' * MAXOPBLOCKS <= LOGSIZE + Cardinality(Logs')
        /\ outstanding' = 1 =>
             \/ Len(lh') + 2 * MAXOPBLOCKS <= LOGSIZE + OpBlocks + Cardinality(Logs')
             \/ Len(lh') <= Cardinality(Logs')
    <3>1. outstanding * MAXOPBLOCKS \in Nat
      BY <1>2, LogAssumption, SMTT(20)
    <3> QED BY <1>2, <2>3, <2>4, <3>1, LogAssumption, SMTT(20) DEF Inv, Space
  <2> QED BY <2>2, <2>4, <2>5, Zenon DEF Inv, Space
<1> QED BY <1>4, <1>5, <1>6, <1>7, <1>8, <1>10, <1>11, Zenon DEF Inv
\* log_write under the lock: a block logged already is absorbed, a new one
\* takes a place of the log that its operation has reserved.
LEMMA LogWriteInv ==
  ASSUME Inv, Reserved, NEW p \in Procs, log_write(p)
  PROVE  Inv'
<1>0. PICK b \in Blocks : b = holding[p]
  BY Zenon DEF log_write, Inv, Control, TypeOK
<1>1. /\ pc[p] = "log_write" /\ pc' = [pc EXCEPT ![p] = "in_op"]
      /\ lh' = IF Logged(b) THEN lh ELSE Append(lh, b)
      /\ dirty' = dirty \cup {b} /\ holding' = [holding EXCEPT ![p] = None]
      /\ UNCHANGED <<wrote, outstanding, committing, stage, tail, diskVars, cache, panicked>>
  BY <1>0, Zenon DEF log_write
<1>2. b \in wrote[p] /\ p \in Active
  BY <1>0, <1>1, Zenon DEF Inv, Control, TypeOK, Space, Active
<1>3. Active' = Active
  BY <1>1, Zenon DEF Active, Inv, TypeOK
<1>4. stage = "none" /\ ~ Recovering /\ ~ Recovering' /\ ~ committing
  BY <1>1, <1>2, Zenon DEF Inv, Control, TypeOK, CommitStages, Recovering
<1>5. outstanding \in Nat /\ outstanding >= 1
  BY <1>2, ActiveCount, SMTT(20)
<1>6. /\ lh' \in Seq(Blocks) /\ Len(lh) \in Nat
      /\ Len(lh') = IF Logged(b) THEN Len(lh) ELSE Len(lh) + 1
      /\ \A i \in 1 .. Len(lh) : lh'[i] = lh[i]
      /\ ~ Logged(b) => lh'[Len(lh) + 1] = b
  BY <1>1, <1>2, SeqAppend, SeqLength, SMTT(20) DEF Inv, TypeOK
<1>7. Logged(b)' /\ \A c \in Blocks : Logged(c)' <=> Logged(c) \/ c = b
  <2>1. CASE Logged(b)
    BY <1>1, <2>1, Zenon DEF Logged
  <2>2. CASE ~ Logged(b)
    BY <1>6, <2>2, SMTT(20) DEF Logged
  <2> QED BY <2>1, <2>2, Zenon
<1>8. TypeOK'
  BY <1>1, <1>2, <1>6, Zenon DEF Inv, TypeOK, diskVars
<1>9. Control'
  <2>1. SleeperHasWaker'
    BY <1>1, <1>5, SMTT(20) DEF SleeperHasWaker
  <2>2. Active' # {}
    BY <1>2, <1>3, Zenon
  <2> QED BY <1>1, <1>2, <1>3, <1>4, <2>1, <2>2, Zenon DEF Inv, Control, TypeOK
<1>10. Loops'
  <2>1. Distinct(lh')
    BY <1>6, SMTT(20) DEF Distinct, Logged, Inv, Loops
  <2> QED BY <1>1, <1>4, <2>1, Zenon DEF Inv, Loops, diskVars
<1>11. Contained'
  <2>1. \A c \in Blocks : Held(c) => Held(c)' \/ c = b
    BY <1>0, <1>1, Zenon DEF Held, Inv, TypeOK
  <2>2. \A c \in Blocks : \/ cache'[c] \in {None, home'[c]}
                          \/ ~ Recovering' /\ (Logged(c)' \/ Held(c)')
    BY <1>1, <1>4, <1>7, <2>1, Zenon DEF Inv, Contained, diskVars
  <2>3. \A i \in 1 .. Len(lh') : lh'[i] \in dirty'
    <3>1. \A i \in 1 .. Len(lh) : lh[i] \in dirty
      BY <1>4, Zenon DEF Inv, Contained
    <3>2. b \in dirty' /\ dirty \subseteq dirty'
      BY <1>1, Zenon
    <3>3. CASE Logged(b)
      <4>1. Len(lh') = Len(lh)
        BY <1>6, <3>3, Zenon
      <4> QED BY <1>6, <3>1, <3>2, <4>1, Zenon
    <3>4. CASE ~ Logged(b)
      <4>1. Len(lh') = Len(lh) + 1 /\ lh'[Len(lh) + 1] = b
        BY <1>6, <3>4, Zenon
      <4>2. ASSUME NEW i \in 1 .. Len(lh') PROVE i \in 1 .. Len(lh) \/ i = Len(lh) + 1
        BY <1>6, <4>1, SMTT(20)
      <4> QED BY <1>6, <3>1, <3>2, <4>1, <4>2, Zenon
    <3> QED BY <3>3, <3>4, Zenon
  <2> QED BY <1>1, <1>4, <2>2, <2>3, Zenon DEF Contained
<1>12. Space'
  <2>1. Cardinality(Logs') \in Nat /\ Cardinality(Logs) \in Nat
        /\ Cardinality(Logs') >= IF Logged(b) THEN Cardinality(Logs)
                                              ELSE Cardinality(Logs) + 1
    <3>1. IsFiniteSet(Logs) /\ Cardinality(Logs) \in Nat
      BY LogsCount, Zenon
    <3>2. Logs' = {x \in Procs \X Blocks : x[2] \in wrote[x[1]] /\ (Logged(x[2]) \/ x[2] = b)}
      BY <1>1, <1>7, Zenon DEF Logs
    <3>3. IsFiniteSet(Logs') /\ Cardinality(Logs') \in Nat
      <4>1. OpBlocks \in Nat /\ IsFiniteSet(Active)
        BY LogAssumption, ActiveCount, SMTT(20)
      <4>2. \A q \in Active : IsFiniteSet(wrote[q]) /\ Cardinality(wrote[q]) <= OpBlocks
        BY Zenon DEF Inv, Space, Active
      <4>3. \A x \in Logs' : x \in Active \X Blocks /\ x[2] \in wrote[x[1]]
        BY <3>2, Zenon DEF Inv, Space
      <4> QED BY <4>1, <4>2, <4>3, PairsBound, FS_CardinalityType, Zenon
    <3>4. Logs \in SUBSET Logs'
      BY <3>2, Zenon DEF Logs
    <3>5. CASE Logged(b)
      BY <3>1, <3>3, <3>4, <3>5, FS_Subset, Zenon
    <3>6. CASE ~ Logged(b)
      <4>1. <<p, b>> \in Logs' /\ <<p, b>> \notin Logs
        BY <1>2, <3>2, <3>6, Zenon DEF Logs
      <4>2. Logs \cup {<<p, b>>} \in SUBSET Logs'
        BY <3>4, <4>1, Zenon
      <4>3. Cardinality(Logs \cup {<<p, b>>}) = Cardinality(Logs) + 1
        BY <3>1, <4>1, FS_AddElement, Zenon
      <4> QED BY <3>1, <3>3, <3>6, <4>2, <4>3, FS_Subset, Zenon
    <3> QED BY <3>5, <3>6, Zenon
  <2>2. Len(lh') <= LogBlocks
    BY <1>5, <1>6, LogFits, Zenon DEF Inv, Space
  <2>3. /\ outstanding' >= 2 =>
             Len(lh') + outstanding' * MAXOPBLOCKS <= LOGSIZE + Cardinality(Logs')
        /\ outstanding' = 1 =>
             \/ Len(lh') + 2 * MAXOPBLOCKS <= LOGSIZE + OpBlocks + Cardinality(Logs')
             \/ Len(lh') <= Cardinality(Logs')
    <3>1. outstanding * MAXOPBLOCKS \in Nat /\ outstanding' = outstanding
      BY <1>1, <1>5, LogAssumption, SMTT(20)
    <3>2. Len(lh') \in Nat /\ Len(lh') + Cardinality(Logs) <= Len(lh) + Cardinality(Logs')
      BY <1>6, <2>1, SMTT(20)
    <3>3. LOGSIZE \in Nat /\ OpBlocks \in Nat /\ MAXOPBLOCKS \in Nat
      BY LogAssumption, SMTT(20)
    <3>4. /\ outstanding >= 2 =>
               Len(lh) + outstanding * MAXOPBLOCKS <= LOGSIZE + Cardinality(Logs)
          /\ outstanding = 1 =>
               \/ Len(lh) + 2 * MAXOPBLOCKS <= LOGSIZE + OpBlocks + Cardinality(Logs)
               \/ Len(lh) <= Cardinality(Logs)
      BY Zenon DEF Inv, Space
    <3> DEFINE res == outstanding * MAXOPBLOCKS
               l == Len(lh)
               m == Len(lh')
               c == Cardinality(Logs)
               d == Cardinality(Logs')
    <3>5. l \in Nat /\ m \in Nat /\ c \in Nat /\ d \in Nat /\ res \in Nat /\ m + c <= l + d
      BY <1>6, <2>1, <3>1, <3>2, Zenon
    <3>6. /\ outstanding >= 2 => l + res <= LOGSIZE + c
          /\ outstanding = 1 => l + 2 * MAXOPBLOCKS <= LOGSIZE + OpBlocks + c \/ l <= c
      BY <3>4, Zenon
    <3> HIDE DEF res, l, m, c, d
    <3>7. /\ outstanding >= 2 => m + res <= LOGSIZE + d
          /\ outstanding = 1 => m + 2 * MAXOPBLOCKS <= LOGSIZE + OpBlocks + d \/ m <= d
      BY <3>3, <3>5, <3>6, SMTT(20)
    <3> QED BY <3>1, <3>7, Zenon DEF res, m, d
  <2>4. \A q \in Procs : holding'[q] # None => holding'[q] \in wrote'[q]
    BY <1>1, Zenon DEF Inv, Space, TypeOK
  <2> QED BY <1>1, <1>3, <2>2, <2>3, <2>4, Zenon DEF Inv, Space, diskVars
<1> QED BY <1>8, <1>9, <1>10, <1>11, <1>12, Zenon DEF Inv

\* An operation that ends gives up what it has logged, at most OpBlocks.
LEMMA LogsLeft ==
  ASSUME Inv, NEW p \in Procs, lh' = lh, wrote' = [wrote EXCEPT ![p] = {}]
  PROVE  /\ Cardinality(Logs') \in Nat
         /\ Cardinality(Logs) <= Cardinality(Logs') + OpBlocks
<1> DEFINE Mine == {x \in Logs : x[1] = p}
<1>1. IsFiniteSet(Logs) /\ Cardinality(Logs) \in Nat /\ OpBlocks \in Nat
  BY LogsCount, LogAssumption, SMTT(20)
<1>2. Logs' = Logs \ Mine
  BY Zenon DEF Logs, Logged, Inv, TypeOK
<1>3. IsFiniteSet(Mine) /\ Cardinality(Mine) <= 1 * OpBlocks
  <2>1. IsFiniteSet({p}) /\ Cardinality({p}) = 1
    BY FS_Singleton, Zenon
  <2>2. \A q \in {p} : IsFiniteSet(wrote[q]) /\ Cardinality(wrote[q]) <= OpBlocks
    BY Zenon DEF Inv, Space
  <2>3. \A x \in Mine : x \in {p} \X Blocks /\ x[2] \in wrote[x[1]]
    BY Zenon DEF Logs
  <2> HIDE DEF Mine
  <2> QED BY <1>1, <2>1, <2>2, <2>3, PairsBound, Zenon
<1>4. Logs \cap Mine = Mine
  OBVIOUS
<1> HIDE DEF Mine
<1>5. /\ IsFiniteSet(Logs \ Mine)
      /\ Cardinality(Logs \ Mine) = Cardinality(Logs) - Cardinality(Mine)
  BY <1>1, <1>3, <1>4, FS_Difference, Zenon
<1>6. Cardinality(Mine) \in Nat /\ Cardinality(Logs \ Mine) \in Nat
  BY <1>3, <1>5, FS_CardinalityType, Zenon
<1> QED BY <1>1, <1>2, <1>3, <1>5, <1>6, SMTT(20)
\* What end_op does, whichever way it goes: it never finds a commit running.
LEMMA EndOp ==
  ASSUME Inv, NEW p \in Procs, end_op(p)
  PROVE  /\ pc[p] = "in_op" /\ p \in Active /\ Active' = Active \ {p}
         /\ stage = "none" /\ ~ committing
         /\ outstanding' = Cardinality(Active') /\ outstanding \in Nat
         /\ outstanding' = outstanding - 1 /\ outstanding' \in 0 .. Cardinality(Procs)
         /\ pc' \in [Procs -> {"idle", "begin", "asleep", "in_op", "log_write", "commit"}]
<1>1. pc[p] = "in_op" /\ p \in Active /\ outstanding' = outstanding - 1
  BY Zenon DEF end_op, Active
<1>2. ~ committing /\ stage = "none"
  BY <1>1, Zenon DEF Inv, Control, TypeOK, CommitStages, Recovering
<1>3. \/ pc' = [pc EXCEPT ![p] = "commit"]
      \/ pc' = [q \in Procs |-> IF [pc EXCEPT ![p] = "idle"][q] = "asleep"
                                THEN "begin" ELSE [pc EXCEPT ![p] = "idle"][q]]
  BY <1>2, Zenon DEF end_op, Wakeup
<1>4. pc' \in [Procs -> {"idle", "begin", "asleep", "in_op", "log_write", "commit"}]
  BY <1>3, Zenon DEF Inv, TypeOK
<1>5. Active' = Active \ {p}
  BY <1>1, <1>3, Zenon DEF Active, Inv, TypeOK
<1>6. outstanding \in Nat /\ outstanding >= 1 /\ outstanding - 1 = Cardinality(Active \ {p})
  BY <1>1, ActiveCount, SMTT(20)
<1>7. outstanding' \in 0 .. Cardinality(Procs)
  BY <1>1, <1>6, LogAssumption, FS_CardinalityType, SMTT(20) DEF Inv, TypeOK
<1> QED BY <1>1, <1>2, <1>4, <1>5, <1>6, <1>7, Zenon

\* end_op of an operation that is not the last one.
LEMMA EndOpInv ==
  ASSUME Inv, Reserved, NEW p \in Procs, end_op(p), outstanding' # 0
  PROVE  Inv'
<1>1. /\ pc[p] = "in_op" /\ p \in Active /\ Active' = Active \ {p}
      /\ stage = "none" /\ ~ committing
      /\ outstanding' = Cardinality(Active') /\ outstanding \in Nat
      /\ outstanding' = outstanding - 1 /\ outstanding' \in 0 .. Cardinality(Procs)
      /\ pc' \in [Procs -> {"idle", "begin", "asleep", "in_op", "log_write", "commit"}]
  BY EndOp, Zenon
<1>2. /\ pc' = [q \in Procs |-> IF [pc EXCEPT ![p] = "idle"][q] = "asleep"
                                THEN "begin" ELSE [pc EXCEPT ![p] = "idle"][q]]
      /\ wrote' = [wrote EXCEPT ![p] = {}]
      /\ UNCHANGED <<committing, stage, panicked, holding, lh, tail, diskVars, cacheVars>>
  BY <1>1, Zenon DEF end_op, Wakeup
<1>3. TypeOK'
  BY <1>1, <1>2, Zenon DEF Inv, TypeOK, diskVars, cacheVars
<1>4. Control'
  <2>1. SleeperHasWaker' /\ \A q \in Procs : pc'[q] # "asleep"
    BY <1>2, Zenon DEF SleeperHasWaker, Inv, TypeOK
  <2>2. Active' # {}
    BY <1>1, FS_EmptySet, Zenon
  <2>3. \A q \in Procs : pc'[q] = "commit" => pc[q] = "commit"
    BY <1>2, Zenon DEF Inv, TypeOK
  <2>4. \A q \in Procs : pc'[q] = "log_write" <=> pc[q] = "log_write"
    BY <1>1, <1>2, Zenon DEF Inv, TypeOK
  <2> QED BY <1>1, <1>2, <2>1, <2>2, <2>3, <2>4, Zenon
          DEF Inv, Control, CommitStages, Recovering
<1>5. Loops' /\ Contained'
  BY <1>2, SMTT(20) DEF Inv, Loops, Distinct, Contained, Recovering, Logged, Held, Contents,
              diskVars, cacheVars
<1>6. Space'
  <2>1. \A q \in Procs : /\ IsFiniteSet(wrote'[q])
                         /\ Cardinality(wrote'[q]) <= OpBlocks
                         /\ q \notin Active' => wrote'[q] = {}
                         /\ holding'[q] # None => holding'[q] \in wrote'[q]
    <3>1. holding[p] = None
      BY <1>1, Zenon DEF Inv, Control
    <3>2. IsFiniteSet({}) /\ Cardinality({}) <= OpBlocks
      BY FS_EmptySet, LogAssumption, SMTT(20)
    <3> QED BY <1>1, <1>2, <3>1, <3>2, Zenon DEF Inv, Space, TypeOK
  <2> DEFINE l == Len(lh)
             k == outstanding
             c == Cardinality(Logs)
             d == Cardinality(Logs')
  <2>2. c \in Nat /\ d \in Nat /\ l \in Nat /\ c <= d + OpBlocks
    BY <1>2, LogsLeft, LogsCount, SeqLength, Zenon DEF Inv, TypeOK
  <2>3. k \in Nat /\ k >= 2
    BY <1>1, SMTT(20)
  <2>4. l + k * MAXOPBLOCKS <= LOGSIZE + c
    BY <2>3, Zenon DEF Inv, Space
  <2>5. LOGSIZE \in Nat /\ OpBlocks \in Nat /\ MAXOPBLOCKS \in Nat /\ OpBlocks < MAXOPBLOCKS
    BY LogAssumption, SMTT(20) DEF Reserved
  <2>6. /\ l + (k - 1) * MAXOPBLOCKS <= LOGSIZE + d
        /\ k = 2 => l + 2 * MAXOPBLOCKS <= LOGSIZE + OpBlocks + d
    <3> HIDE DEF l, k, c, d
    <3>1. (k - 1) * MAXOPBLOCKS = k * MAXOPBLOCKS - MAXOPBLOCKS
      BY <2>3, <2>5, SMTT(20)
    <3>2. k * MAXOPBLOCKS \in Nat
      BY <2>3, <2>5, SMTT(20)
    <3> QED BY <2>2, <2>3, <2>4, <2>5, <3>1, <3>2, SMTT(20)
  <2>7. outstanding' = 1 => k = 2
    BY <1>1, <2>3, SMTT(20)
  <2> QED BY <1>1, <1>2, <2>1, <2>6, <2>7, Zenon DEF Inv, Space, diskVars
<1> QED BY <1>3, <1>4, <1>5, <1>6, Zenon DEF Inv

\* end_op of the last operation starts a commit.
LEMMA LastEndOpInv ==
  ASSUME Inv, NEW p \in Procs, end_op(p), outstanding' = 0
  PROVE  Inv'
<1>1. /\ pc[p] = "in_op" /\ p \in Active /\ Active' = Active \ {p}
      /\ stage = "none" /\ ~ committing
      /\ outstanding' = Cardinality(Active') /\ outstanding \in Nat
      /\ outstanding' = outstanding - 1 /\ outstanding' \in 0 .. Cardinality(Procs)
      /\ pc' \in [Procs -> {"idle", "begin", "asleep", "in_op", "log_write", "commit"}]
  BY EndOp, Zenon
<1>2. /\ pc' = [pc EXCEPT ![p] = "commit"] /\ committing' = TRUE
      /\ stage' = FirstStage
      /\ wrote' = [wrote EXCEPT ![p] = {}]
      /\ UNCHANGED <<panicked, holding, lh, tail, diskVars, cacheVars>>
  BY <1>1, Zenon DEF end_op
<1>3. /\ stage' \in {"end", "write_log"} /\ ~ Recovering /\ ~ Recovering'
      /\ stage' = "end" <=> lh = <<>>
  BY <1>1, <1>2, Zenon DEF FirstStage, Recovering
<1>4. TypeOK'
  BY <1>1, <1>2, <1>3, Zenon DEF Inv, TypeOK, diskVars, cacheVars
<1>5. Active' = {}
  <2>1. IsFiniteSet(Active \ {p})
    BY ActiveCount, FS_Difference, Zenon
  <2> QED BY <1>1, <2>1, FS_EmptySet, Zenon
<1>6. Control'
  BY <1>1, <1>2, <1>3, <1>5, Zenon DEF Inv, Control, TypeOK, CommitStages, SleeperHasWaker
<1>7. Loops'
  <2>1. lh # <<>> => 0 < Len(lh)
    BY SeqEmpty, SeqLength, SMTT(20) DEF Inv, TypeOK
  <2> QED BY <1>1, <1>2, <1>3, <2>1, SMTT(20) DEF Inv, Loops, Distinct, diskVars
<1>8. Contained'
  <2>1. tail' = 0
    BY <1>1, <1>2, Zenon DEF Inv, Loops
  <2> QED BY <1>1, <1>2, <1>3, <2>1, SMTT(20)
          DEF Inv, Contained, Logged, Held, Contents, diskVars, cacheVars
<1>9. Space'
  <2>1. holding[p] = None
    BY <1>1, Zenon DEF Inv, Control
  <2>2. IsFiniteSet({}) /\ Cardinality({}) <= OpBlocks
    BY FS_EmptySet, LogAssumption, SMTT(20)
  <2> QED BY <1>1, <1>2, <2>1, <2>2, SMTT(20) DEF Inv, Space, TypeOK, diskVars
<1> QED BY <1>4, <1>6, <1>7, <1>8, <1>9, Zenon DEF Inv
-----------------------------------------------------------------------------
(* Commit and recovery *)

\* The loops of write_log and install_trans stay within the log.
LEMMA InLog ==
  ASSUME Inv, stage \in {"write_log", "install", "recover"}
  PROVE  /\ tail \in Nat /\ Len(lh) \in Nat /\ tail + 1 \in 1 .. Len(lh)
         /\ tail + 1 \in 1 .. LogBlocks /\ lh[tail + 1] \in Blocks
         /\ 1 .. Len(lh) \subseteq 1 .. LogBlocks
         /\ \A i \in 1 .. Len(lh) : lh[i] \in Blocks
<1>1. tail \in Nat /\ Len(lh) \in Nat /\ tail + 1 <= Len(lh) /\ Len(lh) <= LogBlocks
  BY SeqLength, SMTT(20) DEF Inv, TypeOK, Loops, Space
<1>2. \A i \in 1 .. Len(lh) : lh[i] \in Blocks
  BY SeqElement, Zenon DEF Inv, TypeOK
<1> QED BY <1>1, <1>2, LogAssumption, SMTT(20)

\* A loop of commit or recovery goes on, or is done with the last block.
LEMMA AdvanceStep ==
  ASSUME Inv, stage \in {"write_log", "install", "recover"},
         NEW next, Advance(next)
  PROVE  \/ /\ tail' = tail + 1 /\ stage' = stage /\ tail + 1 < Len(lh)
         \/ /\ tail' = 0 /\ stage' = next /\ tail + 1 = Len(lh)
BY InLog, SMTT(20) DEF Advance

\* write_log copies one more block into the log on disk.
LEMMA WriteLogInv ==
  ASSUME Inv, write_log
  PROVE  Inv'
<1>1. /\ stage = "write_log"
      /\ logdata' = [logdata EXCEPT ![tail + 1] = Contents(lh[tail + 1])]
      /\ UNCHANGED <<procVars, outstanding, committing, lh, header, home, cacheVars, panicked>>
      /\ \/ /\ tail' = tail + 1 /\ stage' = stage /\ tail + 1 < Len(lh)
         \/ /\ tail' = 0 /\ stage' = "write_head" /\ tail + 1 = Len(lh)
  BY AdvanceStep, Zenon DEF write_log
<1>2. /\ tail \in Nat /\ Len(lh) \in Nat /\ tail + 1 \in 1 .. Len(lh)
      /\ tail + 1 \in 1 .. LogBlocks /\ lh[tail + 1] \in Blocks
      /\ 1 .. Len(lh) \subseteq 1 .. LogBlocks
  BY <1>1, InLog, Zenon
<1>3. Active = {} /\ outstanding = 0 /\ ~ Recovering /\ ~ Recovering'
  BY <1>1, Alone, Zenon DEF Recovering
<1>4. \A b \in Blocks : Contents(b)' = Contents(b) /\ Contents(b) \in Vals
  BY <1>1, Zenon DEF Contents, Inv, TypeOK, cacheVars
<1>5. TypeOK'
  BY <1>1, <1>2, <1>4, SMTT(20) DEF Inv, TypeOK, procVars, cacheVars
<1>6. Control'
  BY <1>1, <1>3, ControlStays, Zenon DEF CommitStages
<1>7. Loops'
  BY <1>1, <1>2, SMTT(20) DEF Inv, Loops, Distinct
<1>8. Contained'
  <2>1. \A i \in 1 .. Len(lh) : i <= tail + 1 => logdata'[i] = Contents(lh[i])'
    <3>1. \A i \in 1 .. Len(lh) : lh[i] \in Blocks
      BY <1>1, InLog, Zenon
    <3>2. \A i \in 1 .. Len(lh) : Contents(lh[i])' = Contents(lh[i])
      BY <1>1, <1>4, <3>1, Zenon DEF Contents, cacheVars
    <3>3. \A i \in 1 .. tail : logdata[i] = Contents(lh[i])
      BY <1>1, Zenon DEF Inv, Contained
    <3> QED BY <1>1, <1>2, <3>2, <3>3, SMTT(20) DEF Inv, TypeOK
  <2>2. \A b \in Blocks : \/ cache'[b] \in {None, home'[b]}
                          \/ ~ Recovering' /\ (Logged(b)' \/ Held(b)')
    BY <1>1, <1>3, Zenon DEF Inv, Contained, Logged, Held, procVars, cacheVars
  <2>3. \A i \in 1 .. Len(lh') : lh'[i] \in dirty'
    BY <1>1, Zenon DEF Inv, Contained, cacheVars
  <2> QED BY <1>1, <1>2, <2>1, <2>2, <2>3, SMTT(20) DEF Contained
<1>9. Space'
  BY <1>1, <1>3, SpaceStays, Zenon DEF Inv, Space
<1> QED BY <1>5, <1>6, <1>7, <1>8, <1>9, Zenon DEF Inv

\* write_head commits: the header on disk names the blocks just copied.
LEMMA WriteHeadInv ==
  ASSUME Inv, write_head
  PROVE  Inv'
<1>1. /\ stage = "write_head" /\ header' = lh /\ stage' = "install"
      /\ UNCHANGED <<procVars, outstanding, committing, lh, tail, logdata, home, cacheVars, panicked>>
  BY Zenon DEF write_head
<1>2. Active = {} /\ outstanding = 0 /\ ~ Recovering /\ ~ Recovering' /\ tail = 0
  BY <1>1, Alone, Zenon DEF Recovering, Inv, Loops
<1>3. TypeOK'
  BY <1>1, Zenon DEF Inv, TypeOK, procVars, cacheVars
<1>4. Control'
  BY <1>1, <1>2, ControlStays, Zenon DEF CommitStages
<1>5. Loops'
  BY <1>1, <1>2, SMTT(20) DEF Inv, Loops, Distinct
<1>6. Contained'
  BY <1>1, <1>2, SMTT(20) DEF Inv, Contained, Logged, Held, Contents, procVars, cacheVars
<1>7. Space'
  BY <1>1, <1>2, SpaceStays, Zenon DEF Inv, Space
<1> QED BY <1>3, <1>4, <1>5, <1>6, <1>7, Zenon DEF Inv

\* install_trans copies one block home, during a commit or a recovery.
LEMMA InstallInv ==
  ASSUME Inv, install_trans
  PROVE  Inv'
<1>1. stage \in {"install", "recover"}
  BY Zenon DEF install_trans
<1>2. /\ tail \in Nat /\ Len(lh) \in Nat /\ tail + 1 \in 1 .. Len(lh)
      /\ tail + 1 \in 1 .. LogBlocks /\ lh[tail + 1] \in Blocks
      /\ 1 .. Len(lh) \subseteq 1 .. LogBlocks
      /\ \A i \in 1 .. Len(lh) : lh[i] \in Blocks
  BY <1>1, InLog, Zenon
<1>3. PICK b \in Blocks : b = lh[tail + 1]
  BY <1>2, Zenon
<1>4. PICK v \in Vals : v = logdata[tail + 1]
  BY <1>2, Zenon DEF Inv, TypeOK
<1>5. /\ home' = [home EXCEPT ![b] = v] /\ cache' = [cache EXCEPT ![b] = v]
      /\ dirty' = dirty \ {b}
      /\ UNCHANGED <<procVars, outstanding, committing, lh, header, logdata, panicked>>
      /\ \/ /\ tail' = tail + 1 /\ stage' = stage /\ tail + 1 < Len(lh)
         \/ /\ tail' = 0 /\ tail + 1 = Len(lh)
            /\ stage' = IF stage = "install" THEN "clear" ELSE "clear_recovered"
  BY <1>1, <1>3, <1>4, AdvanceStep, Zenon DEF install_trans
<1>6. Active = {} /\ outstanding = 0 /\ (Recovering' <=> Recovering)
      /\ (Recovering <=> stage = "recover")
  BY <1>1, <1>5, Alone, Zenon DEF Recovering
<1>7. v # None /\ b # None
  BY LogAssumption, Zenon
<1>8. \A i \in 1 .. Len(lh) : lh[i] = b <=> i = tail + 1
  BY <1>2, <1>3, Zenon DEF Inv, Loops, Distinct
<1>9. TypeOK'
  BY <1>1, <1>2, <1>5, SMTT(20) DEF Inv, TypeOK, procVars
<1>10. Control'
  BY <1>1, <1>5, <1>6, ControlStays, Zenon DEF CommitStages
<1>11. Loops'
  BY <1>1, <1>2, <1>5, SMTT(20) DEF Inv, Loops, Distinct
<1>12. Contained'
  <2>1. \A c \in Blocks : \/ cache'[c] \in {None, home'[c]}
                          \/ ~ Recovering' /\ (Logged(c)' \/ Held(c)')
    BY <1>5, <1>6, SMTT(20) DEF Inv, TypeOK, Contained, Logged, Held, procVars
  <2>2. \A i \in 1 .. Len(lh) : i <= tail + 1 => home'[lh[i]] = logdata[i]
    <3>1. \A i \in 1 .. tail : home[lh[i]] = logdata[i]
      BY <1>1, Zenon DEF Inv, Contained
    <3> QED BY <1>2, <1>3, <1>4, <1>5, <1>8, <3>1, SMTT(20) DEF Inv, TypeOK
  <2>3. stage = "install" => \A i \in 1 .. Len(lh) : logdata[i] = Contents(lh[i])'
    <3>1. SUFFICES ASSUME stage = "install", NEW i \in 1 .. Len(lh)
                   PROVE  logdata[i] = Contents(lh[i])'
      OBVIOUS
    <3>2. logdata[i] = IF cache[lh[i]] = None THEN home[lh[i]] ELSE cache[lh[i]]
      BY <3>1, Zenon DEF Inv, Contained, Contents
    <3>3. CASE i = tail + 1
      BY <1>2, <1>3, <1>4, <1>5, <1>7, <3>3, Zenon DEF Contents, Inv, TypeOK
    <3>4. CASE i # tail + 1
      BY <1>2, <1>5, <1>8, <3>2, <3>4, Zenon DEF Contents, Inv, TypeOK
    <3> QED BY <3>3, <3>4, Zenon
  <2>4. stage = "install" => \A i \in tail + 2 .. Len(lh) : lh[i] \in dirty'
    <3>1. stage = "install" => \A i \in tail + 1 .. Len(lh) : lh[i] \in dirty
      BY Zenon DEF Inv, Contained
    <3>2. \A i \in tail + 2 .. Len(lh) : i \in tail + 1 .. Len(lh) /\ i \in 1 .. Len(lh)
                                         /\ i # tail + 1
      BY <1>2, SMTT(20)
    <3> QED BY <1>5, <1>8, <3>1, <3>2, Zenon
  <2>5. CASE /\ tail' = tail + 1 /\ stage' = stage /\ tail + 1 < Len(lh)
    <3>1. tail' + 1 = tail + 2
      BY <1>2, <2>5, SMTT(20)
    <3>2. \A i \in 1 .. tail' : i \in 1 .. Len(lh) /\ i <= tail + 1
      BY <1>2, <2>5, SMTT(20)
    <3> QED BY <1>1, <1>5, <2>1, <2>2, <2>3, <2>4, <2>5, <3>1, <3>2, Zenon DEF Contained
  <2>6. CASE /\ tail' = 0 /\ tail + 1 = Len(lh)
             /\ stage' = IF stage = "install" THEN "clear" ELSE "clear_recovered"
    <3>1. \A i \in 1 .. Len(lh) : i <= tail + 1
      BY <1>2, <2>6, SMTT(20)
    <3> QED BY <1>1, <1>5, <2>1, <2>2, <2>3, <2>6, <3>1, Zenon DEF Contained
  <2> QED BY <1>5, <2>5, <2>6, Zenon
<1>13. Space'
  BY <1>5, <1>6, SpaceStays, Zenon DEF Inv, Space
<1> QED BY <1>9, <1>10, <1>11, <1>12, <1>13, Zenon DEF Inv

\* Outside a transaction, a block in the cache is the block on disk.
LEMMA CacheIsHome ==
  ASSUME Inv, stage \in {"clear", "clear_recovered"} \/ (stage = "none" /\ Active = {})
  PROVE  \A b \in Blocks : cache[b] \in {None, home[b]}
<1>1. \A b \in Blocks : ~ Held(b)
  BY Alone, LogAssumption, Zenon DEF Inv, Control, Active, TypeOK, Held
<1>2. stage = "clear" => \A b \in Blocks : Logged(b) => cache[b] \in {None, home[b]}
  BY SMTT(20) DEF Inv, Contained, Logged, Contents
<1>3. stage = "none" /\ Active = {} => \A b \in Blocks : ~ Logged(b)
  <2>1. lh = <<>> => Len(lh) = 0
    OBVIOUS
  <2> QED BY <2>1, SMTT(20) DEF Inv, Control, Logged
<1> QED BY <1>1, <1>2, <1>3, Zenon DEF Inv, Contained, Recovering
\* Clearing the header ends the installation.
LEMMA ClearInv ==
  ASSUME Inv, clear_head
  PROVE  Inv'
<1>1. /\ stage \in {"clear", "clear_recovered"} /\ lh' = <<>> /\ header' = <<>>
      /\ stage' = IF stage = "clear" THEN "end" ELSE "none"
      /\ UNCHANGED <<procVars, outstanding, committing, tail, logdata, home, cacheVars, panicked>>
  BY Zenon DEF clear_head
<1>2. <<>> \in Seq(Blocks) /\ Len(<<>>) = 0
  OBVIOUS
<1>3. Active = {} /\ outstanding = 0 /\ ~ Recovering' /\ tail = 0
  BY <1>1, Alone, Zenon DEF Recovering, Inv, Loops
<1>4. TypeOK'
  BY <1>1, <1>2, Zenon DEF Inv, TypeOK, procVars, cacheVars
<1>5. Control'
  BY <1>1, <1>3, ControlStays, Zenon DEF CommitStages
<1>6. Loops'
  BY <1>1, <1>2, <1>3, SMTT(20) DEF Inv, Loops, Distinct
<1>7. Contained'
  BY <1>1, <1>2, <1>3, CacheIsHome, SMTT(20) DEF Contained, cacheVars
<1>8. Space'
  BY <1>1, <1>2, <1>3, SpaceStays, LogAssumption, SMTT(20)
<1> QED BY <1>4, <1>5, <1>6, <1>7, <1>8, Zenon DEF Inv

\* The end of commit lets operations in again and wakes who waits.
LEMMA EndCommitInv ==
  ASSUME Inv, NEW p \in Procs, end_commit(p)
  PROVE  Inv' /\ Active' = Active
<1>1. /\ pc[p] = "commit" /\ stage = "end" /\ committing' = FALSE /\ stage' = "none"
      /\ pc' = [q \in Procs |-> IF [pc EXCEPT ![p] = "idle"][q] = "asleep"
                                THEN "begin" ELSE [pc EXCEPT ![p] = "idle"][q]]
      /\ UNCHANGED <<holding, wrote, outstanding, lh, tail, diskVars, cacheVars, panicked>>
  BY Zenon DEF end_commit, Wakeup
<1>2. Active = {} /\ outstanding = 0 /\ ~ Recovering /\ ~ Recovering'
  BY <1>1, Alone, Zenon DEF Recovering
<1>3. TypeOK' /\ Active' = Active
  BY <1>1, <1>2, Zenon DEF Inv, TypeOK, Active, diskVars, cacheVars
<1>4. Control'
  <2>1. SleeperHasWaker' /\ \A q \in Procs : pc'[q] # "asleep"
    BY <1>1, Zenon DEF SleeperHasWaker, Inv, TypeOK
  <2>2. \A q \in Procs : pc'[q] # "commit"
    BY <1>1, Zenon DEF Inv, TypeOK, Control
  <2>3. \A q \in Procs : pc'[q] = "log_write" <=> pc[q] = "log_write"
    BY <1>1, Zenon DEF Inv, TypeOK
  <2>4. lh = <<>>
    BY <1>1, Zenon DEF Inv, Loops
  <2> QED BY <1>1, <1>2, <1>3, <2>1, <2>2, <2>3, <2>4, Zenon DEF Inv, Control, CommitStages
<1>5. Loops'
  BY <1>1, SMTT(20) DEF Inv, Loops, Distinct, diskVars
<1>6. Contained'
  <2>1. Len(lh') = 0
    BY <1>1, Zenon DEF Inv, Loops
  <2>2. \A b \in Blocks : cache[b] \in {None, home[b]}
    <3>1. \A b \in Blocks : ~ Held(b)
      BY <1>2, LogAssumption, Zenon DEF Inv, Control, Active, TypeOK, Held
    <3>2. \A b \in Blocks : ~ Logged(b)
      BY <1>1, <2>1, SMTT(20) DEF Logged
    <3> QED BY <3>1, <3>2, Zenon DEF Inv, Contained
  <2>3. \A b \in Blocks : cache'[b] \in {None, home'[b]}
    BY <1>1, <2>2, Zenon DEF diskVars, cacheVars
  <2>4. stage' = "none"
    BY <1>1, Zenon
  <2> QED BY <2>1, <2>3, <2>4, SMTT(20) DEF Contained
<1>7. Space'
  BY <1>1, <1>2, <1>3, SMTT(20) DEF Inv, Space, diskVars
<1> QED BY <1>3, <1>4, <1>5, <1>6, <1>7, Zenon DEF Inv

\* Recovery reads the header that the crash left.
LEMMA ReadHeadInv ==
  ASSUME Inv, read_head
  PROVE  Inv'
<1>1. /\ stage = "read_head" /\ lh' = header
      /\ stage' = IF header = <<>> THEN "clear_recovered" ELSE "recover"
      /\ UNCHANGED <<procVars, outstanding, committing, tail, diskVars, cacheVars, panicked>>
  BY Zenon DEF read_head
<1>2. Active = {} /\ outstanding = 0 /\ Recovering /\ Recovering' /\ tail = 0
  BY <1>1, Alone, Zenon DEF Recovering, Inv, Loops
<1>3. header # <<>> => 0 < Len(header)
  BY SeqEmpty, SeqLength, SMTT(20) DEF Inv, TypeOK
<1>4. TypeOK'
  BY <1>1, Zenon DEF Inv, TypeOK, procVars, diskVars, cacheVars
<1>5. Control'
  BY <1>1, <1>2, ControlStays, Zenon DEF CommitStages
<1>6. Loops'
  BY <1>1, <1>2, <1>3, SMTT(20) DEF Inv, Loops, Distinct, diskVars
<1>7. Contained'
  <2>1. header = <<>> => Len(header) = 0
    OBVIOUS
  <2> QED BY <1>1, <1>2, <2>1, SMTT(20) DEF Inv, Contained, diskVars, cacheVars
<1>8. Space'
  <2>1. header' = header
    BY <1>1, Zenon DEF diskVars
  <2> QED BY <1>1, <1>2, <2>1, SpaceStays, Zenon DEF Inv, Space
<1> QED BY <1>4, <1>5, <1>6, <1>7, <1>8, Zenon DEF Inv

\* A buffer that may be recycled, neither held nor dirty, has what is on disk:
\* B_DIRTY is set from log_write to the installation of the block.
LEMMA CleanIsHome ==
  ASSUME Inv, NEW b \in Blocks, b \notin dirty, ~ Held(b)
  PROVE  cache[b] \in {None, home[b]}
<1>1. SUFFICES ASSUME Logged(b), ~ Recovering
               PROVE  cache[b] \in {None, home[b]}
  BY Zenon DEF Inv, Contained
<1>2. PICK i \in 1 .. Len(lh) : lh[i] = b
  BY <1>1, Zenon DEF Logged
<1>3. stage \in {"install", "clear"}
  <2>1. lh = <<>> => Len(lh) = 0
    OBVIOUS
  <2> QED BY <1>1, <1>2, <2>1, SMTT(20) DEF Inv, TypeOK, Contained, Loops, Recovering
<1>4. home[b] = logdata[i]
  <2>1. Len(lh) \in Nat /\ tail \in Nat
    BY SeqLength, Zenon DEF Inv, TypeOK
  <2>2. CASE stage = "install"
    <3>1. i \in 1 .. tail
      BY <1>2, <2>1, <2>2, SMTT(20) DEF Inv, Contained
    <3> QED BY <1>2, <2>2, <3>1, Zenon DEF Inv, Contained
  <2>3. CASE stage = "clear"
    BY <1>2, <2>3, Zenon DEF Inv, Contained
  <2> QED BY <1>3, <2>2, <2>3, Zenon
<1> QED BY <1>2, <1>3, <1>4, Zenon DEF Inv, Contained, Contents

\* bget may recycle a clean buffer: what it held is on the disk.
LEMMA EvictInv ==
  ASSUME Inv, NEW b \in Blocks, evict(b)
  PROVE  Inv' /\ \A c \in Blocks : Contents(c)' = Contents(c)
<1>1. /\ cache' = [cache EXCEPT ![b] = None] /\ b \notin dirty /\ ~ Held(b)
      /\ UNCHANGED <<procVars, logVars, diskVars, dirty, panicked>>
  BY Zenon DEF evict
<1>2. \A c \in Blocks : Contents(c)' = Contents(c)
  BY <1>1, CleanIsHome, Zenon DEF Contents, Inv, TypeOK, diskVars
<1>3. TypeOK'
  BY <1>1, Zenon DEF Inv, TypeOK, procVars, logVars, diskVars
<1>4. Control'
  BY <1>1, Zenon DEF Inv, Control, Active, Recovering, SleeperHasWaker, procVars, logVars
<1>5. Loops'
  BY <1>1, SMTT(20) DEF Inv, Loops, Distinct, logVars, diskVars
<1>6. Contained'
  <2>1. \A i \in 1 .. Len(lh) : lh[i] \in Blocks /\ Contents(lh[i])' = Contents(lh[i])
    <3>1. \A i \in 1 .. Len(lh) : lh[i] \in Blocks
      BY SeqElement, Zenon DEF Inv, TypeOK
    <3>2. lh' = lh
      BY <1>1, Zenon DEF logVars
    <3> QED BY <1>2, <3>1, <3>2, Zenon DEF Contents
  <2>2. \A i \in 1 .. tail : stage = "write_log" => i \in 1 .. Len(lh)
    BY InLog, SMTT(20)
  <2>3. \A c \in Blocks : \/ cache'[c] \in {None, home'[c]}
                          \/ ~ Recovering' /\ (Logged(c)' \/ Held(c)')
    BY <1>1, Zenon DEF Inv, TypeOK, Contained, Logged, Held, Recovering,
                procVars, logVars, diskVars
  <2>4. UNCHANGED <<lh, stage, tail, home, logdata, dirty>>
    BY <1>1, Zenon DEF logVars, diskVars
  <2>5. /\ stage' = "write_log" => \A i \in 1 .. tail' : logdata'[i] = Contents(lh[i])'
        /\ stage' \in {"write_head", "install", "clear"} =>
             \A i \in 1 .. Len(lh') : logdata'[i] = Contents(lh[i])'
    BY <2>1, <2>2, <2>4, ZenonT(40) DEF Inv, Contained
  <2> QED BY <2>3, <2>4, <2>5, Zenon DEF Inv, Contained
<1>7. Space'
  BY <1>1, Zenon DEF Inv, Space, Logs, Logged, Active, procVars, logVars, diskVars
<1> QED BY <1>2, <1>3, <1>4, <1>5, <1>6, <1>7, Zenon DEF Inv

\* A crash leaves the disk; whatever was going on, recovery finds a header
\* that lists distinct blocks of the log.
LEMMA CrashInv ==
  ASSUME Inv, Crash
  PROVE  Inv'
<1>0. /\ pc' = [p \in Procs |-> "idle"]
      /\ holding' = [p \in Procs |-> None]
      /\ wrote' = [p \in Procs |-> {}]
      /\ cache' = [b \in Blocks |-> None]
      /\ UNCHANGED diskVars
  BY Zenon DEF Crash
<1>a. /\ outstanding' = 0 /\ committing' = FALSE /\ panicked' = FALSE
      /\ lh' = <<>> /\ tail' = 0 /\ stage' = "read_head" /\ dirty' = {}
  BY Zenon DEF Crash
<1>1. Active' = {}
  BY <1>0, Zenon DEF Active
<1>2. Cardinality({}) = 0 /\ IsFiniteSet({}) /\ Cardinality(Procs) \in Nat
  BY FS_EmptySet, FS_CardinalityType, LogAssumption, Zenon
<1>3. <<>> \in Seq(Blocks) /\ Len(<<>>) = 0 /\ 0 \in 0 .. Cardinality(Procs)
  BY <1>2, SMTT(20)
<1>4. TypeOK'
  <2>1. /\ pc' \in [Procs -> {"idle", "begin", "asleep", "in_op", "log_write", "commit"}]
        /\ holding' \in [Procs -> Blocks \cup {None}]
        /\ wrote' \in [Procs -> SUBSET Blocks]
        /\ cache' \in [Blocks -> Vals \cup {None}]
    BY <1>0, Zenon
  <2>2. header' = header /\ logdata' = logdata /\ home' = home
    BY <1>0, Zenon DEF diskVars
  <2>3. outstanding' \in 0 .. Cardinality(Procs)
    BY <1>a, <1>3, Zenon
  <2>4. lh' \in Seq(Blocks) /\ tail' \in Nat
    BY <1>a, <1>3, Zenon
  <2>5. /\ stage' \in {"none", "write_log", "write_head", "install", "clear", "end",
                     "read_head", "recover", "clear_recovered"}
        /\ committing' \in BOOLEAN /\ panicked' \in BOOLEAN /\ dirty' \subseteq Blocks
    BY <1>a, Zenon
  <2>6. header' \in Seq(Blocks) /\ logdata' \in [1 .. LogBlocks -> Vals]
        /\ home' \in [Blocks -> Vals]
    BY <2>2, Zenon DEF Inv, TypeOK
  <2> QED BY <2>1, <2>3, <2>4, <2>5, <2>6, Zenon DEF TypeOK
<1>5. Control'
  BY <1>0, <1>a, <1>1, <1>2, Zenon DEF Control, CommitStages, Recovering, SleeperHasWaker
<1>6. Loops'
  BY <1>0, <1>a, <1>3, SMTT(20) DEF Inv, Loops, Distinct, diskVars
<1>7. Contained'
  BY <1>0, <1>a, Zenon DEF Contained
<1>8. Space'
  <2>1. Len(lh') <= LogBlocks
    BY <1>a, <1>3, LogAssumption, SMTT(20)
  <2>2. Len(header') <= LogBlocks
    BY <1>0, Zenon DEF Inv, Space, diskVars
  <2>3. 0 <= OpBlocks
    BY LogAssumption, SMTT(20)
  <2>4. ASSUME NEW p \in Procs
        PROVE  /\ IsFiniteSet(wrote'[p]) /\ Cardinality(wrote'[p]) <= OpBlocks
               /\ wrote'[p] = {} /\ holding'[p] = None
    <3>1. wrote'[p] = {} /\ holding'[p] = None
      BY <1>0, <2>4, Zenon
    <3> QED BY <1>2, <2>3, <3>1, Zenon
  <2>5. ~ (outstanding' >= 2) /\ outstanding' # 1
    BY <1>a, SMTT(20)
  <2> QED BY <1>a, <2>1, <2>2, <2>4, <2>5, Zenon DEF Space
<1> QED BY <1>4, <1>5, <1>6, <1>7, <1>8, Zenon DEF Inv
-----------------------------------------------------------------------------
(* The invariants *)

\* Every step of the log, crashes included, keeps the invariant.
LEMMA StepInv ==
  ASSUME Inv, Reserved, [Next]_vars
  PROVE  Inv'
<1>1. ASSUME NEW p \in Procs, begin_op(p) PROVE Inv'
  BY <1>1, SleepInv, EnterInv, Zenon
<1>2. ASSUME NEW p \in Procs, end_op(p) PROVE Inv'
  BY <1>2, EndOpInv, LastEndOpInv, Zenon
<1>3. ASSUME NEW p \in Procs, log_write(p) \/ end_commit(p) PROVE Inv'
  BY <1>3, LogWriteInv, EndCommitInv, Zenon
<1>4. ASSUME NEW p \in Procs, NEW b \in Blocks, NEW v \in Vals, modify_and_test(p, b, v)
      PROVE  Inv'
  BY <1>4, ModifyInv, Zenon
<1>5. CASE Commit
  BY <1>5, WriteLogInv, WriteHeadInv, InstallInv, ClearInv, ReadHeadInv, Zenon DEF Commit
<1>6. ASSUME NEW b \in Blocks, evict(b) PROVE Inv'
  BY <1>6, EvictInv, Zenon
<1>7. CASE Crash
  BY <1>7, CrashInv, Zenon
<1>8. CASE UNCHANGED vars
  <2>1. UNCHANGED <<pc, holding, wrote, outstanding, committing, lh, stage, tail,
                    header, logdata, home, cache, dirty, panicked>>
    BY <1>8, Zenon DEF vars, procVars, logVars, diskVars, cacheVars
  <2>2. TypeOK'
    BY <2>1, Zenon DEF Inv, TypeOK
  <2>3. Control'
    BY <2>1, Zenon DEF Inv, Control, Active, Recovering, SleeperHasWaker
  <2>4. Loops'
    BY <2>1, SMTT(20) DEF Inv, Loops, Distinct
  <2>5. Contained'
    BY <2>1, Zenon DEF Inv, Contained, Logged, Held, Contents, Recovering
  <2>6. Space'
    <3>1. Active' = Active /\ Logs' = Logs
      BY <2>1, Zenon DEF Active, Logs, Logged
    <3> QED BY <2>1, <3>1, Zenon DEF Inv, Space
  <2> QED BY <2>2, <2>3, <2>4, <2>5, <2>6, Zenon DEF Inv
<1> QED BY <1>1, <1>2, <1>3, <1>4, <1>5, <1>6, <1>7, <1>8, Zenon DEF Next

\* The inductive invariant holds in every state, with crashes anywhere.
LEMMA Invariance ==
  ASSUME Reserved
  PROVE  Spec => []Inv
<1>1. Init => Inv
  BY InitInv, Zenon
<1>2. Inv /\ [Next]_vars => Inv'
  BY StepInv, Zenon
<1> QED BY <1>1, <1>2, PTL DEF Spec

\* With an empty header recovery changes nothing.
LEMMA NothingToRecover ==
  ASSUME Inv, header = <<>>
  PROVE  Recovered = home
<1>1. Len(header) = 0
  OBVIOUS
<1>2. \A b \in Blocks : {i \in 1 .. Len(header) : header[i] = b} = {}
  BY <1>1, SMTT(20)
<1>3. home = [b \in Blocks |-> home[b]]
  BY Zenon DEF Inv, TypeOK
<1> QED BY <1>2, <1>3, Zenon DEF Recovered

\* A commit runs alone, sleepers on the log have a waker, and after the last
\* end_op returns everything written is durable, for any number of processes,
\* blocks and contents and any size of the log.
THEOREM Consistent ==
  ASSUME Reserved
  PROVE  Spec => []LogConsistent
<1>1. Inv => LogConsistent
  <2>1. SUFFICES ASSUME Inv PROVE LogConsistent
    OBVIOUS
  <2>2. CommitExcludesOps
    BY <2>1, Zenon DEF CommitExcludesOps, Inv, Control, Active
  <2>3. DurableWhenQuiet
    <3>1. SUFFICES ASSUME stage = "none", outstanding = 0
                   PROVE  Recovered = [b \in Blocks |-> Contents(b)]
      BY Zenon DEF DurableWhenQuiet
    <3>2. Active = {} /\ header = <<>>
      BY <2>1, <3>1, ActiveCount, Zenon DEF Inv, Loops
    <3>3. \A b \in Blocks : Contents(b) = home[b]
      BY <2>1, <3>1, <3>2, CacheIsHome, Zenon DEF Contents
    <3>4. home = [b \in Blocks |-> home[b]]
      BY <2>1, Zenon DEF Inv, TypeOK
    <3> QED BY <2>1, <3>2, <3>3, <3>4, NothingToRecover, Zenon
  <2> QED BY <2>1, <2>2, <2>3, Zenon DEF LogConsistent, Inv, Control
<1> QED BY <1>1, Invariance, PTL

\* begin_op's reservation is enough: log_write never panics, although it tests
\* for space without the lock, and the header never lists more blocks than the
\* log has, for any number of processes and any size of the log in which
\* operations stay below what is reserved for them.
THEOREM ReservationSuffices ==
  ASSUME Reserved
  PROVE  Spec => []NoPanic
<1>1. Inv => NoPanic
  BY Zenon DEF Inv, Space, NoPanic
<1> QED BY <1>1, Invariance, PTL
-----------------------------------------------------------------------------
(* Refinement of AtomicDisk *)

\* What the running system reads; during recovery nobody reads.
Volatile == IF Recovering THEN Recovered ELSE [b \in Blocks |-> Contents(b)]

\* What recovery makes of a header, the log's data blocks and the home blocks.
RecoverFrom(h, d, m) ==
  [b \in Blocks |->
     LET at == {i \in 1 .. Len(h) : h[i] = b} IN
     IF at = {} THEN m[b] ELSE d[CHOOSE i \in at : \A j \in at : j <= i]]

\* A block that a header h lists, at i, is recovered from log block i, and
\* every other block from its home.
LEMMA RecoveredFrom ==
  ASSUME NEW h \in Seq(Blocks), Distinct(h), NEW d, NEW m
  PROVE  /\ \A i \in 1 .. Len(h) : h[i] \in Blocks /\ RecoverFrom(h, d, m)[h[i]] = d[i]
         /\ \A b \in Blocks : (\A i \in 1 .. Len(h) : h[i] # b) =>
                              RecoverFrom(h, d, m)[b] = m[b]
<1> DEFINE R == RecoverFrom(h, d, m)
<1>1. ASSUME NEW i \in 1 .. Len(h)
      PROVE  h[i] \in Blocks /\ R[h[i]] = d[i]
  <2>1. h[i] \in Blocks /\ Len(h) \in Nat
    BY SeqElement, SeqLength, Zenon
  <2> DEFINE at == {j \in 1 .. Len(h) : h[j] = h[i]}
  <2>2. at = {i}
    BY Zenon DEF Distinct
  <2>3. R[h[i]] = IF at = {} THEN m[h[i]] ELSE d[CHOOSE k \in at : \A j \in at : j <= k]
    BY <2>1, Zenon DEF RecoverFrom
  <2> HIDE DEF at
  <2>4. (CHOOSE k \in at : \A j \in at : j <= k) = i
    BY <2>1, <2>2, SMTT(20)
  <2> QED BY <2>1, <2>2, <2>3, <2>4, Zenon
<1>2. ASSUME NEW b \in Blocks, \A i \in 1 .. Len(h) : h[i] # b
      PROVE  R[b] = m[b]
  <2>1. {j \in 1 .. Len(h) : h[j] = b} = {}
    BY <1>2, Zenon
  <2> QED BY <2>1, Zenon DEF RecoverFrom
<1> QED BY <1>1, <1>2, Zenon

\* The same, of the header on disk before and after a step.
LEMMA RecoveredAt ==
  ASSUME Inv
  PROVE  /\ \A i \in 1 .. Len(header) : header[i] \in Blocks
                                        /\ Recovered[header[i]] = logdata[i]
         /\ \A b \in Blocks : (\A i \in 1 .. Len(header) : header[i] # b) =>
                              Recovered[b] = home[b]
<1>1. header \in Seq(Blocks)
  BY Zenon DEF Inv, TypeOK
<1>2. Recovered = RecoverFrom(header, logdata, home)
  BY Zenon DEF Recovered, RecoverFrom
<1>3. Distinct(header)
  BY Zenon DEF Inv, Loops
<1> QED BY <1>1, <1>2, <1>3, RecoveredFrom, SMTT(20)

\* What recovery would leave on the disk, after a step.
LEMMA RecoveredAtNext ==
  ASSUME Inv'
  PROVE  /\ \A i \in 1 .. Len(header') : header'[i] \in Blocks
                                         /\ Recovered'[header'[i]] = logdata'[i]
         /\ \A b \in Blocks : (\A i \in 1 .. Len(header') : header'[i] # b) =>
                              Recovered'[b] = home'[b]
<1>1. header' \in Seq(Blocks) /\ Distinct(header)'
  BY Zenon DEF Inv, TypeOK, Loops
<1>2. Recovered' = RecoverFrom(header', logdata', home')
  BY Zenon DEF Recovered, RecoverFrom
<1>3. Distinct(header')
  BY <1>1, Zenon DEF Distinct
<1> QED BY <1>1, <1>2, <1>3, RecoveredFrom, SMTT(20)

\* Both images are functions of the disk, the cache and the phase.
LEMMA RecoveredSame ==
  ASSUME UNCHANGED <<header, logdata, home>>
  PROVE  Recovered' = Recovered
  BY SMTT(20) DEF Recovered

LEMMA VolatileSame ==
  ASSUME UNCHANGED <<header, logdata, home, cache>>, Recovering' <=> Recovering
  PROVE  Volatile' = Volatile
<1>1. Recovered' = Recovered
  BY RecoveredSame, Zenon
<1>2. [b \in Blocks |-> Contents(b)]' = [b \in Blocks |-> Contents(b)]
  BY Zenon DEF Contents
<1> QED BY <1>1, <1>2, Zenon DEF Volatile

\* begin_op and end_op move a process in and out of the set of operations.
LEMMA RefinesBeginEnd ==
  ASSUME Inv, NEW p \in Procs, begin_op(p) \/ end_op(p)
  PROVE  /\ UNCHANGED <<Recovered, Volatile>>
         /\ \/ p \notin Active /\ Active' = Active \cup {p}
            \/ p \in Active /\ Active' = Active \ {p}
            \/ Active' = Active
<1>1. UNCHANGED <<header, logdata, home, cache>> /\ (Recovering' <=> Recovering)
  <2>1. CASE begin_op(p)
    BY <2>1, Zenon DEF begin_op, Recovering, diskVars, cacheVars
  <2>2. CASE end_op(p)
    <3>1. stage = "none" /\ stage' \in {"none", "end", "write_log"}
      BY <2>2, EndOp, Zenon DEF end_op, FirstStage
    <3> QED BY <2>2, <3>1, Zenon DEF end_op, Recovering, diskVars, cacheVars
  <2> QED BY <2>1, <2>2, Zenon
<1>2. UNCHANGED <<Recovered, Volatile>>
  BY <1>1, RecoveredSame, VolatileSame, Zenon
<1>3. CASE begin_op(p)
  BY <1>2, <1>3, Zenon DEF begin_op, Active, Inv, TypeOK
<1>4. CASE end_op(p)
  BY <1>2, <1>4, EndOp, Zenon
<1> QED BY <1>3, <1>4, Zenon

\* A process changes a block of the volatile image only; logging it changes
\* nothing a reader can see.
LEMMA RefinesWrite ==
  ASSUME Inv, Reserved, NEW p \in Procs, NEW b \in Blocks, NEW v \in Vals,
         modify_and_test(p, b, v)
  PROVE  /\ p \in Active /\ UNCHANGED <<Recovered, Active>>
         /\ Volatile' = [Volatile EXCEPT ![b] = v]
<1>1. /\ cache' = [cache EXCEPT ![b] = v] /\ UNCHANGED <<logVars, diskVars>>
      /\ pc[p] = "in_op" /\ p \in Active /\ pc' = [pc EXCEPT ![p] = "log_write"]
  BY ModifyInv, Zenon DEF modify_and_test, Active
<1>2. ~ Recovering /\ ~ Recovering' /\ v # None
  BY <1>1, LogAssumption, Zenon DEF Inv, Control, Recovering, logVars
<1>3. UNCHANGED <<Recovered, Active>>
  BY <1>1, SMTT(20) DEF Recovered, Active, Inv, TypeOK, diskVars
<1>4. \A c \in Blocks : Contents(c)' = IF c = b THEN v ELSE Contents(c)
  BY <1>1, <1>2, Zenon DEF Contents, Inv, TypeOK, diskVars
<1>5. Volatile' = [Volatile EXCEPT ![b] = v]
  BY <1>2, <1>4, Zenon DEF Volatile
<1> QED BY <1>1, <1>3, <1>5, Zenon

\* Naming a block in the header in memory, and ending a commit, are no steps
\* of the atomic disk.
LEMMA RefinesLogWrite ==
  ASSUME Inv, NEW p \in Procs, log_write(p) \/ end_commit(p)
  PROVE  UNCHANGED <<Recovered, Volatile, Active>>
<1>1. UNCHANGED <<header, logdata, home, cache>>
  BY Zenon DEF log_write, end_commit, diskVars, cacheVars
<1>2. Recovering' <=> Recovering
  BY Zenon DEF log_write, end_commit, Recovering
<1>3. Active' = Active
  <2>1. CASE log_write(p)
    BY <2>1, Zenon DEF log_write, Active, Inv, TypeOK
  <2> QED BY <2>1, EndCommitInv, Zenon
<1> QED BY <1>1, <1>2, <1>3, SMTT(20) DEF Recovered, Volatile, Contents

\* write_head is the commit point: the header makes durable, at once, what
\* readers see.
LEMMA RefinesCommit ==
  ASSUME Inv, Inv', write_head
  PROVE  /\ Active = {} /\ Recovered' = Volatile
         /\ UNCHANGED <<Volatile, Active>>
<1>1. /\ stage = "write_head" /\ header' = lh /\ stage' = "install"
      /\ UNCHANGED <<procVars, lh, logdata, home, cacheVars>>
  BY Zenon DEF write_head
<1>2. /\ Active = {} /\ Active' = Active /\ ~ Recovering /\ ~ Recovering'
      /\ \A b \in Blocks : ~ Held(b)
  BY <1>1, Alone, Zenon DEF Recovering, Active, procVars
<1>3. UNCHANGED Volatile
  BY <1>1, <1>2, Zenon DEF Volatile, Contents, cacheVars
<1>4. ASSUME NEW b \in Blocks PROVE Recovered'[b] = Contents(b)
  <2>1. CASE Logged(b)
    <3>1. PICK i \in 1 .. Len(lh) : lh[i] = b
      BY <2>1, Zenon DEF Logged
    <3>2. logdata[i] = Contents(lh[i])
      BY <1>1, Zenon DEF Inv, Contained
    <3>3. \A j \in 1 .. Len(header') : Recovered'[header'[j]] = logdata'[j]
      BY RecoveredAtNext, Zenon
    <3> QED BY <1>1, <3>1, <3>2, <3>3, Zenon
  <2>2. CASE ~ Logged(b)
    <3>1. \A i \in 1 .. Len(header') : header'[i] # b
      BY <1>1, <2>2, Zenon DEF Logged
    <3>2. Recovered'[b] = home'[b]
      BY <3>1, RecoveredAtNext, Zenon
    <3>3. cache[b] \in {None, home[b]}
      BY <1>2, <2>2, Zenon DEF Inv, Contained
    <3> QED BY <1>1, <3>2, <3>3, Zenon DEF Contents
  <2> QED BY <2>1, <2>2, Zenon
<1>5. Recovered' = [b \in Blocks |-> Recovered'[b]]
  BY SMTT(20) DEF Recovered
<1> QED BY <1>2, <1>3, <1>4, <1>5, Zenon DEF Volatile
\* Before the commit point, the log's data blocks are not part of the disk.
LEMMA RefinesWriteLog ==
  ASSUME Inv, Inv', write_log
  PROVE  UNCHANGED <<Recovered, Volatile, Active>>
<1>1. /\ stage = "write_log" /\ stage' \in {"write_log", "write_head"}
      /\ UNCHANGED <<procVars, header, home, cacheVars>>
  BY AdvanceStep, Zenon DEF write_log
<1>2. header = <<>> /\ header' = <<>> /\ ~ Recovering /\ ~ Recovering'
  BY <1>1, Zenon DEF Inv, Loops, Recovering
<1>3. Recovered' = Recovered
  BY <1>1, <1>2, SMTT(20) DEF Recovered
<1>4. Volatile' = Volatile /\ Active' = Active
  BY <1>1, <1>2, Zenon DEF Volatile, Contents, Active, procVars, cacheVars
<1> QED BY <1>3, <1>4, Zenon

\* Installing a block, in commit or recovery, changes neither image.
LEMMA RefinesInstall ==
  ASSUME Inv, Inv', install_trans
  PROVE  UNCHANGED <<Recovered, Volatile, Active>>
<1>1. stage \in {"install", "recover"} /\ header = lh
  BY Zenon DEF install_trans, Inv, Loops
<1>2. /\ tail + 1 \in 1 .. Len(lh) /\ lh[tail + 1] \in Blocks
      /\ tail + 1 \in 1 .. LogBlocks
  BY <1>1, InLog, Zenon
<1>3. PICK b \in Blocks : b = lh[tail + 1]
  BY <1>2, Zenon
<1>4. PICK v \in Vals : v = logdata[tail + 1]
  BY <1>2, Zenon DEF Inv, TypeOK
<1>5. /\ home' = [home EXCEPT ![b] = v] /\ cache' = [cache EXCEPT ![b] = v]
      /\ UNCHANGED <<procVars, header, logdata>>
      /\ stage' \in IF stage = "install" THEN {"install", "clear"}
                                         ELSE {"recover", "clear_recovered"}
  BY <1>1, <1>3, <1>4, AdvanceStep, Zenon DEF install_trans
<1>6. (Recovering' <=> Recovering) /\ (Recovering <=> stage = "recover") /\ v # None
  BY <1>1, <1>5, LogAssumption, Zenon DEF Recovering
<1>7. Recovered' = Recovered
  <2>1. Recovered = [c \in Blocks |-> Recovered[c]] /\ Recovered' = [c \in Blocks |-> Recovered'[c]]
    BY SMTT(20) DEF Recovered
  <2>2. ASSUME NEW c \in Blocks PROVE Recovered'[c] = Recovered[c]
    <3>1. CASE \E i \in 1 .. Len(header) : header[i] = c
      BY <1>5, <3>1, RecoveredAt, RecoveredAtNext, SMTT(20)
    <3>2. CASE \A i \in 1 .. Len(header) : header[i] # c
      <4>1. Recovered[c] = home[c] /\ Recovered'[c] = home'[c]
        BY <1>5, <3>2, RecoveredAt, RecoveredAtNext, Zenon
      <4>2. c # b
        BY <1>1, <1>2, <1>3, <3>2, Zenon
      <4> QED BY <1>5, <4>1, <4>2, Zenon DEF Inv, TypeOK
    <3> QED BY <3>1, <3>2, Zenon
  <2> QED BY <2>1, <2>2, Zenon
<1>8. Volatile' = Volatile
  <2>1. CASE stage = "recover"
    BY <1>6, <1>7, <2>1, Zenon DEF Volatile
  <2>2. CASE stage = "install"
    <3>1. v = Contents(b)
      BY <1>2, <1>3, <1>4, <2>2, Zenon DEF Inv, Contained
    <3>2. \A c \in Blocks : Contents(c)' = Contents(c)
      BY <1>5, <1>6, <3>1, Zenon DEF Contents, Inv, TypeOK
    <3> QED BY <1>6, <2>2, <3>2, Zenon DEF Volatile
  <2> QED BY <1>1, <2>1, <2>2, Zenon
<1>9. Active' = Active
  BY <1>5, Zenon DEF Active, procVars
<1> QED BY <1>7, <1>8, <1>9, Zenon

\* Emptying the header changes neither image: every block is home.
LEMMA RefinesClear ==
  ASSUME Inv, Inv', clear_head
  PROVE  UNCHANGED <<Recovered, Volatile, Active>>
<1>1. /\ stage \in {"clear", "clear_recovered"} /\ header' = <<>> /\ header = lh
      /\ stage' \in {"end", "none"}
      /\ UNCHANGED <<procVars, home, cacheVars>>
  BY Zenon DEF clear_head, Inv, Loops
<1>2. Recovered = home
  <2>1. \A b \in Blocks : Recovered[b] = home[b]
    <3>1. \A i \in 1 .. Len(lh) : home[lh[i]] = logdata[i]
      BY <1>1, Zenon DEF Inv, Contained
    <3> QED BY <1>1, <3>1, RecoveredAt, SMTT(20)
  <2>2. Recovered = [b \in Blocks |-> Recovered[b]] /\ home = [b \in Blocks |-> home[b]]
    BY SMTT(20) DEF Recovered, Inv, TypeOK
  <2> QED BY <2>1, <2>2, Zenon
<1>3. Recovered' = home'
  <2>1. \A i \in 1 .. Len(header') : FALSE
    BY <1>1, SMTT(20)
  <2>2. Recovered' = [b \in Blocks |-> Recovered'[b]] /\ home' = [b \in Blocks |-> home'[b]]
    BY SMTT(20) DEF Recovered, Inv, TypeOK
  <2> QED BY <2>1, <2>2, RecoveredAtNext, Zenon
<1>4. \A b \in Blocks : Contents(b) = home[b] /\ Contents(b)' = home[b]
  BY <1>1, CacheIsHome, Zenon DEF Contents, cacheVars
<1>5. home = [b \in Blocks |-> home[b]] /\ ~ Recovering'
  BY <1>1, Zenon DEF Inv, TypeOK, Recovering
<1>6. Volatile' = home /\ Volatile = home
  BY <1>2, <1>4, <1>5, Zenon DEF Volatile
<1> QED BY <1>1, <1>2, <1>3, <1>6, Zenon DEF Active, procVars

\* Reading the header, and recycling a clean buffer, change neither image.
LEMMA RefinesReadEvict ==
  ASSUME Inv, read_head \/ \E b \in Blocks : evict(b)
  PROVE  UNCHANGED <<Recovered, Volatile, Active>>
<1>1. UNCHANGED <<header, logdata, home, pc>> /\ (Recovering' <=> Recovering)
  BY Zenon DEF read_head, evict, procVars, logVars, diskVars, Recovering
<1>2. Recovered' = Recovered /\ Active' = Active
  BY <1>1, RecoveredSame, Zenon DEF Active
<1>3. CASE read_head
  BY <1>1, <1>2, <1>3, Zenon DEF Volatile, read_head, Recovering
<1>4. CASE \E b \in Blocks : evict(b)
  <2>1. \A c \in Blocks : Contents(c)' = Contents(c)
    BY <1>4, EvictInv, Zenon
  <2> QED BY <1>1, <1>2, <2>1, Zenon DEF Volatile
<1> QED BY <1>3, <1>4, Zenon

\* A crash, at any point, falls back to what was durable.
LEMMA RefinesCrash ==
  ASSUME Inv, Crash
  PROVE  UNCHANGED Recovered /\ Volatile' = Recovered /\ Active' = {}
<1>1. UNCHANGED Recovered
  BY SMTT(20) DEF Crash, diskVars, Recovered
<1> QED BY <1>1, Zenon DEF Crash, Volatile, Recovering, Active

\* The log implements an atomic disk: every transaction becomes durable whole,
\* at the write of the header, while nobody is in an operation, and a crash
\* anywhere, in recovery too, falls back to the last one; for any number of
\* processes, blocks and contents and any size of the log.
THEOREM LogImplementsAtomicDisk ==
  ASSUME Reserved
  PROVE  Spec => AtomicDiskSpec
<1> USE DEF Disk!Begin, Disk!End, Disk!Write, Disk!Commit, Disk!Crash
<1>1. Init => Disk!Init
  <2>1. SUFFICES ASSUME Init PROVE Disk!Init
    OBVIOUS
  <2>2. Inv /\ header = <<>> /\ Recovering /\ Active = {} /\ home \in [Blocks -> Vals]
    BY <2>1, InitInv, Zenon DEF Init, Recovering, Active
  <2>3. Recovered \in [Blocks -> Vals]
    BY <2>2, NothingToRecover, Zenon
  <2> QED BY <2>2, <2>3, Zenon DEF Disk!Init, Active
<1>2. Inv /\ Inv' /\ [Next]_vars => [Disk!Next]_(Disk!vars)
  <2> SUFFICES ASSUME Inv, Inv', [Next]_vars
               PROVE  Disk!Next \/ UNCHANGED <<Recovered, Volatile, Active>>
    BY Zenon DEF Disk!vars, Volatile, Active
  <2>1. ASSUME NEW p \in Procs, begin_op(p) \/ end_op(p)
        PROVE  Disk!Next \/ UNCHANGED <<Recovered, Volatile, Active>>
    BY <2>1, RefinesBeginEnd, ZenonT(40) DEF Disk!Next, Volatile, Active
  <2>2. ASSUME NEW p \in Procs, NEW b \in Blocks, NEW v \in Vals, modify_and_test(p, b, v)
        PROVE  Disk!Next
    <3>1. /\ p \in Active /\ UNCHANGED <<Recovered, Active>>
          /\ Volatile' = [Volatile EXCEPT ![b] = v]
      BY <2>2, RefinesWrite, Zenon
    <3>2. Disk!Write(p, b, v)
      BY <3>1, Zenon DEF Volatile, Active
    <3> QED BY <3>2, Zenon DEF Disk!Next
  <2>3. CASE write_head
    BY <2>3, RefinesCommit, ZenonT(40) DEF Disk!Next, Volatile, Active
  <2>4. CASE Crash
    BY <2>4, RefinesCrash, Zenon DEF Disk!Next, Volatile, Active
  <2>5. CASE Commit
    BY <2>3, <2>5, RefinesWriteLog, RefinesInstall, RefinesClear, RefinesReadEvict, Zenon
       DEF Commit
  <2>6. ASSUME NEW p \in Procs, log_write(p) \/ end_commit(p)
        PROVE  UNCHANGED <<Recovered, Volatile, Active>>
    BY <2>6, RefinesLogWrite, Zenon
  <2>7. ASSUME NEW b \in Blocks, evict(b)
        PROVE  UNCHANGED <<Recovered, Volatile, Active>>
    BY <2>7, RefinesReadEvict, Zenon
  <2>8. CASE UNCHANGED vars
    <3>1. UNCHANGED <<pc, stage, header, logdata, home, cache>>
      BY <2>8, Zenon DEF vars, procVars, logVars, diskVars, cacheVars
    <3> QED BY <3>1, RecoveredSame, VolatileSame, Zenon DEF Recovering, Active
  <2> QED BY <2>1, <2>2, <2>4, <2>5, <2>6, <2>7, <2>8, Zenon DEF Next
<1> QED BY <1>1, <1>2, Invariance, PTL DEF Spec, AtomicDiskSpec, Disk!Spec
=============================================================================
