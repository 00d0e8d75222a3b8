-------------------------------- MODULE Shell --------------------------------
(***************************************************************************)
(* The shell, sh.c, and init.c, which restarts it: the parser, and the     *)
(* processes that run a command line.                                      *)
(*                                                                         *)
(* A line is the sequence of its tokens: the symbols "<" ">" "+" "|" "&"   *)
(* ";" "(" ")", where "+" is ">>", and words.  A process in runcmd has a   *)
(* list of system calls to make (todo) and the command to run after them;  *)
(* each call is a step.  The kernel's side of the calls is what sh.c and   *)
(* init.c see of it: fork, pipe, open and exec may fail at any time, for   *)
(* want of a slot, a file or memory.  The programs the shell starts are    *)
(* filters: they read their input to its end.                              *)
(***************************************************************************)
EXTENDS Naturals, Sequences, FiniteSets, FiniteSetsExt, SequencesExt

CONSTANTS
  NPROC, NOFILE,
  MAXARGS,     \* bound on argv, its last 0 included
  Words,       \* the words that may be typed as the n-th token of a line
  MaxLine,     \* bound: tokens of a line ...
  LongLines,   \* ... but for these,
  BusyLines    \* and for those typed while a program runs in the background

Symbols == {"<", ">", "+", "|", "&", ";", "(", ")"}
Procs == 1 .. NPROC
Fds == 0 .. NOFILE - 1

ASSUME ShellAssumption ==
  /\ NPROC \in Nat /\ NPROC >= 2
  /\ NOFILE \in Nat /\ NOFILE >= 5
  /\ MAXARGS \in Nat \ {0}
  /\ MaxLine \in Nat
  /\ MaxLine <= Len(Words) /\ \A l \in LongLines \cup BusyLines : Len(l) <= Len(Words)

-----------------------------------------------------------------------------
(* The parser.  A result has the tokens that are left. *)

Null == [type |-> "0"]
execcmd(argv) == [type |-> "EXEC", argv |-> argv]
redircmd(cmd, file, mode, fd) ==
  [type |-> "REDIR", cmd |-> cmd, file |-> file, mode |-> mode, fd |-> fd]
pipecmd(left, right) == [type |-> "PIPE", left |-> left, right |-> right]
listcmd(left, right) == [type |-> "LIST", left |-> left, right |-> right]
backcmd(cmd) == [type |-> "BACK", cmd |-> cmd]

\* A line that is not parsed yet.
Line(s) == [type |-> "line", line |-> s]

Parsed(cmd, s) == [ok |-> TRUE, cmd |-> cmd, rest |-> s]
SyntaxError == [ok |-> FALSE, cmd |-> Null, rest |-> <<>>]

peek(s, toks) == s # <<>> /\ Head(s) \in toks

IsWord(t) == t \notin Symbols

\* cmd with one redirection around it; ">>" opens its file as ">" does.
Redirect(cmd, t, file) ==
  IF t = "<" THEN redircmd(cmd, file, "O_RDONLY", 0)
  ELSE redircmd(cmd, file, "O_WRONLY|O_CREATE", 1)

RECURSIVE parseredirs(_, _)
parseredirs(cmd, s) ==
  IF ~ peek(s, {"<", ">", "+"}) THEN Parsed(cmd, s)
  ELSE IF Len(s) = 1 \/ ~ IsWord(s[2]) THEN SyntaxError
  ELSE parseredirs(Redirect(cmd, s[1], s[2]), SubSeq(s, 3, Len(s)))

\* The struct execcmd is filled in under the redirections already around it.
RECURSIVE AddArg(_, _)
AddArg(cmd, w) ==
  IF cmd.type = "EXEC" THEN execcmd(Append(cmd.argv, w))
  ELSE [cmd EXCEPT !.cmd = AddArg(cmd.cmd, w)]

\* The loop of parseexec, after argc arguments.
RECURSIVE parseargs(_, _, _)
parseargs(cmd, argc, s) ==
  IF s = <<>> \/ peek(s, {"|", ")", "&", ";"}) THEN Parsed(cmd, s)
  ELSE IF ~ IsWord(Head(s)) \/ argc + 1 >= MAXARGS THEN SyntaxError
  ELSE LET r == parseredirs(AddArg(cmd, Head(s)), Tail(s)) IN
       IF r.ok THEN parseargs(r.cmd, argc + 1, r.rest) ELSE r

\* Faulty variant: one "&" at most.
OneBack(r) == IF peek(r.rest, {"&"}) THEN Parsed(backcmd(r.cmd), Tail(r.rest)) ELSE r

RECURSIVE Backs(_)
Backs(r) ==
  IF peek(r.rest, {"&"}) THEN Backs(Parsed(backcmd(r.cmd), Tail(r.rest))) ELSE r

RECURSIVE parseline(_), parsepipe(_), parseexec(_), parseblock(_)
parseline(s) ==
  LET l == Backs(parsepipe(s))
      r == parseline(Tail(l.rest))
  IN  IF ~ l.ok \/ ~ peek(l.rest, {";"}) THEN l
      ELSE IF r.ok THEN Parsed(listcmd(l.cmd, r.cmd), r.rest) ELSE r

parsepipe(s) ==
  LET l == parseexec(s)
      r == parsepipe(Tail(l.rest))
  IN  IF ~ l.ok \/ ~ peek(l.rest, {"|"}) THEN l
      ELSE IF r.ok THEN Parsed(pipecmd(l.cmd, r.cmd), r.rest) ELSE r

parseblock(s) ==
  LET l == parseline(Tail(s)) IN
  IF ~ l.ok \/ ~ peek(l.rest, {")"}) THEN SyntaxError
  ELSE parseredirs(l.cmd, Tail(l.rest))

parseexec(s) ==
  LET r == parseredirs(execcmd(<<>>), s) IN
  IF peek(s, {"("}) THEN parseblock(s)
  ELSE IF r.ok THEN parseargs(r.cmd, 0, r.rest) ELSE r

parsecmd(s) ==
  LET r == parseline(s) IN
  IF r.rest # <<>> THEN SyntaxError ELSE r

\* A line with what its child will make of it.
WithParse(s) == [type |-> "line", line |-> s, parsed |-> parsecmd(s)]

-----------------------------------------------------------------------------
(* Processes.  Process 1 is init. *)

VARIABLES
  proc,     \* the process in each slot of the process table
  sh,       \* init's pid: the shell it waits for, 0 for none
  panicked  \* init has exited

vars == <<proc, sh, panicked>>

None == <<"none", 0>>
Console == <<"console", 0>>
File(mode, name) == <<mode, name>>
ReadEnd(k) == <<"read", k>>
WriteEnd(k) == <<"write", k>>

Stdio == [fd \in Fds |-> IF fd <= 2 THEN Console ELSE None]

\* loose and want are for the properties: nobody waits for the process; what
\* its command is to have as standard input and output.
Unused ==
  [st |-> "unused", parent |-> 0, todo |-> <<>>, cmd |-> Null, fds |-> [fd \in Fds |-> None],
   loose |-> FALSE, want |-> <<None, None>>]

Init ==
  /\ proc = [i \in Procs |-> IF i = 1 THEN [Unused EXCEPT !.st = "init", !.fds = Stdio] ELSE Unused]
  /\ sh = 0
  /\ panicked = FALSE

Alive == {i \in Procs : proc[i].st # "unused"}
Free == Procs \ Alive
Children(i) == {j \in Alive : proc[j].parent = i}
Holds(i, f) == \E fd \in Fds : proc[i].fds[fd] = f
IsOpen(f) == \E i \in Procs : Holds(i, f)

-----------------------------------------------------------------------------
(* System calls, as far as sh.c and init.c can tell *)

\* The table after process i has exited; its children go to init.
Exited(i) ==
  [j \in Procs |->
     IF j = i THEN [Unused EXCEPT !.st = "zombie", !.parent = proc[i].parent, !.loose = proc[i].loose]
     ELSE IF proc[j].parent = i
     THEN [proc[j] EXCEPT !.parent = 1, !.loose = @ \/ proc[i].loose]
     ELSE proc[j]]

Exit(i) == proc' = Exited(i) /\ UNCHANGED <<sh, panicked>>

FirstFree(fds) == Min({fd \in Fds : fds[fd] = None})

Call(i, op) ==
  /\ ~ panicked
  /\ proc[i].st \in {"sh", "run"} /\ proc[i].todo # <<>>
  /\ Head(proc[i].todo).op = op

Done(i) == [proc[i] EXCEPT !.todo = Tail(@)]

close(i) ==
  /\ Call(i, "close")
  /\ proc' = [proc EXCEPT ![i] = [Done(i) EXCEPT !.fds[Head(proc[i].todo).fd] = None]]
  /\ UNCHANGED <<sh, panicked>>

dup(i) ==
  LET fds == proc[i].fds IN
  /\ Call(i, "dup")
  /\ proc' = [proc EXCEPT ![i] = [Done(i) EXCEPT !.fds[FirstFree(fds)] = fds[Head(proc[i].todo).fd]]]
  /\ UNCHANGED <<sh, panicked>>

\* open for a redirection; when it fails, the process exits.
open(i) ==
  LET e == Head(proc[i].todo) IN
  /\ Call(i, "open")
  /\ \/ /\ proc' = [proc EXCEPT ![i] =
                      [Done(i) EXCEPT !.fds[FirstFree(proc[i].fds)] = File(e.mode, e.file)]]
        /\ UNCHANGED <<sh, panicked>>
     \/ Exit(i)

\* fork1: the child starts with the calls and the command the entry names;
\* when fork fails, for want of a slot or of memory, the process exits and
\* nobody waits for its children.
fork1(i) ==
  LET e == Head(proc[i].todo)
      child == [st |-> "run", parent |-> i, todo |-> e.todo, cmd |-> e.cmd, fds |-> proc[i].fds,
                loose |-> proc[i].loose \/ e.loose, want |-> e.want]
  IN
  /\ Call(i, "fork")
  /\ \/ /\ Free # {}
        /\ proc' = [proc EXCEPT ![i] = Done(i), ![Min(Free)] = child]
     \/ proc' = [j \in Procs |-> [Exited(i)[j] EXCEPT !.loose = @ \/ proc[j].parent = i]]
  /\ UNCHANGED <<sh, panicked>>

\* wait: any child that has exited.
wait(i) ==
  /\ Call(i, "wait")
  /\ IF Children(i) = {} THEN proc' = [proc EXCEPT ![i] = Done(i)]
     ELSE \E z \in Children(i) :
            /\ proc[z].st = "zombie"
            /\ proc' = [proc EXCEPT ![i] = Done(i), ![z] = Unused]
  /\ UNCHANGED <<sh, panicked>>

-----------------------------------------------------------------------------
(* runcmd *)

Close(fd) == [op |-> "close", fd |-> fd]
Dup(fd) == [op |-> "dup", fd |-> fd]
Open(file, mode) == [op |-> "open", file |-> file, mode |-> mode]
Wait == [op |-> "wait"]
Fork(todo, cmd, loose, want) ==
  [op |-> "fork", todo |-> todo, cmd |-> cmd, loose |-> loose, want |-> want]

Runs(i, type) ==
  /\ ~ panicked
  /\ proc[i].st = "run" /\ proc[i].todo = <<>> /\ proc[i].cmd.type = type

Then(i, todo, cmd) == [proc[i] EXCEPT !.todo = todo, !.cmd = cmd]

\* parsecmd, in the child; a syntax error ends it.
run_line(i) ==
  LET r == proc[i].cmd.parsed IN
  /\ Runs(i, "line")
  /\ \/ r.ok /\ proc' = [proc EXCEPT ![i].cmd = r.cmd] /\ UNCHANGED <<sh, panicked>>
     \/ ~ r.ok /\ Exit(i)

\* The end of runcmd.
run_null(i) == Runs(i, "0") /\ Exit(i)

\* exec, which may fail; without arguments there is nothing to execute.
run_exec(i) ==
  /\ Runs(i, "EXEC")
  /\ \/ /\ proc[i].cmd.argv # <<>>
        /\ proc' = [proc EXCEPT ![i] = [Then(i, <<>>, Null) EXCEPT !.st = "program"]]
        /\ UNCHANGED <<sh, panicked>>
     \/ Exit(i)

run_redir(i) ==
  LET c == proc[i].cmd IN
  /\ Runs(i, "REDIR")
  /\ proc' = [proc EXCEPT ![i] = [Then(i, <<Close(c.fd), Open(c.file, c.mode)>>, c.cmd)
                                    EXCEPT !.want[c.fd + 1] = File(c.mode, c.file)]]
  /\ UNCHANGED <<sh, panicked>>

\* Faulty variant: does not wait for the left command.
run_listNoWait(i) ==
  LET c == proc[i].cmd IN
  /\ Runs(i, "LIST")
  /\ proc' = [proc EXCEPT ![i] = Then(i, <<Fork(<<>>, c.left, FALSE, proc[i].want)>>, c.right)]
  /\ UNCHANGED <<sh, panicked>>

run_list(i) ==
  LET c == proc[i].cmd IN
  /\ Runs(i, "LIST")
  /\ proc' = [proc EXCEPT ![i] = Then(i, <<Fork(<<>>, c.left, FALSE, proc[i].want), Wait>>, c.right)]
  /\ UNCHANGED <<sh, panicked>>

\* What the two children and their parent do with the pipe p.
LeftCalls(p) == <<Close(1), Dup(p[2]), Close(p[1]), Close(p[2])>>

\* Faulty variant: keeps the end it writes to.
RightCallsKeep(p) == <<Close(0), Dup(p[1]), Close(p[1])>>

RightCalls(p) == <<Close(0), Dup(p[1]), Close(p[1]), Close(p[2])>>

\* Faulty variant: keeps the end for writing.
ParentCallsKeep(p) == <<Close(p[1]), Wait, Wait>>

ParentCalls(p) == <<Close(p[1]), Close(p[2]), Wait, Wait>>

\* pipe may fail, and does without two free descriptors, which ends the command.
run_pipe(i) ==
  LET c == proc[i].cmd
      fds == proc[i].fds
      a == FirstFree(fds)
      b == FirstFree([fds EXCEPT ![a] = Console])
      k == Min({n \in Procs : ~ IsOpen(ReadEnd(n)) /\ ~ IsOpen(WriteEnd(n))})
      w == proc[i].want
      todo == <<Fork(LeftCalls(<<a, b>>), c.left, FALSE, <<w[1], WriteEnd(k)>>),
                Fork(RightCalls(<<a, b>>), c.right, FALSE, <<ReadEnd(k), w[2]>>)>>
              \o ParentCalls(<<a, b>>)
  IN
  /\ Runs(i, "PIPE")
  /\ \/ /\ Cardinality({fd \in Fds : fds[fd] = None}) >= 2
        /\ proc' = [proc EXCEPT ![i] = [Then(i, todo, Null)
                      EXCEPT !.fds = [fds EXCEPT ![a] = ReadEnd(k), ![b] = WriteEnd(k)]]]
        /\ UNCHANGED <<sh, panicked>>
     \/ Exit(i)

run_back(i) ==
  /\ Runs(i, "BACK")
  /\ proc' = [proc EXCEPT ![i] =
               Then(i, <<Fork(<<>>, proc[i].cmd.cmd, TRUE, proc[i].want)>>, Null)]
  /\ UNCHANGED <<sh, panicked>>

-----------------------------------------------------------------------------
(* main of sh.c, the programs, and main of init.c *)

AtPrompt(i) == proc[i].st = "sh" /\ proc[i].todo = <<>> /\ ~ panicked

\* Whether a line may begin with these tokens.
Typed(i, line) ==
  \/ Alive = {1, i} /\ (Len(line) <= MaxLine \/ \E l \in LongLines : IsPrefix(line, l))
  \/ /\ \E j \in Alive : Alive = {1, i, j} /\ proc[j].st = "program"
     /\ \E l \in BusyLines : IsPrefix(line, l)

\* gets: one more token of the line.
gets(i, t) ==
  /\ AtPrompt(i)
  /\ Len(proc[i].cmd.line) < Len(Words)
  /\ t \in Symbols \cup Words[Len(proc[i].cmd.line) + 1]
  /\ Typed(i, Append(proc[i].cmd.line, t))
  /\ proc' = [proc EXCEPT ![i].cmd.line = Append(@, t)]
  /\ UNCHANGED <<sh, panicked>>

\* The line is complete: fork a child to run it, and wait.
getcmd(i) ==
  /\ AtPrompt(i)
  /\ Typed(i, proc[i].cmd.line)
  /\ proc' = [proc EXCEPT ![i] =
       Then(i, <<Fork(<<>>, WithParse(proc[i].cmd.line), FALSE, <<Console, Console>>), Wait>>,
            Line(<<>>))]
  /\ UNCHANGED <<sh, panicked>>

\* "cd " is the shell's own: it calls chdir, which is FileSystem's subject, and
\* prompts again.  With anything but a blank behind it, cd is a command.
cd(i) ==
  /\ AtPrompt(i)
  /\ Typed(i, proc[i].cmd.line)
  /\ peek(proc[i].cmd.line, {"cd"})
  /\ proc' = [proc EXCEPT ![i].cmd = Line(<<>>)]
  /\ UNCHANGED <<sh, panicked>>

\* The end of the input.
eof(i) == AtPrompt(i) /\ Alive = {1, i} /\ proc[i].cmd = Line(<<>>) /\ Exit(i)

\* A filter ends when its input has ended, after writing to a pipe that is
\* read or that nobody can read any more.
program(i) ==
  /\ ~ panicked
  /\ proc[i].st = "program"
  /\ \A k \in Procs : proc[i].fds[0] = ReadEnd(k) => ~ IsOpen(WriteEnd(k))
  /\ \A k \in Procs : proc[i].fds[1] = WriteEnd(k) =>
       ~ IsOpen(ReadEnd(k)) \/ \E j \in Procs : proc[j].st = "program" /\ proc[j].fds[0] = ReadEnd(k)
  /\ Exit(i)

\* init: fork a shell; when that fails init exits, which panics.
startsh ==
  /\ ~ panicked /\ sh = 0
  /\ \/ panicked' = TRUE /\ UNCHANGED <<proc, sh>>
     \/ /\ Free # {}
        /\ sh' = Min(Free)
        /\ proc' = [proc EXCEPT ![Min(Free)] =
             [Unused EXCEPT !.st = "boot", !.parent = 1, !.cmd = Line(<<>>), !.fds = proc[1].fds]]
        /\ UNCHANGED panicked

\* ... whose child executes sh.  The consoles sh opens first, it has already.
execsh(i) ==
  /\ ~ panicked /\ proc[i].st = "boot"
  /\ proc' = [proc EXCEPT ![i].st = "sh"]
  /\ UNCHANGED <<sh, panicked>>

execfails(i) == ~ panicked /\ proc[i].st = "boot" /\ Exit(i)

\* ... and wait for it, reaping the orphans.
reap ==
  /\ ~ panicked /\ sh # 0
  /\ \E z \in Children(1) :
       /\ proc[z].st = "zombie"
       /\ proc' = [proc EXCEPT ![z] = Unused]
       /\ sh' = IF z = sh THEN 0 ELSE sh
  /\ UNCHANGED panicked

Step(i) ==
  \/ close(i) \/ dup(i) \/ open(i) \/ fork1(i) \/ wait(i)
  \/ run_line(i) \/ run_null(i) \/ run_exec(i) \/ run_redir(i)
  \/ run_list(i) \/ run_pipe(i) \/ run_back(i) \/ program(i)
  \/ execsh(i) \/ execfails(i)

Next ==
  \/ \E i \in Procs : Step(i) \/ getcmd(i) \/ cd(i) \/ eof(i)
  \/ \E i \in Procs, t \in Symbols \cup UNION Range(Words) : gets(i, t)
  \/ startsh \/ reap

Spec == Init /\ [][Next]_vars

\* The scheduler runs every process that can run; nobody has to type.  The
\* program sh exists, and there is not for ever too little memory to run it.
FairSpec ==
  /\ Spec
  /\ WF_vars(startsh) /\ WF_vars(reap) /\ \A i \in Procs : WF_vars(Step(i))
  /\ SF_vars(\E i \in Procs : execsh(i))

-----------------------------------------------------------------------------
(* The grammar that the parser implements *)

\* The commands that a sequence of tokens can be read as, by the rules
\*   line  ::= pipe {"&"} [";" line]
\*   pipe  ::= exec ["|" pipe]
\*   exec  ::= "(" line ")" {redir}  |  {redir} {word {redir}}
\*   redir ::= ("<" | ">" | "+") word

Before(s, n) == SubSeq(s, 1, n - 1)
After(s, n) == SubSeq(s, n + 1, Len(s))
Where(s, toks) == {n \in 1 .. Len(s) : s[n] \in toks}
Redirs == {"<", ">", "+"}

\* cmd with the redirections of s around it, the last one outermost.
Around(cmd, s) ==
  FoldLeft(LAMBDA c, n : IF s[n] \in Redirs THEN Redirect(c, s[n], s[n + 1]) ELSE c,
           cmd, [n \in 1 .. Len(s) |-> n])

\* Every redirection has its file; the other words are arguments.
WellFormed(s) == \A n \in Where(s, Redirs) : n < Len(s) /\ IsWord(s[n + 1])
Arguments(s) ==
  LET args == {n \in 1 .. Len(s) : IsWord(s[n]) /\ (n = 1 \/ s[n - 1] \notin Redirs)} IN
  [n \in 1 .. Cardinality(args) |->
     s[CHOOSE m \in args : Cardinality({l \in args : l <= m}) = n]]

Simple(s) ==
  IF Where(s, Symbols \ Redirs) = {} /\ WellFormed(s) /\ Len(Arguments(s)) < MAXARGS
  THEN {Around(execcmd(Arguments(s)), s)} ELSE {}

RECURSIVE BackTimes(_, _)
BackTimes(cmd, n) == IF n = 0 THEN cmd ELSE backcmd(BackTimes(cmd, n - 1))

RECURSIVE GrammarLine(_), GrammarPipe(_), GrammarExec(_)
GrammarLine(s) ==
  LET jobs(t) ==
        UNION {{BackTimes(c, Len(t) - n) : c \in GrammarPipe(SubSeq(t, 1, n))} :
                 n \in {m \in 0 .. Len(t) : \A l \in m + 1 .. Len(t) : t[l] = "&"}}
  IN  jobs(s) \cup
      UNION {{listcmd(c, d) : c \in jobs(Before(s, n)), d \in GrammarLine(After(s, n))} :
               n \in Where(s, {";"})}

GrammarPipe(s) ==
  GrammarExec(s) \cup
  UNION {{pipecmd(c, d) : c \in GrammarExec(Before(s, n)), d \in GrammarPipe(After(s, n))} :
           n \in Where(s, {"|"})}

GrammarExec(s) ==
  Simple(s) \cup
  UNION {{Around(c, After(s, n)) : c \in GrammarLine(SubSeq(s, 2, n - 1))} :
           n \in {m \in Where(s, {")"}) :
                   /\ s[1] = "("
                   /\ WellFormed(After(s, m)) /\ Arguments(After(s, m)) = <<>>
                   /\ Where(After(s, m), Symbols \ Redirs) = {}}}

-----------------------------------------------------------------------------
(* Properties *)

\* For every line, parsecmd accepts exactly the grammar's lines, and returns
\* the one command that the grammar gives them: nothing is dropped, grouped
\* another way, or read past MAXARGS.
ParsesGrammar ==
  \A i \in Procs : proc[i].st = "run" /\ proc[i].cmd.type = "line" =>
    LET r == proc[i].cmd.parsed IN
    GrammarLine(proc[i].cmd.line) = IF r.ok THEN {r.cmd} ELSE {}

\* A program starts with the input and output its place in the command line
\* gives it, and with no other descriptor open but the error output: the
\* closes and dups of runcmd, in their order, leave no end of a pipe behind.
StdioWired ==
  \A i \in Procs : proc[i].st = "program" =>
    proc[i].fds = [Stdio EXCEPT ![0] = proc[i].want[1], ![1] = proc[i].want[2]]

RECURSIVE Loose(_)
Loose(j) == proc[j].loose \/ (proc[j].parent # 0 /\ Loose(proc[j].parent))

\* The shell prompts only when the processes of the last line have exited and
\* been waited for, all but those behind a "&" or of a command that failed to
\* fork half-way.
PromptMeansDone ==
  \A i \in Procs : AtPrompt(i) => \A j \in Alive \ {1, i} : Loose(j)

\* Every command line ends, and a shell prompts again: no process of a
\* pipeline waits for ever for the end of its input, for a reader, or for a
\* child, even if programs and files are missing or a fork or a pipe fails;
\* only init's own fork, when it fails, keeps a shell from being started.
PromptsAgain ==
  (sh # 0 /\ proc[sh].todo # <<>>) ~> (panicked \/ \E i \in Procs : AtPrompt(i))
=============================================================================
