----------------------------- MODULE FileSystem -----------------------------
(***************************************************************************)
(* Inodes, directories, path names and open files: fs.c, file.c and the    *)
(* file calls of sysfile.c, made by several processes at once on the image *)
(* that mkfs.c writes.                                                     *)
(*                                                                         *)
(* What a process does between taking an inode's sleep lock and releasing  *)
(* it is one step, unless it sleeps for a second lock in between; taking   *)
(* or dropping a reference under icache.lock is a step of its own.  All    *)
(* steps of a call are one transaction: what a crash leaves of it is       *)
(* module Log's subject.                                                   *)
(*                                                                         *)
(* A directory is the function from names to inode numbers (0: no entry)   *)
(* that its entries amount to, and with at most Names of them, one block;  *)
(* a file has no block or one.                                             *)
(***************************************************************************)
EXTENDS Naturals, Sequences, FiniteSets, FiniteSetsExt

CONSTANTS
  Procs, FirstProc,
  Names,          \* names of directory entries, besides "." and ".."
  Programs,       \* the files mkfs is given
  NINODES,        \* inodes of the file system; number 0 is not used
  NINODE,         \* entries of the inode cache
  NBLOCKS,        \* data blocks
  NFILE, NOFILE,  \* open files of the system and of a process
  Calls           \* the system calls each process makes, with their arguments

ROOTINO == 1
Inums == 1 .. NINODES - 1
Blocks == 1 .. NBLOCKS
Entries == Names \cup {".", ".."}
Fds == 0 .. NOFILE - 1
Files == 1 .. NFILE

ASSUME FileSystemAssumption ==
  /\ FirstProc \in Procs
  /\ Programs \subseteq Names
  /\ NINODES \in Nat /\ Cardinality(Programs) + 2 <= NINODES
  /\ Cardinality(Programs) < NBLOCKS
  /\ {NINODE, NFILE, NOFILE} \subseteq Nat \ {0}

VARIABLES
  fs,      \* the disk and the inode cache
  file,    \* ftable: reference count, inode and mode
  ofile,   \* the open files of each process, 0 for a free descriptor
  cwd,     \* the current directory of each process, 0 for no process
  run      \* where each process is in its call

vars == <<fs, file, ofile, cwd, run>>

NoEntries == [n \in Entries |-> 0]

\* A free inode on disk; also what the cache holds while ip->valid is 0.
NoInode == [type |-> "none", nlink |-> 0, ents |-> NoEntries, block |-> 0]

Directory(self, parent, nlink, block) ==
  [type |-> "dir", nlink |-> nlink, block |-> block,
   ents |-> [NoEntries EXCEPT !["."] = self, ![".."] = parent]]

NoFile == [ref |-> 0, ip |-> 0, writable |-> FALSE]

\* mkfs: the root has inode 1; the programs get the numbers after it.
mkfs_ialloc ==
  CHOOSE f \in [Programs -> 2 .. Cardinality(Programs) + 1] :
    \A m, n \in Programs : m # n => f[m] # f[n]

\* mkfs: what is appended to inode i, one block of it.
mkfs_iappend(i) ==
  IF i = ROOTINO
  THEN [Directory(ROOTINO, ROOTINO, 1, i) EXCEPT !.ents = [n \in Entries |->
          IF n \in Programs THEN mkfs_ialloc[n] ELSE @[n]]]
  ELSE [NoInode EXCEPT !.type = "file", !.nlink = 1, !.block = i]

\* The inodes mkfs writes: the root, then each program.
mkfs ==
  [i \in Inums |-> IF i <= Cardinality(Programs) + 1 THEN mkfs_iappend(i) ELSE NoInode]

\* The bitmap mkfs writes last.
mkfs_balloc == {mkfs[i].block : i \in Inums} \ {0}

-----------------------------------------------------------------------------
(* fs.c: what its functions make of s, the value of fs.  After a panic the  *)
(* rest of the state means nothing.                                         *)

panic(s, why) == [s EXCEPT !.panic = IF @ = "" THEN why ELSE @]

\* A reference to inode i, in the entry that has it or in a free one.
iget(s, i) ==
  IF s.ref[i] > 0 THEN [s EXCEPT !.ref[i] = @ + 1]
  ELSE IF Cardinality({j \in Inums : s.ref[j] > 0}) = NINODE
  THEN panic(s, "iget: no inodes")
  ELSE [s EXCEPT !.ref[i] = 1, !.in[i] = NoInode]

idup(s, i) == [s EXCEPT !.ref[i] = @ + 1]

Free(s, i) == s.lock[i] = "nobody"

\* Once the lock is free: take it, and read the inode unless it is valid.
ilock(s, p, i) ==
  LET r == [s EXCEPT !.lock[i] = p,
                     !.in[i] = IF @ = NoInode THEN s.dinode[i] ELSE @]
  IN  IF s.ref[i] < 1 THEN panic(s, "ilock")
      ELSE IF r.in[i].type = "none" THEN panic(r, "ilock: no type")
      ELSE r

iunlock(s, p, i) ==
  IF s.lock[i] # p \/ s.ref[i] < 1 THEN panic(s, "iunlock")
  ELSE [s EXCEPT !.lock[i] = "nobody"]

\* Change an inode: the cached copy, then the one on disk.
iupdate(s, i, r) == [s EXCEPT !.in[i] = r, !.dinode[i] = r]

FreeBlocks(s) == Blocks \ s.bitmap

\* The first free block goes to inode i.
balloc(s, i) ==
  LET b == Min(FreeBlocks(s)) IN
  IF FreeBlocks(s) = {} THEN panic(s, "balloc: out of blocks")
  ELSE [s EXCEPT !.bitmap = @ \cup {b}, !.in[i].block = b]

bfree(s, b) ==
  IF b \in s.bitmap THEN [s EXCEPT !.bitmap = @ \ {b}]
  ELSE panic(s, "freeing free block")

\* The block of inode i, allocated if it has none.
bmap(s, i) == IF s.in[i].block # 0 THEN s ELSE balloc(s, i)

writei(s, i) == LET r == bmap(s, i) IN iupdate(r, i, r.in[i])

itrunc(s, i) ==
  LET r == IF s.in[i].block = 0 THEN s ELSE bfree(s, s.in[i].block) IN
  iupdate(r, i, [s.in[i] EXCEPT !.block = 0, !.ents = NoEntries])

FreeInodes(s) == {i \in Inums : s.dinode[i].type = "none"}

ialloc(s, type) ==
  IF FreeInodes(s) = {} THEN panic(s, "ialloc: no inodes")
  ELSE iget([s EXCEPT !.dinode[Min(FreeInodes(s))] = [NoInode EXCEPT !.type = type]],
            Min(FreeInodes(s)))

dirlookup(s, d, name) == s.in[d].ents[name]

\* dirlookup's test, where the caller has not made it.
DirOnly(s, d) ==
  IF s.in[d].type # "dir" THEN panic(s, "dirlookup not DIR") ELSE s

\* Faulty variant: the link is not counted.
OneMoreLinkNot(r) == r

OneMoreLink(r) == [r EXCEPT !.nlink = @ + 1]

\* Write an entry, or clear it with i = 0.
WriteEntry(s, d, name, i) ==
  LET r == bmap(s, d) IN
  iupdate(r, d, [r.in[d] EXCEPT !.ents[name] = i])

isdirempty(s, d) == \A n \in Names : s.in[d].ents[n] = 0

-----------------------------------------------------------------------------
(* Processes in their calls *)

Idle == [pc |-> "idle", call |-> [op |-> "none"], path |-> <<>>, name |-> ".",
         cur |-> 0, dp |-> 0, ip |-> 0, put |-> 0, phase |-> "none"]

\* The first process, whose current directory userinit looks up: the one
\* reference that the cache of iinit starts with.
Init ==
  /\ fs = [dinode |-> mkfs, bitmap |-> mkfs_balloc,
           ref |-> [i \in Inums |-> IF i = ROOTINO THEN 1 ELSE 0],
           lock |-> [i \in Inums |-> "nobody"],
           in |-> [i \in Inums |-> NoInode], panic |-> ""]
  /\ file = [f \in Files |-> NoFile]
  /\ ofile = [p \in Procs |-> [fd \in Fds |-> 0]]
  /\ cwd = [p \in Procs |-> IF p = FirstProc THEN ROOTINO ELSE 0]
  /\ run = [p \in Procs |-> Idle]

At(p, pc) == run[p].pc = pc /\ run[p].put = 0 /\ fs.panic = ""

Set(p, r) == run' = [run EXCEPT ![p] = r]

\* r, with an iput of inode i to be done before the call goes on.
Put(r, i) == [r EXCEPT !.put = i, !.phase = "lock"]

\* Faulty variant: does not ask for other references.
LastReferenceAny(i) == fs.in[i].type # "none" /\ fs.in[i].nlink = 0

LastReference(i) == fs.in[i].type # "none" /\ fs.in[i].nlink = 0 /\ fs.ref[i] = 1

\* iput: with the lock, see whether this is the last reference to an inode
\* without links.
iputLock(p) ==
  LET i == run[p].put
      last == LastReference(i)
  IN
  /\ run[p].phase = "lock" /\ fs.panic = ""
  /\ Free(fs, i)
  /\ fs' = IF last THEN [fs EXCEPT !.lock[i] = p] ELSE fs
  /\ Set(p, [run[p] EXCEPT !.phase = IF last THEN "free" ELSE "drop"])
  /\ UNCHANGED <<file, ofile, cwd>>

\* ... if so, truncate it and free it on disk.
iputFree(p) ==
  LET i == run[p].put
      s == itrunc(fs, i)
  IN
  /\ run[p].phase = "free" /\ fs.panic = ""
  /\ fs' = [s EXCEPT !.dinode[i] = NoInode, !.in[i].type = "freed"]
  /\ Set(p, [run[p] EXCEPT !.phase = "invalid"])
  /\ UNCHANGED <<file, ofile, cwd>>

\* Faulty variant: the copy in the cache stays valid.
iputInvalidNot(p) ==
  /\ run[p].phase = "invalid" /\ fs.panic = ""
  /\ fs' = [fs EXCEPT !.lock[run[p].put] = "nobody"]
  /\ Set(p, [run[p] EXCEPT !.phase = "drop"])
  /\ UNCHANGED <<file, ofile, cwd>>

iputInvalid(p) ==
  /\ run[p].phase = "invalid" /\ fs.panic = ""
  /\ fs' = [fs EXCEPT !.lock[run[p].put] = "nobody", !.in[run[p].put] = NoInode]
  /\ Set(p, [run[p] EXCEPT !.phase = "drop"])
  /\ UNCHANGED <<file, ofile, cwd>>

\* ... and drop the reference, without the inode's lock.
iputDrop(p) ==
  /\ run[p].phase = "drop" /\ fs.panic = ""
  /\ fs' = [fs EXCEPT !.ref[run[p].put] = @ - 1,
                      !.in[run[p].put] = IF fs.ref[run[p].put] = 1 THEN NoInode ELSE @]
  /\ Set(p, LET r == [run[p] EXCEPT !.put = 0, !.phase = "none"] IN
            IF r.pc = "idle" THEN Idle ELSE r)
  /\ UNCHANGED <<file, ofile, cwd>>

iput(p) == iputLock(p) \/ iputFree(p) \/ iputInvalid(p) \/ iputDrop(p)

\* The call returns, with an iput of inode i on its way out.
Return(p, i) == Set(p, Put(Idle, i))

-----------------------------------------------------------------------------
(* namex *)

\* The first inode of a walk, and the names left.
From(p, path) == IF Head(path) = "/" THEN iget(fs, ROOTINO) ELSE idup(fs, cwd[p])

Walk(p, r, path, pc) ==
  [r EXCEPT !.pc = pc, !.cur = IF Head(path) = "/" THEN ROOTINO ELSE cwd[p],
            !.path = IF Head(path) = "/" THEN Tail(path) ELSE path]

WantsParent(p) == run[p].call.op \in {"creat", "mkdir", "mknod", "unlink"} \/ run[p].pc = "walk2"

\* Where the calls go on with the inode that namex returns.
Found(p, i) ==
  LET r == [run[p] EXCEPT !.cur = 0, !.path = <<>>] IN
  CASE run[p].pc = "walk2" -> [r EXCEPT !.dp = i, !.name = Head(run[p].path), !.pc = "link_dir"]
    [] run[p].pc = "walk" /\ WantsParent(p) ->
         [r EXCEPT !.dp = i, !.name = Head(run[p].path),
                   !.pc = IF @ = "walk" /\ run[p].call.op = "unlink" THEN "unlink" ELSE "create"]
    [] OTHER -> [r EXCEPT !.ip = i, !.pc = run[p].call.op]

\* namex returns 0: the call fails, sys_link after taking its link back.
NotFound(p) ==
  IF run[p].pc = "walk2" THEN [run[p] EXCEPT !.cur = 0, !.path = <<>>, !.pc = "link_bad"]
  ELSE Idle

\* One turn of the loop of namex: iunlockput the directory, unless it is the
\* parent that is wanted.
namex(p) ==
  LET i == run[p].cur
      path == run[p].path
      s == ilock(fs, p, i)
      n == dirlookup(s, i, Head(path))
  IN
  /\ At(p, "walk") \/ At(p, "walk2")
  /\ \/ /\ path = <<>>
        /\ IF WantsParent(p) THEN Set(p, Put(NotFound(p), i)) ELSE Set(p, Found(p, i))
        /\ UNCHANGED fs
     \/ /\ path # <<>> /\ Free(fs, i)
        /\ \/ /\ s.in[i].type # "dir"
              /\ fs' = iunlock(s, p, i)
              /\ Set(p, Put(NotFound(p), i))
           \/ /\ s.in[i].type = "dir" /\ WantsParent(p) /\ Len(path) = 1
              /\ fs' = iunlock(s, p, i)
              /\ Set(p, Found(p, i))
           \/ /\ s.in[i].type = "dir" /\ ~ (WantsParent(p) /\ Len(path) = 1)
              /\ IF n = 0
                 THEN /\ fs' = iunlock(s, p, i)
                      /\ Set(p, Put(NotFound(p), i))
                 ELSE /\ fs' = iunlock(iget(s, n), p, i)
                      /\ Set(p, Put([run[p] EXCEPT !.cur = n, !.path = Tail(path)], i))
  /\ UNCHANGED <<file, ofile, cwd>>

\* The start of a call that takes a path.
Start(p, c) ==
  /\ At(p, "idle") /\ cwd[p] # 0
  /\ c.op \in {"open", "creat", "mkdir", "mknod", "unlink", "link", "chdir"}
  /\ fs' = From(p, c.path)
  /\ Set(p, Walk(p, [Idle EXCEPT !.call = c], c.path, "walk"))
  /\ UNCHANGED <<file, ofile, cwd>>

-----------------------------------------------------------------------------
(* Open files *)

FreeFiles == {f \in Files : file[f].ref = 0}
FreeFds(p) == {fd \in Fds : ofile[p][fd] = 0}

\* The descriptors argfd accepts.
argfd(p) == Fds \ FreeFds(p)

\* filealloc and fdalloc; without both, the inode is put back.
CanOpen(p) == FreeFiles # {} /\ FreeFds(p) # {}

\* O_CREATE comes with O_RDWR here.
Writes(c) == c.op = "creat" \/ c.write

\* The end of sys_open, with inode i locked in s.
OpenFile(p, s, i) ==
  /\ fs' = iunlock(s, p, i)
  /\ \/ /\ ~ CanOpen(p)
        /\ Return(p, i)
        /\ UNCHANGED <<file, ofile>>
     \/ /\ CanOpen(p)
        /\ file' = [file EXCEPT ![Min(FreeFiles)] =
                    [ref |-> 1, ip |-> i, writable |-> Writes(run[p].call)]]
        /\ ofile' = [ofile EXCEPT ![p][Min(FreeFds(p))] = Min(FreeFiles)]
        /\ Set(p, Idle)
  /\ UNCHANGED cwd

\* sys_open without O_CREATE
sys_open(p) ==
  LET i == run[p].ip
      s == ilock(fs, p, i)
  IN
  /\ At(p, "open") /\ Free(fs, i)
  /\ \/ /\ s.in[i].type = "dir" /\ run[p].call.write
        /\ fs' = iunlock(s, p, i) /\ Return(p, i)
        /\ UNCHANGED <<file, ofile, cwd>>
     \/ /\ ~ (s.in[i].type = "dir" /\ run[p].call.write)
        /\ OpenFile(p, s, i)

sys_dup(p) ==
  /\ At(p, "idle") /\ cwd[p] # 0
  /\ [op |-> "dup"] \in Calls[p]
  /\ \E fd \in argfd(p) :
       /\ FreeFds(p) # {}
       /\ ofile' = [ofile EXCEPT ![p][Min(FreeFds(p))] = ofile[p][fd]]
       /\ file' = [file EXCEPT ![ofile[p][fd]].ref = @ + 1]
  /\ UNCHANGED <<fs, cwd, run>>

\* Close a descriptor; the last close of a file puts its inode.
fileclose(p, fd, r) ==
  LET f == ofile[p][fd] IN
  /\ ofile' = [ofile EXCEPT ![p][fd] = 0]
  /\ \/ /\ file[f].ref > 1
        /\ file' = [file EXCEPT ![f].ref = @ - 1]
        /\ Set(p, r)
     \/ /\ file[f].ref = 1
        /\ file' = [file EXCEPT ![f] = NoFile]
        /\ Set(p, Put(r, file[f].ip))

sys_close(p) ==
  /\ At(p, "idle")
  /\ [op |-> "close"] \in Calls[p]
  /\ \E fd \in argfd(p) : fileclose(p, fd, Idle)
  /\ UNCHANGED <<fs, cwd>>

\* A write to a file that has no block yet; one that has is not changed.  It is
\* of at most one block, so the loop over chunks has one turn.
filewrite(p) ==
  /\ At(p, "idle")
  /\ [op |-> "write"] \in Calls[p]
  /\ \E fd \in argfd(p) :
       LET i == file[ofile[p][fd]].ip
           s == ilock(fs, p, i)
       IN  /\ file[ofile[p][fd]].writable
           /\ Free(fs, i)
           /\ s.panic = "" => s.in[i].type = "file" /\ s.in[i].block = 0
           /\ fs' = iunlock(writei(s, i), p, i)
  /\ UNCHANGED <<file, ofile, cwd, run>>

\* What fork does for a child q: filedup and idup.
fork(p, q) ==
  /\ At(p, "idle") /\ cwd[p] # 0
  /\ cwd[q] = 0 /\ run[q] = Idle
  /\ ofile' = [ofile EXCEPT ![q] = ofile[p]]
  /\ file' = [f \in Files |->
       [file[f] EXCEPT !.ref = @ + Cardinality({fd \in Fds : ofile[p][fd] = f})]]
  /\ fs' = idup(fs, cwd[p])
  /\ cwd' = [cwd EXCEPT ![q] = cwd[p]]
  /\ UNCHANGED run

\* What exit does: close everything, then put the current directory.
exit(p) ==
  /\ cwd[p] # 0
  /\ \/ /\ At(p, "idle") \/ At(p, "exit")
        /\ p # FirstProc
        /\ FreeFds(p) # Fds
        /\ fileclose(p, Min(argfd(p)), [Idle EXCEPT !.pc = "exit"])
        /\ UNCHANGED <<fs, cwd>>
     \/ /\ At(p, "idle") \/ At(p, "exit")
        /\ p # FirstProc
        /\ FreeFds(p) = Fds
        /\ cwd' = [cwd EXCEPT ![p] = 0]
        /\ Return(p, cwd[p])
        /\ UNCHANGED <<fs, file, ofile>>

-----------------------------------------------------------------------------
(* create, unlink, link, chdir *)

TypeFor(op) == CASE op = "creat" -> "file" [] op = "mkdir" -> "dir" [] op = "mknod" -> "dev"

\* With the parent locked: the name exists, or an inode is allocated for it.
create(p) ==
  LET d == run[p].dp
      s == DirOnly(ilock(fs, p, d), d)
      n == dirlookup(s, d, run[p].name)
      a == ialloc(s, TypeFor(run[p].call.op))
  IN
  /\ At(p, "create") /\ Free(fs, d)
  /\ \/ /\ n # 0
        /\ fs' = iunlock(iget(s, n), p, d)
        /\ Set(p, Put([run[p] EXCEPT !.ip = n, !.dp = 0, !.pc = "create_have"], d))
     \/ /\ n = 0
        /\ fs' = a
        /\ Set(p, IF a.panic # "" THEN run[p]
                  ELSE [run[p] EXCEPT !.ip = Min(FreeInodes(s)), !.pc = "create_init"])
  /\ UNCHANGED <<file, ofile, cwd>>

\* The name exists: good enough for O_CREATE, if both are files.
create_have(p) ==
  LET i == run[p].ip
      s == ilock(fs, p, i)
      good == run[p].call.op = "creat" /\ s.in[i].type = "file"
  IN
  /\ At(p, "create_have") /\ Free(fs, i)
  /\ \/ /\ good
        /\ OpenFile(p, s, i)
     \/ /\ ~ good
        /\ fs' = iunlock(s, p, i) /\ Return(p, i)
        /\ UNCHANGED <<file, ofile, cwd>>

\* Fill in the new inode, and enter it in its parent.
create_init(p) ==
  LET d == run[p].dp
      i == run[p].ip
      s == ilock(fs, p, i)
      s1 == iupdate(s, i, [s.in[i] EXCEPT !.nlink = 1])
      s2 == iupdate(s1, d, OneMoreLink(s1.in[d]))
      s3 == WriteEntry(WriteEntry(s2, i, ".", i), i, "..", d)
      s4 == WriteEntry(IF run[p].call.op = "mkdir" THEN s3 ELSE s1, d, run[p].name, i)
  IN
  /\ At(p, "create_init") /\ Free(fs, i)
  /\ fs' = iunlock(s4, p, d)
  /\ Set(p, Put([run[p] EXCEPT !.dp = 0, !.pc = "create_done"], d))
  /\ UNCHANGED <<file, ofile, cwd>>

\* The new inode is still locked: open it, or put it.
create_done(p) ==
  /\ At(p, "create_done")
  /\ \/ /\ run[p].call.op = "creat"
        /\ OpenFile(p, fs, run[p].ip)
     \/ /\ run[p].call.op # "creat"
        /\ fs' = iunlock(fs, p, run[p].ip) /\ Return(p, run[p].ip)
        /\ UNCHANGED <<file, ofile, cwd>>

\* Faulty variant: forgets ".".
IsDotsParent(name) == name = ".."

IsDots(name) == name \in {".", ".."}

\* With the parent locked: find the entry, which is not "." or "..".
unlink(p) ==
  LET d == run[p].dp
      l == ilock(fs, p, d)
      s == IF IsDots(run[p].name) THEN l ELSE DirOnly(l, d)
      n == dirlookup(s, d, run[p].name)
  IN
  /\ At(p, "unlink") /\ Free(fs, d)
  /\ \/ /\ IsDots(run[p].name) \/ n = 0
        /\ fs' = iunlock(s, p, d) /\ Return(p, d)
     \/ /\ ~ IsDots(run[p].name) /\ n # 0
        /\ fs' = iget(s, n)
        /\ Set(p, [run[p] EXCEPT !.ip = n, !.pc = "unlink_ip"])
  /\ UNCHANGED <<file, ofile, cwd>>

\* With both locked: clear the entry, unless it is a directory in use.
unlink_ip(p) ==
  LET d == run[p].dp
      i == run[p].ip
      l == ilock(fs, p, i)
      s == IF l.in[i].nlink < 1 THEN panic(l, "unlink: nlink < 1") ELSE l
      isdir == s.in[i].type = "dir"
      s1 == WriteEntry(s, d, run[p].name, 0)
      s2 == iupdate(s1, d, [s1.in[d] EXCEPT !.nlink = @ - 1])
  IN
  /\ At(p, "unlink_ip") /\ Free(fs, i)
  /\ \/ /\ isdir /\ ~ isdirempty(s, i)
        /\ fs' = iunlock(s, p, i)
        /\ Set(p, Put([run[p] EXCEPT !.ip = 0, !.pc = "unlink_bad"], i))
     \/ /\ ~ (isdir /\ ~ isdirempty(s, i))
        /\ fs' = iunlock(IF isdir THEN s2 ELSE s1, p, d)
        /\ Set(p, Put([run[p] EXCEPT !.dp = 0, !.pc = "unlink_done"], d))
  /\ UNCHANGED <<file, ofile, cwd>>

unlink_bad(p) ==
  /\ At(p, "unlink_bad")
  /\ fs' = iunlock(fs, p, run[p].dp)
  /\ Return(p, run[p].dp)
  /\ UNCHANGED <<file, ofile, cwd>>

unlink_done(p) ==
  LET i == run[p].ip IN
  /\ At(p, "unlink_done")
  /\ fs' = iunlock(iupdate(fs, i, [fs.in[i] EXCEPT !.nlink = @ - 1]), p, i)
  /\ Return(p, i)
  /\ UNCHANGED <<file, ofile, cwd>>

\* sys_link: count the link first, then enter it.
link(p) ==
  LET i == run[p].ip
      s == ilock(fs, p, i)
      s1 == iunlock(iupdate(s, i, OneMoreLink(s.in[i])), p, i)
      to == run[p].call.to
  IN
  /\ At(p, "link") /\ Free(fs, i)
  /\ \/ /\ s.in[i].type = "dir"
        /\ fs' = iunlock(s, p, i) /\ Return(p, i)
     \/ /\ s.in[i].type # "dir"
        /\ fs' = IF Head(to) = "/" THEN iget(s1, ROOTINO) ELSE idup(s1, cwd[p])
        /\ Set(p, Walk(p, run[p], to, "walk2"))
  /\ UNCHANGED <<file, ofile, cwd>>

link_dir(p) ==
  LET d == run[p].dp
      s == DirOnly(ilock(fs, p, d), d)
      n == dirlookup(s, d, run[p].name)
  IN
  /\ At(p, "link_dir") /\ Free(fs, d)
  /\ \/ /\ n # 0
        /\ fs' = iget(s, n)
        /\ Set(p, Put([run[p] EXCEPT !.pc = "link_exists"], n))
     \/ /\ n = 0
        /\ fs' = iunlock(WriteEntry(s, d, run[p].name, run[p].ip), p, d)
        /\ Set(p, Put([run[p] EXCEPT !.dp = 0, !.pc = "link_done"], d))
  /\ UNCHANGED <<file, ofile, cwd>>

link_exists(p) ==
  /\ At(p, "link_exists")
  /\ fs' = iunlock(fs, p, run[p].dp)
  /\ Set(p, Put([run[p] EXCEPT !.dp = 0, !.pc = "link_bad"], run[p].dp))
  /\ UNCHANGED <<file, ofile, cwd>>

link_bad(p) ==
  LET i == run[p].ip
      s == ilock(fs, p, i)
  IN
  /\ At(p, "link_bad") /\ Free(fs, i)
  /\ fs' = iunlock(iupdate(s, i, [s.in[i] EXCEPT !.nlink = @ - 1]), p, i)
  /\ Return(p, i)
  /\ UNCHANGED <<file, ofile, cwd>>

link_done(p) ==
  /\ At(p, "link_done")
  /\ Return(p, run[p].ip)
  /\ UNCHANGED <<fs, file, ofile, cwd>>

chdir(p) ==
  LET i == run[p].ip
      s == ilock(fs, p, i)
  IN
  /\ At(p, "chdir") /\ Free(fs, i)
  /\ fs' = iunlock(s, p, i)
  /\ \/ /\ s.in[i].type # "dir"
        /\ Return(p, i)
        /\ UNCHANGED cwd
     \/ /\ s.in[i].type = "dir"
        /\ cwd' = [cwd EXCEPT ![p] = i]
        /\ Return(p, cwd[p])
  /\ UNCHANGED <<file, ofile>>

Step(p) ==
  \/ iput(p) \/ namex(p)
  \/ sys_open(p) \/ create(p) \/ create_have(p) \/ create_init(p) \/ create_done(p)
  \/ unlink(p) \/ unlink_ip(p) \/ unlink_bad(p) \/ unlink_done(p)
  \/ link(p) \/ link_dir(p) \/ link_exists(p) \/ link_bad(p) \/ link_done(p)
  \/ chdir(p)

Next ==
  \/ \E p \in Procs : Step(p)
  \/ \E p \in Procs : \E c \in Calls[p] : Start(p, c)
  \/ \E p \in Procs : sys_dup(p) \/ sys_close(p) \/ filewrite(p) \/ exit(p)
  \/ \E p, q \in Procs : fork(p, q)

Spec == Init /\ [][Next]_vars

-----------------------------------------------------------------------------
(* Properties *)

Inodes == [type : {"none", "file", "dir", "dev", "freed"}, nlink : 0 .. 9,
           ents : [Entries -> Inums \cup {0}], block : Blocks \cup {0}]

\* Every field has its type; link counts and references stay natural numbers.
TypeOK ==
  /\ fs.bitmap \subseteq Blocks
  /\ \A i \in Inums :
       /\ fs.dinode[i] \in Inodes /\ fs.in[i] \in Inodes
       /\ fs.ref[i] \in Nat /\ fs.lock[i] \in Procs \cup {"nobody"}
  /\ \A f \in Files : /\ file[f].ref \in Nat /\ file[f].ip \in Inums \cup {0}
                      /\ file[f].writable \in BOOLEAN
  /\ \A p \in Procs : cwd[p] \in Inums \cup {0} /\ ofile[p] \in [Fds -> Files \cup {0}]

\* What refers to inode i: open files, current directories, calls.
Owners(i) ==
  Cardinality({f \in Files : file[f].ref > 0 /\ file[f].ip = i})
    + Cardinality({p \in Procs : cwd[p] = i})
    + Cardinality({x \in Procs \X {"cur", "dp", "ip", "put"} : run[x[1]][x[2]] = i})

\* The cache counts a reference for every open file, current directory and
\* call that holds one, whatever calls do at the same time, and a file is
\* counted once for every descriptor: no inode is recycled under its holder.
RefsCounted ==
  fs.panic = "" =>
    /\ \A i \in Inums : fs.ref[i] = Owners(i)
    /\ \A f \in Files : file[f].ref =
         Cardinality({x \in Procs \X Fds : ofile[x[1]][x[2]] = f})

NamedBy(i) == {x \in Inums \X Names : fs.dinode[x[1]].ents[x[2]] = i}

Type(i) == IF i = 0 THEN "none" ELSE fs.dinode[i].type

Subdirectories(i) == {n \in Names : Type(fs.dinode[i].ents[n]) = "dir"}

\* On disk, at every moment, a name leads to an inode that is allocated, and
\* so does ".." of a directory that has a name; an inode counts at least the
\* names and the subdirectories' ".." that lead to it, so that removing one of
\* them never frees it under the others.
NoDanglingName ==
  \A i \in Inums :
    /\ NamedBy(i) # {} => Type(i) # "none"
    /\ NamedBy(i) # {} /\ Type(i) = "dir" => Type(fs.dinode[i].ents[".."]) = "dir"
    /\ fs.dinode[i].nlink >= Cardinality(NamedBy(i)) + Cardinality(Subdirectories(i))

\* A data block is marked in the bitmap exactly when one inode has it.
BlocksOwnedOnce ==
  /\ fs.bitmap = {fs.dinode[i].block : i \in Inums} \ {0}
  /\ \A i, j \in Inums :
       fs.dinode[i].block = fs.dinode[j].block /\ fs.dinode[i].block # 0 => i = j

\* A valid copy that nobody has locked is what is on disk: ialloc, which
\* writes the disk without asking the cache, never meets one.
CacheIsCurrent ==
  \A i \in Inums :
    fs.in[i] # NoInode /\ Free(fs, i) => fs.in[i] = fs.dinode[i]

\* The disk by itself, as a check of the file system would find it.
DiskConsistent == NoDanglingName /\ BlocksOwnedOnce

\* The caches of inodes and of open files agree with the disk and with what
\* the processes hold.
InodesConsistent == TypeOK /\ RefsCounted /\ CacheIsCurrent

Wants(p) ==
  CASE run[p].phase = "lock" -> run[p].put
    [] run[p].put # 0 -> 0
    [] run[p].pc \in {"walk", "walk2"} /\ run[p].path # <<>> -> run[p].cur
    [] run[p].pc \in {"create", "unlink", "link_dir"} -> run[p].dp
    [] run[p].pc \in {"open", "create_have", "create_init", "unlink_ip",
                      "link", "link_bad", "chdir"} -> run[p].ip
    [] OTHER -> 0

\* Processes each of which sleeps for a lock that one of them holds.
Deadlocked(S) ==
  S # {} /\ fs.panic = "" /\ \A p \in S : Wants(p) # 0 /\ fs.lock[Wants(p)] \in S

\* Path lookup and the calls that lock a directory and then its entry never
\* deadlock by themselves: in every deadlock a process sleeps in iput with
\* another inode locked.
OnlyIputDeadlocks ==
  \A S \in SUBSET Procs :
    Deadlocked(S) => \E p \in S : run[p].phase = "lock" /\ \E i \in Inums : fs.lock[i] = p

\* As long as nobody works in a directory that was removed together with its
\* parent, whose ".." dangles, the kernel stops only for want of room: no
\* order of calls makes it lock a free inode or one without references, free a
\* free block, or find an entry whose inode has no links.
PanicsAreKnown ==
  fs.panic \in {"", "iget: no inodes", "ialloc: no inodes", "balloc: out of blocks"}
=============================================================================
