----------------------------- MODULE BlockStore -----------------------------
(***************************************************************************)
(* What bread, bwrite, log_write and brelse promise their callers: every   *)
(* block has one current content, a process that has the block is alone    *)
(* with it, and the content changes only by what its owner writes.  The    *)
(* promise is off once the drive has reported an error.                    *)
(***************************************************************************)
CONSTANTS Procs, Blocks, Data, Nobody

VARIABLES
  content,   \* what a process that gets the block finds in it
  owner,     \* the process that has the block, or Nobody
  failed     \* the drive has reported an error

vars == <<content, owner, failed>>

Init ==
  /\ content \in [Blocks -> Data]
  /\ owner = [b \in Blocks |-> Nobody]
  /\ failed = FALSE

Get(p, b) ==
  /\ owner[b] = Nobody
  /\ owner' = [owner EXCEPT ![b] = p]
  /\ UNCHANGED <<content, failed>>

Put(p, b, v) ==
  /\ owner[b] = p
  /\ content' = [content EXCEPT ![b] = v]
  /\ UNCHANGED <<owner, failed>>

Release(p, b) ==
  /\ owner[b] = p
  /\ owner' = [owner EXCEPT ![b] = Nobody]
  /\ UNCHANGED <<content, failed>>

\* Constrains nothing else: neither this step nor any later one is promised.
Fail == failed' = TRUE

Next ==
  \/ \E p \in Procs, b \in Blocks : Get(p, b) \/ Release(p, b)
  \/ \E p \in Procs, b \in Blocks, v \in Data : Put(p, b, v)
  \/ Fail

Spec == Init /\ [][Next]_vars
=============================================================================
