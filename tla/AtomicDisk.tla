----------------------------- MODULE AtomicDisk -----------------------------
(***************************************************************************)
(* What log.c promises its callers: file-system operations change a        *)
(* volatile image of the disk, all of it becomes durable at once, and only *)
(* while no operation is in progress; a crash falls back to the last       *)
(* durable image.                                                          *)
(***************************************************************************)
CONSTANTS Procs, Blocks, Vals

VARIABLES
  durable,    \* the blocks as they are after a crash and recovery
  volatile,   \* the blocks as the running system reads them
  active      \* processes inside begin_op ... end_op

vars == <<durable, volatile, active>>

Init ==
  /\ durable \in [Blocks -> Vals]
  /\ volatile = durable
  /\ active = {}

Begin(p) ==
  /\ p \notin active
  /\ active' = active \cup {p}
  /\ UNCHANGED <<durable, volatile>>

Write(p, b, v) ==
  /\ p \in active
  /\ volatile' = [volatile EXCEPT ![b] = v]
  /\ UNCHANGED <<durable, active>>

End(p) ==
  /\ p \in active
  /\ active' = active \ {p}
  /\ UNCHANGED <<durable, volatile>>

Commit ==
  /\ active = {}
  /\ durable' = volatile
  /\ UNCHANGED <<volatile, active>>

Crash ==
  /\ volatile' = durable
  /\ active' = {}
  /\ UNCHANGED durable

Next ==
  \/ \E p \in Procs : Begin(p) \/ End(p)
  \/ \E p \in Procs, b \in Blocks, v \in Vals : Write(p, b, v)
  \/ Commit
  \/ Crash

Spec == Init /\ [][Next]_vars
=============================================================================
