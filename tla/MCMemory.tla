------------------------------ MODULE MCMemory ------------------------------
(***************************************************************************)
(* Instance of Memory for model checking.                                  *)
(***************************************************************************)
EXTENDS Memory

\* sbrk: grow by a page and a half, shrink by a page.
GrowsAndShrinks == {3, -2}

\* A view of the state in which a frame is known only by how many uses it has,
\* and whether it is free as well: pages are alike, so states with the same
\* view differ in the names of frames only.
Shape ==
  LET uses == AllUses
      count == [f \in Frames |-> Cardinality({u \in uses : u[4] = f})
                                   + (IF f \in free THEN 100 ELSE 0)]
      Seen(f) == IF f \in Frames THEN count[f] ELSE f
  IN
  <<Cardinality(free), status,
    [p \in Procs |->
       [proc[p] EXCEPT
          !.kstack = Seen(@), !.info = Seen(@),
          !.arr = <<Cardinality(@), {Seen(f) : f \in @}>>,
          !.d = [dir |-> Seen(@.dir), ktabs |-> {Seen(f) : f \in @.ktabs},
                 tab |-> [t \in Tables |-> Seen(@.tab[t])],
                 pte |-> [pg \in Pages |-> Seen(@.pte[pg])]]]]>>
=============================================================================
