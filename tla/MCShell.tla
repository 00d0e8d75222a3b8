------------------------------- MODULE MCShell -------------------------------
(***************************************************************************)
(* Lines for the instance of Shell: besides the short ones, pipelines of   *)
(* three, blocks, redirections and jobs in the background.                 *)
(***************************************************************************)
EXTENDS Shell

\* Words are told apart by where they stand; the first may be cd.
MCWords == <<{"w1", "cd"}, {"w2"}, {"w3"}, {"w4"}, {"w5"}, {"w6"}, {"w7"}, {"w8"},
             {"w9"}, {"w10"}, {"w11"}, {"w12"}>>

Long ==
  {<<"w1", "|", "w3", "|", "w5">>,
   <<"w1", "w2", ">", "w4", "<", "w6", "+", "w8">>,
   <<"w1", ";", "w3", "|", "w5", "&">>,
   <<"(", "w2", ";", "w4", ")", "|", "w7">>,
   <<"w1", "|", "(", "w4", "|", "w6", ")", ">", "w9", "&", ";", "w12">>}

WhileBusy == {<<"w1", "|", "w3">>}
=============================================================================
