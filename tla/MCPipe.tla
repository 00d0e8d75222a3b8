------------------------------- MODULE MCPipe -------------------------------
(***************************************************************************)
(* Instances of Pipe for model checking.                                   *)
(***************************************************************************)
EXTENDS Pipe

\* The counters wrap after two buffers, stream positions after one byte more
\* than a buffer: the smallest ranges that tell the contents apart.
TwoBuffers == 2 * PIPESIZE
BufferAndOne == PIPESIZE + 1
=============================================================================
