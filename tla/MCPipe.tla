------------------------------- MODULE MCPipe -------------------------------
(* Small instance of Pipe for TLC: a process that creates the pipe and one  *)
(* that it forks, over a ring of two bytes.                                 *)
EXTENDS Pipe

CONSTANTS p1, p2

MCProcs == {p1, p2}
MCBytes == {0, 1}
MCOneProc == {p1}
=============================================================================
