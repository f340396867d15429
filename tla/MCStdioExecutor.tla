--------------------------- MODULE MCStdioExecutor ---------------------------
(* Two executions and a read.  Pipes of two messages hold up each writer at *)
(* times, pipes of one can hold up both for good.                           *)
EXTENDS StdioExecutor

CONSTANTS e1, e2, r1

MCOps == {e1, e2, r1}
MCReads == {r1}
=============================================================================
