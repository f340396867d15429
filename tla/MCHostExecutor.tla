--------------------------- MODULE MCHostExecutor ---------------------------
(* An execution and a read over two executor connections: one operation can *)
(* hold the send lock while the other queues for it, and one connection can *)
(* replace the other.                                                       *)
EXTENDS HostExecutor

CONSTANTS e1, r1, x1, x2

MCOps == {e1, r1}
MCReads == {r1}
MCConns == {x1, x2}
=============================================================================
