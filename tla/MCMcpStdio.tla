----------------------------- MODULE MCMcpStdio -----------------------------
(* Three messages of any kind, in any order: a call that is given up can be  *)
(* open at the host beside the next one, before the input ends or breaks.    *)
EXTENDS McpStdio
=============================================================================
