-------------------------- MODULE MCRelayLifecycle --------------------------
(* Three requests and one executor, under every pair of limits up to two:  *)
(* either limit can be the lower one, and a request can arrive at a full   *)
(* relay, while stop() drains, and after the drain.                        *)
EXTENDS RelayLifecycle

CONSTANTS r1, r2, r3, x1

MCReqs == {r1, r2, r3}
MCExecutors == {x1}
=============================================================================
