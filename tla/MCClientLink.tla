---------------------------- MODULE MCClientLink ----------------------------
(* Two hosts, one after the other, two tools, two calls and one retry: a   *)
(* host can go between the hello and the bind, between a bind and its      *)
(* retry, and under a call, while the other call goes on.                  *)
EXTENDS ClientLink

CONSTANTS t1, t2, c1, c2

MCTools == {t1, t2}
MCCalls == {c1, c2}
=============================================================================
