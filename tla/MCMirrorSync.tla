---------------------------- MODULE MCMirrorSync ----------------------------
(* Two keys with two definitions each, four revisions and one retry: a key *)
(* can be registered, dropped and registered again with another definition *)
(* while events of the first registration are still under way.             *)
EXTENDS MirrorSync

CONSTANTS k1, k2, d1, d2

MCKeys == {k1, k2}
MCDefs == {d1, d2}
=============================================================================
