-------------------------- MODULE MCExecutorSession --------------------------
(* Three names, two executors, and batches of up to three keys: a batch can *)
(* name the same key twice, and can fail at its first, second or third key  *)
(* because of the other executor, of an earlier life of its own, or of      *)
(* itself.                                                                  *)
EXTENDS BatchLoop

CONSTANTS k1, k2, k3, s1, s2

MCKeys == {k1, k2, k3}
MCSessions == {s1, s2}
MCBatches == {<<k1>>, <<k2>>, <<k3>>, <<k1, k2>>, <<k2, k1>>, <<k1, k1>>, <<k1, k2, k3>>}
=============================================================================
