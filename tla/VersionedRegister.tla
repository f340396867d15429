-------------------------- MODULE VersionedRegister --------------------------
(* What a mirrored registry promises its readers: the writer appends        *)
(* versions and changes none; the reader holds one of them, whole, under    *)
(* its own number, and may move to any other, later or earlier.  Its mark   *)
(* goes only when it takes a version.  Where the version after its own      *)
(* replaces an entry, the reader may get lost: it then promises nothing     *)
(* until it takes a version again.                                          *)
EXTENDS Naturals, Sequences

CONSTANTS Values,  \* what a version may hold: functions from keys
          Absent,  \* a key without an entry
          Initial  \* the first version

VARIABLES log,     \* the versions, oldest first
          claimed, \* the version the reader says it has, Lost if it is lost
          held,    \* what the reader has
          marked   \* the reader knows that it may be out of date

vars == <<log, claimed, held, marked>>

Lost == 0

Init == log = <<Initial>> /\ claimed = 1 /\ held = Initial /\ marked = FALSE

Write ==
  /\ \E v \in Values : log' = Append(log, v)
  /\ UNCHANGED <<claimed, held, marked>>

Read ==
  /\ claimed' \in 1 .. Len(log)
  /\ held' = log[claimed']
  /\ marked' = FALSE
  /\ UNCHANGED log

Mark == marked' = TRUE /\ UNCHANGED <<log, claimed, held>>

Replaces(new, old) ==
  \E k \in DOMAIN old : new[k] # old[k] /\ Absent \notin {new[k], old[k]}

Lose ==
  /\ claimed # Lost /\ claimed < Len(log)
  /\ Replaces(log[claimed + 1], log[claimed])
  /\ claimed' = Lost /\ held' = Initial
  /\ marked' = FALSE
  /\ UNCHANGED log

Wander ==
  /\ claimed = Lost
  /\ marked' \in BOOLEAN
  /\ UNCHANGED <<log, claimed, held>>

Next == Write \/ Read \/ Mark \/ Lose \/ Wander

Spec == Init /\ [][Next]_vars
=============================================================================
