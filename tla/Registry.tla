------------------------------ MODULE Registry ------------------------------
(* The store of tools, resources and prompts every relay keeps             *)
(* (RegistryStore in registry/store.py): a revision, a stale mark and the  *)
(* definitions.  The three kinds are handled alike: a key stands for a     *)
(* kind and a name.                                                        *)
EXTENDS Naturals

CONSTANTS Keys,   \* what may be registered
          Defs,   \* definitions a key may have
          Absent  \* the key is not registered

ASSUME AbsentAssumption == Absent \notin Defs

Contents == [Keys -> Defs \cup {Absent}]

Registries == [rev : Nat, stale : BOOLEAN, defs : Contents]

EmptyRegistry == [rev |-> 0, stale |-> FALSE, defs |-> [k \in Keys |-> Absent]]

Has(reg, k) == reg.defs[k] # Absent

\* _bump_revision: every change also makes the store fresh.
Bump(reg) == [reg EXCEPT !.rev = @ + 1, !.stale = FALSE]

MarkStale(reg) == [reg EXCEPT !.stale = TRUE]
MarkFresh(reg) == [reg EXCEPT !.stale = FALSE]

\* A caller first makes sure that k is absent (else ValueError) ...
Register(reg, k, d) == Bump([reg EXCEPT !.defs[k] = d])

\* ... or present (else KeyError); the store is unchanged when it raises.
Deregister(reg, k) == Bump([reg EXCEPT !.defs[k] = Absent])

Snapshot(reg) == [rev |-> reg.rev, defs |-> reg.defs]

ReplaceFromSnapshot(snap) == [rev |-> snap.rev, stale |-> FALSE, defs |-> snap.defs]
=============================================================================
