----------------------------- MODULE BatchLoop -----------------------------
(* The loops over the keys of a batch as TEPHandler.handle_message writes  *)
(* them, for comparison with the closed form in ExecutorSession.           *)
EXTENDS ExecutorSession

RegisterNext(s, acc, k) ==
  IF acc.raised THEN acc
  ELSE IF Has(acc.reg, k) THEN [acc EXCEPT !.raised = TRUE]
  ELSE [acc EXCEPT !.reg = Register(@, k, s)]

DeregisterNext(acc, k) ==
  IF acc.raised THEN acc
  ELSE IF ~Has(acc.reg, k) THEN [acc EXCEPT !.raised = TRUE]
  ELSE [acc EXCEPT !.reg = Deregister(@, k)]

Entering == [reg |-> registry, raised |-> FALSE]

\* The registry, and whether a key has raised, after the first n keys.
RegisterLoop(s, batch) ==
  LET after[n \in 0 .. Len(batch)] ==
        IF n = 0 THEN Entering ELSE RegisterNext(s, after[n - 1], batch[n])
  IN  after

DeregisterLoop(batch) ==
  LET after[n \in 0 .. Len(batch)] ==
        IF n = 0 THEN Entering ELSE DeregisterNext(after[n - 1], batch[n])
  IN  after

RegisterAll(s, batch) == RegisterLoop(s, batch)[Len(batch)]

DeregisterAll(batch) == DeregisterLoop(batch)[Len(batch)]

\* Whatever the registry holds, a batch has a closed form, and it is what the
\* loop over the keys does, its failure half way included.
ClosedFormIsTheLoop ==
  \A batch \in Batches :
    /\ \E n \in 0 .. Len(batch) : Registers(batch, n)
    /\ \E n \in 0 .. Len(batch) : Deregisters(batch, n)
    /\ \A n \in 0 .. Len(batch) :
        /\ Registers(batch, n) =>
             \A s \in Defs : RegisterAll(s, batch)
                              = [reg |-> After(batch, n, s), raised |-> n < Len(batch)]
        /\ Deregisters(batch, n) =>
             DeregisterAll(batch)
               = [reg |-> After(batch, n, Absent), raised |-> n < Len(batch)]
=============================================================================
