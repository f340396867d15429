--------------------------- MODULE ExecutorSession ---------------------------
(* What the executors of a direct or host relay do to its registry over    *)
(* their TCP connections (TEPHandler, and handle_client in                 *)
(* _start_tep_listener), and where a host relay would send a call.  A      *)
(* message carries a batch of keys of one kind and is handled without      *)
(* suspension, but a batch that fails half way is not undone.  A           *)
(* definition is told apart only by the executor session that registered   *)
(* it (owner_session_id): Defs are the executor sessions.                  *)
EXTENDS Registry, Sequences, FiniteSets

CONSTANTS Batches,      \* sequences of keys a message may carry
          MaxRevision,  \* bound on the registry's revision
          NoConn        \* _executor_transport is None

ASSUME BatchesAssumption ==
  /\ IsFiniteSet(Keys)
  /\ Batches \subseteq Seq(Keys)
  /\ MaxRevision \in Nat
  /\ NoConn \notin Defs

VARIABLES registry,
          link,    \* [Defs -> {"away", "open"}]
          executorTransport,  \* whose connection the host writes calls to
          answer   \* [Defs -> {"none", "ok", "error"}]: to the last message

vars == <<registry, link, executorTransport, answer>>

Init ==
  /\ registry = EmptyRegistry
  /\ link = [s \in Defs |-> "away"]
  /\ executorTransport = NoConn
  /\ answer = [s \in Defs |-> "none"]

-----------------------------------------------------------------------------
(* Batches.  The loop over the keys takes the longest prefix it can and     *)
(* then raises; BatchLoop is the loop itself.                              *)

Distinct(batch, n) == \A i, j \in 1 .. n : batch[i] = batch[j] => i = j

\* Mutant: what is registered already is registered anew.
MutCanRegister(batch, n) == Distinct(batch, n)

\* register_tool raises ValueError on a name that is taken, by an earlier key of
\* the same batch too.
CanRegister(batch, n) ==
  Distinct(batch, n) /\ \A i \in 1 .. n : ~Has(registry, batch[i])

\* deregister_tool raises KeyError on a name that is not there, and asks nobody
\* whose it is.
CanDeregister(batch, n) ==
  Distinct(batch, n) /\ \A i \in 1 .. n : Has(registry, batch[i])

\* How many keys of the batch the loop has handled when it ends or raises.
Registers(batch, n) ==
  CanRegister(batch, n) /\ (n < Len(batch) => ~CanRegister(batch, n + 1))
Deregisters(batch, n) ==
  CanDeregister(batch, n) /\ (n < Len(batch) => ~CanDeregister(batch, n + 1))

\* Mutant: the definitions of a batch that fails are put back, its revisions
\* are not.
MutAfter(batch, n, d) ==
  [registry EXCEPT !.rev = @ + n, !.defs = IF n < Len(batch) THEN @ ELSE
     [k \in Keys |-> IF \E i \in 1 .. n : batch[i] = k THEN d ELSE registry.defs[k]]]

\* Mutant: the caller counts each change once more.
MutAfterTwice(batch, n, d) ==
  [registry EXCEPT !.rev = @ + 2 * n,
     !.defs = [k \in Keys |-> IF \E i \in 1 .. n : batch[i] = k THEN d ELSE registry.defs[k]]]

\* The registry once the first n keys have the definition d.  The mark of a
\* store that is not a mirror is never set.
After(batch, n, d) ==
  [rev |-> registry.rev + n,
   stale |-> registry.stale,
   defs |-> [k \in Keys |-> IF \E i \in 1 .. n : batch[i] = k THEN d
                            ELSE registry.defs[k]]]

WithinBound(batch) == registry.rev + Len(batch) <= MaxRevision

-----------------------------------------------------------------------------
(* An executor's connection.                                               *)

\* attach_executor_transport: the connection that came last takes the calls.
ConnectExecutor(s) ==
  /\ link[s] = "away"
  /\ link' = [link EXCEPT ![s] = "open"]
  /\ executorTransport' = s
  /\ answer' = [answer EXCEPT ![s] = "none"]
  /\ UNCHANGED registry

\* The finally block of handle_client.  An older connection that is still open
\* is not attached again.
EndLoop(s) ==
  /\ link' = [link EXCEPT ![s] = "away"]
  /\ executorTransport' = IF executorTransport = s THEN NoConn ELSE executorTransport

\* Mutant: a name that is taken is left out, and the batch answered with ok.
MutVerdict(batch, n) == "ok"

\* handle_message_or_error turns the ValueError into an error response.
Verdict(batch, n) == IF n = Len(batch) THEN "ok" ELSE "error"

RegisterTools(s, batch) ==
  /\ link[s] = "open"
  /\ WithinBound(batch)
  /\ \E n \in 0 .. Len(batch) :
       /\ Registers(batch, n)
       /\ registry' = After(batch, n, s)
       /\ answer' = [answer EXCEPT ![s] = Verdict(batch, n)]
  /\ UNCHANGED <<link, executorTransport>>

DeregisterTools(s, batch) ==
  /\ link[s] = "open"
  /\ WithinBound(batch)
  /\ Deregisters(batch, Len(batch))
  /\ registry' = After(batch, Len(batch), Absent)
  /\ answer' = [answer EXCEPT ![s] = "ok"]
  /\ UNCHANGED <<link, executorTransport>>

\* The KeyError is nobody's: the connection's loop ends with no response.
DeregisterRaises(s, batch) ==
  /\ link[s] = "open"
  /\ WithinBound(batch)
  /\ \E n \in 0 .. Len(batch) :
       n < Len(batch) /\ Deregisters(batch, n) /\ registry' = After(batch, n, Absent)
  /\ EndLoop(s)
  /\ UNCHANGED answer

\* A payload that does not validate, or an unknown type, is answered with an
\* error; register_executor, heartbeat, shutdown and disconnect_notice with ok.
HandleOther(s) ==
  /\ link[s] = "open"
  /\ \E a \in {"ok", "error"} : answer' = [answer EXCEPT ![s] = a]
  /\ UNCHANGED <<registry, link, executorTransport>>

\* End of file, a frame that is too large or no JSON, a response that cannot be
\* sent: the registry is left as it is.
LeaveExecutor(s) ==
  /\ link[s] = "open"
  /\ EndLoop(s)
  /\ UNCHANGED <<registry, answer>>

Next ==
  \E s \in Defs :
    \/ ConnectExecutor(s)
    \/ \E batch \in Batches :
         RegisterTools(s, batch) \/ DeregisterTools(s, batch) \/ DeregisterRaises(s, batch)
    \/ HandleOther(s)
    \/ LeaveExecutor(s)

Spec == Init /\ [][Next]_vars

-----------------------------------------------------------------------------
(* Properties.                                                             *)

TypeOK ==
  /\ registry \in Registries
  /\ registry.rev <= MaxRevision
  /\ link \in [Defs -> {"away", "open"}]
  /\ executorTransport \in Defs \cup {NoConn}
  /\ answer \in [Defs -> {"none", "ok", "error"}]

\* The revision grows by exactly the number of definitions that change, in a
\* batch that fails half way as in one that succeeds: a mirror can tell from
\* the revision alone that it has missed something.
EachRevisionIsOneChange ==
  [][registry'.rev - registry.rev =
       Cardinality({k \in Keys : registry'.defs[k] # registry.defs[k]})]_vars

\* A batch answered with ok is registered to the executor that sent it, whole;
\* one that met a name already taken is never answered so.
OkIsWhole ==
  [][\A s \in Defs, batch \in Batches :
       RegisterTools(s, batch) /\ answer'[s] = "ok"
         => \A i \in 1 .. Len(batch) : registry'.defs[batch[i]] = s]_vars

\* The first registration of a name holds until the name is deregistered,
\* whatever other executors or reconnected ones try.
FirstRegistrationHolds ==
  [][\A k \in Keys : Has(registry, k) => registry'.defs[k] \in {registry.defs[k], Absent}]_vars

-----------------------------------------------------------------------------
(* What the repository's documents say, and the code does not do.          *)

\* _rlp_execute_tool and its like do not ask whose the tool is.
Route(k) == executorTransport

\* SPEC.md: "Relay sends an execution request to the owning Tool Executor", for
\* owners that are connected.
CallsGoToTheOwner ==
  \A k \in Keys :
    Has(registry, k) /\ link[registry.defs[k]] = "open" => Route(k) = registry.defs[k]
=============================================================================
