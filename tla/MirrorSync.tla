----------------------------- MODULE MirrorSync -----------------------------
(* A client relay's mirror of one host's registry: the bind loop that      *)
(* fetches a snapshot (ClientRelayRuntime.bind_via_requester), and the     *)
(* messages the client handles (RLPHandler): incremental events, applied   *)
(* only in sequence, and snapshots.  They may be lost, repeated, delayed   *)
(* and reordered: any revision the host has reached may be delivered at    *)
(* any time.                                                               *)
EXTENDS Registry

CONSTANTS MaxRevision,       \* bound on the host's revision
          ReconnectAttempts  \* retries of a bind (relay.reconnect_attempts)

ASSUME BoundsAssumption == MaxRevision \in Nat /\ ReconnectAttempts \in Nat

VARIABLES host,     \* the host's registry
          history,  \* history[n]: what the host held at revision n
          mirror,   \* the client's registry
          bind,     \* bind_via_requester: "idle", "asking", "answered"
          attempt,  \* its loop variable
          reply,    \* the snapshot in the host's answer
          inStep    \* history: no in-place update applied since the last snapshot

hostVars == <<host, history>>
bindVars == <<bind, attempt, reply>>
vars == <<hostVars, mirror, bindVars, inStep>>

Init ==
  /\ host = EmptyRegistry
  /\ history = [n \in 0 .. MaxRevision |-> EmptyRegistry.defs]
  /\ mirror = EmptyRegistry
  /\ bind = "idle"
  /\ attempt = 0
  /\ reply = Snapshot(EmptyRegistry)
  /\ inStep = TRUE

-----------------------------------------------------------------------------
(* The host's registry changes, one revision for each change: the executor *)
(* registers and deregisters.  Its store cannot replace a definition; that  *)
(* the host may, and then sends *_updated, is what the protocol announces.  *)

ChangeHost(new) ==
  /\ host.rev < MaxRevision
  /\ host' = new
  /\ history' = [history EXCEPT ![new.rev] = new.defs]
  /\ UNCHANGED <<mirror, bindVars, inStep>>

HostRegister(k, d) == ~Has(host, k) /\ ChangeHost(Register(host, k, d))
HostDeregister(k) == Has(host, k) /\ ChangeHost(Deregister(host, k))

HostUpdate(k, d) ==
  /\ Has(host, k) /\ host.defs[k] # d
  /\ ChangeHost(Register(host, k, d))

-----------------------------------------------------------------------------
(* Incremental events and snapshots that arrive on their own.              *)

\* The change that led to revision n: a *_added or *_updated event carries the
\* key's new definition, a *_removed event the key alone.
Changed(n, k) == history[n][k] # history[n - 1][k]

\* The *_updated events among them.
InPlace(n) ==
  \E k \in Keys : Changed(n, k) /\ Absent \notin {history[n][k], history[n - 1][k]}

\* Mutant: any later event is applied.
MutLaterInSequence(n) == n > mirror.rev

\* Mutant: the latest event may be applied again.
MutRepeatInSequence(n) == n \in {mirror.rev, mirror.rev + 1}

InSequence(n) == n = mirror.rev + 1

\* An existing definition is deregistered first: two revisions for one event.
Upsert(reg, k, d) ==
  IF Has(reg, k) THEN Register(Deregister(reg, k), k, d) ELSE Register(reg, k, d)

\* A removal of an unknown key raises KeyError once the mirror is marked fresh.
Remove(reg, k) == IF Has(reg, k) THEN Deregister(reg, k) ELSE reg

ApplyEvent(n) ==
  \E k \in Keys :
    /\ Changed(n, k)
    /\ mirror' = IF history[n][k] = Absent
                 THEN Remove(MarkFresh(mirror), k)
                 ELSE Upsert(MarkFresh(mirror), k, history[n][k])

ReceiveEvent(n) ==
  /\ n \in 1 .. host.rev
  /\ IF InSequence(n) THEN ApplyEvent(n) ELSE mirror' = MarkStale(mirror)
  /\ inStep' = (inStep /\ ~(InSequence(n) /\ InPlace(n)))
  /\ UNCHANGED <<hostVars, bindVars>>

\* A snapshot message, bound or not, however old: it carries all three kinds.
ReceiveSnapshot(n) ==
  /\ n \in 0 .. host.rev
  /\ mirror' = ReplaceFromSnapshot([rev |-> n, defs |-> history[n]])
  /\ inStep' = TRUE
  /\ UNCHANGED <<hostVars, bindVars>>

-----------------------------------------------------------------------------
(* Binding.                                                                *)

\* A caller binds again whenever it likes, one bind at a time.
StartBind ==
  /\ bind = "idle"
  /\ bind' = "asking"
  /\ attempt' = 0
  /\ mirror' = MarkStale(mirror)
  /\ UNCHANGED <<hostVars, reply, inStep>>

HostAnswersBind ==
  /\ bind = "asking"
  /\ bind' = "answered"
  /\ reply' = Snapshot(host)
  /\ UNCHANGED <<hostVars, mirror, attempt, inStep>>

\* Mutant: the attempts are not counted.
MutRetryOrRaise ==
  /\ bind' = "asking"
  /\ UNCHANGED <<hostVars, attempt, reply>>

\* Mutant: one retry too many.
MutRetryOnceMore ==
  /\ IF attempt <= ReconnectAttempts
       THEN bind' = "asking" /\ attempt' = attempt + 1
       ELSE bind' = "idle" /\ attempt' = 0
  /\ UNCHANGED <<hostVars, reply>>

RetryOrRaise ==
  /\ IF attempt < ReconnectAttempts
       THEN bind' = "asking" /\ attempt' = attempt + 1
       ELSE bind' = "idle" /\ attempt' = 0
  /\ UNCHANGED <<hostVars, reply>>

\* The request or the answer is lost, or either times out.
BindAttemptFails ==
  /\ bind \in {"asking", "answered"}
  /\ RetryOrRaise
  /\ mirror' = MarkStale(mirror)
  /\ UNCHANGED inStep

\* An answer with status "error" leaves the mirror as it is.
BindRefused ==
  /\ bind = "asking"
  /\ RetryOrRaise
  /\ UNCHANGED <<mirror, inStep>>

\* Mutant: the revision is taken from a later answer than the definitions.
MutApplySnapshot ==
  /\ bind = "answered"
  /\ bind' = "idle"
  /\ attempt' = 0
  /\ mirror' = ReplaceFromSnapshot([reply EXCEPT !.rev = host.rev])
  /\ inStep' = TRUE
  /\ UNCHANGED <<hostVars, reply>>

ApplySnapshot ==
  /\ bind = "answered"
  /\ bind' = "idle"
  /\ attempt' = 0
  /\ mirror' = ReplaceFromSnapshot(reply)
  /\ inStep' = TRUE
  /\ UNCHANGED <<hostVars, reply>>

OnRlpDisconnect ==
  /\ mirror' = MarkStale(mirror)
  /\ UNCHANGED <<hostVars, bindVars, inStep>>

Next ==
  \/ \E k \in Keys : HostDeregister(k)
  \/ \E k \in Keys, d \in Defs : HostRegister(k, d) \/ HostUpdate(k, d)
  \/ \E n \in 1 .. MaxRevision : ReceiveEvent(n)
  \/ \E n \in 0 .. MaxRevision : ReceiveSnapshot(n)
  \/ StartBind
  \/ HostAnswersBind
  \/ BindAttemptFails
  \/ BindRefused
  \/ ApplySnapshot
  \/ OnRlpDisconnect

Spec == Init /\ [][Next]_vars

\* Each attempt has its timeout, and the client's coroutine is resumed.
FairSpec == Spec /\ WF_vars(BindAttemptFails \/ ApplySnapshot)

-----------------------------------------------------------------------------
(* Properties.                                                             *)

TypeOK ==
  /\ host \in Registries
  /\ host.rev <= MaxRevision
  /\ history \in [0 .. MaxRevision -> Contents]
  /\ mirror \in Registries
  /\ bind \in {"idle", "asking", "answered"}
  /\ attempt \in 0 .. ReconnectAttempts
  /\ reply \in [rev : Nat, defs : Contents]
  /\ inStep \in BOOLEAN

\* Stale or not, the mirror holds exactly what the host held at the revision
\* the mirror claims, whatever was lost, repeated or reordered on the way, until
\* it applies an in-place update; a snapshot repairs what that one breaks.  The
\* mirror never counts further ahead of the host than by one.
MirrorIsAPastHost ==
  /\ mirror.rev <= host.rev + 1
  /\ inStep => mirror.rev <= host.rev /\ mirror.defs = history[mirror.rev]

\* What an event may do to a mirror in step: carry it to the host's next version,
\* under the number of that version (one too high if the version replaces a
\* definition, and never otherwise), or set the mark and nothing else.  So a
\* stale mark is cleared only together with a version, and no removal meets a
\* name the mirror does not have.
EventsCarryOneVersion ==
  [][\A n \in 1 .. MaxRevision :
       ReceiveEvent(n) /\ inStep =>
         \/ mirror' = MarkStale(mirror)
         \/ /\ n = mirror.rev + 1
            /\ mirror'.rev = n + (IF InPlace(n) THEN 1 ELSE 0)
            /\ mirror'.defs = history[n]
            /\ ~mirror'.stale]_vars

\* The mirror is a reader of the host's versions: it takes them whole, with
\* their number, in a single step, and no version is ever rewritten.  It loses
\* its place only where the next version replaces a definition of its own.
Versions == INSTANCE VersionedRegister
  WITH Values <- Contents,
       Initial <- EmptyRegistry.defs,
       log <- [n \in 1 .. host.rev + 1 |-> history[n - 1]],
       claimed <- IF inStep THEN mirror.rev + 1 ELSE 0,
       held <- IF inStep THEN mirror.defs ELSE EmptyRegistry.defs,
       marked <- mirror.stale

ImplementsVersionedRegister == Versions!Spec

\* A bind ends, by a snapshot or by running out of attempts.
BindEnds == bind # "idle" ~> bind = "idle"
=============================================================================
