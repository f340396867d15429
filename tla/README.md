# naia-relay in TLA+

naia-relay stands between MCP clients (language-model front ends) and tool
executors (programs that implement tools). It runs as one process, the **direct**
relay, or as two, a **client** relay near the MCP client and a **host** relay near
the executor, joined by the relay link. The package is one asyncio event loop per
process: concurrency is that of coroutines, and a step of a model is what runs
between two suspension points (`await`s that really suspend).

Paths below are relative to the repository; `relay.py` is
`src/naia_relay/runtime/relay.py`.

## 1. Inventory

| component | state | operations | talks to |
| --- | --- | --- | --- |
| Runtime base (`relay.py`, `BaseRelayRuntime`) | `started`, the gauges of `RuntimeStats`, the limits, `_requests_drained`, the two listeners | `start`, `_guard_request`, `_finish_request`, `_with_timeout`, `stop` | its HTTP and TEP listeners |
| Direct relay (`DirectRelayRuntime`) | an authoritative registry | `handle_mcp_message`, `handle_tep_message`, the local answers | MCP handler, TEP handler |
| Host relay (`HostRelayRuntime`) | an authoritative registry, `_executor_transport`, `_executor_send_lock`, two dictionaries of futures | `handle_rlp_message`, `_rlp_execute_tool`, `_rlp_read_resource`, `_rlp_get_prompt`, `attach_`/`detach_executor_transport`, `handle_executor_stdio_message`, `stop` | executors over TEP, client relays over RLP |
| Client relay (`ClientRelayRuntime`) | a mirrored registry, `_upstream_requester`, the host's session in its RLP handler | `_auto_bind_tcp_relay_link`, `bind_via_requester`, `call_tool`, `read_resource`, `get_prompt`, `on_rlp_disconnect` | the host, one TCP connection per message |
| Registry store (`registry/store.py`) | revision, stale mark, tools, resources, prompts | register, deregister, get, snapshot, replace, mark | all handlers |
| RLP handler (`protocols/rlp/handler.py`) | the registry, the session, bound clients | `bind_session`, snapshots, incremental events, the three operations | both relays |
| TEP handler (`protocols/tep/handler.py`) | the registry | registration and deregistration in batches | direct and host relay |
| MCP handler (`protocols/mcp/handler.py`) | `initialized`, `log_level` | lists, `tools/call`, `resources/read`, `prompts/get` | direct and client relay |
| Transports (`transports/`) | streams | `send`, `receive`, framing by line or length | everything |
| Serve loops (`relay.py`, 1147 on) | none | `serve_mcp_stdio`, `serve_tep_stdio`: read a message, handle it, answer; the relay stops with its peer | MCP client or executor on the standard streams |
| Example executor (`examples/tool-executors/python/host_stdio_executor.py`) | none | register, then answer each message | a host relay, on the standard streams |
| Configuration, command line, logging, trackers, readiness file | fixed at start, or output | | |

What is hard here, and what makes each part correct:

* **The host's bridge.** Requests share one lock and one executor connection, which
  can be replaced, break and end at each suspension. A request must get its own
  executor's verdict, once, and must end; nobody may wait for an executor that is
  gone; an old connection's reader must not detach its successor.
* **Admission and stop.** The counts must survive timeouts, exceptions and
  cancellations; `stop` runs beside the requests it waits for, and beside new ones.
* **The mirror.** Events carry revisions and may be lost, repeated or late, while a
  bind fetches a snapshot. The mirror must never hold what no host ever held.
* **Batches.** An exception leaves half of a batch behind; the revision must still
  tell a mirror how much has changed.
* **The client's link.** The host behind an address may be another process at every
  connection. A mirror in service must belong to the session in the client's calls.
* **Standard streams.** A write to a full pipe stops the whole process, timers
  included, and two processes may do so to each other. The relay reads one message at
  a time and ends with its peer: what it has read must have been answered, in order,
  by what the host did.

`PROJECT.json` lists 40 hazards at their lines, each with the properties that cover it.

## 2. Modules

| module | models | composed with |
| --- | --- | --- |
| `ForwardedCall` | the promise about one forwarded operation (abstract) | |
| `HostExecutor` | the host's executor bridge | implements `ForwardedCall` |
| `RelayLifecycle` | admission, completion, `stop` | |
| `Registry` | the store, as operators on a record | extended by the next three |
| `MirrorSync` | host registry, mirror, events, snapshots, bind | `Registry`; implements `VersionedRegister` |
| `VersionedRegister` | the promise of a mirror to its readers (abstract) | |
| `ExecutorSession` | executors' batches and connections, where calls go | `Registry` |
| `BatchLoop` | the loops over a batch as the code writes them | compared with `ExecutorSession` |
| `ClientLink` | hello, bind, forwarded calls, replaced hosts | |
| `StdioExecutor` | `serve_tep_stdio` and the example executor, over two pipes | implements `ForwardedCall` |
| `McpStdio` | `serve_mcp_stdio` and its MCP client | the host behind it is `ForwardedCall` |

The `MC` modules give the constants their values for TLC, the `Proofs` modules hold
the theorems.

### HostExecutor

An operation `o` is one RLP request on a connection of its own, as
`_tcp_round_trip` opens one per message. `pc[o]` is where its coroutine is:
*accepted* (connection there, request not yet read), *queued* (waiting for
`_executor_send_lock`), *sending* (in `drain()` with the lock), *waiting* (for its
future), *done*. `pending` is the set of keys in `_pending_executor_requests` and
`_pending_executor_executions`; `Reads` are the operations of the first. `Forward`
is the part of `_rlp_execute_tool` before the first suspension; it takes the lock
at once only if it is free and nobody queues, as `asyncio.Lock` does. `Write`
re-reads `executorTransport` under the lock. The outer timer can fire at each
point; in *queued* and *sending* the entry stays in `pending`, because the send is
outside the `try` that pops it. An executor may answer any number of times, on the
connection that carried the request or on another, with any of the message types
`handle_executor_stdio_message` knows (`Verdict`).

Abstracted: what requests and answers contain; message and execution identifiers,
which are fresh, so that operations stand for them. `wait_closed()` of asyncio's
server returned at once up to CPython 3.11 and waits for connections from 3.12.1 on;
the package allows both, so `WaitClosedBlocks` is a constant. The runs take it
FALSE, which allows every behaviour that TRUE allows; the theorems hold for both.

`EveryRequestEnds` starts at a request that has been read; the time a connection
spends without sending one is nobody's duty.

### RelayLifecycle

`active` and `queueDepth` are the gauges, `drained` the event. `stopper` is where
the coroutine `stop` is. An event set while `stop` waits makes it *woken*: it runs
later, and a request may be admitted first. `FinishRequest` is the `finally` of
`handle_mcp_message`, whatever ended the handler. The HTTP listener is open until
`cleanup()`, so the model admits requests to a stopping relay, as the code does.

### Registry, MirrorSync, ExecutorSession

A registry is a record of revision, stale mark and a function from keys to
definitions or `Absent`; the three kinds are handled alike, so a key stands for a
kind and a name. `MirrorSync` keeps in `history` what the host held at each
revision; an event of revision `n` is the difference between `history[n-1]` and
`history[n]`. Nothing in the package sends events or snapshot messages, and only
tests deliver them to a client relay: their sender is external, and is taken to send
what the host held, at any time, in any order, any number of times. The host's store
registers and deregisters and cannot replace a definition; but the protocol has the
`*_updated` events, so the sender is also taken to replace one in a single revision
(`HostUpdate`). The mirror applies such an event, for a name it holds, as a removal and
a registration, two revisions (`Upsert`), and is then one revision ahead of its
contents. `inStep` is a history variable: no such event has been applied since the last
snapshot. `VersionedRegister` says what is left when all of that is forgotten: a log of
versions that only grows, and a reader that holds one of them, whole, under its own
number, and with a mark that goes only when it takes a version. It may go back to an
earlier version, as a late snapshot makes it, and it may lose its place where the next
version replaces an entry of its own; it then promises nothing until its next version.

In `ExecutorSession` a batch takes the longest prefix of its keys that it can
(`Registers`, `Deregisters`) and sets them all at once (`After`); `BatchLoop` writes
the loops of `handle_message` as recursive functions over the keys read so far, and
states that the two agree in each reachable state, for each batch, failures half way
included. The theorems on batches use the closed form, and it is proved that the loops
have it. A `ValueError` becomes an error answer, a
`KeyError` ends the connection. `executorTransport` is the connection that the host
would write a call to.

### ClientLink

The mirror remembers which host's snapshot it holds (`mirror.session`), and
`upstream` is the session that the client puts into its messages. `HostRestarts`
replaces the host by one with a new session and an empty registry; the connection of
the next message reaches the new one. In the package `_auto_bind_tcp_relay_link`
runs once, at start; `bind_via_requester` is public and may be called again, and the
model binds again at will, one bind at a time. The HTTP listener starts before the
bind, so calls run beside it.

### StdioExecutor

The two processes are one thread each. `toExecutor` and `toRelay` are the pipes, in
messages; a message that does not fit is in the hands of its writer (`writing`,
`answering`). `StdioTransportAdapter.send` writes to `sys.stdout.buffer` and flushes,
so while `writing` is not empty nothing runs in the relay, no timer either. Requests
that are ready in the same iteration of its event loop are written within it, so the
relay reads nothing ahead of a write. The executor is `main()` of the example: it takes
whatever it reads next for the answer to a registration message (`TakeAck`), and it
refuses what it does not know, the relay's acknowledgement of its own results included
(`nack`), which the relay then drops. A message is told apart by its kind and its
operation; how many bytes it has is abstracted to the number of messages that fit.

### McpStdio

`input` is what the client has written, a message being its place in it; `read` is how
much the relay has taken, and `answers` what it has written. The loop handles one
message at a time, so its position is one variable. The host is not modelled again: its
variables are those of `ForwardedCall`, and it may do what that module allows, to any
call it was sent, also after the relay has given the call up. Of the notifications
the handler knows one, `notifications/initialized`, and is silent (`TakeInitialized`);
all others it answers as methods it does not know, with an error whose id is null
(`AnswerNotification`, *anonymous*). `garbage` stands for
whatever makes `receive` raise: no JSON, an empty line, a frame over the limit of the
framer or over the 64 KiB of `asyncio.StreamReader`.

## 3. Runs

All passing runs finish within about a minute on two cores.

| run | instance | checks |
| --- | --- | --- |
| `host_executor` | an execution, a read, two connections, `wait_closed` returning at once; 290 324 states | `NoOrphanWait`, `AnsweredAreForgotten`, `DetachedOnlyByItsOwnEnd`, `EveryRequestEnds`, `ImplementsForwardedCall` |
| `relay_lifecycle` | three requests, one executor, limits 1 and 2 in all pairs; 4 795 states | `CountsAreExact`, `DrainedMeansIdle`, `StopHonoursDrain`, `StopReturns` |
| `mirror_sync` | two keys, two definitions, four revisions, one retry; 91 410 states | `MirrorIsAPastHost`, `EventsCarryOneVersion`, `ImplementsVersionedRegister`, `BindEnds` |
| `executor_session` | three names, two executors, seven batches, six revisions; 4 662 states | `ClosedFormIsTheLoop`, `EachRevisionIsOneChange`, `OkIsWhole`, `FirstRegistrationHolds` |
| `client_link` | two hosts, two tools, two calls, one retry; 568 152 states | `MirrorIsUpstreams`, `ForwardedOnlyWhenBound`, `CallsEnd` |
| `stdio_executor` | two executions, a read, pipes of two messages; 25 092 states | `NoWedge`, `LostOnlyInRegistration`, `ImplementsForwardedCall`, `ExchangesEnd`, `EveryRequestEnds` |
| `mcp_stdio` | three messages of seven kinds; 33 663 states | `AnswersFollowRequests`, `AnswersMatchTheHost`, `EveryMessageIsServed` |

Each run checks its module's `TypeOK` too.

Why these bounds. Two operations and two connections are what the lock and the
replacement of a connection are about: one operation holds the lock while the other
queues, on one connection or one each. Three requests against limits of two fill the
relay and leave one to arrive during the drain. Four revisions let a key be
registered, dropped and registered anew while events of its first life are under
way, and a definition be replaced twice. Batches of three can fail at each position, against another executor, an
earlier life of the same one, or themselves. Two hosts suffice for a client that
speaks to one and reaches the other; sessions are only compared. Pipes of two messages
fill up under three operations and the registration, and hold up each writer at times;
pipes of one are too small for three operations, which is what `stdio_wedge` shows.
Three messages over MCP let a call that the client was told has failed be open at the
host beside the next call, before the input ends; four messages pass as well
(685 343 states). `MaxLimit`, `MaxRevision`, `MaxSessions`, `MaxMessages`,
`ReconnectAttempts` and `Capacity` are the bounds; revisions, sessions and messages are
unbounded in the code, the limits and attempts are configuration, and a pipe holds
64 KiB on Linux, less than one message may have.

Deadlock is checked in `executor_session` and `client_link`. The other systems
may stop: all operations done and all connections ended, a stopped relay, or a host
at its last revision.

Fairness. `RequestTimeout` is weakly fair for each request (`asyncio.wait_for`), in
both modules that have it; in `RelayLifecycle` the ends of requests (their timeout)
and the steps of `stop`; in `MirrorSync` the end of a bind attempt (its timeout) or
the snapshot's installation. In `McpStdio` the steps of the loop that wait for nobody,
and the timer. In `StdioExecutor` both processes: the relay's loop and timers while no
write holds them up, a write that has room, and the executor's loop; the executor may
crash at any time and need not. Elsewhere nothing is assumed of executors, hosts,
sockets or the holder of the send lock.

### Where the documents say something else

Five runs end in a violation, each of something a document says. They are the
`findings` of `PROJECT.json`, with the quotations.

| run | the code |
| --- | --- |
| `echo_after_disconnect` | answers a call itself, with status ok, when its executor has gone |
| `stop_blocks` | waits in `stop` for executors that nobody disconnects |
| `misrouted` | sends every call to the executor that connected last, whoever owns the tool |
| `stdio_wedge` | blocks its event loop, timeouts included, in a write to the executor |
| `wrong_session` | serves a call for another session than its own |

Other divergences met while modelling, without a run of their own:

* a stopping relay still admits requests (SPEC.md:582);
* an operation whose connection has been replaced is not failed when that connection
  ends, but waits for its timeout;
* the tools of an executor stay registered after its connection has ended
  (SPEC.md:611, 666), and any executor may deregister those of another;
* an event in sequence puts a stale mirror back in service, whatever had made it stale
  (SPEC.md:1543);
* an update in sequence of a name the mirror holds (`tool_updated` and its like) counts
  as two revisions, because the mirror deregisters and registers
  (`rlp/handler.py:288-292`), where the host counts one (SPEC.md:685, 1540-1543,
  doc/rlp-protocol.md:540). The mirror is then one revision ahead of its contents. It
  takes the next event for a gap and goes stale; the one after that it applies as in
  sequence, which puts it back in service without the change it skipped; and a removal that is in
  sequence for it may be of a name it does not have, which raises `KeyError` when the
  stale mark has gone already (`rlp/handler.py:112`). The next snapshot repairs all of
  this. `MirrorIsAPastHost` and `EventsCarryOneVersion` say how far the mirror can be
  trusted: exactly until the first such event, which is one too high itself;
* every notification but `notifications/initialized`, `notifications/cancelled` for one,
  is answered, with error -32601 and a null id (`mcp/handler.py:138-139`); JSON-RPC and
  MCP, whose semantics SPEC.md:211 and 265-267 make binding, have notifications
  unanswered. `AnswersFollowRequests` says which messages draw an answer here;
* a connection to the host that is lost leaves the mirror in service (SPEC.md:1533);
  `on_rlp_disconnect` is called by nothing in the package;
* nothing in the package sends the incremental events (SPEC.md:679, 685);
* a malformed or oversized frame on a standard stream ends the loop, and the relay,
  with no error to its sender (SPEC.md:1575);
* a request timeout, or an exception of the handler outside its `try`, ends a relay on
  standard streams instead of becoming an MCP error (SPEC.md:1788).

## 4. Proofs

The theorems hold for all values of the constants, under the named assumptions of
the modules (finite sets of operations and requests, bounds that are numbers,
distinct markers).

* **HostExecutorProofs.** `TypeCorrect`. `NobodyWaitsForNobody`: `NoOrphanWait` alone
  is not inductive. The detach fails exactly the futures in `pending`, so it needs
  that every request in flight is in `pending`; and `stop` forgets the transport
  without failing anything, so its step needs that no operation is in flight (where
  `wait_closed` waits) or that the property excepts a stopped host (where it does
  not). `OneVerdictPerCall`: the steps map to steps of `ForwardedCall` or leave
  its variables alone. A detach settles a whole set at once, and the last iteration of
  `serve_tep_stdio` may settle one operation by the executor's message and all others
  as disconnected; so `Settle` of the abstract module takes a set and a verdict for
  each of its members. `AnsweredLeaveNothing` and `NobodyElseDetaches`.
* **RelayLifecycleProofs.** One inductive invariant: the counts equal the cardinality
  of the running requests, the event agrees with it, the refusals imply the order of
  the limits, and a stop that is past its drain without giving up has nothing left of
  what it owed. `TypeCorrect`, `ExactCounts`, `EventIsExact`,
  `SlowConsumerIsASecondLimit` (about `SlowConsumerNeedsLowerLimit`, which no run
  checks: it follows from the counts) and `DrainIsHonoured` follow.
* **MirrorSyncProofs.** The mirror is exact only if each event determines the next
  state: the invariant says that consecutive revisions differ in one key (`OneChange`),
  and that the bind's answer under way is a past state too (`ReplyIsAPastHost`).
  `EventApplies` then says what an event makes of a mirror in step: the next version,
  under its number or, for a definition replaced, one too high. `TypeCorrect`,
  `MirrorIsExact`, `EventsCarryVersions`. `MirrorIsAReader`: with that invariant a step
  of the host is a `Write`, a step of the mirror a `Read`, a `Mark` or, for a definition
  replaced, `Lose`; out of step it may `Wander`.
* **ClientLinkProofs.** The invariant adds that an answer to a bind comes from the
  session that was asked for (`ReplyIsUpstreams`), and that without a standing bind
  the mirror is stale or empty (`UnboundServesNothing`). `TypeCorrect`,
  `MirrorOfTheBoundSession`, `CallsNeedABind`.

* **ExecutorSessionProofs.** A prefix that a batch can take has no repetitions, so it
  names as many keys as it has entries (`DistinctPrefixCounts`), and each of them
  changes: `RevisionsAreExact` is that, for both kinds of batch. `TypeCorrect`,
  `OkMeansWhole` and `FirstComeFirstKept`.
* **StdioExecutorProofs.** `PipesWithRoomNeverWedge`: two processes that are stuck have
  filled both pipes and hold one message each, two more than the pipes hold. The
  invariant bounds the traffic: each operation that has been forwarded has at most one
  message under way, and the registration has one (`TrafficIsBounded`). An
  acknowledgement takes the place of a result, a refusal the place of a request, so no
  step but `Forward` adds a message, and `Forward` takes an idle operation away.
  `RegistrationAloneLoses` needs that the relay writes requests and acknowledgements
  only, that an operation is held up exactly when the write is its own request, and
  that no future is set before its request is written (`RequestInv`); and that the
  executor writes no request (`AnswersInv`), so that whatever the relay reads settles
  the operation it is about. What is lost is then lost by `TakeAck`, which takes one
  message and happens twice.
  `OneVerdictPerCall` maps the steps to those of `ForwardedCall`.
  `NothingGoesOnForEver` is the safety half of `ExchangesEnd`: `Work`, a number made of
  the messages under way (how many places each has to go through, and whether its kind
  still draws another), the operations that have not been forwarded or have not ended,
  and the stages of the executor, gets smaller with every step. What fairness adds, that a
  step is taken while one can be, is left to TLC. No run checks this property itself;
  TLC agrees with it on the instance of `stdio_executor`.
* **BatchLoopProofs.** `LoopsHaveClosedForms`: the recursive functions of `BatchLoop`
  leave what `ExecutorSession` says in closed form. Where one would use induction over
  the batch, the proof takes the least counterexample (`LeastNumber`, from `WFMin` and
  the order of the numbers): the closed form of each prefix satisfies the equations of
  the loop, a function that does exists, so the loop's own function satisfies them
  too, and two functions that do cannot first differ anywhere (`SameLoop`). The longest
  prefix that can be taken exists by `GreatestNumber`. It needs that the registry here is
  never stale, since a registration clears the mark and an empty batch does not.
* **McpStdioProofs.** The order of answers needs that a message being handled has none
  yet (`HandledIsUnanswered`); their agreement with the host needs that what is open
  there was forwarded, and is being handled or was answered with an error
  (`ForwardedAreCalls`), which must be said of calls the host has not yet accepted too.
  `TypeCorrect`, `AnswersComeInOrder`, `ResultsAreTheHosts`.

Only model-checked: the liveness properties (the provers here do not reason about
fairness and `ENABLED`). Every invariant and every action property that a run checks,
and all three refinements, are proved.

## 5. Not modelled

HTTP, configuration, command line, logging, trackers and sessions (written at start,
consulted by nobody), the readiness file: pure I/O, sequential, or without effect on
behaviour. Statistics are left out unless they limit something; the set of bound clients
is one, which nothing acts on. Heartbeats only write a time that nothing acts on. The
length-prefixed framer is used by nothing. `start` of a runtime that runs already is
left out: the package starts each runtime once. That a write to standard output blocks
the relay is in `StdioExecutor` and left out of `McpStdio`, whose client is taken to
read. `call_tool` makes a result of an error whose details carry one
(`relay.py:1031-1035`); this host sends none, so `McpStdio` has no such answer.

## 6. Plan

Written in the order of what matters most: bridge, lifecycle, mirror, batches, link,
standard streams. What could follow:

1. `BridgedCall`: `ClientLink` and `HostExecutor` composed, one call from the MCP
   client to the executor and back, with both timers. `McpStdio` does so with
   `ForwardedCall` in place of the bridge, for one client.
2. Batches of `ExecutorSession` as the source of the host's revisions in `MirrorSync`,
   which has single registrations.
3. The sizes of frames: the limits of the framer, of the stream and of the pipe are
   three numbers in the code and one choice here.
