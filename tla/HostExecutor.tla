---------------------------- MODULE HostExecutor ----------------------------
(* The host relay's bridge between RLP requests and the executor           *)
(* (HostRelayRuntime in runtime/relay.py).  Every execute_tool,            *)
(* read_resource or get_prompt of a client relay is a coroutine that       *)
(* registers a future, queues for the executor send lock, writes to the    *)
(* executor connection of that moment and waits for its future; the        *)
(* executor connections' reader tasks settle the futures.  An action is    *)
(* what runs between two suspension points of the event loop.              *)
EXTENDS Naturals, FiniteSets

CONSTANTS Ops,      \* RLP operations: each arrives once, on a connection of its own
          Reads,    \* those keyed by message_id (read_resource, get_prompt)
          Conns,    \* executor connections, in any order of arrival
          NoConn,   \* _executor_transport is None
          WaitClosedBlocks  \* Server.wait_closed waits for its connections
                            \* (CPython 3.12 on; 3.11 returns at once)

ASSUME ConstantsAssumption ==
  /\ IsFiniteSet(Ops)
  /\ Reads \subseteq Ops
  /\ NoConn \notin Conns
  /\ WaitClosedBlocks \in BOOLEAN

VARIABLES phase,     \* "up", then "closing" and "stopped" in HostRelayRuntime.stop
          conn,      \* [Conns -> {"new", "open", "down", "ended"}]: the peer is
                     \* gone when down, the reader task has left when ended
          executorTransport,  \* the connection requests are written to, or NoConn
          pc,        \* [Ops -> {"idle", "accepted", "queued", "sending",
                     \*          "waiting", "done"}]
          rank,      \* [Ops -> Nat]: order of arrival in the send lock's queue
          pending,   \* the keys of the two _pending_executor_* dictionaries
          future,    \* [Ops -> {"unset"} \cup Settled]
          wrote,     \* [Ops -> Conns \cup {NoConn}]: connection it was written to
          seen,      \* operations whose request an executor has received
          outcome    \* [Ops -> {"none"} \cup Outcomes]: how the RLP request ended

vars == <<phase, conn, executorTransport, pc, rank, pending, future, wrote,
          seen, outcome>>

Settled == {"result", "ack", "error", "disconnected"}

\* "closed": the RLP connection is dropped without a response.
Outcomes == Settled \cup {"echo", "send_failed", "closed"}

InFlight(o) == pc[o] \in {"queued", "sending", "waiting"}

Init ==
  /\ phase = "up"
  /\ conn = [c \in Conns |-> "new"]
  /\ executorTransport = NoConn
  /\ pc = [o \in Ops |-> "idle"]
  /\ rank = [o \in Ops |-> 0]
  /\ pending = {}
  /\ future = [o \in Ops |-> "unset"]
  /\ wrote = [o \in Ops |-> NoConn]
  /\ seen = {}
  /\ outcome = [o \in Ops |-> "none"]

-----------------------------------------------------------------------------
(* The forwarding coroutines.                                              *)

End(o, how) ==
  /\ pc' = [pc EXCEPT ![o] = "done"]
  /\ outcome' = [outcome EXCEPT ![o] = how]

\* send() on the connection attached now: the frame is buffered, the drain is
\* awaited under the lock.  A peer that has gone receives nothing.
Write(o) ==
  /\ executorTransport # NoConn
  /\ pc' = [pc EXCEPT ![o] = "sending"]
  /\ wrote' = [wrote EXCEPT ![o] = executorTransport]
  /\ seen' = IF conn[executorTransport] = "open" THEN seen \cup {o} ELSE seen
  /\ UNCHANGED outcome

\* send() raises before anything is written: the frame is too large, or the
\* transport has become None while the operation queued for the lock.  The
\* exception leaves before the try block that pops the pending entry.
CannotWrite(o) == End(o, "send_failed") /\ UNCHANGED <<wrote, seen>>

LockFree == \A p \in Ops : pc[p] # "sending"
Queued == {p \in Ops : pc[p] = "queued"}

\* A client relay's connection is accepted; its request has yet to be read.
AcceptRelayLink(o) ==
  /\ phase = "up"
  /\ pc[o] = "idle"
  /\ pc' = [pc EXCEPT ![o] = "accepted"]
  /\ UNCHANGED <<phase, conn, executorTransport, rank, pending, future, wrote, seen,
                 outcome>>

\* _ensure_started raises, and the connection's loop ends.
RefuseStopped(o) ==
  /\ phase = "stopped"
  /\ pc[o] = "accepted"
  /\ End(o, "closed")
  /\ UNCHANGED <<phase, conn, executorTransport, rank, pending, future, wrote, seen>>

\* No executor: the host answers the request itself, with status ok.
AnswerWithoutExecutor(o) ==
  /\ phase # "stopped"
  /\ pc[o] = "accepted"
  /\ executorTransport = NoConn
  /\ End(o, "echo")
  /\ UNCHANGED <<phase, conn, executorTransport, rank, pending, future, wrote, seen>>

\* _rlp_execute_tool, _rlp_read_resource, _rlp_get_prompt up to the first
\* suspension: asyncio.Lock is taken at once only if free and not waited for.
Forward(o) ==
  /\ phase # "stopped"
  /\ pc[o] = "accepted"
  /\ executorTransport # NoConn
  /\ pending' = pending \cup {o}
  /\ IF LockFree /\ Queued = {}
       THEN (Write(o) \/ CannotWrite(o)) /\ UNCHANGED rank
       ELSE /\ pc' = [pc EXCEPT ![o] = "queued"]
            /\ rank' = [rank EXCEPT ![o] = Cardinality({p \in Ops : rank[p] > 0}) + 1]
            /\ UNCHANGED <<wrote, seen, outcome>>
  /\ UNCHANGED <<phase, conn, executorTransport, future>>

\* The lock passes to the operation that has waited longest, which reads
\* _executor_transport again.
TakeSendLock(o) ==
  /\ o \in Queued
  /\ LockFree
  /\ \A p \in Queued : rank[o] <= rank[p]
  /\ Write(o) \/ CannotWrite(o)
  /\ UNCHANGED <<phase, conn, executorTransport, rank, pending, future>>

FinishSend(o) ==
  /\ pc[o] = "sending"
  /\ pc' = [pc EXCEPT ![o] = "waiting"]
  /\ UNCHANGED <<phase, conn, executorTransport, rank, pending, future, wrote,
                 seen, outcome>>

\* drain() raises: only on a connection whose peer is gone.
FailSend(o) ==
  /\ pc[o] = "sending"
  /\ conn[wrote[o]] \in {"down", "ended"}
  /\ End(o, "send_failed")
  /\ UNCHANGED <<phase, conn, executorTransport, rank, pending, future, wrote, seen>>

\* Mutant: the entry is popped only when the wait raises.
MutReturnAnswer(o) ==
  /\ pc[o] = "waiting"
  /\ future[o] # "unset"
  /\ End(o, future[o])
  /\ UNCHANGED <<phase, conn, executorTransport, rank, pending, future, wrote, seen>>

ReturnAnswer(o) ==
  /\ pc[o] = "waiting"
  /\ future[o] # "unset"
  /\ End(o, future[o])
  /\ pending' = pending \ {o}
  /\ UNCHANGED <<phase, conn, executorTransport, rank, future, wrote, seen>>

\* Mutant: only the wait for the future is under a timer.
MutRequestTimeout(o) ==
  /\ pc[o] = "waiting"
  /\ End(o, "closed")
  /\ pending' = pending \ {o}
  /\ UNCHANGED <<phase, conn, executorTransport, rank, future, wrote, seen>>

\* The timer handle_rlp_message starts.  The one around the future is armed
\* later for the same delay and never expires first.  The cancelled coroutine
\* pops its entry only from inside the try block, and the error raised ends the
\* RLP connection's loop.
RequestTimeout(o) ==
  /\ InFlight(o)
  /\ End(o, "closed")
  /\ pending' = IF pc[o] = "waiting" THEN pending \ {o} ELSE pending
  /\ UNCHANGED <<phase, conn, executorTransport, rank, future, wrote, seen>>

-----------------------------------------------------------------------------
(* The executor connections.                                               *)

\* attach_executor_transport replaces the connection attached before, and does
\* nothing about the operations waiting for it.
AttachExecutorTransport(c) ==
  /\ phase # "stopped"
  /\ conn[c] = "new"
  /\ conn' = [conn EXCEPT ![c] = "open"]
  /\ executorTransport' = c
  /\ UNCHANGED <<phase, pc, rank, pending, future, wrote, seen, outcome>>

PeerGone(c) ==
  /\ conn[c] = "open"
  /\ conn' = [conn EXCEPT ![c] = "down"]
  /\ UNCHANGED <<phase, executorTransport, pc, rank, pending, future, wrote, seen,
                 outcome>>

\* Mutant: the futures of reads and prompts are not failed.
MutFailPending ==
  [o \in Ops |-> IF o \in pending \ Reads /\ future[o] = "unset" THEN "disconnected"
                 ELSE future[o]]

FailPending ==
  [o \in Ops |-> IF o \in pending /\ future[o] = "unset" THEN "disconnected"
                 ELSE future[o]]

\* Mutant: a reader task detaches whatever connection is attached.
MutDetachExecutorTransport(c) ==
  /\ conn[c] \in {"open", "down"}
  /\ conn' = [conn EXCEPT ![c] = "ended"]
  /\ executorTransport' = NoConn
  /\ future' = FailPending
  /\ UNCHANGED <<phase, pc, rank, pending, wrote, seen, outcome>>

\* The reader task leaves its loop (end of file, a bad frame, an error of a
\* handler) and detaches: only the attached connection has an effect.
DetachExecutorTransport(c) ==
  /\ conn[c] \in {"open", "down"}
  /\ conn' = [conn EXCEPT ![c] = "ended"]
  /\ IF executorTransport = c
       THEN executorTransport' = NoConn /\ future' = FailPending
       ELSE UNCHANGED <<executorTransport, future>>
  /\ UNCHANGED <<phase, pc, rank, pending, wrote, seen, outcome>>

Answers == {"result", "error", "error_with_result", "ack", "refusal"}

\* Mutant: the executor's message is passed on as it came.
MutVerdict(o, m) == m

\* handle_executor_stdio_message: *_response messages ("ack", "refusal") look
\* up the futures of reads, execution_* those of executions.
Verdict(o, m) ==
  CASE m = "result" -> "result"
    [] m = "error" /\ o \notin Reads -> "error"
    [] m = "error_with_result" /\ o \notin Reads -> "result"
    [] m = "ack" /\ o \in Reads -> "ack"
    [] m = "refusal" /\ o \in Reads -> "error"
    [] OTHER -> "unset"

\* Mutant: a future already done is set again.
MutHandleExecutorMessage(c, o, m) ==
  /\ o \in seen
  /\ conn[c] = "open" \/ (conn[c] = "down" /\ c = wrote[o])
  /\ o \in pending
  /\ future' = [future EXCEPT ![o] = Verdict(o, m)]
  /\ UNCHANGED <<phase, conn, executorTransport, pc, rank, pending, wrote, seen,
                 outcome>>

\* An executor answers what it has received, at any time and any number of
\* times: on the connection that carried the request, where answers may still
\* be buffered when the peer has gone, or on another that is open.
HandleExecutorMessage(c, o, m) ==
  /\ o \in seen
  /\ conn[c] = "open" \/ (conn[c] = "down" /\ c = wrote[o])
  /\ o \in pending /\ future[o] = "unset"
  /\ future' = [future EXCEPT ![o] = Verdict(o, m)]
  /\ UNCHANGED <<phase, conn, executorTransport, pc, rank, pending, wrote, seen,
                 outcome>>

-----------------------------------------------------------------------------
(* HostRelayRuntime.stop.                                                  *)

StopListening ==
  /\ phase = "up"
  /\ phase' = "closing"
  /\ UNCHANGED <<conn, executorTransport, pc, rank, pending, future, wrote, seen,
                 outcome>>

\* The transport is forgotten, not detached: no future is failed.
StopForgetsTransport ==
  /\ phase = "closing"
  /\ WaitClosedBlocks => \A o \in Ops : pc[o] \in {"idle", "done"}
  /\ phase' = "stopped"
  /\ executorTransport' = NoConn
  /\ UNCHANGED <<conn, pc, rank, pending, future, wrote, seen, outcome>>

Next ==
  \/ \E o \in Ops :
       \/ AcceptRelayLink(o)
       \/ RefuseStopped(o)
       \/ AnswerWithoutExecutor(o)
       \/ Forward(o)
       \/ TakeSendLock(o)
       \/ FinishSend(o)
       \/ FailSend(o)
       \/ ReturnAnswer(o)
       \/ RequestTimeout(o)
  \/ \E c \in Conns :
       \/ AttachExecutorTransport(c)
       \/ PeerGone(c)
       \/ DetachExecutorTransport(c)
  \/ \E c \in Conns, o \in Ops, m \in Answers : HandleExecutorMessage(c, o, m)
  \/ StopListening
  \/ StopForgetsTransport

Spec == Init /\ [][Next]_vars

\* asyncio.wait_for cancels every request whose time is up.  Nothing is assumed
\* of executors, of the sockets' buffers, or of the lock.
FairSpec == Spec /\ \A o \in Ops : WF_vars(RequestTimeout(o))

-----------------------------------------------------------------------------
(* Properties.                                                             *)

TypeOK ==
  /\ phase \in {"up", "closing", "stopped"}
  /\ conn \in [Conns -> {"new", "open", "down", "ended"}]
  /\ executorTransport \in Conns \cup {NoConn}
  /\ pc \in [Ops -> {"idle", "accepted", "queued", "sending", "waiting", "done"}]
  /\ rank \in [Ops -> Nat]
  /\ pending \subseteq Ops
  /\ future \in [Ops -> {"unset"} \cup Settled]
  /\ wrote \in [Ops -> Conns \cup {NoConn}]
  /\ seen \subseteq Ops
  /\ outcome \in [Ops -> {"none"} \cup Outcomes]

\* While no executor is attached no request in flight still waits for one to
\* answer: the detach that removed the last executor has failed them all,
\* those queued for the lock or draining included.  Only a stop that does not
\* wait for the relay connections may leave some behind.
NoOrphanWait ==
  executorTransport = NoConn /\ (phase = "stopped" => WaitClosedBlocks) =>
    \A o \in Ops : InFlight(o) => future[o] # "unset"

\* A request answered by what settled its future leaves nothing behind in the
\* pending dictionaries; what is left behind belongs to requests in flight and
\* to those that never came to wait.
AnsweredAreForgotten ==
  \A o \in pending : InFlight(o) \/ outcome[o] \in {"send_failed", "closed"}

\* An executor stays attached until its own connection ends, another replaces
\* it, or the host stops: the end of a connection it has replaced, which comes
\* later, takes nothing away from it.
DetachedOnlyByItsOwnEnd ==
  [][executorTransport # NoConn /\ executorTransport' = NoConn
       => conn'[executorTransport] = "ended" \/ phase' = "stopped"]_vars

\* Whatever the executor, its connection or the holder of the send lock does,
\* a request that has been read ends (the timer covers the queue for the lock
\* and the drain as well as the wait).
EveryRequestEnds == \A o \in Ops : InFlight(o) ~> pc[o] = "done"

\* How an operation of this module appears in ForwardedCall: open from the time
\* its future is registered, over once the RLP request has ended.
CallStatus == [o \in Ops |-> IF InFlight(o) THEN "open"
                             ELSE IF pc[o] = "done" THEN "over" ELSE "idle"]
CallVerdict == [o \in Ops |-> IF InFlight(o) THEN future[o] ELSE "unset"]
ReplyOf(how) == IF how \in {"send_failed", "closed"} THEN "given up"
                ELSE IF how = "none" THEN "unset" ELSE how
CallReply == [o \in Ops |-> ReplyOf(outcome[o])]

Call == INSTANCE ForwardedCall WITH
  Verdicts <- Settled, NoVerdict <- "unset", Local <- "echo", GivenUp <- "given up",
  status <- CallStatus, verdict <- CallVerdict, reply <- CallReply

\* The host keeps ForwardedCall's promise: one verdict per operation, the
\* first, and no answer that is not that verdict.
ImplementsForwardedCall == Call!CallSpec

-----------------------------------------------------------------------------
(* What the repository's documents say, and the code does not do.          *)

\* SPEC.md: after an executor disconnects, calls to its tools "must fail with a
\* clear error".
CallsFailOnceDisconnected ==
  [][\A o \in Ops : outcome[o] = "none" /\ outcome'[o] = "echo"
       => \A c \in Conns : conn[c] # "ended"]_vars
=============================================================================
