--------------------------- MODULE RelayLifecycle ---------------------------
(* The life of a relay that serves MCP over HTTP and executors over TCP    *)
(* (BaseRelayRuntime in runtime/relay.py, with the handle_mcp_message the   *)
(* direct and the client relay share): admission of requests under the two *)
(* configured limits, their completion or timeout, and stop(), a coroutine *)
(* that runs beside the requests it drains.                                *)
EXTENDS Naturals, FiniteSets

CONSTANTS Reqs,       \* MCP requests; each is sent once
          Executors,  \* executors that may connect to the TCP listener
          MaxLimit,   \* bound on the two configured limits
          WaitClosedBlocks  \* Server.wait_closed waits for its connections
                            \* (CPython 3.12 on; 3.11 returns at once)

ASSUME ConstantsAssumption ==
  /\ IsFiniteSet(Reqs)
  /\ MaxLimit \in Nat \ {0}
  /\ WaitClosedBlocks \in BOOLEAN

VARIABLES maxInFlight, maxQueue,  \* the configuration, fixed in a behaviour
          started,
          active, queueDepth,     \* RuntimeStats.active_requests, queue_depth
          completed, slowRejections,
          drained,    \* the event _requests_drained
          req,        \* [Reqs -> {"idle", "running", "finished", "rejected"}]
          stopper,    \* where stop() is: see Stages
          owed,       \* the requests running when stop() was called
          hurried,    \* stop() gave up waiting for the drain
          executor    \* [Executors -> {"away", "attached", "gone"}]

limits == <<maxInFlight, maxQueue>>
counters == <<active, queueDepth, completed, slowRejections>>
vars == <<limits, started, counters, drained, req, stopper, owed, hurried, executor>>

\* "draining": in wait_for(_requests_drained.wait()); "woken": the event was set
\* and stop() has yet to run; "waitClosed": past tep_server.close(), in its
\* wait_closed(); "cleanup": in the HTTP runner's cleanup().
Stages == {"none", "draining", "woken", "waitClosed", "cleanup", "over"}

Running == {r \in Reqs : req[r] = "running"}

Init ==
  /\ maxInFlight \in 1 .. MaxLimit
  /\ maxQueue \in 1 .. MaxLimit
  /\ started = FALSE
  /\ active = 0 /\ queueDepth = 0
  /\ completed = 0 /\ slowRejections = 0
  /\ drained = TRUE
  /\ req = [r \in Reqs |-> "idle"]
  /\ stopper = "none"
  /\ owed = {}
  /\ hurried = FALSE
  /\ executor = [e \in Executors |-> "away"]

Start ==
  /\ ~started
  /\ stopper = "none"
  /\ started' = TRUE
  /\ UNCHANGED <<limits, counters, drained, req, stopper, owed, hurried, executor>>

-----------------------------------------------------------------------------
(* Requests.                                                               *)

\* cleanup() has closed the HTTP listener; up to then a request is served.
Listening == started /\ stopper \notin {"cleanup", "over"}

\* Mutant: the drained event stays set.
MutAdmit(r) ==
  /\ Listening
  /\ req[r] = "idle"
  /\ active < maxInFlight
  /\ queueDepth < maxQueue
  /\ active' = active + 1
  /\ queueDepth' = queueDepth + 1
  /\ req' = [req EXCEPT ![r] = "running"]
  /\ UNCHANGED <<limits, started, completed, slowRejections, drained, stopper, owed,
                 hurried, executor>>

\* _guard_request admits: no suspension point between the checks and the
\* counters, nor before the drained event is cleared.
Admit(r) ==
  /\ Listening
  /\ req[r] = "idle"
  /\ active < maxInFlight
  /\ queueDepth < maxQueue
  /\ active' = active + 1
  /\ queueDepth' = queueDepth + 1
  /\ drained' = FALSE
  /\ req' = [req EXCEPT ![r] = "running"]
  /\ UNCHANGED <<limits, started, completed, slowRejections, stopper, owed, hurried,
                 executor>>

RejectBackpressure(r) ==
  /\ Listening
  /\ req[r] = "idle"
  /\ active >= maxInFlight
  /\ req' = [req EXCEPT ![r] = "rejected"]
  /\ UNCHANGED <<limits, started, counters, drained, stopper, owed, hurried, executor>>

RejectSlowConsumer(r) ==
  /\ Listening
  /\ req[r] = "idle"
  /\ active < maxInFlight
  /\ queueDepth >= maxQueue
  /\ slowRejections' = slowRejections + 1
  /\ req' = [req EXCEPT ![r] = "rejected"]
  /\ UNCHANGED <<limits, started, active, queueDepth, completed, drained, stopper,
                 owed, hurried, executor>>

\* Mutant: a request is taken off the counts twice, without a floor.
MutPred(n) == n - 2

Pred(n) == IF n > 0 THEN n - 1 ELSE 0

Finish(r, queueDepthAfter, isLast) ==
  /\ req[r] = "running"
  /\ active' = Pred(active)
  /\ queueDepth' = queueDepthAfter
  /\ completed' = completed + 1
  /\ drained' = (drained \/ isLast)
  /\ stopper' = IF drained' /\ stopper = "draining" THEN "woken" ELSE stopper
  /\ req' = [req EXCEPT ![r] = "finished"]
  /\ UNCHANGED <<limits, started, slowRejections, owed, hurried, executor>>

\* Mutant: the queue depth is not given back.
MutFinishKeepsDepth(r) == Finish(r, queueDepth, Pred(active) = 0)

\* Mutant: the event is set by the first request to finish.
MutFinishSetsEvent(r) == Finish(r, Pred(queueDepth), TRUE)

\* The finally block: however the handler ended (a response, an exception, the
\* request's timeout, or cancellation by cleanup()) the request is taken off
\* the counts; the last one out sets the event, which wakes stop().
FinishRequest(r) == Finish(r, Pred(queueDepth), Pred(active) = 0)

-----------------------------------------------------------------------------
(* Executor connections (_start_tep_listener).                             *)

ConnectExecutor(e) ==
  /\ started
  /\ stopper \in {"none", "draining", "woken"}
  /\ executor[e] = "away"
  /\ executor' = [executor EXCEPT ![e] = "attached"]
  /\ UNCHANGED <<limits, started, counters, drained, req, stopper, owed, hurried>>

\* handle_client returns: the executor has closed its end or sent a bad frame,
\* or the relay is no longer started and a last message was handled.
LeaveExecutor(e) ==
  /\ executor[e] = "attached"
  /\ executor' = [executor EXCEPT ![e] = "gone"]
  /\ UNCHANGED <<limits, started, counters, drained, req, stopper, owed, hurried>>

-----------------------------------------------------------------------------
(* stop().                                                                 *)

\* The executor listener is closed, then its connections are awaited; where
\* there is nothing to await, cleanup() closes the HTTP listener in the same
\* step.
Attached == {e \in Executors : executor[e] = "attached"}
AfterDrain == IF WaitClosedBlocks /\ Attached # {} THEN "waitClosed" ELSE "cleanup"

Stop ==
  /\ started
  /\ stopper = "none"
  /\ stopper' = IF active > 0 THEN "draining" ELSE AfterDrain
  /\ owed' = Running
  /\ UNCHANGED <<limits, started, counters, drained, req, hurried, executor>>

StopProceeds ==
  /\ stopper = "woken"
  /\ stopper' = AfterDrain
  /\ UNCHANGED <<limits, started, counters, drained, req, owed, hurried, executor>>

StopGivesUpDraining ==
  /\ stopper = "draining"
  /\ stopper' = AfterDrain
  /\ hurried' = TRUE
  /\ UNCHANGED <<limits, started, counters, drained, req, owed, executor>>

\* Mutant: connections that have ended are awaited too.
MutTepServerClosed ==
  /\ stopper = "waitClosed"
  /\ \A e \in Executors : executor[e] = "away"
  /\ stopper' = "cleanup"
  /\ UNCHANGED <<limits, started, counters, drained, req, owed, hurried, executor>>

TepServerClosed ==
  /\ stopper = "waitClosed"
  /\ Attached = {}
  /\ stopper' = "cleanup"
  /\ UNCHANGED <<limits, started, counters, drained, req, owed, hurried, executor>>

\* cleanup() waits for the handlers, and cancels those that take too long.
StopEnds ==
  /\ stopper = "cleanup"
  /\ Running = {}
  /\ stopper' = "over"
  /\ started' = FALSE
  /\ UNCHANGED <<limits, counters, drained, req, owed, hurried, executor>>

Next ==
  \/ Start
  \/ \E r \in Reqs : \/ Admit(r)
                     \/ RejectBackpressure(r)
                     \/ RejectSlowConsumer(r)
                     \/ FinishRequest(r)
  \/ \E e \in Executors : ConnectExecutor(e) \/ LeaveExecutor(e)
  \/ Stop
  \/ StopProceeds
  \/ StopGivesUpDraining
  \/ TepServerClosed
  \/ StopEnds

Spec == Init /\ [][Next]_vars

\* Requests end by their timeout at the latest, and stop() is a coroutine the
\* event loop resumes.  An executor owes nobody its departure.
FairSpec ==
  /\ Spec
  /\ \A r \in Reqs : WF_vars(FinishRequest(r))
  /\ WF_vars(StopProceeds) /\ WF_vars(StopGivesUpDraining)
  /\ WF_vars(TepServerClosed) /\ WF_vars(StopEnds)

-----------------------------------------------------------------------------
(* Properties.                                                             *)

TypeOK ==
  /\ maxInFlight \in 1 .. MaxLimit /\ maxQueue \in 1 .. MaxLimit
  /\ started \in BOOLEAN /\ drained \in BOOLEAN /\ hurried \in BOOLEAN
  /\ active \in Nat /\ queueDepth \in Nat
  /\ completed \in Nat /\ slowRejections \in Nat
  /\ req \in [Reqs -> {"idle", "running", "finished", "rejected"}]
  /\ stopper \in Stages
  /\ owed \subseteq Reqs
  /\ executor \in [Executors -> {"away", "attached", "gone"}]

\* Both gauges count exactly the requests in flight, on every path out of
\* handle_mcp_message, and never reach below zero or above either limit.
CountsAreExact ==
  /\ active = Cardinality(Running)
  /\ queueDepth = active
  /\ active <= maxInFlight /\ active <= maxQueue

\* The event stop() waits for is set exactly when nothing is in flight.
DrainedMeansIdle == drained <=> Running = {}

\* The slow-consumer protection is a second limit on the same number: it can
\* only ever refuse a request where the queue limit is configured below the
\* in-flight limit (the defaults are 128 and 32).
SlowConsumerNeedsLowerLimit == slowRejections > 0 => maxQueue < maxInFlight

\* stop() passes the drain without giving up only when every request that was
\* in flight at the call has finished, whatever was admitted since.
StopHonoursDrain ==
  stopper \in {"woken", "waitClosed", "cleanup", "over"} /\ ~hurried
    => owed \cap Running = {}

\* A call of stop() returns, new requests notwithstanding: nothing but an
\* executor that stays connected can hold it.
StopReturns ==
  stopper # "none" ~> stopper = "over" \/ (stopper = "waitClosed" /\ Attached # {})

-----------------------------------------------------------------------------
(* What the repository's documents say, and the code does not do.          *)

\* SPEC.md: "4. close transports cleanly", for a stop() that has come to its
\* executor listener.
StopClosesTransports == stopper = "waitClosed" ~> stopper = "cleanup"
=============================================================================
