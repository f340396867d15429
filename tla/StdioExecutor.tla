--------------------------- MODULE StdioExecutor ---------------------------
(* A host relay whose executor is at the other end of its standard streams *)
(* (serve_tep_stdio in runtime/relay.py), composed with the executor of    *)
(* examples/tool-executors/python/host_stdio_executor.py.  Two processes,  *)
(* each with one thread, write to each other through pipes of bounded      *)
(* size.  A write to a full pipe holds up the writer: for the relay that   *)
(* is the whole event loop, its timers and the relay link included.        *)
EXTENDS Naturals, Sequences, FiniteSets

CONSTANTS Ops,       \* RLP operations: each arrives once
          Reads,     \* those the example executor does not support
                     \* (read_resource, get_prompt)
          NoOp,      \* what a message of the registration is about
          Capacity   \* messages a pipe holds

ASSUME StdioAssumption ==
  /\ IsFiniteSet(Ops)
  /\ Reads \subseteq Ops
  /\ NoOp \notin Ops
  /\ Capacity \in Nat \ {0}

VARIABLES relay,       \* "serving", or "ended" once the loop has been left
          writing,     \* the message the relay's write is held up with, if any
          toExecutor,  \* the pipe to the executor's standard input
          toRelay,     \* the pipe from its standard output.  The relay reads
                       \* ahead of its loop only between iterations of the event
                       \* loop; requests that are ready together are written
                       \* within one, so nothing may be read ahead.
          stage,       \* where the executor is in main(), or "gone"
          answering,   \* the message the executor has yet to write, if any
          pc,          \* [Ops -> {"idle", "sending", "waiting", "done"}]
          future,      \* [Ops -> {"unset"} \cup Settled]
          outcome      \* [Ops -> {"none"} \cup Outcomes]: how the request ended

pipes == <<writing, toExecutor, toRelay, answering>>
vars == <<relay, stage, pc, future, outcome, pipes>>

\* "ack" is the relay's <type>_response to a result or a registration, "refusal"
\* the executor's to a request, "nack" the executor's to an ack: both are error
\* <type>_responses, and only a refusal bears the identifier of a request.
Messages == [kind : {"register", "request", "result", "ack", "refusal", "nack"},
             op : Ops \cup {NoOp}]
Message(kind, o) == [kind |-> kind, op |-> o]

Settled == {"result", "error", "disconnected"}

\* "closed": the RLP connection is dropped without a response.
Outcomes == Settled \cup {"send_failed", "closed"}

\* The loop has just attached the transport; the executor is about to write
\* register_executor.
Init ==
  /\ relay = "serving"
  /\ writing = <<>> /\ toExecutor = <<>> /\ toRelay = <<>>
  /\ stage = "register_executor"
  /\ answering = <<Message("register", NoOp)>>
  /\ pc = [o \in Ops |-> "idle"]
  /\ future = [o \in Ops |-> "unset"]
  /\ outcome = [o \in Ops |-> "none"]

Finish(o, how) ==
  /\ pc' = [pc EXCEPT ![o] = "done"]
  /\ outcome' = [outcome EXCEPT ![o] = how]

-----------------------------------------------------------------------------
(* The relay.  Nothing runs in it while a write is held up.                *)

Running == relay = "serving" /\ writing = <<>>

RoomFor(pipe) == Len(pipe) < Capacity

\* StdioTransportAdapter.send: write and flush, without a suspension.
Send(m) ==
  IF RoomFor(toExecutor)
    THEN toExecutor' = Append(toExecutor, m) /\ UNCHANGED writing
    ELSE writing' = <<m>> /\ UNCHANGED toExecutor

\* Mutant: futures that are done are failed as well.
MutFailPending(f) ==
  [o \in Ops |-> IF pc[o] = "waiting" THEN "disconnected" ELSE f[o]]

\* detach_executor_transport fails what is pending, and the process goes on to
\* stop: nobody reads its standard input any more.
FailPending(f) ==
  [o \in Ops |-> IF pc[o] = "waiting" /\ f[o] = "unset" THEN "disconnected" ELSE f[o]]

LeaveLoop(f) ==
  /\ relay' = "ended"
  /\ future' = FailPending(f)
  /\ toRelay' = <<>>

\* _rlp_execute_tool, _rlp_read_resource, _rlp_get_prompt.  Sends never suspend,
\* so nobody queues for the send lock.
Forward(o) ==
  /\ Running
  /\ pc[o] = "idle"
  /\ stage # "gone"
  /\ Send(Message("request", o))
  /\ pc' = [pc EXCEPT ![o] = IF RoomFor(toExecutor) THEN "waiting" ELSE "sending"]
  /\ UNCHANGED <<relay, stage, future, outcome, toRelay, answering>>

\* The executor's end of the pipe is closed: flush raises.
ForwardFails(o) ==
  /\ Running
  /\ pc[o] = "idle"
  /\ stage = "gone"
  /\ Finish(o, "send_failed")
  /\ UNCHANGED <<relay, stage, future, pipes>>

WriteProceeds ==
  /\ writing # <<>>
  /\ stage # "gone" /\ RoomFor(toExecutor)
  /\ toExecutor' = Append(toExecutor, Head(writing))
  /\ writing' = <<>>
  /\ pc' = [o \in Ops |-> IF pc[o] = "sending" THEN "waiting" ELSE pc[o]]
  /\ UNCHANGED <<relay, stage, future, outcome, toRelay, answering>>

\* A request's error goes to its RLP connection, a response's ends the loop.
WriteFails ==
  /\ writing # <<>>
  /\ stage = "gone"
  /\ writing' = <<>>
  /\ IF Head(writing).kind = "request"
       THEN /\ Finish(Head(writing).op, "send_failed")
            /\ UNCHANGED <<relay, future, toRelay>>
       ELSE LeaveLoop(future) /\ UNCHANGED <<pc, outcome>>
  /\ UNCHANGED <<stage, toExecutor, answering>>

\* Mutant: results are looked up among the requests, where they are not.
MutVerdict(m) == IF m.kind = "refusal" THEN "error" ELSE "unset"

\* What handle_executor_stdio_message makes of a message for the future of the
\* operation it is about.
Verdict(m) ==
  CASE m.kind = "result" -> "result"
    [] m.kind = "refusal" -> "error"
    [] OTHER -> "unset"

Settle(m) ==
  [o \in Ops |-> IF o = m.op /\ pc[o] = "waiting" /\ future[o] = "unset"
                   THEN Verdict(m) ELSE future[o]]

\* Mutant: a <type>_response is answered as well.
MutDrawsResponse(m) == TRUE

\* A <type>_response draws no response, any other message does.
DrawsResponse(m) == m.kind \in {"register", "result"}

\* An iteration of the loop of serve_tep_stdio.
HandleMessage ==
  /\ Running
  /\ toRelay # <<>>
  /\ LET m == Head(toRelay)
     IN  IF DrawsResponse(m) /\ stage = "gone"
           THEN LeaveLoop(Settle(m)) /\ UNCHANGED <<writing, toExecutor>>
           ELSE /\ toRelay' = Tail(toRelay)
                /\ future' = Settle(m)
                /\ IF DrawsResponse(m) THEN Send(Message("ack", m.op))
                                       ELSE UNCHANGED <<writing, toExecutor>>
                /\ UNCHANGED relay
  /\ UNCHANGED <<stage, pc, outcome, answering>>

\* A result larger than the limit of the stream or of the framer.
RejectFrame ==
  /\ Running
  /\ toRelay # <<>>
  /\ Head(toRelay).kind = "result"
  /\ LeaveLoop(future)
  /\ UNCHANGED <<stage, pc, outcome, writing, toExecutor, answering>>

EndOfFile ==
  /\ Running
  /\ toRelay = <<>> /\ stage = "gone"
  /\ LeaveLoop(future)
  /\ UNCHANGED <<stage, pc, outcome, writing, toExecutor, answering>>

ReturnAnswer(o) ==
  /\ writing = <<>>
  /\ pc[o] = "waiting" /\ future[o] # "unset"
  /\ Finish(o, future[o])
  /\ UNCHANGED <<relay, stage, future, pipes>>

\* Mutant: the wait for the executor has no timer.
MutRequestTimeout(o) ==
  /\ relay = "ended"
  /\ pc[o] = "waiting"
  /\ Finish(o, "closed")
  /\ UNCHANGED <<relay, stage, future, pipes>>

\* Mutant: a request that has timed out is forwarded again.
MutRetryTimeout(o) ==
  /\ writing = <<>>
  /\ pc[o] = "waiting"
  /\ pc' = [pc EXCEPT ![o] = "idle"]
  /\ UNCHANGED <<relay, stage, future, outcome, pipes>>

\* The timer of the request, or the cancellation of what is left at the end of
\* the process.
RequestTimeout(o) ==
  /\ writing = <<>>
  /\ pc[o] = "waiting"
  /\ Finish(o, "closed")
  /\ UNCHANGED <<relay, stage, future, pipes>>

-----------------------------------------------------------------------------
(* The executor: main() of the example.                                    *)

\* The answer to a registration is whatever is read next.
TakeAck ==
  /\ stage \in {"register_executor", "register_tools"}
  /\ answering = <<>> /\ toExecutor # <<>>
  /\ toExecutor' = Tail(toExecutor)
  /\ IF stage = "register_executor"
       THEN stage' = "register_tools" /\ answering' = <<Message("register", NoOp)>>
       ELSE stage' = "main" /\ UNCHANGED answering
  /\ UNCHANGED <<relay, pc, future, outcome, writing, toRelay>>

AnswerKind(m) ==
  CASE m.kind = "request" /\ m.op \notin Reads -> "result"
    [] m.kind = "request" /\ m.op \in Reads -> "refusal"
    [] OTHER -> "nack"

\* Mutant: an executor that reports progress before each result.
MutAnswerMessage ==
  /\ stage = "main"
  /\ answering = <<>> /\ toExecutor # <<>>
  /\ LET m == Head(toExecutor)
     IN  answering' = IF AnswerKind(m) = "result"
                        THEN <<Message("register", m.op), Message("result", m.op)>>
                        ELSE <<Message(AnswerKind(m), m.op)>>
  /\ toExecutor' = Tail(toExecutor)
  /\ UNCHANGED <<relay, stage, pc, future, outcome, writing, toRelay>>

\* Every message is answered, the relay's responses too.
AnswerMessage ==
  /\ stage = "main"
  /\ answering = <<>> /\ toExecutor # <<>>
  /\ answering' = <<Message(AnswerKind(Head(toExecutor)), Head(toExecutor).op)>>
  /\ toExecutor' = Tail(toExecutor)
  /\ UNCHANGED <<relay, stage, pc, future, outcome, writing, toRelay>>

ExecutorWrites ==
  /\ answering # <<>>
  /\ relay = "serving" /\ RoomFor(toRelay)
  /\ toRelay' = Append(toRelay, Head(answering))
  /\ answering' = Tail(answering)
  /\ UNCHANGED <<relay, stage, pc, future, outcome, writing, toExecutor>>

Disappear ==
  /\ stage # "gone"
  /\ stage' = "gone"
  /\ toExecutor' = <<>> /\ answering' = <<>>
  /\ UNCHANGED <<relay, pc, future, outcome, writing, toRelay>>

ExecutorCrashes == relay = "serving" /\ Disappear

\* End of file, or a broken pipe.
ExecutorStops == relay = "ended" /\ Disappear

-----------------------------------------------------------------------------
Next ==
  \/ \E o \in Ops : Forward(o) \/ ForwardFails(o) \/ ReturnAnswer(o) \/ RequestTimeout(o)
  \/ WriteProceeds \/ WriteFails
  \/ HandleMessage \/ RejectFrame \/ EndOfFile
  \/ TakeAck \/ AnswerMessage \/ ExecutorWrites
  \/ ExecutorCrashes \/ ExecutorStops

Spec == Init /\ [][Next]_vars

\* Both processes run: the event loop takes up what is ready, the executor's
\* loop goes on unless the executor crashes, and a timer that has expired is
\* served when the event loop is free.
FairSpec ==
  /\ Spec
  /\ WF_vars(WriteProceeds) /\ WF_vars(WriteFails)
  /\ WF_vars(HandleMessage) /\ WF_vars(EndOfFile)
  /\ \A o \in Ops : WF_vars(RequestTimeout(o))
  /\ WF_vars(TakeAck) /\ WF_vars(AnswerMessage) /\ WF_vars(ExecutorWrites)
  /\ WF_vars(ExecutorStops)

-----------------------------------------------------------------------------
(* Properties.                                                             *)

TypeOK ==
  /\ relay \in {"serving", "ended"}
  /\ writing \in Seq(Messages) /\ Len(writing) <= 1
  /\ toExecutor \in Seq(Messages) /\ toRelay \in Seq(Messages)
  /\ stage \in {"register_executor", "register_tools", "main", "gone"}
  /\ answering \in Seq(Messages) /\ Len(answering) <= 1
  /\ pc \in [Ops -> {"idle", "sending", "waiting", "done"}]
  /\ future \in [Ops -> {"unset"} \cup Settled]
  /\ outcome \in [Ops -> {"none"} \cup Outcomes]

\* The relay and the executor are stuck in writes to each other.
Wedged ==
  /\ writing # <<>> /\ ~RoomFor(toExecutor)
  /\ answering # <<>> /\ ~RoomFor(toRelay)

\* The relay and the executor never block each other while the operations do
\* not outnumber what the two pipes hold together.  (An operation has one
\* message under way at a time, request, result, ack or nack, and so has the
\* registration; the two writers hold one each.)
NoWedge == Cardinality(Ops) <= 2 * Capacity => ~Wedged

\* A message about operation o that can still lead to an answer.
Leads(m, o) == m.op = o /\ m.kind \in {"request", "result", "refusal"}

Carries(s, o) == \E i \in 1 .. Len(s) : Leads(s[i], o)

UnderWay(o) ==
  Carries(writing, o) \/ Carries(toExecutor, o) \/ Carries(answering, o) \/ Carries(toRelay, o)

Lost == {o \in Ops : pc[o] = "waiting" /\ future[o] = "unset" /\ ~UnderWay(o)}

\* A request is lost, and left to its timeout, only by being read in place of
\* the answer to a registration message: at most two ever are, and none that
\* is written once the registration is over.
LostOnlyInRegistration ==
  /\ stage = "register_executor" => Lost = {}
  /\ stage = "register_tools" => Cardinality(Lost) <= 1
  /\ stage = "main" => Cardinality(Lost) <= 2

\* Results are acknowledged and acknowledgements refused, but no exchange goes
\* on for ever: the pipes are empty again and again.
ExchangesEnd == []<>(toExecutor = <<>> /\ toRelay = <<>>)

\* Every request that has been read ends: by its answer, by the timer or with
\* the executor.  While both writers are stuck no timer fires, so this holds only
\* where NoWedge rules that out; the wedge shows up with smaller pipes.
EveryRequestEnds == \A o \in Ops : pc[o] \in {"sending", "waiting"} ~> pc[o] = "done"

\* How an operation appears in ForwardedCall: open from the time its future is
\* registered, over once the RLP request has ended.  The relay never answers in
\* the executor's place here.
CallStatus ==
  [o \in Ops |-> IF pc[o] \in {"sending", "waiting"} THEN "open"
                 ELSE IF pc[o] = "done" THEN "over" ELSE "idle"]
CallVerdict == [o \in Ops |-> IF CallStatus[o] = "open" THEN future[o] ELSE "unset"]
ReplyOf(how) == IF how \in {"send_failed", "closed"} THEN "given up"
                ELSE IF how = "none" THEN "unset" ELSE how
CallReply == [o \in Ops |-> ReplyOf(outcome[o])]

Call == INSTANCE ForwardedCall WITH
  Verdicts <- Settled, NoVerdict <- "unset", Local <- "echo", GivenUp <- "given up",
  status <- CallStatus, verdict <- CallVerdict, reply <- CallReply

\* Over standard streams too an operation gets one verdict, the first, and no
\* answer that is not that verdict; the end of the loop settles an operation by
\* the executor's last message and all others as disconnected.
ImplementsForwardedCall == Call!CallSpec

-----------------------------------------------------------------------------
(* What the repository's documents say, and the code does not do.          *)

\* SPEC.md: "The relay should support configurable timeouts for ... tool
\* execution".  A request the relay has read ends, if only by its timeout,
\* whatever the pipes hold and whatever the executor does.
ExecutionsTimeOut == EveryRequestEnds
=============================================================================
