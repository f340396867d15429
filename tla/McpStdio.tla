------------------------------ MODULE McpStdio ------------------------------
(* A relay that serves one MCP client on its standard input and output      *)
(* (serve_mcp_stdio), from the time it is bound, and the host behind it.     *)
(* Messages are read and handled one at a time; a call goes to the host over *)
(* a connection of its own, and the host keeps the promise of ForwardedCall. *)
(* A message is its place in the input; what tells messages apart is what    *)
(* the relay does with them.  The client reads its answers: that a write to  *)
(* standard output blocks the relay is StdioExecutor's subject.              *)
EXTENDS Naturals, Sequences

CONSTANT MaxMessages  \* bound on what the client writes

ASSUME MessagesAssumption == MaxMessages \in Nat

VARIABLES input,      \* what the client has written, as Kinds
          read,       \* how much of it the relay has read
          loop,       \* "receive", "handle" (message number read) or "stopped"
          forwarded,  \* calls that have gone to the host
          answers,    \* what the relay has written: [to, how]
          status, verdict, reply  \* the host's side, see ForwardedCall

hostVars == <<status, verdict, reply>>
vars == <<input, read, loop, forwarded, answers, hostVars>>

Positions == 1 .. MaxMessages

\* The relay tells messages apart by their method.  call: tools/call,
\* resources/read, prompts/get.  local: any other method of a request, known or not.
\* initialized: notifications/initialized.  notification: any other notification, as
\* notifications/cancelled, which has no id.  invalid: no JSON-RPC message, or a call
\* without its name.  garbage: empty, too large or not JSON.
Kinds == {"call", "local", "initialized", "notification", "invalid", "garbage",
          "end of file"}

\* The kinds that draw an answer, and what it is: anonymous is an error whose id is null.
Answerable == {"call", "local", "notification"}

Outcomes == {"result", "error", "anonymous"}

Verdicts == {"result", "ack", "error", "disconnected"}

Host == INSTANCE ForwardedCall WITH
  Ops <- Positions, NoVerdict <- "unset", Local <- "echo", GivenUp <- "given up"

Init ==
  /\ input = <<>> /\ read = 0
  /\ loop = "receive"
  /\ forwarded = {}
  /\ answers = <<>>
  /\ Host!CallInit

-----------------------------------------------------------------------------
(* The client and the host.                                                *)

ClientWrites(kind) ==
  /\ Len(input) < MaxMessages
  /\ \A n \in 1 .. Len(input) : input[n] # "end of file"
  /\ input' = Append(input, kind)
  /\ UNCHANGED <<read, loop, forwarded, answers, hostVars>>

\* The host works on what it has been sent, also after the relay has given the
\* call up or stopped.
HostServes ==
  /\ \/ \E n \in forwarded :
          \/ Host!Accept(n) \/ Host!AnswerLocally(n)
          \/ Host!ReplyVerdict(n) \/ Host!GiveUp(n)
     \/ \E S \in SUBSET forwarded : \E v \in [S -> Verdicts] : Host!Settle(S, v)
  /\ UNCHANGED <<input, read, loop, forwarded, answers>>

-----------------------------------------------------------------------------
(* serve_mcp_stdio.                                                        *)

\* Mutant: a frame that cannot be decoded is passed over with its successor.
MutReceive ==
  /\ loop = "receive" /\ read < Len(input)
  /\ IF input[read + 1] = "garbage"
       THEN read' = read + 2 /\ UNCHANGED loop
       ELSE read' = read + 1 /\ loop' = IF input[read'] = "end of file" THEN "stopped" ELSE "handle"
  /\ UNCHANGED <<input, forwarded, answers, hostVars>>

\* Any exception of receive ends the loop, and the relay with it.
Receive ==
  /\ loop = "receive" /\ read < Len(input)
  /\ read' = read + 1
  /\ loop' = IF input[read'] \in {"garbage", "end of file"} THEN "stopped" ELSE "handle"
  /\ UNCHANGED <<input, forwarded, answers, hostVars>>

Handling(kinds) == loop = "handle" /\ input[read] \in kinds

\* Nothing suspends the loop between the end of the handler and the answer.
Answer(how) ==
  /\ answers' = Append(answers, [to |-> read, how |-> how])
  /\ loop' = "receive"
  /\ UNCHANGED <<input, read, forwarded, hostVars>>

AnswerLocally == Handling({"local"}) /\ \E how \in {"result", "error"} : Answer(how)

\* The handler knows one notification.  The others are unknown methods to it, and
\* it answers them as it would a request, with the id they do not have: null.
AnswerNotification == Handling({"notification"}) /\ Answer("anonymous")

\* Mutant: it is answered as well.
MutTakeInitialized == Handling({"initialized"}) /\ Answer("result")

TakeInitialized ==
  /\ Handling({"initialized"})
  /\ loop' = "receive"
  /\ UNCHANGED <<input, read, forwarded, answers, hostVars>>

\* The exception leaves serve_mcp_stdio, whose finally block stops the relay: a
\* ValidationError or KeyError of the handler, or an answer that cannot be sent.
Raise ==
  /\ loop' = "stopped"
  /\ UNCHANGED <<input, read, forwarded, answers, hostVars>>

HandlerRaises == Handling({"invalid"}) /\ Raise
SendFails == Handling(Answerable) /\ Raise

\* Its name is not in the mirror, or there is no connection to the host.
RejectCall == Handling({"call"}) /\ read \notin forwarded /\ Answer("error")

ForwardCall ==
  /\ Handling({"call"}) /\ read \notin forwarded
  /\ forwarded' = forwarded \cup {read}
  /\ UNCHANGED <<input, read, loop, answers, hostVars>>

\* Mutant: whatever the host answers is a result.
MutAnswerFor(r) == "result"

\* An error response, or a connection closed without one, raises in call_tool,
\* and MCPHandler makes an MCP error of it.  (relay.py:1031 would make a result of
\* an error whose details carry one, but no error of this host does.)
AnswerFor(r) == IF r \in {"result", "ack", "echo"} THEN "result" ELSE "error"

ReceiveAnswer ==
  /\ Handling({"call"})
  /\ status[read] = "over"
  /\ Answer(AnswerFor(reply[read]))

LoseLink == Handling({"call"}) /\ read \in forwarded /\ Answer("error")

\* Mutant: only a call that has gone to the host is under the timer.
MutRequestTimeout == Handling({"call"}) /\ status[read] = "open" /\ Raise

\* The timer of handle_mcp_message cancels the handler, which does not catch that.
RequestTimeout == Handling({"call"}) /\ Raise

Next ==
  \/ \E kind \in Kinds : ClientWrites(kind)
  \/ HostServes
  \/ Receive
  \/ AnswerLocally \/ AnswerNotification \/ TakeInitialized
  \/ HandlerRaises \/ SendFails
  \/ RejectCall \/ ForwardCall \/ ReceiveAnswer \/ LoseLink \/ RequestTimeout

Spec == Init /\ [][Next]_vars

\* The relay's own steps, none of which waits, and the timer.  Nothing is
\* assumed of the host or of what the client writes.
FairSpec ==
  Spec /\ WF_vars(Receive \/ AnswerLocally \/ AnswerNotification \/ TakeInitialized
                    \/ HandlerRaises \/ RequestTimeout)

-----------------------------------------------------------------------------
(* Properties.                                                             *)

TypeOK ==
  /\ input \in Seq(Kinds) /\ Len(input) <= MaxMessages
  /\ read \in 0 .. Len(input)
  /\ loop \in {"receive", "handle", "stopped"}
  /\ loop = "handle" => read > 0
  /\ forwarded \subseteq 1 .. read
  /\ answers \in Seq([to : Positions, how : Outcomes])
  /\ status \in [Positions -> {"idle", "open", "over"}]
  /\ verdict \in [Positions -> Verdicts \cup {"unset"}]
  /\ reply \in [Positions -> Verdicts \cup {"unset", "echo", "given up"}]

Answered(n) == \E i \in 1 .. Len(answers) : answers[i].to = n

\* Answers come in the order of the messages and at most one for each.  Each
\* request that has been handled has its answer, with its id, and so has each
\* notification but notifications/initialized, with the id null: a client can
\* match answers by their ids, or by order if it counts its notifications too.
\* Only the last message read may miss its answer, when the relay has stopped.
AnswersFollowRequests ==
  /\ \A i, j \in 1 .. Len(answers) : i < j => answers[i].to < answers[j].to
  /\ \A i \in 1 .. Len(answers) :
       /\ answers[i].to <= read
       /\ answers[i].how = "anonymous" <=> input[answers[i].to] = "notification"
  /\ \A n \in 1 .. read : Answered(n) => input[n] \in Answerable
  /\ \A n \in 1 .. read :
       input[n] \in Answerable /\ (n < read \/ loop = "receive") => Answered(n)

\* A call is answered with a result only if the host gave it one.  What is still
\* open at the host is the call being handled, or one whose client has been told
\* that it failed, or the relay has stopped.
AnswersMatchTheHost ==
  /\ \A i \in 1 .. Len(answers) :
       LET n == answers[i].to IN
       input[n] = "call" /\ answers[i].how = "result"
         => status[n] = "over" /\ reply[n] \in {"result", "ack", "echo"}
  /\ \A n \in Positions :
       status[n] = "open" /\ loop # "stopped"
         => \/ n = read /\ loop = "handle"
            \/ \E i \in 1 .. Len(answers) : answers[i] = [to |-> n, how |-> "error"]

\* Whatever the client writes and however slow the host is, each message is
\* served, or the relay stops: also when the input ends during a call.
EveryMessageIsServed ==
  \A n \in Positions :
    Len(input) >= n
      ~> loop = "stopped" \/ read > n \/ (read = n /\ loop = "receive")
=============================================================================
