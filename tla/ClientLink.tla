----------------------------- MODULE ClientLink -----------------------------
(* A client relay and the host relays that live one after the other at the *)
(* address it is configured with: hello, binding to the session the hello  *)
(* named, and the calls it forwards, each over a connection of its own     *)
(* (ClientRelayRuntime in runtime/relay.py, the host's side in RLPHandler).*)
(* Incremental events are MirrorSync's; here only snapshots fill the       *)
(* mirror.  Tools, resources and prompts are handled alike.                *)
EXTENDS Naturals

CONSTANTS Tools, Calls,      \* Calls: MCP requests for one tool each
          MaxSessions,       \* bound on the host processes
          ReconnectAttempts  \* retries of a bind (relay.reconnect_attempts)

ASSUME ConstantsAssumption == MaxSessions \in Nat \ {0} /\ ReconnectAttempts \in Nat

VARIABLES host,      \* [session, tools] of the host that is running
          hello,     \* "idle", "asked" or "answered"
          named,     \* the session in the hello's answer
          bind,      \* "never", "asking", "answered", "bound" or "failed"
          attempt,   \* bind_via_requester's loop variable
          upstream,  \* rlp_handler.relay_session_id, 0 before the first bind
          reply,     \* [session, tools]: the host's answer to the bind
          mirror,    \* [session, tools, stale]: the client's registry, and the
                     \* session of the host that the snapshot came from
          call,      \* [Calls -> {"idle", "asked", "served", "done"}]
          carried,   \* [Calls -> session the call's message carries, or 0]
          server,    \* [Calls -> session of the host that ran it, or 0]
          result     \* [Calls -> {"none"} \cup Results]

linkVars == <<hello, named, bind, attempt, upstream, reply, mirror>>
callVars == <<call, carried, server, result>>
vars == <<host, linkVars, callVars>>

Results == {"stale", "unknown", "answer", "link_lost", "timeout"}
Sessions == 1 .. MaxSessions
Shots == [session : Sessions \cup {0}, tools : SUBSET Tools]

Init ==
  /\ host = [session |-> 1, tools |-> {}]
  /\ hello = "idle" /\ named = 0
  /\ bind = "never" /\ attempt = 0 /\ upstream = 0
  /\ reply = [session |-> 0, tools |-> {}]
  /\ mirror = [session |-> 0, tools |-> {}, stale |-> FALSE]
  /\ call = [c \in Calls |-> "idle"]
  /\ carried = [c \in Calls |-> 0]
  /\ server = [c \in Calls |-> 0]
  /\ result = [c \in Calls |-> "none"]

-----------------------------------------------------------------------------
(* The host: its registry changes, and it may be replaced by a new process *)
(* with a new session id and an empty registry.                            *)

HostChanges(t) ==
  /\ host' = [host EXCEPT !.tools = IF t \in @ THEN @ \ {t} ELSE @ \cup {t}]
  /\ UNCHANGED <<linkVars, callVars>>

HostRestarts ==
  /\ host.session < MaxSessions
  /\ host' = [session |-> host.session + 1, tools |-> {}]
  /\ UNCHANGED <<linkVars, callVars>>

-----------------------------------------------------------------------------
(* Hello and bind (_auto_bind_tcp_relay_link, bind_via_requester).         *)

AskHello ==
  /\ hello = "idle" /\ bind \notin {"asking", "answered"}
  /\ hello' = "asked"
  /\ UNCHANGED <<host, named, bind, attempt, upstream, reply, mirror, callVars>>

AnswerHello ==
  /\ hello = "asked"
  /\ hello' = "answered"
  /\ named' = host.session
  /\ UNCHANGED <<host, bind, attempt, upstream, reply, mirror, callVars>>

\* No connection, no answer, or its timeout: the error leaves before the bind,
\* and the mirror stays as it was.
HelloFails ==
  /\ hello \in {"asked", "answered"}
  /\ hello' = "idle"
  /\ UNCHANGED <<host, named, bind, attempt, upstream, reply, mirror, callVars>>

\* Mutant: the mirror keeps serving while the bind is under way.
MutStartBind ==
  /\ hello = "answered"
  /\ hello' = "idle"
  /\ bind' = "asking" /\ attempt' = 0
  /\ upstream' = named
  /\ UNCHANGED <<host, named, reply, mirror, callVars>>

StartBind ==
  /\ hello = "answered"
  /\ hello' = "idle"
  /\ bind' = "asking" /\ attempt' = 0
  /\ upstream' = named
  /\ mirror' = [mirror EXCEPT !.stale = TRUE]
  /\ UNCHANGED <<host, named, reply, callVars>>

\* Mutant: the host does not look at the session.
MutSessionKnown == TRUE

\* bind_session: payload.relay_session_id against the host's own.
SessionKnown == upstream = host.session

AnswerBind ==
  /\ bind = "asking" /\ SessionKnown
  /\ bind' = "answered"
  /\ reply' = host
  /\ UNCHANGED <<host, hello, named, attempt, upstream, mirror, callVars>>

\* Mutant: one attempt too many.
MutRetryOrRaise ==
  /\ IF attempt <= ReconnectAttempts
       THEN bind' = "asking" /\ attempt' = attempt + 1
       ELSE bind' = "failed" /\ attempt' = 0
  /\ UNCHANGED <<host, hello, named, upstream, reply, callVars>>

\* The loop of bind_via_requester after an attempt that came to nothing.
RetryOrRaise ==
  /\ IF attempt < ReconnectAttempts
       THEN bind' = "asking" /\ attempt' = attempt + 1
       ELSE bind' = "failed" /\ attempt' = 0
  /\ UNCHANGED <<host, hello, named, upstream, reply, callVars>>

RefuseBind ==
  /\ bind = "asking" /\ ~SessionKnown
  /\ RetryOrRaise
  /\ UNCHANGED mirror

BindAttemptFails ==
  /\ bind \in {"asking", "answered"}
  /\ RetryOrRaise
  /\ mirror' = [mirror EXCEPT !.stale = TRUE]

ApplySnapshot ==
  /\ bind = "answered"
  /\ bind' = "bound"
  /\ attempt' = 0
  /\ mirror' = [session |-> reply.session, tools |-> reply.tools, stale |-> FALSE]
  /\ UNCHANGED <<host, hello, named, upstream, reply, callVars>>

-----------------------------------------------------------------------------
(* Calls (call_tool, read_resource, get_prompt).                           *)

Finish(c, how) ==
  /\ call' = [call EXCEPT ![c] = "done"]
  /\ result' = [result EXCEPT ![c] = how]

RejectStale(c) ==
  /\ call[c] = "idle"
  /\ mirror.stale
  /\ Finish(c, "stale")
  /\ UNCHANGED <<host, linkVars, carried, server>>

RejectUnknown(c) ==
  /\ call[c] = "idle"
  /\ ~mirror.stale
  /\ mirror.tools # Tools  \* some tool is not in the mirror
  /\ Finish(c, "unknown")
  /\ UNCHANGED <<host, linkVars, carried, server>>

\* The checks are made once: the connection is opened, the request written and
\* the answer awaited with the mirror free to change.
ForwardCall(c) ==
  /\ call[c] = "idle"
  /\ ~mirror.stale
  /\ mirror.tools # {}
  /\ call' = [call EXCEPT ![c] = "asked"]
  /\ carried' = [carried EXCEPT ![c] = upstream]
  /\ UNCHANGED <<host, linkVars, server, result>>

\* The host that is there when the connection is made serves the call, whatever
\* session the message carries and whatever is in its registry.
ServeCall(c) ==
  /\ call[c] = "asked"
  /\ call' = [call EXCEPT ![c] = "served"]
  /\ server' = [server EXCEPT ![c] = host.session]
  /\ UNCHANGED <<host, linkVars, carried, result>>

\* An error answer, too, becomes an MCP answer.
ReturnAnswer(c) ==
  /\ call[c] = "served"
  /\ Finish(c, "answer")
  /\ UNCHANGED <<host, linkVars, carried, server>>

\* No connection, or its end before the answer: an error to the MCP client, and
\* nothing for the mirror.
LoseLink(c) ==
  /\ call[c] \in {"asked", "served"}
  /\ Finish(c, "link_lost")
  /\ UNCHANGED <<host, linkVars, carried, server>>

\* Mutant: only the wait for the answer is under the timer.
MutRequestTimeout(c) ==
  /\ call[c] = "served"
  /\ Finish(c, "timeout")
  /\ UNCHANGED <<host, linkVars, carried, server>>

\* handle_mcp_message's timer; the host may still be at work.
RequestTimeout(c) ==
  /\ call[c] \in {"asked", "served"}
  /\ Finish(c, "timeout")
  /\ UNCHANGED <<host, linkVars, carried, server>>

Next ==
  \/ \E t \in Tools : HostChanges(t)
  \/ HostRestarts
  \/ AskHello \/ AnswerHello \/ HelloFails
  \/ StartBind \/ AnswerBind \/ RefuseBind \/ BindAttemptFails \/ ApplySnapshot
  \/ \E c \in Calls :
       \/ RejectStale(c) \/ RejectUnknown(c) \/ ForwardCall(c)
       \/ ServeCall(c) \/ ReturnAnswer(c) \/ LoseLink(c) \/ RequestTimeout(c)

Spec == Init /\ [][Next]_vars

\* Every request and every attempt is under a timer of the client; nothing is
\* assumed of the host or of the network.
FairSpec ==
  /\ Spec
  /\ \A c \in Calls : WF_vars(RequestTimeout(c))

-----------------------------------------------------------------------------
(* Properties.                                                             *)

TypeOK ==
  /\ host \in [session : Sessions, tools : SUBSET Tools]
  /\ hello \in {"idle", "asked", "answered"}
  /\ bind \in {"never", "asking", "answered", "bound", "failed"}
  /\ named \in Sessions \cup {0} /\ upstream \in Sessions \cup {0}
  /\ attempt \in 0 .. ReconnectAttempts
  /\ reply \in Shots
  /\ mirror \in [session : Sessions \cup {0}, tools : SUBSET Tools, stale : BOOLEAN]
  /\ call \in [Calls -> {"idle", "asked", "served", "done"}]
  /\ carried \in [Calls -> Sessions \cup {0}]
  /\ server \in [Calls -> Sessions \cup {0}]
  /\ result \in [Calls -> {"none"} \cup Results]

\* A mirror in service is a snapshot of the very session the client is bound to
\* and puts into its calls, whichever hosts came and went between the hello,
\* the bind and its retries.
MirrorIsUpstreams == ~mirror.stale => mirror.session = upstream

\* A call is forwarded only while the last bind stands: from the start of a
\* bind until its snapshot is in place, and after a bind that failed, calls
\* are refused.
ForwardedOnlyWhenBound ==
  [][\A c \in Calls : call[c] = "idle" /\ call'[c] = "asked" => bind = "bound"]_vars

\* Every call ends, however the hosts and the connections behave.
CallsEnd == \A c \in Calls : call[c] = "asked" ~> call[c] = "done"

-----------------------------------------------------------------------------
(* What the repository's documents say, and the code does not do.          *)

\* doc/rlp-protocol.md: the host relay should reject a wrong relay_session_id.
WrongSessionIsRejected == \A c \in Calls : server[c] # 0 => server[c] = carried[c]
=============================================================================
