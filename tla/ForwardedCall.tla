--------------------------- MODULE ForwardedCall ---------------------------
(* What the host relay promises about one operation it forwards to the     *)
(* executor, whatever connections, locks and timers lie underneath: the    *)
(* operation is accepted once, at most one verdict is ever recorded for    *)
(* it, and it ends either with that verdict, or answered by the relay      *)
(* itself, or given up.  HostExecutor and StdioExecutor are shown to       *)
(* implement this module, and McpStdio is built on it.                     *)
EXTENDS Naturals

CONSTANTS Ops,        \* forwarded operations
          Verdicts,   \* what may settle an operation
          NoVerdict,  \* the operation is not settled
          Local,      \* reply given by the relay without an executor
          GivenUp     \* the operation ended without its verdict

VARIABLES status,     \* [Ops -> {"idle", "open", "over"}]
          verdict,    \* [Ops -> Verdicts \cup {NoVerdict}], while it is open
          reply       \* [Ops -> Verdicts \cup {NoVerdict, Local, GivenUp}]

cvars == <<status, verdict, reply>>

CallInit ==
  /\ status = [o \in Ops |-> "idle"]
  /\ verdict = [o \in Ops |-> NoVerdict]
  /\ reply = [o \in Ops |-> NoVerdict]

Accept(o) ==
  /\ status[o] = "idle"
  /\ status' = [status EXCEPT ![o] = "open"]
  /\ UNCHANGED <<verdict, reply>>

\* Every member of S is open and unsettled, and gets its first verdict, v[o].
Settle(S, v) ==
  /\ \A o \in S : status[o] = "open" /\ verdict[o] = NoVerdict
  /\ verdict' = [o \in Ops |-> IF o \in S THEN v[o] ELSE verdict[o]]
  /\ UNCHANGED <<status, reply>>

End(o, r) ==
  /\ status' = [status EXCEPT ![o] = "over"]
  /\ verdict' = [verdict EXCEPT ![o] = NoVerdict]
  /\ reply' = [reply EXCEPT ![o] = r]

AnswerLocally(o) == status[o] = "idle" /\ End(o, Local)

ReplyVerdict(o) ==
  /\ status[o] = "open"
  /\ verdict[o] # NoVerdict
  /\ End(o, verdict[o])

GiveUp(o) == status[o] \in {"idle", "open"} /\ End(o, GivenUp)

CallNext ==
  \/ \E o \in Ops : Accept(o) \/ AnswerLocally(o) \/ ReplyVerdict(o) \/ GiveUp(o)
  \/ \E S \in SUBSET Ops : \E v \in [S -> Verdicts] : Settle(S, v)

CallSpec == CallInit /\ [][CallNext]_cvars
=============================================================================
