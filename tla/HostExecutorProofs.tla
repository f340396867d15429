-------------------------- MODULE HostExecutorProofs --------------------------
(* For any finite set of operations and any set of executor connections:   *)
(* the types, that no request is left waiting when no executor is attached,*)
(* and that HostExecutor implements ForwardedCall.                         *)
EXTENDS HostExecutor, FiniteSetTheorems, TLAPS

\* Every case of an executor's message settles a future with a known value or
\* leaves it unset.
LEMMA VerdictType ==
  ASSUME NEW o, NEW m PROVE Verdict(o, m) \in {"unset"} \cup Settled
  BY DEF Verdict, Settled

LEMMA RankType ==
  ASSUME TypeOK PROVE Cardinality({p \in Ops : rank[p] > 0}) + 1 \in Nat
  <1>1. IsFiniteSet({p \in Ops : rank[p] > 0})
    BY ConstantsAssumption, FS_Subset
  <1> QED BY <1>1, FS_CardinalityType

\* What each operation's step may do to its own record.
LEMMA EndType ==
  ASSUME TypeOK, NEW o \in Ops, NEW how \in Outcomes, End(o, how)
  PROVE  /\ pc' \in [Ops -> {"idle", "accepted", "queued", "sending", "waiting", "done"}]
         /\ outcome' \in [Ops -> {"none"} \cup Outcomes]
  BY DEF TypeOK, End

LEMMA WriteType ==
  ASSUME TypeOK, NEW o \in Ops, Write(o) \/ CannotWrite(o)
  PROVE  /\ pc' \in [Ops -> {"idle", "accepted", "queued", "sending", "waiting", "done"}]
         /\ outcome' \in [Ops -> {"none"} \cup Outcomes]
         /\ wrote' \in [Ops -> Conns \cup {NoConn}]
         /\ seen' \subseteq Ops
  <1>1. CASE Write(o)
    BY <1>1 DEF TypeOK, Write
  <1>2. CASE CannotWrite(o)
    <2>1. "send_failed" \in Outcomes
      BY DEF Outcomes
    <2>2. End(o, "send_failed") /\ UNCHANGED <<wrote, seen>>
      BY <1>2 DEF CannotWrite
    <2> QED BY <2>1, <2>2, EndType DEF TypeOK
  <1> QED BY <1>1, <1>2

\* The state always has its type (TypeOK).
THEOREM TypeCorrect == Spec => []TypeOK
  <1>1. Init => TypeOK
    BY DEF Init, TypeOK
  <1>2. TypeOK /\ [Next]_vars => TypeOK'
    <2> SUFFICES ASSUME TypeOK, [Next]_vars PROVE TypeOK'
      OBVIOUS
    <2>0. {"echo", "closed", "send_failed"} \subseteq Outcomes
      BY DEF Outcomes
    <2>1. ASSUME NEW o \in Ops, AcceptRelayLink(o) PROVE TypeOK'
      BY <2>1 DEF TypeOK, AcceptRelayLink
    <2>2. ASSUME NEW o \in Ops, RefuseStopped(o) PROVE TypeOK'
      BY <2>0, <2>2, EndType DEF TypeOK, RefuseStopped
    <2>3. ASSUME NEW o \in Ops, AnswerWithoutExecutor(o) PROVE TypeOK'
      BY <2>0, <2>3, EndType DEF TypeOK, AnswerWithoutExecutor
    <2>4. ASSUME NEW o \in Ops, Forward(o) PROVE TypeOK'
      <3>1. CASE LockFree /\ Queued = {}
        <4>1. Write(o) \/ CannotWrite(o)
          BY <2>4, <3>1 DEF Forward
        <4> QED BY <4>1, <2>4, <3>1, WriteType DEF TypeOK, Forward
      <3>2. CASE ~(LockFree /\ Queued = {})
        BY <2>4, <3>2, RankType DEF TypeOK, Forward
      <3> QED BY <3>1, <3>2
    <2>5. ASSUME NEW o \in Ops, TakeSendLock(o) PROVE TypeOK'
      <3>1. Write(o) \/ CannotWrite(o)
        BY <2>5 DEF TakeSendLock
      <3> QED BY <2>5, <3>1, WriteType DEF TypeOK, TakeSendLock
    <2>6. ASSUME NEW o \in Ops, FinishSend(o) PROVE TypeOK'
      BY <2>6 DEF TypeOK, FinishSend
    <2>7. ASSUME NEW o \in Ops, FailSend(o) PROVE TypeOK'
      BY <2>0, <2>7, EndType DEF TypeOK, FailSend
    <2>8. ASSUME NEW o \in Ops, ReturnAnswer(o) PROVE TypeOK'
      <3>1. future[o] \in Outcomes
        BY <2>8 DEF ReturnAnswer, TypeOK, Outcomes
      <3> QED BY <2>8, <3>1, EndType DEF TypeOK, ReturnAnswer
    <2>9. ASSUME NEW o \in Ops, RequestTimeout(o) PROVE TypeOK'
      BY <2>0, <2>9, EndType DEF TypeOK, RequestTimeout
    <2>10. ASSUME NEW c \in Conns, AttachExecutorTransport(c) PROVE TypeOK'
      BY <2>10 DEF TypeOK, AttachExecutorTransport
    <2>11. ASSUME NEW c \in Conns, PeerGone(c) PROVE TypeOK'
      BY <2>11 DEF TypeOK, PeerGone
    <2>12. ASSUME NEW c \in Conns, DetachExecutorTransport(c) PROVE TypeOK'
      <3>1. FailPending \in [Ops -> {"unset"} \cup Settled]
        BY DEF TypeOK, FailPending, Settled
      <3> QED BY <2>12, <3>1 DEF TypeOK, DetachExecutorTransport
    <2>13. ASSUME NEW c \in Conns, NEW o \in Ops, NEW m \in Answers,
                  HandleExecutorMessage(c, o, m)
           PROVE TypeOK'
      BY <2>13, VerdictType DEF TypeOK, HandleExecutorMessage
    <2>14. CASE StopListening
      BY <2>14 DEF TypeOK, StopListening
    <2>15. CASE StopForgetsTransport
      BY <2>15 DEF TypeOK, StopForgetsTransport
    <2>16. CASE UNCHANGED vars
      BY <2>16 DEF TypeOK, vars
    <2> QED
      BY <2>1, <2>2, <2>3, <2>4, <2>5, <2>6, <2>7, <2>8, <2>9, <2>10, <2>11, <2>12,
         <2>13, <2>14, <2>15, <2>16 DEF Next
  <1> QED BY <1>1, <1>2, PTL DEF Spec

-----------------------------------------------------------------------------
(* No request waits for an executor that is not there.                     *)

\* A request in flight is known to the detach that would fail it.
Registered == \A o \in Ops : InFlight(o) => o \in pending

WaitInv == TypeOK /\ Registered /\ NoOrphanWait

\* Steps of one operation that leave the executor, the futures and the other
\* operations alone keep the two facts, when the operation ends ...
LEMMA EndKeepsWaitInv ==
  ASSUME WaitInv, NEW o \in Ops, NEW how, End(o, how),
         UNCHANGED <<phase, executorTransport, future>>,
         pending \ {o} \subseteq pending'
  PROVE  Registered' /\ NoOrphanWait'
  BY DEF WaitInv, TypeOK, End, Registered, NoOrphanWait, InFlight

\* ... or stays in flight.
LEMMA MoveKeepsWaitInv ==
  ASSUME WaitInv, NEW o \in Ops, NEW s, pc' = [pc EXCEPT ![o] = s], InFlight(o),
         UNCHANGED <<phase, executorTransport, future, pending>>
  PROVE  Registered' /\ NoOrphanWait'
  BY DEF WaitInv, TypeOK, Registered, NoOrphanWait, InFlight

\* No request in flight waits unanswered while no executor is attached
\* (NoOrphanWait), whether or not wait_closed waits for the relay connections.
THEOREM NobodyWaitsForNobody == Spec => []NoOrphanWait
  <1>1. Init => WaitInv
    BY DEF Init, WaitInv, TypeOK, Registered, NoOrphanWait, InFlight
  <1>2. TypeOK' /\ WaitInv /\ [Next]_vars => WaitInv'
    <2> SUFFICES ASSUME TypeOK', WaitInv, [Next]_vars PROVE Registered' /\ NoOrphanWait'
      BY DEF WaitInv
    <2>1. ASSUME NEW o \in Ops, AcceptRelayLink(o) PROVE Registered' /\ NoOrphanWait'
      BY <2>1 DEF AcceptRelayLink, WaitInv, TypeOK, Registered, NoOrphanWait, InFlight
    <2>2. ASSUME NEW o \in Ops, RefuseStopped(o) PROVE Registered' /\ NoOrphanWait'
      BY <2>2, EndKeepsWaitInv DEF RefuseStopped
    <2>3. ASSUME NEW o \in Ops, AnswerWithoutExecutor(o) PROVE Registered' /\ NoOrphanWait'
      BY <2>3, EndKeepsWaitInv DEF AnswerWithoutExecutor
    <2>4. ASSUME NEW o \in Ops, Forward(o) PROVE Registered' /\ NoOrphanWait'
      <3>1. executorTransport' # NoConn /\ pending' = pending \cup {o}
        BY <2>4 DEF Forward
      <3>2. \A p \in Ops \ {o} : pc'[p] = pc[p]
        BY <2>4 DEF Forward, Write, CannotWrite, End, WaitInv, TypeOK
      <3> QED BY <3>1, <3>2 DEF WaitInv, Registered, NoOrphanWait, InFlight
    <2>5. ASSUME NEW o \in Ops, TakeSendLock(o) PROVE Registered' /\ NoOrphanWait'
      <3>1. CASE Write(o)
        BY <2>5, <3>1, MoveKeepsWaitInv DEF TakeSendLock, Write, Queued, InFlight
      <3>2. CASE CannotWrite(o)
        BY <2>5, <3>2, EndKeepsWaitInv DEF TakeSendLock, CannotWrite
      <3> QED BY <2>5, <3>1, <3>2 DEF TakeSendLock
    <2>6. ASSUME NEW o \in Ops, FinishSend(o) PROVE Registered' /\ NoOrphanWait'
      BY <2>6, MoveKeepsWaitInv DEF FinishSend, InFlight
    <2>7. ASSUME NEW o \in Ops, FailSend(o) PROVE Registered' /\ NoOrphanWait'
      BY <2>7, EndKeepsWaitInv DEF FailSend
    <2>8. ASSUME NEW o \in Ops, ReturnAnswer(o) PROVE Registered' /\ NoOrphanWait'
      BY <2>8, EndKeepsWaitInv DEF ReturnAnswer
    <2>9. ASSUME NEW o \in Ops, RequestTimeout(o) PROVE Registered' /\ NoOrphanWait'
      <3>1. pending \ {o} \subseteq pending'
        BY <2>9 DEF RequestTimeout
      <3> QED BY <2>9, <3>1, EndKeepsWaitInv DEF RequestTimeout
    <2>10. ASSUME NEW c \in Conns, AttachExecutorTransport(c)
           PROVE Registered' /\ NoOrphanWait'
      BY <2>10, ConstantsAssumption
      DEF AttachExecutorTransport, WaitInv, Registered, NoOrphanWait, InFlight
    <2>11. ASSUME NEW c \in Conns, PeerGone(c) PROVE Registered' /\ NoOrphanWait'
      BY <2>11 DEF PeerGone, WaitInv, Registered, NoOrphanWait, InFlight
    <2>12. ASSUME NEW c \in Conns, DetachExecutorTransport(c)
           PROVE Registered' /\ NoOrphanWait'
      <3>1. Registered'
        BY <2>12 DEF DetachExecutorTransport, WaitInv, Registered, InFlight
      <3>2. CASE executorTransport = c
        <4>1. future' = FailPending
          BY <2>12, <3>2 DEF DetachExecutorTransport
        <4>2. \A o \in Ops : o \in pending => future'[o] # "unset"
          BY <4>1 DEF FailPending
        <4>3. pending' = pending
          BY <2>12 DEF DetachExecutorTransport
        <4> QED BY <3>1, <4>2, <4>3 DEF Registered, NoOrphanWait
      <3>3. CASE executorTransport # c
        BY <2>12, <3>1, <3>3
        DEF DetachExecutorTransport, WaitInv, Registered, NoOrphanWait, InFlight
      <3> QED BY <3>1, <3>2, <3>3
    <2>13. ASSUME NEW c \in Conns, NEW o \in Ops, NEW m \in Answers,
                  HandleExecutorMessage(c, o, m)
           PROVE Registered' /\ NoOrphanWait'
      <3>1. UNCHANGED <<phase, pc, pending, executorTransport>>
        BY <2>13 DEF HandleExecutorMessage
      <3>2. \A p \in Ops : future[p] # "unset" => future'[p] # "unset"
        BY <2>13 DEF HandleExecutorMessage, WaitInv, TypeOK
      <3> QED BY <3>1, <3>2 DEF WaitInv, Registered, NoOrphanWait, InFlight
    <2>14. CASE StopListening
      BY <2>14 DEF StopListening, WaitInv, Registered, NoOrphanWait, InFlight
    <2>15. CASE StopForgetsTransport
      <3>1. Registered'
        BY <2>15 DEF StopForgetsTransport, WaitInv, Registered, InFlight
      <3>2. CASE WaitClosedBlocks
        <4>1. \A o \in Ops : ~InFlight(o)'
          BY <2>15, <3>2 DEF StopForgetsTransport, InFlight
        <4> QED BY <3>1, <4>1 DEF NoOrphanWait
      <3>3. CASE ~WaitClosedBlocks
        BY <2>15, <3>1, <3>3 DEF StopForgetsTransport, NoOrphanWait
      <3> QED BY <3>1, <3>2, <3>3
    <2>16. CASE UNCHANGED vars
      BY <2>16 DEF vars, WaitInv, Registered, NoOrphanWait, InFlight
    <2> QED
      BY <2>1, <2>2, <2>3, <2>4, <2>5, <2>6, <2>7, <2>8, <2>9, <2>10, <2>11, <2>12,
         <2>13, <2>14, <2>15, <2>16 DEF Next
  <1>3. WaitInv => NoOrphanWait
    BY DEF WaitInv
  <1> QED BY <1>1, <1>2, <1>3, TypeCorrect, PTL DEF Spec

-----------------------------------------------------------------------------
(* One verdict per operation: HostExecutor implements ForwardedCall.       *)

\* Nothing is known of a request before it is forwarded.
Fresh == \A o \in Ops : pc[o] \in {"idle", "accepted"} =>
                           o \notin pending /\ future[o] = "unset"

CallInv == TypeOK /\ Registered /\ Fresh

\* The futures alone change, or nothing that Fresh speaks of.
LEMMA FreshKept ==
  ASSUME CallInv, pc' = pc, pending' = pending,
         \A o \in Ops : o \notin pending => future'[o] = future[o]
  PROVE  Registered' /\ Fresh'
  BY DEF CallInv, Registered, Fresh, InFlight

\* A step of one operation's coroutine.
LEMMA FreshKeptByStep ==
  ASSUME CallInv, NEW o \in Ops, future' = future,
         \A p \in Ops \ {o} : pc'[p] = pc[p] /\ (p \in pending' <=> p \in pending),
         InFlight(o)' => o \in pending',
         pc'[o] \in {"idle", "accepted"} => pc[o] = "idle" /\ pending' = pending
  PROVE  Registered' /\ Fresh'
  BY DEF CallInv, Registered, Fresh, InFlight

LEMMA CallInvInductive == Spec => []CallInv
  <1>1. Init => CallInv
    BY DEF Init, CallInv, TypeOK, Registered, Fresh, InFlight
  <1>2. TypeOK' /\ CallInv /\ [Next]_vars => CallInv'
    <2> SUFFICES ASSUME TypeOK', CallInv, [Next]_vars PROVE Registered' /\ Fresh'
      BY DEF CallInv
    <2> USE DEF InFlight
    <2>0. TypeOK
      BY DEF CallInv
    <2>1. ASSUME NEW o \in Ops, AcceptRelayLink(o) PROVE Registered' /\ Fresh'
      BY <2>0, <2>1, FreshKeptByStep DEF AcceptRelayLink, TypeOK
    <2>2. ASSUME NEW o \in Ops, RefuseStopped(o) PROVE Registered' /\ Fresh'
      BY <2>0, <2>2, FreshKeptByStep DEF RefuseStopped, End, TypeOK
    <2>3. ASSUME NEW o \in Ops, AnswerWithoutExecutor(o) PROVE Registered' /\ Fresh'
      BY <2>0, <2>3, FreshKeptByStep DEF AnswerWithoutExecutor, End, TypeOK
    <2>4. ASSUME NEW o \in Ops, Forward(o) PROVE Registered' /\ Fresh'
      <3>1. pc'[o] \in {"sending", "done", "queued"} /\ \A p \in Ops \ {o} : pc'[p] = pc[p]
        BY <2>0, <2>4 DEF Forward, Write, CannotWrite, End, TypeOK
      <3>2. pending' = pending \cup {o} /\ future' = future
        BY <2>4 DEF Forward
      <3> QED BY <3>1, <3>2, FreshKeptByStep
    <2>5. ASSUME NEW o \in Ops, TakeSendLock(o) PROVE Registered' /\ Fresh'
      <3>1. pc'[o] \in {"sending", "done"} /\ \A p \in Ops \ {o} : pc'[p] = pc[p]
        BY <2>0, <2>5 DEF TakeSendLock, Write, CannotWrite, End, TypeOK
      <3>2. pending' = pending /\ future' = future /\ o \in pending
        BY <2>5 DEF TakeSendLock, Queued, CallInv, Registered
      <3> QED BY <3>1, <3>2, FreshKeptByStep
    <2>6. ASSUME NEW o \in Ops, FinishSend(o) PROVE Registered' /\ Fresh'
      <3>1. o \in pending
        BY <2>6 DEF FinishSend, CallInv, Registered
      <3> QED BY <2>0, <2>6, <3>1, FreshKeptByStep DEF FinishSend, TypeOK
    <2>7. ASSUME NEW o \in Ops, FailSend(o) PROVE Registered' /\ Fresh'
      BY <2>0, <2>7, FreshKeptByStep DEF FailSend, End, TypeOK
    <2>8. ASSUME NEW o \in Ops, ReturnAnswer(o) PROVE Registered' /\ Fresh'
      BY <2>0, <2>8, FreshKeptByStep DEF ReturnAnswer, End, TypeOK
    <2>9. ASSUME NEW o \in Ops, RequestTimeout(o) PROVE Registered' /\ Fresh'
      BY <2>0, <2>9, FreshKeptByStep DEF RequestTimeout, End, TypeOK
    <2>10. ASSUME NEW c \in Conns, AttachExecutorTransport(c) \/ PeerGone(c)
           PROVE Registered' /\ Fresh'
      BY <2>10, FreshKept DEF AttachExecutorTransport, PeerGone
    <2>11. ASSUME NEW c \in Conns, DetachExecutorTransport(c) PROVE Registered' /\ Fresh'
      BY <2>11, FreshKept DEF DetachExecutorTransport, FailPending
    <2>12. ASSUME NEW c \in Conns, NEW o \in Ops, NEW m \in Answers,
                  HandleExecutorMessage(c, o, m)
           PROVE Registered' /\ Fresh'
      BY <2>0, <2>12, FreshKept DEF HandleExecutorMessage, TypeOK
    <2>13. CASE StopListening \/ StopForgetsTransport
      BY <2>13, FreshKept DEF StopListening, StopForgetsTransport
    <2>14. CASE UNCHANGED vars
      BY <2>14, FreshKept DEF vars
    <2> QED
      BY <2>1, <2>2, <2>3, <2>4, <2>5, <2>6, <2>7, <2>8, <2>9, <2>10, <2>11, <2>12,
         <2>13, <2>14 DEF Next
  <1> QED BY <1>1, <1>2, TypeCorrect, PTL DEF Spec

\* The end of an operation, as ForwardedCall sees it.
LEMMA EndMaps ==
  ASSUME TypeOK, NEW o \in Ops, NEW how \in Outcomes, End(o, how), future' = future
  PROVE  Call!End(o, ReplyOf(how))
  <1>1. CallStatus' = [CallStatus EXCEPT ![o] = "over"]
    BY DEF End, TypeOK, CallStatus, InFlight
  <1>2. CallVerdict' = [CallVerdict EXCEPT ![o] = "unset"]
    BY DEF End, TypeOK, CallVerdict, InFlight
  <1>3. CallReply' = [CallReply EXCEPT ![o] = ReplyOf(how)]
    BY DEF End, TypeOK, CallReply
  <1> QED BY <1>1, <1>2, <1>3 DEF Call!End

\* A request given up, before or after it was open.
LEMMA GiveUpMaps ==
  ASSUME TypeOK, NEW o \in Ops, NEW how \in {"send_failed", "closed"}, End(o, how),
         future' = future, pc[o] # "done"
  PROVE  Call!CallNext
  <1>1. Call!End(o, "given up")
    BY EndMaps DEF Outcomes, ReplyOf
  <1>2. CallStatus[o] \in {"idle", "open"}
    BY DEF CallStatus, InFlight
  <1> QED BY <1>1, <1>2 DEF Call!CallNext, Call!GiveUp

\* Futures that are settled, each by a verdict of its own, or none.
LEMMA FuturesMap ==
  ASSUME TypeOK, TypeOK', UNCHANGED <<pc, outcome>>,
         \A p \in Ops : future'[p] # future[p] => future[p] = "unset"
  PROVE  Call!CallNext
  <1> DEFINE S == {p \in Ops : InFlight(p) /\ future'[p] # future[p]}
             v == [p \in S |-> future'[p]]
  <1>1. CallStatus' = CallStatus /\ CallReply' = CallReply
    BY DEF CallStatus, CallReply, InFlight
  <1>2. \A p \in S : CallStatus[p] = "open" /\ CallVerdict[p] = "unset"
    BY DEF CallStatus, CallVerdict
  <1>3. S \in SUBSET Ops /\ v \in [S -> Settled]
    BY DEF TypeOK
  <1>4. CallVerdict' = [p \in Ops |-> IF p \in S THEN v[p] ELSE CallVerdict[p]]
    BY DEF CallVerdict, InFlight
  <1>5. Call!Settle(S, v)
    BY <1>1, <1>2, <1>4 DEF Call!Settle
  <1> QED BY <1>3, <1>5 DEF Call!CallNext

\* Steps ForwardedCall does not see.
LEMMA StutterMaps ==
  ASSUME TypeOK, UNCHANGED <<future, outcome>>,
         \A p \in Ops : InFlight(p)' = InFlight(p) /\ (pc'[p] = "done" <=> pc[p] = "done")
  PROVE  UNCHANGED Call!cvars
  BY DEF CallStatus, CallVerdict, CallReply, Call!cvars

\* The host relay implements ForwardedCall (ImplementsForwardedCall).
THEOREM OneVerdictPerCall == Spec => ImplementsForwardedCall
  <1>1. Init => Call!CallInit
    BY DEF Init, Call!CallInit, CallStatus, CallVerdict, CallReply, ReplyOf, InFlight
  <1>2. CallInv /\ TypeOK' /\ [Next]_vars => [Call!CallNext]_(Call!cvars)
    <2> SUFFICES ASSUME CallInv, TypeOK', [Next]_vars PROVE Call!CallNext \/ UNCHANGED Call!cvars
      OBVIOUS
    <2>0. TypeOK
      BY DEF CallInv
    <2> DEFINE Maps == Call!CallNext \/ UNCHANGED Call!cvars
    <2>1. ASSUME NEW o \in Ops, AcceptRelayLink(o) PROVE Maps
      BY <2>0, <2>1, StutterMaps DEF AcceptRelayLink, InFlight, TypeOK
    <2>2. ASSUME NEW o \in Ops, RefuseStopped(o) PROVE Maps
      BY <2>0, <2>2, GiveUpMaps DEF RefuseStopped
    <2>3. ASSUME NEW o \in Ops, AnswerWithoutExecutor(o) PROVE Maps
      <3>1. Call!End(o, "echo")
        BY <2>0, <2>3, EndMaps DEF AnswerWithoutExecutor, Outcomes, ReplyOf
      <3>2. CallStatus[o] = "idle"
        BY <2>3 DEF AnswerWithoutExecutor, CallStatus, InFlight
      <3> QED BY <3>1, <3>2 DEF Call!CallNext, Call!AnswerLocally
    <2>4. ASSUME NEW o \in Ops, Forward(o) PROVE Maps
      <3>1. CASE End(o, "send_failed")
        BY <2>0, <2>4, <3>1, GiveUpMaps DEF Forward
      <3>2. CASE ~End(o, "send_failed")
        <4>1. PICK s \in {"sending", "queued"} : pc' = [pc EXCEPT ![o] = s]
          BY <2>4, <3>2 DEF Forward, Write, CannotWrite
        <4>2. UNCHANGED <<outcome, future>>
          BY <2>4, <3>2 DEF Forward, Write, CannotWrite
        <4>3. pc[o] = "accepted" /\ future[o] = "unset"
          BY <2>4 DEF Forward, CallInv, Fresh
        <4>4. CallStatus' = [CallStatus EXCEPT ![o] = "open"] /\ CallStatus[o] = "idle"
          BY <2>0, <4>1, <4>3 DEF CallStatus, InFlight, TypeOK
        <4>5. CallVerdict' = CallVerdict /\ CallReply' = CallReply
          BY <2>0, <4>1, <4>2, <4>3 DEF CallVerdict, CallReply, InFlight, TypeOK
        <4> QED BY <4>4, <4>5 DEF Call!CallNext, Call!Accept
      <3> QED BY <3>1, <3>2
    <2>5. ASSUME NEW o \in Ops, TakeSendLock(o) PROVE Maps
      <3>1. CASE Write(o)
        BY <2>0, <2>5, <3>1, StutterMaps DEF TakeSendLock, Write, Queued, InFlight, TypeOK
      <3>2. CASE CannotWrite(o)
        BY <2>0, <2>5, <3>2, GiveUpMaps DEF TakeSendLock, CannotWrite, Queued
      <3> QED BY <2>5, <3>1, <3>2 DEF TakeSendLock
    <2>6. ASSUME NEW o \in Ops, FinishSend(o) PROVE Maps
      BY <2>0, <2>6, StutterMaps DEF FinishSend, InFlight, TypeOK
    <2>7. ASSUME NEW o \in Ops, FailSend(o) PROVE Maps
      BY <2>0, <2>7, GiveUpMaps DEF FailSend
    <2>8. ASSUME NEW o \in Ops, ReturnAnswer(o) PROVE Maps
      <3>1. future[o] \in Settled /\ InFlight(o)
        BY <2>0, <2>8 DEF ReturnAnswer, TypeOK, InFlight
      <3>2. Call!End(o, future[o])
        BY <2>0, <2>8, <3>1, EndMaps DEF ReturnAnswer, Outcomes, Settled, ReplyOf
      <3>3. CallStatus[o] = "open" /\ CallVerdict[o] = future[o] /\ future[o] # "unset"
        BY <2>8, <3>1 DEF ReturnAnswer, CallStatus, CallVerdict
      <3> QED BY <3>2, <3>3 DEF Call!CallNext, Call!ReplyVerdict
    <2>9. ASSUME NEW o \in Ops, RequestTimeout(o) PROVE Maps
      BY <2>0, <2>9, GiveUpMaps DEF RequestTimeout, InFlight
    <2>10. ASSUME NEW c \in Conns, AttachExecutorTransport(c) \/ PeerGone(c) PROVE Maps
      BY <2>0, <2>10, StutterMaps DEF AttachExecutorTransport, PeerGone, InFlight
    <2>11. ASSUME NEW c \in Conns, DetachExecutorTransport(c) PROVE Maps
      BY <2>0, <2>11, FuturesMap DEF DetachExecutorTransport, FailPending
    <2>12. ASSUME NEW c \in Conns, NEW o \in Ops, NEW m \in Answers,
                  HandleExecutorMessage(c, o, m)
           PROVE Maps
      BY <2>0, <2>12, FuturesMap DEF HandleExecutorMessage, TypeOK
    <2>13. CASE StopListening \/ StopForgetsTransport
      BY <2>0, <2>13, StutterMaps DEF StopListening, StopForgetsTransport, InFlight
    <2>14. CASE UNCHANGED vars
      BY <2>0, <2>14, StutterMaps DEF vars, InFlight
    <2> QED
      BY <2>1, <2>2, <2>3, <2>4, <2>5, <2>6, <2>7, <2>8, <2>9, <2>10, <2>11, <2>12,
         <2>13, <2>14 DEF Next
  <1> QED
    BY <1>1, <1>2, CallInvInductive, TypeCorrect, PTL
    DEF Spec, ImplementsForwardedCall, Call!CallSpec

-----------------------------------------------------------------------------
(* What is left in the pending dictionaries, and who detaches an executor. *)

\* Of an operation that stays in flight, is not pending, or has just ended in
\* one of the two ways that may leave an entry behind.
LEMMA ForgottenKept ==
  ASSUME TypeOK, AnsweredAreForgotten, NEW o \in Ops,
         \A p \in Ops \ {o} : pc'[p] = pc[p] /\ outcome'[p] = outcome[p],
         pending' \subseteq pending \cup {o},
         o \in pending' => InFlight(o)' \/ outcome'[o] \in {"send_failed", "closed"}
  PROVE  AnsweredAreForgotten'
  BY DEF TypeOK, AnsweredAreForgotten, InFlight

\* No request that was answered leaves an entry behind (AnsweredAreForgotten).
THEOREM AnsweredLeaveNothing == Spec => []AnsweredAreForgotten
  <1>1. Init => AnsweredAreForgotten
    BY DEF Init, AnsweredAreForgotten
  <1>2. CallInv /\ AnsweredAreForgotten /\ [Next]_vars => AnsweredAreForgotten'
    <2> SUFFICES ASSUME CallInv, AnsweredAreForgotten, [Next]_vars
                 PROVE  AnsweredAreForgotten'
      OBVIOUS
    <2>0. TypeOK
      BY DEF CallInv
    <2>1. ASSUME NEW o \in Ops,
                 AcceptRelayLink(o) \/ RefuseStopped(o) \/ AnswerWithoutExecutor(o)
          PROVE  AnsweredAreForgotten'
      <3>1. o \notin pending
        BY <2>1 DEF AcceptRelayLink, RefuseStopped, AnswerWithoutExecutor, CallInv, Fresh
      <3> QED
        BY <2>0, <2>1, <3>1, ForgottenKept
        DEF AcceptRelayLink, RefuseStopped, AnswerWithoutExecutor, End, TypeOK
    <2>2. ASSUME NEW o \in Ops, Forward(o) PROVE AnsweredAreForgotten'
      <3>1. /\ \A p \in Ops \ {o} : pc'[p] = pc[p] /\ outcome'[p] = outcome[p]
            /\ pc'[o] \in {"sending", "queued"} \/ outcome'[o] = "send_failed"
        BY <2>0, <2>2 DEF Forward, Write, CannotWrite, End, TypeOK
      <3>2. pending' = pending \cup {o}
        BY <2>2 DEF Forward
      <3> QED BY <2>0, <3>1, <3>2, ForgottenKept DEF InFlight
    <2>3. ASSUME NEW o \in Ops, TakeSendLock(o) PROVE AnsweredAreForgotten'
      <3>1. /\ \A p \in Ops \ {o} : pc'[p] = pc[p] /\ outcome'[p] = outcome[p]
            /\ pc'[o] = "sending" \/ outcome'[o] = "send_failed"
        BY <2>0, <2>3 DEF TakeSendLock, Write, CannotWrite, End, TypeOK
      <3>2. pending' = pending
        BY <2>3 DEF TakeSendLock
      <3> QED BY <2>0, <3>1, <3>2, ForgottenKept DEF InFlight
    <2>4. ASSUME NEW o \in Ops, FinishSend(o) \/ FailSend(o) PROVE AnsweredAreForgotten'
      BY <2>0, <2>4, ForgottenKept DEF FinishSend, FailSend, End, InFlight, TypeOK
    <2>5. ASSUME NEW o \in Ops, ReturnAnswer(o) PROVE AnsweredAreForgotten'
      BY <2>0, <2>5, ForgottenKept DEF ReturnAnswer, End, TypeOK
    <2>6. ASSUME NEW o \in Ops, RequestTimeout(o) PROVE AnsweredAreForgotten'
      <3>1. /\ \A p \in Ops \ {o} : pc'[p] = pc[p] /\ outcome'[p] = outcome[p]
            /\ outcome'[o] = "closed"
        BY <2>0, <2>6 DEF RequestTimeout, End, TypeOK
      <3>2. pending' \subseteq pending
        BY <2>6 DEF RequestTimeout
      <3> QED BY <2>0, <3>1, <3>2, ForgottenKept
    <2>7. ASSUME UNCHANGED <<pc, pending, outcome>> PROVE AnsweredAreForgotten'
      BY <2>7 DEF AnsweredAreForgotten, InFlight
    <2>8. ASSUME NEW c \in Conns, AttachExecutorTransport(c) \/ PeerGone(c)
                                  \/ DetachExecutorTransport(c)
          PROVE  AnsweredAreForgotten'
      BY <2>7, <2>8 DEF AttachExecutorTransport, PeerGone, DetachExecutorTransport
    <2>9. ASSUME NEW c \in Conns, NEW o \in Ops, NEW m \in Answers,
                 HandleExecutorMessage(c, o, m)
          PROVE  AnsweredAreForgotten'
      BY <2>7, <2>9 DEF HandleExecutorMessage
    <2>10. CASE StopListening \/ StopForgetsTransport
      BY <2>7, <2>10 DEF StopListening, StopForgetsTransport
    <2>11. CASE UNCHANGED vars
      BY <2>7, <2>11 DEF vars
    <2> QED
      BY <2>1, <2>2, <2>3, <2>4, <2>5, <2>6, <2>8, <2>9, <2>10, <2>11 DEF Next
  <1> QED BY <1>1, <1>2, CallInvInductive, PTL DEF Spec

\* The attached executor is detached by the end of its own connection or by
\* stop() alone (DetachedOnlyByItsOwnEnd).
THEOREM NobodyElseDetaches == Spec => DetachedOnlyByItsOwnEnd
  <1> DEFINE Detached == executorTransport # NoConn /\ executorTransport' = NoConn
                           => conn'[executorTransport] = "ended" \/ phase' = "stopped"
  <1>1. TypeOK /\ [Next]_vars => Detached
    <2> SUFFICES ASSUME TypeOK, [Next]_vars,
                        executorTransport # NoConn, executorTransport' = NoConn
                 PROVE  conn'[executorTransport] = "ended" \/ phase' = "stopped"
      OBVIOUS
    <2>1. ASSUME NEW c \in Conns, AttachExecutorTransport(c) PROVE FALSE
      BY <2>1, ConstantsAssumption DEF AttachExecutorTransport
    <2>2. ASSUME NEW c \in Conns, DetachExecutorTransport(c)
          PROVE  conn'[executorTransport] = "ended"
      BY <2>2 DEF DetachExecutorTransport, TypeOK
    <2>3. CASE StopForgetsTransport
      BY <2>3 DEF StopForgetsTransport
    <2> QED
      BY <2>1, <2>2, <2>3
      DEF Next, AcceptRelayLink, RefuseStopped, AnswerWithoutExecutor, Forward,
          TakeSendLock, FinishSend, FailSend, ReturnAnswer, RequestTimeout, PeerGone,
          HandleExecutorMessage, StopListening, vars
  <1>2. TypeOK /\ [Next]_vars => [Detached]_vars
    BY <1>1
  <1> QED BY <1>2, TypeCorrect, PTL DEF Spec, DetachedOnlyByItsOwnEnd
=============================================================================
