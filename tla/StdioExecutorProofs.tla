------------------------ MODULE StdioExecutorProofs ------------------------
(* For any finite set of operations and pipes of any size: the types; that  *)
(* the traffic between the relay and its executor is bounded by the number  *)
(* of operations, so that the two cannot block each other while the pipes   *)
(* have room for it; which requests can be lost; that each operation gets   *)
(* the verdict ForwardedCall promises; and that every step leaves less to   *)
(* be done.                                                                 *)
EXTENDS StdioExecutor, FiniteSetTheorems, SequenceTheorems, TLAPS

Idle == {o \in Ops : pc[o] = "idle"}

Traffic == Len(writing) + Len(toExecutor) + Len(toRelay) + Len(answering)

\* Each operation that has been forwarded has at most one message under way,
\* and the registration has one.
TrafficIsBounded == Traffic + Cardinality(Idle) <= Cardinality(Ops) + 1

TrafficInv == TypeOK /\ TrafficIsBounded

LEMMA MessageType ==
  /\ \A k \in {"register", "request", "result", "ack", "refusal", "nack"},
        o \in Ops \cup {NoOp} : Message(k, o) \in Messages
  /\ \A m \in Messages : AnswerKind(m) \in {"result", "refusal", "nack"}
  BY DEF Message, Messages, AnswerKind

LEMMA OneMessage ==
  ASSUME NEW m \in Messages
  PROVE  <<m>> \in Seq(Messages) /\ Len(<<m>>) = 1 /\ Head(<<m>>) = m /\ Tail(<<m>>) = <<>>
  OBVIOUS

LEMMA TakeOne ==
  ASSUME NEW s \in Seq(Messages), s # <<>>
  PROVE  /\ Head(s) \in Messages /\ Tail(s) \in Seq(Messages)
         /\ Len(s) \in Nat \ {0} /\ Len(Tail(s)) = Len(s) - 1
  BY HeadTailProperties, EmptySeq

LEMMA IdleIsFinite ==
  /\ IsFiniteSet(Idle)
  /\ Cardinality(Idle) \in Nat
  /\ Cardinality(Ops) \in Nat
  <1>1. IsFiniteSet(Idle)
    BY StdioAssumption, FS_Subset DEF Idle
  <1> QED BY <1>1, StdioAssumption, FS_CardinalityType

\* No operation becomes idle again.
LEMMA IdleShrinks ==
  ASSUME Idle' \subseteq Idle
  PROVE  Cardinality(Idle') \in Nat /\ Cardinality(Idle') <= Cardinality(Idle)
  BY IdleIsFinite, FS_Subset, FS_CardinalityType

LEMMA LengthTypes ==
  ASSUME TypeOK
  PROVE  /\ Len(writing) \in Nat /\ Len(toExecutor) \in Nat
         /\ Len(toRelay) \in Nat /\ Len(answering) \in Nat
  BY DEF TypeOK

\* Sending puts exactly one message into the pipe or into the write.
LEMMA SendAddsOne ==
  ASSUME TypeOK, NEW m \in Messages, writing = <<>>, Send(m)
  PROVE  /\ writing' \in Seq(Messages) /\ Len(writing') <= 1
         /\ toExecutor' \in Seq(Messages)
         /\ Len(writing') + Len(toExecutor') = Len(writing) + Len(toExecutor) + 1
  <1>1. Len(writing) = 0 /\ Len(toExecutor) \in Nat
    BY DEF TypeOK
  <1>2. CASE RoomFor(toExecutor)
    <2>1. toExecutor' = Append(toExecutor, m) /\ writing' = writing
      BY <1>2 DEF Send
    <2>2. /\ toExecutor' \in Seq(Messages)
          /\ Len(toExecutor') = Len(toExecutor) + 1
      BY <2>1, AppendProperties DEF TypeOK
    <2> QED BY <1>1, <2>1, <2>2 DEF TypeOK
  <1>3. CASE ~RoomFor(toExecutor)
    <2>1. writing' = <<m>> /\ toExecutor' = toExecutor
      BY <1>3 DEF Send
    <2>2. writing' \in Seq(Messages) /\ Len(writing') = 1
      BY <2>1, OneMessage
    <2> QED BY <1>1, <2>1, <2>2 DEF TypeOK
  <1> QED BY <1>2, <1>3

\* Leaving the loop takes messages away and settles futures.
LEMMA LeaveLoopTypes ==
  ASSUME NEW f \in [Ops -> {"unset"} \cup Settled], LeaveLoop(f)
  PROVE  /\ relay' = "ended" /\ toRelay' = <<>>
         /\ future' \in [Ops -> {"unset"} \cup Settled]
  BY DEF LeaveLoop, FailPending, Settled

LEMMA SettleType ==
  ASSUME TypeOK, NEW m
  PROVE  Settle(m) \in [Ops -> {"unset"} \cup Settled]
  BY DEF Settle, Verdict, Settled, TypeOK

LEMMA TrafficInvInductive == Spec => []TrafficInv
  <1>1. Init => TrafficInv
    <2> SUFFICES ASSUME Init PROVE TrafficInv
      OBVIOUS
    <2>1. Idle = Ops
      BY DEF Init, Idle
    <2>2. Message("register", NoOp) \in Messages
      BY MessageType
    <2>3. answering \in Seq(Messages) /\ Len(answering) = 1
      BY <2>2, OneMessage DEF Init
    <2>4. TypeOK
      BY <2>3 DEF Init, TypeOK
    <2>5. TrafficIsBounded
      BY <2>1, <2>3, IdleIsFinite DEF Init, TrafficIsBounded, Traffic
    <2> QED BY <2>4, <2>5 DEF TrafficInv
  <1>2. TrafficInv /\ [Next]_vars => TrafficInv'
    <2> SUFFICES ASSUME TrafficInv, [Next]_vars PROVE TrafficInv'
      OBVIOUS
    <2>0. /\ TypeOK /\ TrafficIsBounded
          /\ Len(writing) \in Nat /\ Len(toExecutor) \in Nat
          /\ Len(toRelay) \in Nat /\ Len(answering) \in Nat
          /\ Cardinality(Idle) \in Nat /\ Cardinality(Ops) \in Nat
      BY LengthTypes, IdleIsFinite DEF TrafficInv
    <2>1. ASSUME NEW o \in Ops, Forward(o) PROVE TrafficInv'
      <3>1. Message("request", o) \in Messages /\ writing = <<>>
        BY <2>1, MessageType DEF Forward, Running
      <3>2. /\ writing' \in Seq(Messages) /\ Len(writing') <= 1
            /\ toExecutor' \in Seq(Messages)
            /\ Len(writing') + Len(toExecutor') = Len(writing) + Len(toExecutor) + 1
        BY <2>0, <2>1, <3>1, SendAddsOne DEF Forward
      <3>3. TypeOK'
        BY <2>0, <2>1, <3>2 DEF Forward, TypeOK
      <3>4. Idle' = Idle \ {o} /\ o \in Idle
        BY <2>0, <2>1 DEF Forward, Idle, TypeOK
      <3>5. Cardinality(Idle') = Cardinality(Idle) - 1 /\ Cardinality(Idle') \in Nat
        BY <3>4, IdleIsFinite, FS_RemoveElement, FS_CardinalityType
      <3>6. TrafficIsBounded'
        <4>1. /\ toRelay' = toRelay /\ answering' = answering
              /\ Len(writing') \in Nat /\ Len(toExecutor') \in Nat
          BY <2>1, <3>2 DEF Forward
        <4> QED BY <2>0, <3>2, <3>5, <4>1, SMTT(30) DEF TrafficIsBounded, Traffic
      <3> QED BY <3>3, <3>6 DEF TrafficInv
    <2>2. ASSUME NEW o \in Ops, ForwardFails(o) \/ ReturnAnswer(o) \/ RequestTimeout(o)
          PROVE  TrafficInv'
      <3>1. /\ pipes' = pipes /\ UNCHANGED <<relay, stage, future>>
            /\ \E how \in Outcomes : Finish(o, how)
        BY <2>0, <2>2 DEF ForwardFails, ReturnAnswer, RequestTimeout, Outcomes, TypeOK
      <3>2. TypeOK'
        BY <2>0, <3>1 DEF Finish, pipes, TypeOK
      <3>3. Idle' \subseteq Idle
        BY <2>0, <3>1 DEF Finish, Idle, TypeOK
      <3>4. TrafficIsBounded'
        BY <2>0, <3>1, <3>3, IdleShrinks DEF pipes, TrafficIsBounded, Traffic
      <3> QED BY <3>2, <3>4 DEF TrafficInv
    <2>3. CASE WriteProceeds
      <3>0. /\ writing # <<>>
            /\ toExecutor' = Append(toExecutor, Head(writing))
            /\ writing' = <<>>
            /\ UNCHANGED <<relay, stage, future, outcome, toRelay, answering>>
        BY <2>3 DEF WriteProceeds
      <3>1. Head(writing) \in Messages /\ Len(writing) = 1
        <4>1. writing \in Seq(Messages) /\ Len(writing) <= 1
          BY <2>0 DEF TypeOK
        <4>2. Head(writing) \in Messages /\ Len(writing) \in Nat \ {0}
          BY <3>0, <4>1, TakeOne
        <4>3. \A n \in Nat \ {0} : n <= 1 => n = 1
          OBVIOUS
        <4> QED BY <4>1, <4>2, <4>3
      <3>2. toExecutor' \in Seq(Messages) /\ Len(toExecutor') = Len(toExecutor) + 1
        BY <2>0, <3>0, <3>1, AppendProperties DEF TypeOK
      <3>3. pc' \in [Ops -> {"idle", "sending", "waiting", "done"}] /\ Idle' = Idle
        BY <2>0, <2>3 DEF WriteProceeds, TypeOK, Idle
      <3>4. TypeOK'
        BY <2>0, <3>0, <3>1, <3>2, <3>3 DEF TypeOK
      <3>5. TrafficIsBounded'
        BY <2>0, <3>0, <3>1, <3>2, <3>3 DEF TrafficIsBounded, Traffic
      <3> QED BY <3>4, <3>5 DEF TrafficInv
    <2>4. CASE WriteFails
      <3>1. writing' = <<>> /\ UNCHANGED <<stage, toExecutor, answering>>
        BY <2>4 DEF WriteFails
      <3>2. /\ toRelay' \in Seq(Messages) /\ Len(toRelay') <= Len(toRelay)
            /\ relay' \in {"serving", "ended"}
            /\ future' \in [Ops -> {"unset"} \cup Settled]
            /\ pc' \in [Ops -> {"idle", "sending", "waiting", "done"}]
            /\ outcome' \in [Ops -> {"none"} \cup Outcomes]
            /\ Idle' \subseteq Idle
        <4>1. CASE Head(writing).kind = "request"
          <5>1. /\ Finish(Head(writing).op, "send_failed")
                /\ UNCHANGED <<relay, future, toRelay>>
            BY <2>4, <4>1 DEF WriteFails
          <5>2. /\ pc' \in [Ops -> {"idle", "sending", "waiting", "done"}]
                /\ outcome' \in [Ops -> {"none"} \cup Outcomes]
            BY <2>0, <5>1 DEF Finish, TypeOK, Outcomes
          <5>3. Idle' \subseteq Idle
            BY <2>0, <5>1 DEF Finish, Idle, TypeOK
          <5> QED BY <2>0, <5>1, <5>2, <5>3 DEF TypeOK
        <4>2. CASE Head(writing).kind # "request"
          <5>1. LeaveLoop(future) /\ UNCHANGED <<pc, outcome>>
            BY <2>4, <4>2 DEF WriteFails
          <5>2. future \in [Ops -> {"unset"} \cup Settled]
            BY <2>0 DEF TypeOK
          <5>3. /\ relay' = "ended" /\ toRelay' = <<>>
                /\ future' \in [Ops -> {"unset"} \cup Settled]
            BY <5>1, <5>2, LeaveLoopTypes
          <5>4. toRelay' \in Seq(Messages) /\ Len(toRelay') <= Len(toRelay)
            BY <2>0, <5>3
          <5> QED BY <2>0, <5>1, <5>3, <5>4 DEF TypeOK, Idle
        <4> QED BY <4>1, <4>2
      <3>3. TypeOK'
        BY <2>0, <3>1, <3>2 DEF TypeOK
      <3>4. TrafficIsBounded'
        BY <2>0, <3>1, <3>2, IdleShrinks DEF TrafficIsBounded, Traffic
      <3> QED BY <3>3, <3>4 DEF TrafficInv
    <2>5. CASE HandleMessage
      <3> DEFINE m == Head(toRelay)
      <3>1. /\ m \in Messages /\ Tail(toRelay) \in Seq(Messages)
            /\ Len(Tail(toRelay)) = Len(toRelay) - 1
            /\ writing = <<>>
            /\ UNCHANGED <<stage, pc, outcome, answering>>
        BY <2>0, <2>5, TakeOne DEF HandleMessage, Running, TypeOK
      <3>2. Settle(m) \in [Ops -> {"unset"} \cup Settled]
        BY <2>0, SettleType
      <3>3. Message("ack", m.op) \in Messages
        BY <3>1, MessageType DEF Messages
      <3>4. Idle' = Idle
        BY <3>1 DEF Idle
      <3>5. /\ writing' \in Seq(Messages) /\ Len(writing') <= 1
            /\ toExecutor' \in Seq(Messages) /\ toRelay' \in Seq(Messages)
            /\ Len(writing') + Len(toExecutor') + Len(toRelay')
                 <= Len(writing) + Len(toExecutor) + Len(toRelay)
            /\ relay' \in {"serving", "ended"}
            /\ future' \in [Ops -> {"unset"} \cup Settled]
        <4>1. CASE DrawsResponse(m) /\ stage = "gone"
          <5>1. LeaveLoop(Settle(m)) /\ UNCHANGED <<writing, toExecutor>>
            BY <2>5, <4>1 DEF HandleMessage
          <5>2. /\ relay' = "ended" /\ toRelay' = <<>>
                /\ future' \in [Ops -> {"unset"} \cup Settled]
            BY <3>2, <5>1, LeaveLoopTypes
          <5>3. toRelay' \in Seq(Messages) /\ Len(toRelay') = 0
            BY <5>2
          <5> QED BY <2>0, <5>1, <5>2, <5>3 DEF TypeOK
        <4>2. CASE DrawsResponse(m) /\ stage # "gone"
          <5>1. /\ toRelay' = Tail(toRelay) /\ future' = Settle(m) /\ relay' = relay
                /\ Send(Message("ack", m.op))
            BY <2>5, <4>2 DEF HandleMessage
          <5>2. /\ writing' \in Seq(Messages) /\ Len(writing') <= 1
                /\ toExecutor' \in Seq(Messages)
                /\ Len(writing') + Len(toExecutor') = Len(writing) + Len(toExecutor) + 1
            BY <2>0, <3>1, <3>3, <5>1, SendAddsOne
          <5> QED BY <2>0, <3>1, <3>2, <5>1, <5>2 DEF TypeOK
        <4>3. CASE ~DrawsResponse(m)
          <5>1. /\ toRelay' = Tail(toRelay) /\ future' = Settle(m) /\ relay' = relay
                /\ UNCHANGED <<writing, toExecutor>>
            BY <2>5, <4>3 DEF HandleMessage
          <5> QED BY <2>0, <3>1, <3>2, <5>1 DEF TypeOK
        <4> QED BY <4>1, <4>2, <4>3
      <3>6. TypeOK'
        BY <2>0, <3>1, <3>5 DEF TypeOK
      <3>7. TrafficIsBounded'
        <4>1. /\ Len(writing') \in Nat /\ Len(toExecutor') \in Nat /\ Len(toRelay') \in Nat
              /\ answering' = answering
          BY <3>1, <3>5
        <4> QED BY <2>0, <3>4, <3>5, <4>1, SMTT(30) DEF TrafficIsBounded, Traffic
      <3> QED BY <3>6, <3>7 DEF TrafficInv
    <2>6. CASE RejectFrame \/ EndOfFile
      <3>1. LeaveLoop(future) /\ UNCHANGED <<stage, pc, outcome, writing, toExecutor, answering>>
        BY <2>6 DEF RejectFrame, EndOfFile
      <3>2. /\ relay' = "ended" /\ toRelay' = <<>>
            /\ future' \in [Ops -> {"unset"} \cup Settled]
        BY <2>0, <3>1, LeaveLoopTypes DEF TypeOK
      <3>3. TypeOK'
        BY <2>0, <3>1, <3>2 DEF TypeOK
      <3>4. TrafficIsBounded'
        BY <2>0, <3>1, <3>2 DEF TrafficIsBounded, Traffic, Idle
      <3> QED BY <3>3, <3>4 DEF TrafficInv
    <2>7. CASE TakeAck
      <3>1. /\ Tail(toExecutor) \in Seq(Messages)
            /\ Len(Tail(toExecutor)) = Len(toExecutor) - 1
            /\ toExecutor' = Tail(toExecutor) /\ answering = <<>>
            /\ UNCHANGED <<relay, pc, future, outcome, writing, toRelay>>
        BY <2>0, <2>7, TakeOne DEF TakeAck, TypeOK
      <3>2. Message("register", NoOp) \in Messages
        BY MessageType
      <3>3. /\ answering' \in Seq(Messages) /\ Len(answering') <= 1
            /\ stage' \in {"register_executor", "register_tools", "main", "gone"}
        <4>1. CASE stage = "register_executor"
          <5>1. stage' = "register_tools" /\ answering' = <<Message("register", NoOp)>>
            BY <2>7, <4>1 DEF TakeAck
          <5> QED BY <3>2, <5>1, OneMessage
        <4>2. CASE stage # "register_executor"
          BY <2>0, <2>7, <4>2 DEF TakeAck, TypeOK
        <4> QED BY <4>1, <4>2
      <3>4. TypeOK'
        BY <2>0, <3>1, <3>3 DEF TypeOK
      <3>5. TrafficIsBounded'
        BY <2>0, <3>1, <3>3 DEF TrafficIsBounded, Traffic, Idle
      <3> QED BY <3>4, <3>5 DEF TrafficInv
    <2>8. CASE AnswerMessage
      <3> DEFINE m == Head(toExecutor)
      <3>1. /\ m \in Messages /\ Tail(toExecutor) \in Seq(Messages)
            /\ Len(Tail(toExecutor)) = Len(toExecutor) - 1
            /\ toExecutor' = Tail(toExecutor) /\ answering = <<>>
            /\ UNCHANGED <<relay, stage, pc, future, outcome, writing, toRelay>>
        BY <2>0, <2>8, TakeOne DEF AnswerMessage, TypeOK
      <3>2. Message(AnswerKind(m), m.op) \in Messages
        BY <3>1, MessageType DEF Messages
      <3>3. answering' \in Seq(Messages) /\ Len(answering') = 1
        BY <2>8, <3>2, OneMessage DEF AnswerMessage
      <3>4. TypeOK'
        BY <2>0, <3>1, <3>3 DEF TypeOK
      <3>5. TrafficIsBounded'
        BY <2>0, <3>1, <3>3 DEF TrafficIsBounded, Traffic, Idle
      <3> QED BY <3>4, <3>5 DEF TrafficInv
    <2>9. CASE ExecutorWrites
      <3>1. /\ Head(answering) \in Messages /\ Tail(answering) \in Seq(Messages)
            /\ Len(Tail(answering)) = Len(answering) - 1
            /\ toRelay' = Append(toRelay, Head(answering)) /\ answering' = Tail(answering)
            /\ UNCHANGED <<relay, stage, pc, future, outcome, writing, toExecutor>>
        BY <2>0, <2>9, TakeOne DEF ExecutorWrites, TypeOK
      <3>2. toRelay' \in Seq(Messages) /\ Len(toRelay') = Len(toRelay) + 1
        BY <2>0, <3>1, AppendProperties DEF TypeOK
      <3>3. TypeOK'
        BY <2>0, <3>1, <3>2 DEF TypeOK
      <3>4. TrafficIsBounded'
        BY <2>0, <3>1, <3>2 DEF TrafficIsBounded, Traffic, Idle
      <3> QED BY <3>3, <3>4 DEF TrafficInv
    <2>10. CASE ExecutorCrashes \/ ExecutorStops
      <3>1. /\ stage' = "gone" /\ toExecutor' = <<>> /\ answering' = <<>>
            /\ UNCHANGED <<relay, pc, future, outcome, writing, toRelay>>
        BY <2>10 DEF ExecutorCrashes, ExecutorStops, Disappear
      <3>2. TypeOK'
        BY <2>0, <3>1 DEF TypeOK
      <3>3. TrafficIsBounded'
        BY <2>0, <3>1 DEF TrafficIsBounded, Traffic, Idle
      <3> QED BY <3>2, <3>3 DEF TrafficInv
    <2>11. CASE UNCHANGED vars
      BY <2>0, <2>11 DEF vars, pipes, TrafficInv, TypeOK, TrafficIsBounded, Traffic, Idle
    <2> QED
      BY <2>1, <2>2, <2>3, <2>4, <2>5, <2>6, <2>7, <2>8, <2>9, <2>10, <2>11 DEF Next
  <1> QED BY <1>1, <1>2, PTL DEF Spec

\* The state always has its type (TypeOK): no more than one message is ever held
\* up in a write of the relay or in the hands of the executor.
THEOREM TypeCorrect == Spec => []TypeOK
  <1>1. TrafficInv => TypeOK
    BY DEF TrafficInv
  <1> QED BY <1>1, TrafficInvInductive, PTL

\* A relay and its executor on standard streams cannot block each other for good
\* while the pipes have room for all operations (serve_tep_stdio).  Two writers
\* that are stuck stand for two full pipes and a message each, more than the
\* operations and the registration account for.
THEOREM PipesWithRoomNeverWedge == Spec => []NoWedge
  <1>1. TrafficInv => NoWedge
    <2> SUFFICES ASSUME TrafficInv, Wedged PROVE ~(Cardinality(Ops) <= 2 * Capacity)
      BY DEF NoWedge
    <2>1. /\ Len(writing) \in Nat /\ Len(toExecutor) \in Nat
          /\ Len(toRelay) \in Nat /\ Len(answering) \in Nat
      BY LengthTypes DEF TrafficInv
    <2>2. Len(writing) >= 1 /\ Len(answering) >= 1
      BY EmptySeq DEF Wedged, TrafficInv, TypeOK
    <2>3. Len(toExecutor) >= Capacity /\ Len(toRelay) >= Capacity
      BY <2>1, StdioAssumption DEF Wedged, RoomFor
    <2>4. 2 * Capacity + 2 <= Cardinality(Ops) + 1
      BY <2>1, <2>2, <2>3, IdleIsFinite, StdioAssumption
      DEF TrafficInv, TrafficIsBounded, Traffic
    <2> QED BY <2>4, IdleIsFinite, StdioAssumption
  <1> QED BY <1>1, TrafficInvInductive, PTL

-----------------------------------------------------------------------------
(* What a message leads to, from one pipe to the next.                     *)

LEMMA CarriesAppended ==
  ASSUME NEW s \in Seq(Messages), NEW m \in Messages, NEW o
  PROVE  Carries(Append(s, m), o) <=> Carries(s, o) \/ Leads(m, o)
  <1>1. /\ Len(Append(s, m)) = Len(s) + 1 /\ Len(s) \in Nat
        /\ \A i \in 1 .. Len(s) : Append(s, m)[i] = s[i]
        /\ Append(s, m)[Len(s) + 1] = m
    BY AppendProperties
  <1>2. 1 .. Len(s) + 1 = (1 .. Len(s)) \cup {Len(s) + 1}
    BY <1>1
  <1> QED BY <1>1, <1>2 DEF Carries

LEMMA CarriesTaken ==
  ASSUME NEW s \in Seq(Messages), s # <<>>, NEW o
  PROVE  Carries(s, o) <=> Leads(Head(s), o) \/ Carries(Tail(s), o)
  <1>1. /\ Len(s) \in Nat \ {0} /\ Len(Tail(s)) = Len(s) - 1 /\ Head(s) = s[1]
        /\ \A i \in 1 .. Len(s) - 1 : Tail(s)[i] = s[i + 1]
    BY HeadTailProperties, EmptySeq
  <1>2. ASSUME Carries(s, o) PROVE Leads(Head(s), o) \/ Carries(Tail(s), o)
    <2>1. PICK i \in 1 .. Len(s) : Leads(s[i], o)
      BY <1>2 DEF Carries
    <2>2. CASE i = 1
      BY <1>1, <2>1, <2>2
    <2>3. CASE i # 1
      <3>1. i - 1 \in 1 .. Len(s) - 1 /\ s[(i - 1) + 1] = s[i]
        BY <1>1, <2>3
      <3>2. Leads(Tail(s)[i - 1], o)
        BY <1>1, <2>1, <3>1
      <3> QED BY <1>1, <3>1, <3>2 DEF Carries
    <2> QED BY <2>2, <2>3
  <1>3. ASSUME Leads(Head(s), o) PROVE Carries(s, o)
    BY <1>1, <1>3 DEF Carries
  <1>4. ASSUME Carries(Tail(s), o) PROVE Carries(s, o)
    <2>1. PICK i \in 1 .. Len(s) - 1 : Leads(Tail(s)[i], o)
      BY <1>1, <1>4 DEF Carries
    <2>2. i + 1 \in 1 .. Len(s) /\ Leads(s[i + 1], o)
      BY <1>1, <2>1
    <2> QED BY <2>2 DEF Carries
  <1> QED BY <1>2, <1>3, <1>4

LEMMA CarriesFew ==
  ASSUME NEW m \in Messages, NEW o
  PROVE  (Carries(<<m>>, o) <=> Leads(m, o)) /\ ~Carries(<<>>, o)
  <1>1. /\ <<>> \in Seq(Messages) /\ Append(<<>>, m) = <<m>>
        /\ ~Carries(<<>>, o)
    BY DEF Carries
  <1> QED BY <1>1, CarriesAppended

\* A message that is sent is under way, in the pipe or in the held up write.
LEMMA SendCarries ==
  ASSUME TypeOK, NEW m \in Messages, writing = <<>>, Send(m), NEW o
  PROVE  Carries(writing', o) \/ Carries(toExecutor', o)
           <=> Carries(toExecutor, o) \/ Leads(m, o)
  <1>1. CASE RoomFor(toExecutor)
    <2>1. writing' = <<>> /\ toExecutor' = Append(toExecutor, m)
      BY <1>1 DEF Send
    <2>2. toExecutor \in Seq(Messages)
      BY DEF TypeOK
    <2> QED BY <2>1, <2>2, CarriesAppended, CarriesFew
  <1>2. CASE ~RoomFor(toExecutor)
    <2>1. writing' = <<m>> /\ toExecutor' = toExecutor
      BY <1>2 DEF Send
    <2> QED BY <2>1, CarriesFew
  <1> QED BY <1>1, <1>2

LEMMA UnderWayPrimed ==
  ASSUME NEW o
  PROVE  UnderWay(o)' <=> \/ Carries(writing', o) \/ Carries(toExecutor', o)
                          \/ Carries(answering', o) \/ Carries(toRelay', o)
  BY DEF UnderWay, Carries, Leads

-----------------------------------------------------------------------------
(* Requests that are lost.                                                 *)

\* What the relay writes.
FromRelay == [kind : {"request", "ack"}, op : Ops \cup {NoOp}]

\* A request that is being sent is the write that is held up, and the reverse.
HeldUpRequests ==
  /\ \A o \in Ops : pc[o] = "sending" => writing = <<Message("request", o)>>
  /\ writing # <<>> /\ Head(writing).kind = "request"
       => Head(writing).op \in Ops /\ pc[Head(writing).op] = "sending"

\* Nobody has answered what has not been sent.
UnsentIsUnset == \A o \in Ops : pc[o] \in {"idle", "sending"} => future[o] = "unset"

RequestInv ==
  /\ TypeOK
  /\ writing \in Seq(FromRelay) /\ toExecutor \in Seq(FromRelay)
  /\ HeldUpRequests
  /\ UnsentIsUnset

LEMMA FromRelayType ==
  /\ FromRelay \subseteq Messages
  /\ \A o \in Ops : Message("request", o) \in FromRelay
  /\ \A o \in Ops \cup {NoOp} : Message("ack", o) \in FromRelay
  BY DEF FromRelay, Messages, Message

LEMMA SendFromRelay ==
  ASSUME RequestInv, NEW m \in FromRelay, writing = <<>>, Send(m)
  PROVE  writing' \in Seq(FromRelay) /\ toExecutor' \in Seq(FromRelay)
  <1>1. toExecutor \in Seq(FromRelay)
    BY DEF RequestInv
  <1>2. CASE RoomFor(toExecutor)
    BY <1>1, <1>2, AppendProperties DEF Send
  <1>3. CASE ~RoomFor(toExecutor)
    <2>1. writing' = <<m>> /\ toExecutor' = toExecutor
      BY <1>3 DEF Send
    <2>2. <<m>> \in Seq(FromRelay)
      OBVIOUS
    <2> QED BY <1>1, <2>1, <2>2
  <1> QED BY <1>2, <1>3

LEMMA TakeFromRelay ==
  ASSUME NEW s \in Seq(FromRelay), s # <<>>
  PROVE  Head(s) \in FromRelay /\ Tail(s) \in Seq(FromRelay)
  BY HeadTailProperties, EmptySeq

\* The three parts of RequestInv where neither the writes nor the pipe to the
\* executor change.
LEMMA RequestInvKept ==
  ASSUME RequestInv, TypeOK', UNCHANGED <<writing, pc>>,
         toExecutor' \in Seq(FromRelay),
         \A o \in Ops : future'[o] # future[o] => pc[o] = "waiting"
  PROVE  RequestInv'
  BY DEF RequestInv, HeldUpRequests, UnsentIsUnset

\* An operation that ends while no write is held up.
LEMMA RequestInvAtEnd ==
  ASSUME RequestInv, TypeOK', NEW o \in Ops, NEW how, Finish(o, how),
         writing = <<>>, UNCHANGED <<writing, toExecutor, future>>
  PROVE  RequestInv'
  BY DEF RequestInv, HeldUpRequests, UnsentIsUnset, Finish, TypeOK

LEMMA RequestInvInductive == Spec => []RequestInv
  <1>1. Init => RequestInv
    <2> SUFFICES ASSUME Init PROVE RequestInv
      OBVIOUS
    <2>1. TypeOK
      <3>1. answering \in Seq(Messages) /\ Len(answering) = 1
        BY MessageType, OneMessage DEF Init
      <3> QED BY <3>1 DEF Init, TypeOK
    <2> QED BY <2>1 DEF Init, RequestInv, HeldUpRequests, UnsentIsUnset
  <1>2. RequestInv /\ TypeOK' /\ [Next]_vars => RequestInv'
    <2> SUFFICES ASSUME RequestInv, TypeOK', [Next]_vars PROVE RequestInv'
      OBVIOUS
    <2>0. TypeOK /\ toExecutor \in Seq(FromRelay) /\ writing \in Seq(FromRelay)
      BY DEF RequestInv
    <2>1. ASSUME NEW o \in Ops, Forward(o) PROVE RequestInv'
      <3>1. /\ writing = <<>> /\ pc[o] = "idle" /\ future' = future
            /\ Send(Message("request", o))
            /\ pc' = [pc EXCEPT ![o] = IF RoomFor(toExecutor) THEN "waiting" ELSE "sending"]
        BY <2>1 DEF Forward, Running
      <3>2. writing' \in Seq(FromRelay) /\ toExecutor' \in Seq(FromRelay)
        BY <3>1, SendFromRelay, FromRelayType
      <3>3. UnsentIsUnset'
        BY <2>0, <3>1 DEF RequestInv, UnsentIsUnset, TypeOK
      <3>4. \A p \in Ops : pc[p] # "sending"
        BY <3>1 DEF RequestInv, HeldUpRequests
      <3>5. HeldUpRequests'
        <4>1. CASE RoomFor(toExecutor)
          BY <2>0, <3>1, <3>4, <4>1 DEF HeldUpRequests, Send, TypeOK
        <4>2. CASE ~RoomFor(toExecutor)
          <5>1. writing' = <<Message("request", o)>>
            BY <3>1, <4>2 DEF Send
          <5>2. Head(writing') = Message("request", o)
            BY <5>1
          <5>3. Head(writing').op = o /\ pc'[o] = "sending"
            BY <2>0, <3>1, <4>2, <5>2 DEF Message, TypeOK
          <5>4. \A p \in Ops : pc'[p] = "sending" => p = o
            BY <2>0, <3>1, <3>4 DEF TypeOK
          <5> QED BY <5>1, <5>3, <5>4 DEF HeldUpRequests
        <4> QED BY <4>1, <4>2
      <3> QED BY <3>2, <3>3, <3>5 DEF RequestInv
    <2>2. ASSUME NEW o \in Ops, ForwardFails(o) \/ ReturnAnswer(o) \/ RequestTimeout(o)
          PROVE  RequestInv'
      <3>1. /\ writing = <<>> /\ UNCHANGED <<writing, toExecutor, future>>
            /\ \E how : Finish(o, how)
        BY <2>2 DEF ForwardFails, ReturnAnswer, RequestTimeout, Running, pipes
      <3> QED BY <3>1, RequestInvAtEnd
    <2>3. CASE WriteProceeds
      <3>1. /\ writing # <<>> /\ writing' = <<>> /\ future' = future
            /\ toExecutor' = Append(toExecutor, Head(writing))
            /\ pc' = [p \in Ops |-> IF pc[p] = "sending" THEN "waiting" ELSE pc[p]]
        BY <2>3 DEF WriteProceeds
      <3>2. toExecutor' \in Seq(FromRelay)
        BY <2>0, <3>1, TakeFromRelay, AppendProperties
      <3>3. \A p \in Ops : pc'[p] # "sending" /\ (pc'[p] = "idle" => pc[p] = "idle")
        BY <2>0, <3>1 DEF TypeOK
      <3>4. UnsentIsUnset' /\ HeldUpRequests'
        BY <3>1, <3>3 DEF RequestInv, UnsentIsUnset, HeldUpRequests
      <3>5. writing' \in Seq(FromRelay)
        BY <3>1
      <3> QED BY <3>2, <3>4, <3>5 DEF RequestInv
    <2>4. CASE WriteFails
      <3>1. writing # <<>> /\ writing' = <<>> /\ toExecutor' = toExecutor
        BY <2>4 DEF WriteFails
      <3>2. /\ \A p \in Ops : pc'[p] \in {pc[p], "done"}
            /\ \A p \in Ops : pc'[p] # "sending"
            /\ \A p \in Ops : future'[p] # future[p] => pc[p] = "waiting"
        <4>1. CASE Head(writing).kind = "request"
          <5> DEFINE o == Head(writing).op
          <5>1. pc' = [pc EXCEPT ![o] = "done"] /\ future' = future
            BY <2>4, <4>1 DEF WriteFails, Finish
          <5>2. \A p \in Ops : pc[p] = "sending" => p = o
            BY <3>1 DEF RequestInv, HeldUpRequests, Message
          <5> QED BY <2>0, <5>1, <5>2 DEF TypeOK
        <4>2. CASE Head(writing).kind # "request"
          <5>1. LeaveLoop(future) /\ pc' = pc
            BY <2>4, <4>2 DEF WriteFails
          <5>2. \A p \in Ops : pc[p] # "sending"
            BY <4>2 DEF RequestInv, HeldUpRequests, Message
          <5> QED BY <5>1, <5>2 DEF LeaveLoop, FailPending
        <4> QED BY <4>1, <4>2
      <3>3. UnsentIsUnset' /\ HeldUpRequests'
        BY <3>1, <3>2 DEF RequestInv, UnsentIsUnset, HeldUpRequests
      <3> QED BY <2>0, <3>1, <3>3 DEF RequestInv
    <2>5. CASE HandleMessage
      <3> DEFINE m == Head(toRelay)
      <3>1. writing = <<>> /\ pc' = pc /\ m \in Messages
        BY <2>0, <2>5, TakeOne DEF HandleMessage, Running, TypeOK
      <3>2. \A p \in Ops : future'[p] # future[p] => pc[p] = "waiting"
        BY <2>5 DEF HandleMessage, LeaveLoop, FailPending, Settle
      <3>3. writing' \in Seq(FromRelay) /\ toExecutor' \in Seq(FromRelay)
        <4>1. CASE UNCHANGED <<writing, toExecutor>>
          BY <2>0, <4>1
        <4>2. CASE Send(Message("ack", m.op))
          <5>1. Message("ack", m.op) \in FromRelay
            BY <3>1, FromRelayType DEF Messages
          <5> QED BY <3>1, <4>2, <5>1, SendFromRelay
        <4> QED BY <2>5, <4>1, <4>2 DEF HandleMessage
      <3>4. UnsentIsUnset'
        BY <3>1, <3>2 DEF RequestInv, UnsentIsUnset
      <3>5. \A p \in Ops : pc[p] # "sending"
        BY <3>1 DEF RequestInv, HeldUpRequests
      <3>6. HeldUpRequests'
        <4>1. writing' # <<>> => Head(writing').kind # "request"
          BY <2>5, <3>1 DEF HandleMessage, Send, Message
        <4> QED BY <3>1, <3>5, <4>1 DEF HeldUpRequests
      <3> QED BY <3>3, <3>4, <3>6 DEF RequestInv
    <2>6. CASE RejectFrame \/ EndOfFile
      BY <2>0, <2>6, RequestInvKept DEF RejectFrame, EndOfFile, LeaveLoop, FailPending
    <2>7. CASE TakeAck \/ AnswerMessage
      <3>1. toExecutor # <<>> /\ toExecutor' = Tail(toExecutor) /\ UNCHANGED <<writing, pc, future>>
        BY <2>7 DEF TakeAck, AnswerMessage
      <3> QED BY <2>0, <3>1, TakeFromRelay, RequestInvKept
    <2>8. CASE ExecutorWrites
      BY <2>0, <2>8, RequestInvKept DEF ExecutorWrites
    <2>9. CASE ExecutorCrashes \/ ExecutorStops
      <3>1. toExecutor' = <<>> /\ UNCHANGED <<writing, pc, future>>
        BY <2>9 DEF ExecutorCrashes, ExecutorStops, Disappear
      <3> QED BY <3>1, RequestInvKept
    <2>10. CASE UNCHANGED vars
      BY <2>0, <2>10, RequestInvKept DEF vars, pipes
    <2> QED
      BY <2>1, <2>2, <2>3, <2>4, <2>5, <2>6, <2>7, <2>8, <2>9, <2>10 DEF Next
  <1> QED BY <1>1, <1>2, TypeCorrect, PTL DEF Spec

\* What the executor writes is no request.
FromExecutor == [kind : {"register", "result", "refusal", "nack"}, op : Ops \cup {NoOp}]

AnswersInv == answering \in Seq(FromExecutor) /\ toRelay \in Seq(FromExecutor)

LEMMA AnswersInvInductive == Spec => []AnswersInv
  <1>1. Init => AnswersInv
    <2>1. Message("register", NoOp) \in FromExecutor
      BY DEF Message, FromExecutor
    <2> QED BY <2>1 DEF Init, AnswersInv
  <1>2. AnswersInv /\ TypeOK /\ [Next]_vars => AnswersInv'
    <2> SUFFICES ASSUME AnswersInv, TypeOK, [Next]_vars PROVE AnswersInv'
      OBVIOUS
    <2>0. <<>> \in Seq(FromExecutor)
      OBVIOUS
    <2>1. CASE HandleMessage
      <3>1. answering' = answering /\ toRelay' \in {Tail(toRelay), <<>>} /\ toRelay # <<>>
        BY <2>1 DEF HandleMessage, LeaveLoop
      <3>2. Tail(toRelay) \in Seq(FromExecutor)
        BY <3>1, HeadTailProperties, EmptySeq DEF AnswersInv
      <3> QED BY <2>0, <3>1, <3>2 DEF AnswersInv
    <2>2. CASE WriteFails \/ RejectFrame \/ EndOfFile
      <3>1. answering' = answering /\ toRelay' \in {toRelay, <<>>}
        BY <2>2 DEF WriteFails, RejectFrame, EndOfFile, LeaveLoop
      <3> QED BY <2>0, <3>1 DEF AnswersInv
    <2>3. CASE TakeAck
      <3>1. toRelay' = toRelay /\ answering' \in {answering, <<Message("register", NoOp)>>}
        BY <2>3 DEF TakeAck
      <3>2. <<Message("register", NoOp)>> \in Seq(FromExecutor)
        BY DEF Message, FromExecutor
      <3> QED BY <3>1, <3>2 DEF AnswersInv
    <2>4. CASE AnswerMessage
      <3> DEFINE m == Head(toExecutor)
      <3>1. toRelay' = toRelay /\ answering' = <<Message(AnswerKind(m), m.op)>> /\ m \in Messages
        BY <2>4, TakeOne DEF AnswerMessage, TypeOK
      <3>2. Message(AnswerKind(m), m.op) \in FromExecutor
        BY <3>1, MessageType DEF Message, FromExecutor, Messages
      <3> QED BY <3>1, <3>2 DEF AnswersInv
    <2>5. CASE ExecutorWrites
      <3>1. /\ answering # <<>> /\ answering' = Tail(answering)
            /\ toRelay' = Append(toRelay, Head(answering))
        BY <2>5 DEF ExecutorWrites
      <3>2. Head(answering) \in FromExecutor /\ Tail(answering) \in Seq(FromExecutor)
        BY <3>1, HeadTailProperties, EmptySeq DEF AnswersInv
      <3> QED BY <3>1, <3>2, AppendProperties DEF AnswersInv
    <2>6. CASE ExecutorCrashes \/ ExecutorStops
      <3>1. answering' = <<>> /\ toRelay' = toRelay
        BY <2>6 DEF ExecutorCrashes, ExecutorStops, Disappear
      <3> QED BY <3>1 DEF AnswersInv
    <2>7. ASSUME UNCHANGED <<answering, toRelay>> PROVE AnswersInv'
      BY <2>7 DEF AnswersInv
    <2> QED
      BY <2>1, <2>2, <2>3, <2>4, <2>5, <2>6, <2>7
      DEF Next, Forward, ForwardFails, ReturnAnswer, RequestTimeout, WriteProceeds, vars, pipes
  <1> QED BY <1>1, <1>2, TypeCorrect, PTL DEF Spec

\* An operation that waits with nothing under way for it.
Stranded(o) == pc[o] = "waiting" /\ future[o] = "unset" /\ ~UnderWay(o)

\* A step that strands nobody keeps the bound of every stage.
LEMMA NobodyStranded ==
  ASSUME LostOnlyInRegistration, stage' \in {stage, "gone"},
         \A o \in Ops : Stranded(o)' => Stranded(o)
  PROVE  LostOnlyInRegistration'
  <1>1. Lost' \subseteq Lost
    BY DEF Lost, Stranded
  <1>2. IsFiniteSet(Lost)
    BY StdioAssumption, FS_Subset DEF Lost
  <1>3. /\ Cardinality(Lost') \in Nat /\ Cardinality(Lost) \in Nat
        /\ Cardinality(Lost') <= Cardinality(Lost)
    BY <1>1, <1>2, FS_Subset, FS_CardinalityType
  <1> QED BY <1>1, <1>3 DEF LostOnlyInRegistration

\* The answer to a registration is taken at the price of one request.
LEMMA OneStranded ==
  ASSUME LostOnlyInRegistration, NEW p,
         \A o \in Ops : Stranded(o)' => Stranded(o) \/ o = p,
         \/ stage = "register_executor" /\ stage' = "register_tools"
         \/ stage = "register_tools" /\ stage' = "main"
  PROVE  LostOnlyInRegistration'
  <1>1. Lost' \subseteq Lost \cup {p}
    BY DEF Lost, Stranded
  <1>2. IsFiniteSet(Lost)
    BY StdioAssumption, FS_Subset DEF Lost
  <1>3. /\ IsFiniteSet(Lost \cup {p})
        /\ Cardinality(Lost) \in Nat
        /\ Cardinality(Lost \cup {p}) <= Cardinality(Lost) + 1
    BY <1>2, FS_AddElement, FS_CardinalityType
  <1>4. /\ Cardinality(Lost') \in Nat /\ Cardinality(Lost \cup {p}) \in Nat
        /\ Cardinality(Lost') <= Cardinality(Lost \cup {p})
    BY <1>1, <1>3, FS_Subset, FS_CardinalityType
  <1>5. Lost = {} => Cardinality(Lost) = 0
    BY FS_EmptySet
  <1> QED BY <1>3, <1>4, <1>5 DEF LostOnlyInRegistration

\* Requests are lost only in place of an acknowledgement of a registration
\* (LostOnlyInRegistration): whatever else is read, written or held up passes the
\* request on, answers it, or settles it, in every interleaving of the two
\* processes.
THEOREM RegistrationAloneLoses == Spec => []LostOnlyInRegistration
  <1>1. Init => LostOnlyInRegistration
    <2>1. Init => Lost = {}
      BY DEF Init, Lost
    <2> QED BY <2>1 DEF Init, LostOnlyInRegistration
  <1>2. RequestInv /\ AnswersInv /\ LostOnlyInRegistration /\ [Next]_vars
          => LostOnlyInRegistration'
    <2> SUFFICES ASSUME RequestInv, AnswersInv, LostOnlyInRegistration, [Next]_vars
                 PROVE  LostOnlyInRegistration'
      OBVIOUS
    <2>0. /\ TypeOK /\ toExecutor \in Seq(FromRelay) /\ writing \in Seq(FromRelay)
          /\ toExecutor \in Seq(Messages) /\ writing \in Seq(Messages)
          /\ toRelay \in Seq(Messages) /\ answering \in Seq(Messages)
      BY DEF RequestInv, TypeOK
    <2>1. ASSUME NEW o \in Ops, Forward(o) PROVE LostOnlyInRegistration'
      <3> DEFINE m == Message("request", o)
      <3>1. /\ writing = <<>> /\ future' = future /\ stage' = stage
            /\ Send(m) /\ UNCHANGED <<toRelay, answering>>
            /\ \A p \in Ops \ {o} : pc'[p] = pc[p]
        BY <2>0, <2>1 DEF Forward, Running, TypeOK
      <3>2. m \in Messages /\ Leads(m, o)
        BY FromRelayType DEF Message, Leads
      <3>3. \A p : Carries(writing', p) \/ Carries(toExecutor', p)
                     <=> Carries(toExecutor, p) \/ Leads(m, p)
        BY <2>0, <3>1, <3>2, SendCarries
      <3>4. ~Stranded(o)'
        BY <3>2, <3>3, UnderWayPrimed DEF Stranded
      <3>5. \A p \in Ops \ {o} : Stranded(p)' => Stranded(p)
        <4>1. \A p : ~Carries(writing, p)
          BY <3>1, <3>2, CarriesFew
        <4> QED BY <3>1, <3>3, <4>1, UnderWayPrimed DEF Stranded, UnderWay
      <3> QED BY <3>1, <3>4, <3>5, NobodyStranded
    <2>2. ASSUME NEW o \in Ops, ForwardFails(o) \/ ReturnAnswer(o) \/ RequestTimeout(o)
          PROVE  LostOnlyInRegistration'
      <3>1. pipes' = pipes /\ UNCHANGED <<stage, future>> /\ \E how : Finish(o, how)
        BY <2>2 DEF ForwardFails, ReturnAnswer, RequestTimeout
      <3>2. \A p \in Ops : Stranded(p)' => Stranded(p)
        BY <2>0, <3>1, UnderWayPrimed DEF Finish, pipes, Stranded, UnderWay, TypeOK
      <3> QED BY <3>1, <3>2, NobodyStranded
    <2>3. CASE WriteProceeds
      <3>1. /\ writing # <<>> /\ writing' = <<>> /\ toExecutor' = Append(toExecutor, Head(writing))
            /\ UNCHANGED <<stage, future, toRelay, answering>>
            /\ \A p \in Ops : pc'[p] = IF pc[p] = "sending" THEN "waiting" ELSE pc[p]
        BY <2>3 DEF WriteProceeds
      <3>2. Head(writing) \in Messages /\ Tail(writing) = <<>>
        <4>1. Head(writing) \in Messages /\ Tail(writing) \in Seq(Messages)
              /\ Len(Tail(writing)) = Len(writing) - 1 /\ Len(writing) <= 1
              /\ Len(writing) \in Nat \ {0}
          BY <2>0, <3>1, TakeOne DEF TypeOK
        <4>2. Len(Tail(writing)) = 0
          BY <4>1
        <4> QED BY <4>1, <4>2, EmptySeq
      <3>3. \A p : Carries(toExecutor', p) <=> Carries(toExecutor, p) \/ Carries(writing, p)
        <4>1. \A p : Carries(writing, p) <=> Leads(Head(writing), p)
          <5>1. \A p : ~Carries(Tail(writing), p)
            BY <3>2, CarriesFew
          <5> QED BY <2>0, <3>1, <5>1, CarriesTaken
        <4> QED BY <2>0, <3>1, <3>2, <4>1, CarriesAppended
      <3>4. ASSUME NEW p \in Ops, pc[p] = "sending" PROVE Carries(writing, p)
        <4>1. writing = <<Message("request", p)>> /\ Message("request", p) \in Messages
          BY <3>4, FromRelayType DEF RequestInv, HeldUpRequests
        <4>2. Leads(Message("request", p), p)
          BY DEF Leads, Message
        <4> QED BY <4>1, <4>2, CarriesFew
      <3>5. \A p \in Ops : Stranded(p)' => Stranded(p)
        BY <3>1, <3>3, <3>4, UnderWayPrimed DEF Stranded, UnderWay
      <3> QED BY <3>1, <3>5, NobodyStranded
    <2>4. CASE WriteFails \/ ExecutorCrashes \/ ExecutorStops
      BY <2>4 DEF WriteFails, ExecutorCrashes, ExecutorStops, Disappear, LostOnlyInRegistration
    <2>5. CASE HandleMessage
      <3> DEFINE m == Head(toRelay)
      <3>1. /\ writing = <<>> /\ UNCHANGED <<stage, pc, answering>>
            /\ toRelay # <<>> /\ m \in Messages /\ Tail(toRelay) \in Seq(Messages)
        BY <2>0, <2>5, TakeOne DEF HandleMessage, Running
      <3>2. CASE stage = "gone"
        BY <3>1, <3>2 DEF LostOnlyInRegistration
      <3>3. CASE stage # "gone"
        <4>1. /\ toRelay' = Tail(toRelay) /\ future' = Settle(m)
              /\ Send(Message("ack", m.op)) \/ UNCHANGED <<writing, toExecutor>>
          BY <2>5, <3>3 DEF HandleMessage
        <4>2. \A p : Carries(toExecutor, p) => Carries(writing', p) \/ Carries(toExecutor', p)
          <5>1. Message("ack", m.op) \in Messages
            BY <3>1, FromRelayType DEF Messages
          <5> QED BY <2>0, <3>1, <4>1, <5>1, SendCarries
        <4>3. ASSUME NEW p \in Ops, Stranded(p)' PROVE Stranded(p)
          <5>1. pc[p] = "waiting" /\ future[p] = "unset"
            BY <2>0, <3>1, <4>1, <4>3 DEF Stranded, Settle, TypeOK
          <5>2. m \in FromExecutor
            BY <3>1, HeadTailProperties, EmptySeq DEF AnswersInv
          <5>3. ~Leads(m, p)
            BY <4>1, <4>3, <5>1, <5>2 DEF Stranded, Settle, Verdict, Leads, FromExecutor
          <5>4. ~Carries(writing, p)
            BY <3>1, CarriesFew
          <5> QED
            BY <2>0, <3>1, <4>1, <4>2, <4>3, <5>1, <5>3, <5>4, CarriesTaken, UnderWayPrimed
            DEF Stranded, UnderWay
        <4> QED BY <3>1, <4>3, NobodyStranded
      <3> QED BY <3>2, <3>3
    <2>6. CASE RejectFrame \/ EndOfFile
      <3>1. stage' = stage /\ \A p \in Ops : pc'[p] = "waiting" => future'[p] # "unset"
        BY <2>6 DEF RejectFrame, EndOfFile, LeaveLoop, FailPending
      <3> QED BY <3>1, NobodyStranded DEF Stranded
    <2>7. CASE TakeAck
      <3> DEFINE m == Head(toExecutor)
      <3>1. /\ toExecutor # <<>> /\ toExecutor' = Tail(toExecutor) /\ answering = <<>>
            /\ UNCHANGED <<pc, future, writing, toRelay>>
        BY <2>7 DEF TakeAck
      <3>2. \A p \in Ops : Stranded(p)' => Stranded(p) \/ p = m.op
        <4>1. \A p : ~Carries(answering, p)
          BY <2>0, <3>1, TakeOne, CarriesFew
        <4> QED BY <2>0, <3>1, <4>1, CarriesTaken, UnderWayPrimed
              DEF Stranded, UnderWay, Leads
      <3>3. \/ stage = "register_executor" /\ stage' = "register_tools"
            \/ stage = "register_tools" /\ stage' = "main"
        BY <2>7 DEF TakeAck
      <3> QED BY <3>2, <3>3, OneStranded
    <2>8. CASE AnswerMessage
      <3> DEFINE m == Head(toExecutor)
                 a == Message(AnswerKind(m), m.op)
      <3>1. /\ toExecutor # <<>> /\ toExecutor' = Tail(toExecutor) /\ answering = <<>>
            /\ answering' = <<a>>
            /\ UNCHANGED <<stage, pc, future, writing, toRelay>>
        BY <2>8 DEF AnswerMessage
      <3>2. m \in FromRelay /\ m \in Messages
        BY <2>0, <3>1, TakeFromRelay, FromRelayType
      <3>3. a \in Messages /\ \A p : Leads(m, p) => Leads(a, p)
        BY <3>2, MessageType DEF FromRelay, Leads, AnswerKind, Message, Messages
      <3>4. \A p : Carries(answering', p) <=> Leads(a, p)
        BY <3>1, <3>3, CarriesFew
      <3>5. \A p : ~Carries(answering, p)
        BY <3>1, <3>2, CarriesFew
      <3>6. \A p \in Ops : Stranded(p)' => Stranded(p)
        BY <2>0, <3>1, <3>3, <3>4, <3>5, CarriesTaken, UnderWayPrimed DEF Stranded, UnderWay
      <3> QED BY <3>1, <3>6, NobodyStranded
    <2>9. CASE ExecutorWrites
      <3>1. /\ answering # <<>> /\ answering' = Tail(answering)
            /\ toRelay' = Append(toRelay, Head(answering))
            /\ UNCHANGED <<stage, pc, future, writing, toExecutor>>
        BY <2>9 DEF ExecutorWrites
      <3>2. Head(answering) \in Messages
        BY <2>0, <3>1, TakeOne
      <3>3. \A p : Carries(answering, p) \/ Carries(toRelay, p)
                     <=> Carries(answering', p) \/ Carries(toRelay', p)
        BY <2>0, <3>1, <3>2, CarriesTaken, CarriesAppended
      <3>4. \A p \in Ops : Stranded(p)' => Stranded(p)
        BY <3>1, <3>3, UnderWayPrimed DEF Stranded, UnderWay
      <3> QED BY <3>1, <3>4, NobodyStranded
    <2>10. CASE UNCHANGED vars
      <3>1. UNCHANGED <<stage, pc, future, writing, toExecutor, answering, toRelay>>
        BY <2>10 DEF vars, pipes
      <3>2. \A p \in Ops : Stranded(p)' => Stranded(p)
        BY <3>1, UnderWayPrimed DEF Stranded, UnderWay
      <3> QED BY <3>1, <3>2, NobodyStranded
    <2> QED
      BY <2>1, <2>2, <2>3, <2>4, <2>5, <2>6, <2>7, <2>8, <2>9, <2>10 DEF Next
  <1> QED BY <1>1, <1>2, RequestInvInductive, AnswersInvInductive, PTL DEF Spec

-----------------------------------------------------------------------------
(* Each step is a step of ForwardedCall, or one it does not see.           *)

Open(o) == pc[o] \in {"sending", "waiting"}

LEMMA CallMaps ==
  ASSUME NEW o \in Ops
  PROVE  /\ CallStatus[o] = "open" <=> Open(o)
         /\ pc[o] = "idle" => CallStatus[o] = "idle"
         /\ CallVerdict[o] = IF Open(o) THEN future[o] ELSE "unset"
  BY DEF CallStatus, CallVerdict, Open

LEMMA CallMapsPrimed ==
  ASSUME NEW o \in Ops
  PROVE  CallVerdict'[o] = IF Open(o)' THEN future'[o] ELSE "unset"
  BY DEF CallStatus, CallVerdict, Open

\* The end of an operation.
LEMMA FinishMaps ==
  ASSUME TypeOK, NEW o \in Ops, NEW how \in Outcomes, Finish(o, how), future' = future
  PROVE  Call!End(o, ReplyOf(how))
  <1>1. CallStatus' = [CallStatus EXCEPT ![o] = "over"]
    BY DEF Finish, TypeOK, CallStatus
  <1>2. CallVerdict' = [CallVerdict EXCEPT ![o] = "unset"]
    BY DEF Finish, TypeOK, CallVerdict, CallStatus
  <1>3. CallReply' = [CallReply EXCEPT ![o] = ReplyOf(how)]
    BY DEF Finish, TypeOK, CallReply
  <1> QED BY <1>1, <1>2, <1>3 DEF Call!End

LEMMA GiveUpMaps ==
  ASSUME TypeOK, NEW o \in Ops, NEW how \in {"send_failed", "closed"}, Finish(o, how),
         future' = future, pc[o] # "done"
  PROVE  Call!CallNext
  <1>1. Call!End(o, "given up")
    BY FinishMaps DEF Outcomes, ReplyOf
  <1>2. CallStatus[o] \in {"idle", "open"}
    BY DEF CallStatus
  <1> QED BY <1>1, <1>2 DEF Call!CallNext, Call!GiveUp

\* Futures that are settled, each by a verdict of its own.
LEMMA FuturesMap ==
  ASSUME TypeOK, TypeOK', UNCHANGED <<pc, outcome>>,
         \A p \in Ops : future'[p] # future[p] => future[p] = "unset"
  PROVE  Call!CallNext
  <1> DEFINE S == {p \in Ops : Open(p) /\ future'[p] # future[p]}
             v == [p \in S |-> future'[p]]
  <1>1. CallStatus' = CallStatus /\ CallReply' = CallReply
    BY DEF CallStatus, CallReply
  <1>2. \A p \in S : CallStatus[p] = "open" /\ CallVerdict[p] = "unset"
    BY CallMaps
  <1>3. S \in SUBSET Ops /\ v \in [S -> Settled]
    BY DEF TypeOK
  <1>4. CallVerdict' = [p \in Ops |-> IF p \in S THEN v[p] ELSE CallVerdict[p]]
    <2>1. \A p \in Ops : CallVerdict'[p] = IF p \in S THEN v[p] ELSE CallVerdict[p]
      BY CallMaps, CallMapsPrimed DEF Open
    <2> QED BY <2>1 DEF CallVerdict
  <1>5. Call!Settle(S, v)
    BY <1>1, <1>2, <1>4 DEF Call!Settle
  <1> QED BY <1>3, <1>5 DEF Call!CallNext

LEMMA UnseenMaps ==
  ASSUME UNCHANGED <<future, outcome>>,
         \A p \in Ops : Open(p)' = Open(p) /\ (pc'[p] = "done" <=> pc[p] = "done")
  PROVE  UNCHANGED Call!cvars
  <1>1. CallStatus' = CallStatus
    BY DEF CallStatus, Open
  <1> QED BY <1>1 DEF CallVerdict, CallReply, Call!cvars

\* The relay and its executor on standard streams implement ForwardedCall
\* (ImplementsForwardedCall): one verdict per operation, the first, however the
\* pipes hold the two up and wherever the executor disappears.
THEOREM OneVerdictPerCall == Spec => ImplementsForwardedCall
  <1>1. Init => Call!CallInit
    BY DEF Init, Call!CallInit, CallStatus, CallVerdict, CallReply, ReplyOf
  <1>2. RequestInv /\ TypeOK' /\ [Next]_vars => [Call!CallNext]_(Call!cvars)
    <2> SUFFICES ASSUME RequestInv, TypeOK', [Next]_vars
                 PROVE  Call!CallNext \/ UNCHANGED Call!cvars
      OBVIOUS
    <2> DEFINE Maps == Call!CallNext \/ UNCHANGED Call!cvars
    <2>0. TypeOK
      BY DEF RequestInv
    <2>1. ASSUME NEW o \in Ops, Forward(o) PROVE Maps
      <3>1. /\ pc[o] = "idle" /\ future[o] = "unset" /\ UNCHANGED <<future, outcome>>
            /\ \E s \in {"waiting", "sending"} : pc' = [pc EXCEPT ![o] = s]
        BY <2>1 DEF Forward, RequestInv, UnsentIsUnset
      <3>2. CallStatus' = [CallStatus EXCEPT ![o] = "open"] /\ CallStatus[o] = "idle"
        BY <2>0, <3>1 DEF CallStatus, TypeOK
      <3>3. ASSUME NEW p \in Ops PROVE CallVerdict'[p] = CallVerdict[p]
        <4>1. CASE p = o
          BY <3>1, <4>1 DEF CallVerdict, CallStatus, TypeOK
        <4>2. CASE p # o
          <5>1. pc'[p] = pc[p] /\ future'[p] = future[p]
            BY <2>0, <3>1, <4>2 DEF TypeOK
          <5> QED BY <5>1 DEF CallVerdict, CallStatus
        <4> QED BY <4>1, <4>2
      <3>4. CallVerdict' = CallVerdict /\ CallReply' = CallReply
        BY <3>1, <3>3 DEF CallVerdict, CallReply
      <3> QED BY <3>2, <3>4 DEF Call!CallNext, Call!Accept
    <2>2. ASSUME NEW o \in Ops, ForwardFails(o) \/ RequestTimeout(o) PROVE Maps
      BY <2>0, <2>2, GiveUpMaps DEF ForwardFails, RequestTimeout
    <2>3. ASSUME NEW o \in Ops, ReturnAnswer(o) PROVE Maps
      <3>1. future[o] \in Settled /\ Open(o)
        BY <2>0, <2>3 DEF ReturnAnswer, TypeOK, Open
      <3>2. Call!End(o, future[o])
        BY <2>0, <2>3, <3>1, FinishMaps DEF ReturnAnswer, Outcomes, Settled, ReplyOf
      <3>3. CallStatus[o] = "open" /\ CallVerdict[o] = future[o] /\ future[o] # "unset"
        BY <2>3, <3>1, CallMaps DEF ReturnAnswer
      <3> QED BY <3>2, <3>3 DEF Call!CallNext, Call!ReplyVerdict
    <2>4. CASE WriteProceeds
      BY <2>0, <2>4, UnseenMaps DEF WriteProceeds, Open, TypeOK
    <2>5. CASE WriteFails
      <3>1. CASE Head(writing).kind = "request"
        <4>1. /\ Finish(Head(writing).op, "send_failed") /\ future' = future
              /\ Head(writing).op \in Ops /\ pc[Head(writing).op] = "sending"
          BY <2>5, <3>1 DEF WriteFails, RequestInv, HeldUpRequests
        <4> QED BY <2>0, <4>1, GiveUpMaps
      <3>2. CASE Head(writing).kind # "request"
        BY <2>0, <2>5, <3>2, FuturesMap DEF WriteFails, LeaveLoop, FailPending
      <3> QED BY <3>1, <3>2
    <2>6. CASE HandleMessage
      BY <2>0, <2>6, FuturesMap DEF HandleMessage, LeaveLoop, FailPending, Settle
    <2>7. CASE RejectFrame \/ EndOfFile
      BY <2>0, <2>7, FuturesMap DEF RejectFrame, EndOfFile, LeaveLoop, FailPending
    <2>8. CASE TakeAck \/ AnswerMessage \/ ExecutorWrites \/ ExecutorCrashes \/ ExecutorStops
               \/ UNCHANGED vars
      <3>1. UNCHANGED <<pc, future, outcome>>
        BY <2>8
        DEF TakeAck, AnswerMessage, ExecutorWrites, ExecutorCrashes, ExecutorStops, Disappear,
            vars
      <3> QED BY <3>1, UnseenMaps DEF Open
    <2> QED
      BY <2>1, <2>2, <2>3, <2>4, <2>5, <2>6, <2>7, <2>8 DEF Next
  <1> QED
    BY <1>1, <1>2, RequestInvInductive, TypeCorrect, PTL
    DEF Spec, ImplementsForwardedCall, Call!CallSpec
-----------------------------------------------------------------------------
(* Every step uses something up.  A message is nearer to its end the       *)
(* farther it has come; what it draws starts anew, but is of a later kind. *)

Early(m) == m.kind \in {"register", "request", "result"}

EarlyAt(s) == {i \in 1 .. Len(s) : Early(s[i])}

EarlyIn(s) == Cardinality(EarlyAt(s))

\* The work in the messages of s, which have p places to go through, this one
\* included, and the share of one message.
Held(p, s) == 4 * EarlyIn(s) + p * Len(s)

Share(p, m) == (IF Early(m) THEN 4 ELSE 0) + p

Messaging == Held(4, writing) + Held(3, toExecutor) + Held(2, answering) + Held(1, toRelay)

Unfinished == {o \in Ops : pc[o] # "done"}

IdleToGo == 9 * Cardinality(Idle)

StageToGo ==
  IF stage = "register_executor" THEN 12
  ELSE IF stage = "register_tools" THEN 8 ELSE IF stage = "main" THEN 4 ELSE 0

LoopToGo == IF relay = "serving" THEN 1 ELSE 0

Work == Messaging + IdleToGo + Cardinality(Unfinished) + StageToGo + LoopToGo

\* Whatever relay and executor do brings their exchange nearer to its end: an
\* answer to an answer never starts anything that was not there before.
EveryStepUsesWorkUp == [][Work' < Work]_vars

LEMMA EarlyInType ==
  ASSUME NEW s \in Seq(Messages)
  PROVE  IsFiniteSet(EarlyAt(s)) /\ EarlyIn(s) \in Nat
  <1>1. IsFiniteSet(1 .. Len(s))
    BY FS_Interval
  <1>2. EarlyAt(s) \in SUBSET (1 .. Len(s))
    BY DEF EarlyAt
  <1>3. IsFiniteSet(EarlyAt(s))
    BY <1>1, <1>2, FS_Subset
  <1> QED BY <1>3, FS_CardinalityType DEF EarlyIn

LEMMA EarlyAppended ==
  ASSUME NEW s \in Seq(Messages), NEW m \in Messages
  PROVE  EarlyIn(Append(s, m)) = EarlyIn(s) + IF Early(m) THEN 1 ELSE 0
  <1>1. /\ Len(Append(s, m)) = Len(s) + 1 /\ Len(s) \in Nat
        /\ \A i \in 1 .. Len(s) : Append(s, m)[i] = s[i]
        /\ Append(s, m)[Len(s) + 1] = m
    BY AppendProperties
  <1>2. 1 .. Len(s) + 1 = (1 .. Len(s)) \cup {Len(s) + 1}
    BY <1>1
  <1>3. Len(s) + 1 \notin EarlyAt(s)
    BY <1>1 DEF EarlyAt
  <1>4. IsFiniteSet(EarlyAt(s)) /\ EarlyIn(s) \in Nat
    BY EarlyInType
  <1>5. CASE Early(m)
    <2>1. EarlyAt(Append(s, m)) = EarlyAt(s) \cup {Len(s) + 1}
      BY <1>1, <1>2, <1>5 DEF EarlyAt
    <2> QED BY <1>3, <1>4, <1>5, <2>1, FS_AddElement DEF EarlyIn
  <1>6. CASE ~Early(m)
    <2>1. EarlyAt(Append(s, m)) = EarlyAt(s)
      BY <1>1, <1>2, <1>6 DEF EarlyAt
    <2> QED BY <1>4, <1>6, <2>1 DEF EarlyIn
  <1> QED BY <1>5, <1>6

LEMMA EarlyFew ==
  ASSUME NEW m \in Messages
  PROVE  EarlyIn(<<>>) = 0 /\ EarlyIn(<<m>>) = IF Early(m) THEN 1 ELSE 0
  <1>1. <<>> \in Seq(Messages) /\ Append(<<>>, m) = <<m>> /\ EarlyAt(<<>>) = {}
    BY DEF EarlyAt
  <1>2. EarlyIn(<<>>) = 0
    BY <1>1, FS_EmptySet DEF EarlyIn
  <1>3. EarlyIn(Append(<<>>, m)) = EarlyIn(<<>>) + IF Early(m) THEN 1 ELSE 0
    BY <1>1, EarlyAppended
  <1> QED BY <1>1, <1>2, <1>3 DEF Early

LEMMA EarlyTaken ==
  ASSUME NEW s \in Seq(Messages), s # <<>>
  PROVE  EarlyIn(s) = EarlyIn(Tail(s)) + IF Early(Head(s)) THEN 1 ELSE 0
  <1> DEFINE T == EarlyAt(Tail(s))
             S == {i \in 2 .. Len(s) : Early(s[i])}
             next == [i \in T |-> i + 1]
  <1>1. /\ Len(s) \in Nat \ {0} /\ Len(Tail(s)) = Len(s) - 1 /\ Head(s) = s[1]
        /\ \A i \in 1 .. Len(s) - 1 : Tail(s)[i] = s[i + 1]
        /\ Tail(s) \in Seq(Messages)
    BY HeadTailProperties, EmptySeq
  <1>2. T = {i \in 1 .. Len(s) - 1 : Early(s[i + 1])}
    BY <1>1 DEF EarlyAt
  <1>3. next \in Bijection(T, S)
    <2>1. next \in [T -> S]
      BY <1>1, <1>2
    <2>2. \A a, b \in T : next[a] = next[b] => a = b
      BY <1>1, <1>2
    <2>3. \A c \in S : \E a \in T : next[a] = c
      <3>1. ASSUME NEW c \in S PROVE c - 1 \in T /\ next[c - 1] = c
        BY <1>1, <1>2
      <3> QED BY <3>1
    <2> QED BY <2>1, <2>2, <2>3 DEF Bijection, Injection, Surjection, IsInjective
  <1>4. IsFiniteSet(T) /\ Cardinality(T) \in Nat
    BY <1>1, EarlyInType DEF EarlyIn
  <1>5. IsFiniteSet(S) /\ Cardinality(S) = Cardinality(T)
    BY <1>3, <1>4, FS_Bijection DEF ExistsBijection
  <1>6. 1 .. Len(s) = {1} \cup 2 .. Len(s) /\ 1 \notin S
    BY <1>1
  <1>7. CASE Early(Head(s))
    <2>1. EarlyAt(s) = S \cup {1}
      BY <1>1, <1>6, <1>7 DEF EarlyAt
    <2> QED BY <1>4, <1>5, <1>6, <1>7, <2>1, FS_AddElement DEF EarlyIn
  <1>8. CASE ~Early(Head(s))
    <2>1. EarlyAt(s) = S
      BY <1>1, <1>6, <1>8 DEF EarlyAt
    <2> QED BY <1>4, <1>5, <1>8, <2>1 DEF EarlyIn
  <1> QED BY <1>7, <1>8
\* What a pipe, or the hands of a writer, may hold.
LEMMA HeldTypes ==
  ASSUME NEW p \in 1 .. 4, NEW s \in Seq(Messages), NEW m \in Messages
  PROVE  Held(p, s) \in Nat /\ Share(p, m) \in Nat
  <1>1. EarlyIn(s) \in Nat /\ Len(s) \in Nat
    BY EarlyInType
  <1>2. p = 1 \/ p = 2 \/ p = 3 \/ p = 4
    OBVIOUS
  <1> QED BY <1>1, <1>2 DEF Held, Share, Early

LEMMA HeldFew ==
  ASSUME NEW p \in 1 .. 4, NEW m \in Messages
  PROVE  Held(p, <<>>) = 0 /\ Held(p, <<m>>) = Share(p, m)
  <1>1. /\ EarlyIn(<<>>) = 0 /\ EarlyIn(<<m>>) = (IF Early(m) THEN 1 ELSE 0)
        /\ Len(<<>>) = 0 /\ Len(<<m>>) = 1
    BY EarlyFew, OneMessage
  <1>2. p = 1 \/ p = 2 \/ p = 3 \/ p = 4
    OBVIOUS
  <1> QED BY <1>1, <1>2 DEF Held, Share, Early

LEMMA HeldAppended ==
  ASSUME NEW p \in 1 .. 4, NEW s \in Seq(Messages), NEW m \in Messages
  PROVE  Held(p, Append(s, m)) = Held(p, s) + Share(p, m)
  <1>1. /\ EarlyIn(Append(s, m)) = EarlyIn(s) + (IF Early(m) THEN 1 ELSE 0)
        /\ Len(Append(s, m)) = Len(s) + 1 /\ EarlyIn(s) \in Nat /\ Len(s) \in Nat
    BY EarlyAppended, AppendProperties, EarlyInType
  <1>2. p = 1 \/ p = 2 \/ p = 3 \/ p = 4
    OBVIOUS
  <1> QED BY <1>1, <1>2 DEF Held, Share, Early

LEMMA HeldTaken ==
  ASSUME NEW p \in 1 .. 4, NEW s \in Seq(Messages), s # <<>>
  PROVE  /\ Held(p, s) = Held(p, Tail(s)) + Share(p, Head(s))
         /\ Held(p, Tail(s)) \in Nat /\ Share(p, Head(s)) \in Nat
  <1>1. /\ Head(s) \in Messages /\ Tail(s) \in Seq(Messages)
        /\ Len(s) \in Nat /\ Len(Tail(s)) = Len(s) - 1
    BY TakeOne
  <1>2. /\ EarlyIn(s) = EarlyIn(Tail(s)) + (IF Early(Head(s)) THEN 1 ELSE 0)
        /\ EarlyIn(Tail(s)) \in Nat
    BY <1>1, EarlyTaken, EarlyInType
  <1>3. p = 1 \/ p = 2 \/ p = 3 \/ p = 4
    OBVIOUS
  <1>4. Held(p, s) = Held(p, Tail(s)) + Share(p, Head(s))
    BY <1>1, <1>2, <1>3 DEF Held, Share, Early
  <1> QED BY <1>1, <1>4, HeldTypes

\* All that goes into Work is a number.
LEMMA MessagingTypes ==
  ASSUME TypeOK
  PROVE  /\ Held(4, writing) \in Nat /\ Held(3, toExecutor) \in Nat
         /\ Held(2, answering) \in Nat /\ Held(1, toRelay) \in Nat
         /\ Messaging \in Nat
  <1>1. 1 \in 1 .. 4 /\ 2 \in 1 .. 4 /\ 3 \in 1 .. 4 /\ 4 \in 1 .. 4
    OBVIOUS
  <1>2. Message("register", NoOp) \in Messages
    BY MessageType
  <1>3. /\ Held(4, writing) \in Nat /\ Held(3, toExecutor) \in Nat
        /\ Held(2, answering) \in Nat /\ Held(1, toRelay) \in Nat
    BY <1>1, <1>2, HeldTypes DEF TypeOK
  <1> QED BY <1>3 DEF Messaging

LEMMA WorkTypes ==
  ASSUME TypeOK
  PROVE  /\ Messaging \in Nat
         /\ IdleToGo \in Nat /\ Cardinality(Unfinished) \in Nat
         /\ StageToGo \in Nat /\ LoopToGo \in Nat
  <1>1. IsFiniteSet(Unfinished)
    BY StdioAssumption, FS_Subset DEF Unfinished
  <1>2. Cardinality(Unfinished) \in Nat
    BY <1>1, FS_CardinalityType
  <1>3. StageToGo \in Nat /\ LoopToGo \in Nat
    BY DEF StageToGo, LoopToGo
  <1>4. IdleToGo \in Nat
    BY IdleIsFinite DEF IdleToGo
  <1> QED BY <1>2, <1>3, <1>4, MessagingTypes

LEMMA SameOperations ==
  ASSUME \A o \in Ops : /\ pc'[o] = "idle" <=> pc[o] = "idle"
                        /\ pc'[o] = "done" <=> pc[o] = "done"
  PROVE  IdleToGo' = IdleToGo /\ Cardinality(Unfinished') = Cardinality(Unfinished)
  <1>1. Idle' = Idle /\ Unfinished' = Unfinished
    BY DEF Idle, Unfinished
  <1> QED BY <1>1 DEF IdleToGo

LEMMA FinishEndsOne ==
  ASSUME TypeOK, NEW o \in Ops, NEW how, Finish(o, how), pc[o] # "done"
  PROVE  /\ Cardinality(Unfinished') = Cardinality(Unfinished) - 1
         /\ IdleToGo' \in Nat /\ IdleToGo' <= IdleToGo
  <1>1. Unfinished' = Unfinished \ {o} /\ o \in Unfinished /\ Idle' \subseteq Idle
    BY DEF Unfinished, Idle, Finish, TypeOK
  <1>2. IsFiniteSet(Unfinished)
    BY StdioAssumption, FS_Subset DEF Unfinished
  <1>3. Cardinality(Unfinished \ {o}) = Cardinality(Unfinished) - 1
    BY <1>1, <1>2, FS_RemoveElement
  <1>4. IdleToGo' \in Nat /\ IdleToGo' <= IdleToGo
    BY <1>1, IdleIsFinite, IdleShrinks DEF IdleToGo
  <1> QED BY <1>1, <1>3, <1>4

LEMMA ForwardStartsOne ==
  ASSUME TypeOK, NEW o \in Ops, Forward(o)
  PROVE  IdleToGo' = IdleToGo - 9 /\ Cardinality(Unfinished') = Cardinality(Unfinished)
  <1>1. Idle' = Idle \ {o} /\ o \in Idle /\ Unfinished' = Unfinished
    BY DEF Unfinished, Idle, Forward, TypeOK
  <1>2. Cardinality(Idle \ {o}) = Cardinality(Idle) - 1
    BY <1>1, IdleIsFinite, FS_RemoveElement
  <1> QED BY <1>1, <1>2, IdleIsFinite DEF IdleToGo

\* What a message costs that the relay sends.
LEMMA SendCosts ==
  ASSUME TypeOK, NEW m \in Messages, writing = <<>>, Send(m)
  PROVE  Held(4, writing') + Held(3, toExecutor') <= Held(3, toExecutor) + Share(4, m)
  <1>1. /\ Held(4, <<>>) = 0 /\ Held(4, <<m>>) = Share(4, m)
        /\ Held(3, Append(toExecutor, m)) = Held(3, toExecutor) + Share(3, m)
        /\ Held(3, toExecutor) \in Nat /\ Share(3, m) \in Nat /\ Share(4, m) \in Nat
    BY HeldFew, HeldAppended, HeldTypes DEF TypeOK
  <1>2. Share(3, m) <= Share(4, m)
    BY DEF Share, Early
  <1>3. CASE RoomFor(toExecutor)
    <2>1. toExecutor' = Append(toExecutor, m) /\ writing' = <<>>
      BY <1>3 DEF Send
    <2> QED BY <1>1, <1>2, <2>1
  <1>4. CASE ~RoomFor(toExecutor)
    <2>1. toExecutor' = toExecutor /\ writing' = <<m>>
      BY <1>4 DEF Send
    <2> QED BY <1>1, <2>1
  <1> QED BY <1>3, <1>4

\* EveryStepUsesWorkUp, for any operations and pipes of any size: no step of
\* serve_tep_stdio and of the example executor leaves as much to be done as there
\* was.  Work is a number (WorkTypes), so what the two have to say to each other
\* ends, although the executor answers even the relay's responses.
THEOREM NothingGoesOnForEver == Spec => EveryStepUsesWorkUp
  <1>1. TypeOK /\ TypeOK' /\ [Next]_vars => Work' < Work \/ UNCHANGED vars
    <2> SUFFICES ASSUME TypeOK, TypeOK', Next PROVE Work' < Work
      OBVIOUS
    <2>1. /\ Held(4, writing) \in Nat /\ Held(3, toExecutor) \in Nat
          /\ Held(2, answering) \in Nat /\ Held(1, toRelay) \in Nat
      BY MessagingTypes
    <2>2. /\ Held(4, writing') \in Nat /\ Held(3, toExecutor') \in Nat
          /\ Held(2, answering') \in Nat /\ Held(1, toRelay') \in Nat
      <3>1. Message("register", NoOp) \in Messages
        BY MessageType
      <3> QED BY <3>1, HeldTypes DEF TypeOK
    <2>3. /\ Messaging \in Nat /\ IdleToGo \in Nat /\ Cardinality(Unfinished) \in Nat
          /\ StageToGo \in Nat /\ LoopToGo \in Nat
      BY WorkTypes
    <2>4. Messaging' \in Nat
      BY <2>2 DEF Messaging
    <2>5. /\ Held(4, <<>>) = 0 /\ Held(3, <<>>) = 0 /\ Held(2, <<>>) = 0 /\ Held(1, <<>>) = 0
      <3>1. Message("register", NoOp) \in Messages
        BY MessageType
      <3>2. 1 \in 1 .. 4 /\ 2 \in 1 .. 4 /\ 3 \in 1 .. 4 /\ 4 \in 1 .. 4
        OBVIOUS
      <3> QED BY <3>1, <3>2, HeldFew
    <2>6. UNCHANGED pc => IdleToGo' = IdleToGo
                          /\ Cardinality(Unfinished') = Cardinality(Unfinished)
      BY SameOperations
    <2>7. /\ UNCHANGED stage => StageToGo' = StageToGo
          /\ UNCHANGED relay => LoopToGo' = LoopToGo
      BY DEF StageToGo, LoopToGo
    <2>8. ASSUME NEW o \in Ops, Forward(o) PROVE Work' < Work
      <3>1. /\ writing = <<>> /\ Send(Message("request", o))
            /\ UNCHANGED <<relay, stage, toRelay, answering>>
        BY <2>8 DEF Forward, Running
      <3>2. Message("request", o) \in Messages /\ Share(4, Message("request", o)) = 8
        BY MessageType DEF Message, Early, Share
      <3>3. Held(4, writing') + Held(3, toExecutor') <= Held(3, toExecutor) + 8
        BY <3>1, <3>2, SendCosts
      <3>4. Held(4, writing) = 0 /\ Held(2, answering') = Held(2, answering)
            /\ Held(1, toRelay') = Held(1, toRelay)
        BY <2>5, <3>1
      <3>5. Messaging' <= Messaging + 8
        BY <2>1, <2>2, <3>3, <3>4 DEF Messaging
      <3>6. IdleToGo' = IdleToGo - 9
            /\ Cardinality(Unfinished') = Cardinality(Unfinished)
        BY <2>8, ForwardStartsOne
      <3>7. StageToGo' = StageToGo /\ LoopToGo' = LoopToGo
        BY <2>7, <3>1
      <3> QED BY <2>3, <2>4, <3>5, <3>6, <3>7 DEF Work
    <2>9. ASSUME NEW o \in Ops, ForwardFails(o) \/ ReturnAnswer(o) \/ RequestTimeout(o)
           PROVE  Work' < Work
      <3>1. /\ UNCHANGED <<writing, toExecutor, answering, toRelay, stage, relay>>
            /\ pc[o] # "done" /\ \E how : Finish(o, how)
        BY <2>9 DEF ForwardFails, ReturnAnswer, RequestTimeout, pipes
      <3>2. /\ Cardinality(Unfinished') = Cardinality(Unfinished) - 1
            /\ IdleToGo' \in Nat /\ IdleToGo' <= IdleToGo
        BY <3>1, FinishEndsOne
      <3>3. Messaging' = Messaging
        BY <3>1 DEF Messaging
      <3>4. StageToGo' = StageToGo /\ LoopToGo' = LoopToGo
        BY <2>7, <3>1
      <3> QED BY <2>3, <3>2, <3>3, <3>4 DEF Work
    <2>10. CASE WriteProceeds
      <3> DEFINE m == Head(writing)
      <3>1. /\ writing # <<>> /\ writing' = <<>> /\ toExecutor' = Append(toExecutor, m)
            /\ UNCHANGED <<relay, stage, answering, toRelay>>
            /\ pc' = [o \in Ops |-> IF pc[o] = "sending" THEN "waiting" ELSE pc[o]]
        BY <2>10 DEF WriteProceeds
      <3>2. m \in Messages
        BY <3>1, TakeOne DEF TypeOK
      <3>3. /\ Held(4, writing) = Held(4, Tail(writing)) + Share(4, m)
            /\ Held(4, Tail(writing)) \in Nat /\ Share(4, m) \in Nat
        BY <3>1, HeldTaken DEF TypeOK
      <3>4. Held(3, toExecutor') = Held(3, toExecutor) + Share(3, m)
        BY <3>1, <3>2, HeldAppended DEF TypeOK
      <3>5. Share(3, m) = Share(4, m) - 1
        BY DEF Share, Early
      <3> HIDE DEF m
      <3>6. /\ Held(4, writing) >= Share(4, m) /\ Held(4, writing') = 0
            /\ Held(3, toExecutor') = Held(3, toExecutor) + Share(4, m) - 1
            /\ Held(2, answering') = Held(2, answering) /\ Held(1, toRelay') = Held(1, toRelay)
        BY <2>1, <2>5, <3>1, <3>3, <3>4, <3>5
      <3>7. Messaging' < Messaging
        BY <2>1, <2>2, <3>3, <3>6 DEF Messaging
      <3>8. IdleToGo' = IdleToGo
            /\ Cardinality(Unfinished') = Cardinality(Unfinished)
        BY <3>1, SameOperations
      <3>9. StageToGo' = StageToGo /\ LoopToGo' = LoopToGo
        BY <2>7, <3>1
      <3> QED BY <2>3, <2>4, <3>7, <3>8, <3>9 DEF Work
    <2>11. CASE WriteFails
      <3>1. /\ writing # <<>> /\ writing' = <<>>
            /\ UNCHANGED <<stage, toExecutor, answering>>
            /\ toRelay' = toRelay \/ toRelay' = <<>>
            /\ relay' = relay \/ relay' = "ended"
        BY <2>11 DEF WriteFails, LeaveLoop
      <3>2. Held(4, writing) > 0
        <4>1. /\ Held(4, writing) = Held(4, Tail(writing)) + Share(4, Head(writing))
              /\ Held(4, Tail(writing)) \in Nat
          BY <3>1, HeldTaken DEF TypeOK
        <4>2. Share(4, Head(writing)) >= 4 /\ Share(4, Head(writing)) \in Nat
          BY DEF Share, Early
        <4> QED BY <4>1, <4>2
      <3>3. /\ Held(4, writing') = 0 /\ Held(3, toExecutor') = Held(3, toExecutor)
            /\ Held(2, answering') = Held(2, answering) /\ Held(1, toRelay') <= Held(1, toRelay)
        BY <2>1, <2>5, <3>1
      <3>4. Messaging' < Messaging
        BY <2>1, <2>2, <3>2, <3>3 DEF Messaging
      <3>5. /\ IdleToGo' \in Nat /\ IdleToGo' <= IdleToGo
            /\ Cardinality(Unfinished') \in Nat
            /\ Cardinality(Unfinished') <= Cardinality(Unfinished)
        <4>1. Idle' \subseteq Idle /\ Unfinished' \subseteq Unfinished
          BY <2>11 DEF WriteFails, Finish, TypeOK, Idle, Unfinished
        <4>2. IsFiniteSet(Unfinished)
          BY StdioAssumption, FS_Subset DEF Unfinished
        <4>3. IdleToGo' \in Nat /\ IdleToGo' <= IdleToGo
          BY <4>1, IdleIsFinite, IdleShrinks DEF IdleToGo
        <4> QED BY <4>1, <4>2, <4>3, FS_Subset, FS_CardinalityType
      <3>6. LoopToGo' \in Nat /\ LoopToGo' <= LoopToGo
        BY <3>1 DEF LoopToGo
      <3>7. StageToGo' = StageToGo
        BY <2>7, <3>1
      <3> QED BY <2>3, <2>4, <3>4, <3>5, <3>6, <3>7 DEF Work
    <2>12. CASE HandleMessage
      <3> DEFINE m == Head(toRelay)
      <3>1. /\ relay = "serving" /\ writing = <<>> /\ toRelay # <<>>
            /\ UNCHANGED <<stage, pc, answering>>
        BY <2>12 DEF HandleMessage, Running
      <3>2. /\ m \in Messages
            /\ Held(1, toRelay) = Held(1, Tail(toRelay)) + Share(1, m)
            /\ Held(1, Tail(toRelay)) \in Nat /\ Share(1, m) \in Nat
        BY <3>1, TakeOne, HeldTaken DEF TypeOK
      <3>3. CASE DrawsResponse(m) /\ stage = "gone"
        <4>1. toRelay' = <<>> /\ relay' = "ended" /\ UNCHANGED <<writing, toExecutor>>
          BY <2>12, <3>3 DEF HandleMessage, LeaveLoop
        <4>2. Messaging' <= Messaging
          BY <2>1, <2>5, <4>1, <3>1 DEF Messaging
        <4>3. LoopToGo' < LoopToGo /\ LoopToGo' \in Nat
          BY <3>1, <4>1 DEF LoopToGo
        <4>4. /\ IdleToGo' = IdleToGo /\ Cardinality(Unfinished') = Cardinality(Unfinished)
              /\ StageToGo' = StageToGo
          BY <2>6, <2>7, <3>1
        <4> QED BY <2>3, <2>4, <4>2, <4>3, <4>4 DEF Work
      <3>4. CASE DrawsResponse(m) /\ stage # "gone"
        <4>1. toRelay' = Tail(toRelay) /\ relay' = relay /\ Send(Message("ack", m.op))
          BY <2>12, <3>4 DEF HandleMessage
        <4>2. Message("ack", m.op) \in Messages /\ Share(4, Message("ack", m.op)) = 4
          BY <3>2, MessageType DEF Message, Messages, Early, Share
        <4>3. Share(1, m) = 5
          BY <3>4 DEF DrawsResponse, Early, Share
        <4>4. Held(4, writing') + Held(3, toExecutor') <= Held(3, toExecutor) + 4
          BY <3>1, <4>1, <4>2, SendCosts
        <4> HIDE DEF m
        <4>5. Held(1, toRelay) = Held(1, toRelay') + 5
          BY <3>2, <4>1, <4>3
        <4>6. Held(4, writing) = 0 /\ Held(2, answering') = Held(2, answering)
          BY <2>5, <3>1
        <4>7. Messaging' < Messaging
          BY <2>1, <2>2, <4>4, <4>5, <4>6 DEF Messaging
        <4>8. /\ IdleToGo' = IdleToGo /\ Cardinality(Unfinished') = Cardinality(Unfinished)
              /\ StageToGo' = StageToGo /\ LoopToGo' = LoopToGo
          BY <2>6, <2>7, <3>1, <4>1
        <4> QED BY <2>3, <2>4, <4>7, <4>8 DEF Work
      <3>5. CASE ~DrawsResponse(m)
        <4>1. toRelay' = Tail(toRelay) /\ relay' = relay /\ UNCHANGED <<writing, toExecutor>>
          BY <2>12, <3>5 DEF HandleMessage
        <4>2. Share(1, m) >= 1
          BY DEF Share, Early
        <4> HIDE DEF m
        <4>3. /\ Held(4, writing') = Held(4, writing) /\ Held(3, toExecutor') = Held(3, toExecutor)
              /\ Held(2, answering') = Held(2, answering) /\ Held(1, toRelay') < Held(1, toRelay)
          BY <3>1, <3>2, <4>1, <4>2
        <4>4. Messaging' < Messaging
          BY <2>1, <2>2, <4>3 DEF Messaging
        <4>5. /\ IdleToGo' = IdleToGo /\ Cardinality(Unfinished') = Cardinality(Unfinished)
              /\ StageToGo' = StageToGo /\ LoopToGo' = LoopToGo
          BY <2>6, <2>7, <3>1, <4>1
        <4> QED BY <2>3, <2>4, <4>4, <4>5 DEF Work
      <3> QED BY <3>3, <3>4, <3>5
    <2>13. CASE RejectFrame \/ EndOfFile
      <3>1. /\ relay = "serving" /\ relay' = "ended" /\ toRelay' = <<>>
            /\ UNCHANGED <<stage, pc, writing, toExecutor, answering>>
        BY <2>13 DEF RejectFrame, EndOfFile, LeaveLoop, Running
      <3>2. Messaging' <= Messaging
        BY <2>1, <2>5, <3>1 DEF Messaging
      <3>3. LoopToGo' < LoopToGo /\ LoopToGo' \in Nat
        BY <3>1 DEF LoopToGo
      <3>4. /\ IdleToGo' = IdleToGo /\ Cardinality(Unfinished') = Cardinality(Unfinished)
            /\ StageToGo' = StageToGo
        BY <2>6, <2>7, <3>1
      <3> QED BY <2>3, <2>4, <3>2, <3>3, <3>4 DEF Work
    <2>14. CASE TakeAck
      <3> DEFINE m == Head(toExecutor)
                 r == Message("register", NoOp)
      <3>1. /\ answering = <<>> /\ toExecutor # <<>> /\ toExecutor' = Tail(toExecutor)
            /\ UNCHANGED <<relay, pc, writing, toRelay>>
            /\ \/ stage = "register_executor" /\ stage' = "register_tools" /\ answering' = <<r>>
               \/ stage = "register_tools" /\ stage' = "main" /\ answering' = <<>>
        BY <2>14 DEF TakeAck
      <3>2. /\ Held(3, toExecutor) = Held(3, Tail(toExecutor)) + Share(3, m)
            /\ Held(3, Tail(toExecutor)) \in Nat /\ Share(3, m) \in Nat
        BY <3>1, HeldTaken DEF TypeOK
      <3>3. Share(3, m) >= 3 /\ Share(2, r) = 6
        BY DEF Share, Early, Message
      <3>4. Held(2, <<r>>) = 6
        BY <3>3, MessageType, HeldFew
      <3> HIDE DEF m, r
      <3>5. Held(3, toExecutor) >= Held(3, toExecutor') + 3
        BY <3>1, <3>2, <3>3
      <3>6. Held(2, answering) = 0 /\ Held(2, answering') <= 6
        BY <2>5, <3>1, <3>4
      <3>7. Held(4, writing') = Held(4, writing) /\ Held(1, toRelay') = Held(1, toRelay)
        BY <3>1
      <3>8. Messaging' <= Messaging + 3
        BY <2>1, <2>2, <3>5, <3>6, <3>7 DEF Messaging
      <3>9. StageToGo' = StageToGo - 4
        BY <3>1 DEF StageToGo
      <3>10. /\ IdleToGo' = IdleToGo /\ Cardinality(Unfinished') = Cardinality(Unfinished)
            /\ LoopToGo' = LoopToGo
        BY <2>6, <2>7, <3>1
      <3> QED BY <2>3, <2>4, <3>8, <3>9, <3>10 DEF Work
    <2>15. CASE AnswerMessage
      <3> DEFINE m == Head(toExecutor)
                 a == Message(AnswerKind(m), m.op)
      <3>1. /\ answering = <<>> /\ toExecutor # <<>> /\ toExecutor' = Tail(toExecutor)
            /\ answering' = <<a>> /\ UNCHANGED <<relay, stage, pc, writing, toRelay>>
        BY <2>15 DEF AnswerMessage
      <3>2. /\ m \in Messages
            /\ Held(3, toExecutor) = Held(3, Tail(toExecutor)) + Share(3, m)
            /\ Held(3, Tail(toExecutor)) \in Nat /\ Share(3, m) \in Nat
        BY <3>1, TakeOne, HeldTaken DEF TypeOK
      <3>3. a \in Messages /\ (Early(a) => Early(m))
        BY <3>2 DEF Message, Messages, AnswerKind, Early
      <3>4. Held(2, <<a>>) = Share(2, a) /\ Share(2, a) < Share(3, m)
        BY <3>3, HeldFew DEF Share, Early
      <3> HIDE DEF m, a
      <3>5. /\ Held(3, toExecutor') = Held(3, toExecutor) - Share(3, m)
            /\ Held(2, answering) = 0 /\ Held(2, answering') < Share(3, m)
            /\ Held(4, writing') = Held(4, writing) /\ Held(1, toRelay') = Held(1, toRelay)
        BY <2>1, <2>5, <3>1, <3>2, <3>4
      <3>6. Messaging' < Messaging
        BY <2>1, <2>2, <3>2, <3>5 DEF Messaging
      <3>7. /\ IdleToGo' = IdleToGo /\ Cardinality(Unfinished') = Cardinality(Unfinished)
            /\ StageToGo' = StageToGo /\ LoopToGo' = LoopToGo
        BY <2>6, <2>7, <3>1
      <3> QED BY <2>3, <2>4, <3>6, <3>7 DEF Work
    <2>16. CASE ExecutorWrites
      <3> DEFINE m == Head(answering)
      <3>1. /\ answering # <<>> /\ answering' = Tail(answering) /\ toRelay' = Append(toRelay, m)
            /\ UNCHANGED <<relay, stage, pc, writing, toExecutor>>
        BY <2>16 DEF ExecutorWrites
      <3>2. /\ m \in Messages
            /\ Held(2, answering) = Held(2, Tail(answering)) + Share(2, m)
            /\ Held(2, Tail(answering)) \in Nat /\ Share(2, m) \in Nat
        BY <3>1, TakeOne, HeldTaken DEF TypeOK
      <3>3. Held(1, toRelay') = Held(1, toRelay) + Share(1, m)
        BY <3>1, <3>2, HeldAppended DEF TypeOK
      <3>4. Share(1, m) = Share(2, m) - 1
        BY DEF Share, Early
      <3> HIDE DEF m
      <3>5. /\ Held(2, answering') = Held(2, answering) - Share(2, m)
            /\ Held(1, toRelay') = Held(1, toRelay) + Share(2, m) - 1
            /\ Held(4, writing') = Held(4, writing) /\ Held(3, toExecutor') = Held(3, toExecutor)
        BY <2>1, <3>1, <3>2, <3>3, <3>4
      <3>6. Messaging' < Messaging
        BY <2>1, <2>2, <3>2, <3>5 DEF Messaging
      <3>7. /\ IdleToGo' = IdleToGo /\ Cardinality(Unfinished') = Cardinality(Unfinished)
            /\ StageToGo' = StageToGo /\ LoopToGo' = LoopToGo
        BY <2>6, <2>7, <3>1
      <3> QED BY <2>3, <2>4, <3>6, <3>7 DEF Work
    <2>17. CASE ExecutorCrashes \/ ExecutorStops
      <3>1. /\ stage # "gone" /\ stage' = "gone" /\ toExecutor' = <<>> /\ answering' = <<>>
            /\ UNCHANGED <<relay, pc, writing, toRelay>>
        BY <2>17 DEF ExecutorCrashes, ExecutorStops, Disappear
      <3>2. StageToGo' < StageToGo /\ StageToGo' = 0
        BY <3>1 DEF StageToGo, TypeOK
      <3>3. Messaging' <= Messaging
        BY <2>1, <2>5, <3>1 DEF Messaging
      <3>4. /\ IdleToGo' = IdleToGo /\ Cardinality(Unfinished') = Cardinality(Unfinished)
            /\ LoopToGo' = LoopToGo
        BY <2>6, <2>7, <3>1
      <3> QED BY <2>3, <2>4, <3>2, <3>3, <3>4 DEF Work
    <2> QED
      BY <2>8, <2>9, <2>10, <2>11, <2>12, <2>13, <2>14, <2>15, <2>16, <2>17 DEF Next
  <1> QED BY <1>1, TypeCorrect, PTL DEF Spec, EveryStepUsesWorkUp
=============================================================================
